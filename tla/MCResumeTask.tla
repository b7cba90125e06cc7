---------------------------- MODULE MCResumeTask ----------------------------
(* Fault budgets and symmetry for the TLC runs of ResumeTask. *)
EXTENDS ResumeTask, TLC

MCMaxFaults == [k \in FaultKinds |-> 1]   \* every kind at most once

\* Safety: what the broker does, what recovery does, what the error handlers meet.
MCSafetyMixes == {{"crash", "slow"}, {"crash", "lose"},
                  {"outage", "scan", "sweep"},
                  {"db", "outage", "api", "manual"}}

\* Liveness: crashes and refused publishes, with and without an operator.
MCLiveMixes == {{"crash", "outage", "sweep"}, {"outage", "manual", "sweep"}}

MCCrash == {{"crash"}}
MCTwoSweeps == {{"outage", "sweep"}}

MCSymmetry == Permutations(Requests) \cup Permutations(Workers) \cup Permutations(Scanners)
===========================================================================
