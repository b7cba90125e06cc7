---------------------------- MODULE MCBulkUpload ----------------------------
(* Archives, duplicates and fault budgets for the TLC runs of BulkUpload. *)
EXTENDS BulkUpload, TLC

MCMaxFaults == [k \in FaultKinds |-> 1]   \* every kind at most once

\* Safety: crashes on a whole archive; retries and rival replays; a failing database.
MCSafetyMixes == {{"crash", "pause", "cancel", "several"},
                  {"outage", "pause", "retry", "cancel", "replay"},
                  {"slow", "db", "retry", "cancel"}}
MCLiveMixes   == {{"several", "retry", "pause"}}
MCRetry       == {{"retry"}}
MCCancel      == {{"cancel"}}

\* Every file its own content and person / all of them byte-identical.
MCDistinct == [f \in Files |-> f]
MCSame     == [f \in Files |-> "same"]

\* The archive holds every entry, one, or nothing but junk.
MCAnyArchive == {Files, {}, {CHOOSE f \in Files : TRUE}}
MCWhole      == {Files}

MCSymmetry == Permutations(Workers) \cup Permutations(Clerks)
===========================================================================
