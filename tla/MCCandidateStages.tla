-------------------------- MODULE MCCandidateStages --------------------------
(* Starting situations and request mixes for the TLC runs of CandidateStages. *)
EXTENDS CandidateStages, TLC

CONSTANTS c1, c2

\* The <<previous, current>> pairs the table itself can produce from an upload.
After(pairs) ==
    pairs \cup UNION {{<<q[2], to>> : to \in Eligible(q[1], q[2])} : q \in pairs}
LivePairs ==
    LET step[n \in 0..9] == IF n = 0 THEN {<<None, "UPLOADED">>} ELSE After(step[n - 1])
    IN  step[9]

At(prev, stage) == [stage |-> stage, prev |-> prev, decision |-> None, by |-> None,
                    orig |-> NoOrig, det |-> FALSE, sem |-> FALSE]
Start(r, rd, layers) == [row |-> r, round |-> rd, tasks |-> layers]
RoundOf(stage) == IF stage = "INTERVIEW" THEN "active" ELSE "none"

Anywhere == {Start(At(q[1], q[2]), RoundOf(q[2]), {}) : q \in LivePairs}
Interviewed == Start(At("SHORTLISTED", "INTERVIEW"), "active", {})
Uploaded == Start(At(None, "UPLOADED"), "none", {"det"})
Evaluated == Start([At("UPLOADED", "SCREENING") EXCEPT !.det = TRUE, !.sem = TRUE], "none", {"ai"})
Rejected(by) == Start([At("SCREENING", "REJECTED") EXCEPT !.decision = "REJECTED", !.by = by,
                       !.det = (by = "SEMANTIC")], "none", {})
Reset(by) == Start([At("REJECTED", "SCREENING") EXCEPT !.decision = "RESET", !.by = "RECRUITER",
                    !.orig = <<"REJECTED", by>>, !.det = TRUE], "none", {"sem"})

Second == {Interviewed}
Firsts == {Interviewed, Uploaded, Evaluated, Rejected("DETERMINISTIC"), Rejected("SEMANTIC"),
           Reset("DETERMINISTIC"), Reset("SEMANTIC")} \cup Anywhere

MCStarts == {[c \in Candidates |-> IF c = c1 THEN a ELSE b] : a \in Firsts, b \in Second}
MCInterviews == {[c \in Candidates |-> Interviewed]}
MCEvaluated == {[c \in Candidates |-> Evaluated]}

MCMixes == {mix \in SUBSET Requests : Cardinality(mix) = 2}   \* every two kinds
MCEngine == {{"engine"}}
MCEngineDrag == {{"engine", "drag"}}
MCDrag == {{"drag"}}

MCSymmetry == Permutations(Sessions)
=============================================================================
