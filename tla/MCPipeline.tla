----------------------------- MODULE MCPipeline -----------------------------
(* The stages of a campaign's candidates, and what the screens and exports tell *)
(* of them: a behaviour of the run is one of either, chosen at the start, as   *)
(* the writers of CandidateReports are those of CandidateStages without their  *)
(* sessions.                                                                   *)
EXTENDS MCCandidateStages, CandidateReports

CONSTANTS
    Areas   \* of "stages" and "reports"
VARIABLES area

New == [stage |-> "UPLOADED", prev |-> None, type |-> Null, src |-> Null, why |-> Null,
        at |-> Null, orig |-> Null, gaps |-> Null, det |-> Null, sem |-> "none", comp |-> Null,
        ai |-> "none", rec |-> Null, fraud |-> FALSE]
Absent == [stage |-> Null]
Past(from, to, src, why, gaps) ==
    [cand |-> 1, from |-> from, to |-> to, at |-> 0, src |-> src, why |-> why, gaps |-> gaps]
Seen(stage, prev) == [New EXCEPT !.stage = stage, !.prev = prev]
Situation(rows) == [cc |-> rows, history |-> {}, now |-> 1]

MCCreated == <<1, 2, 2>>
MCSituations ==
    {Situation(<<New, New, Absent>>),
     Situation(<<New, [Seen("SCREENING", "UPLOADED") EXCEPT !.gaps = {}, !.det = 2], New>>),
     [cc |-> <<[Seen("REJECTED", "SCREENING") EXCEPT
                   !.type = "REJECTED", !.src = "DETERMINISTIC", !.why = 1, !.at = 1, !.det = 1,
                   !.gaps = {"skills"}], Absent, Absent>>,
      history |-> {Past("UPLOADED", "SCREENING", Null, Null, Null),
                    Past("SCREENING", "REJECTED", "DETERMINISTIC", 1, {"skills"})},
      now |-> 2]}
MCGapMixes == {{}, {"skills"}, {"skills", "experience"}}
MCRequestMixes == {{"screen", "override", "revert", "drag", "rescore"}, {"screen", "semantic", "override", "bulk"},
            {"screen", "evaluate", "flag", "delete"}, {"read", "evaluate", "screen"}, {"read", "add", "delete"}}

Query(sort, stage, pending, rejected, override) ==
    [sort |-> sort, stage |-> stage, min |-> Null, max |-> Null, rec |-> Null, ai |-> Null,
     pending |-> pending, rejected |-> rejected, fraud |-> TRUE, override |-> override]
MCQueries ==
    {Query("default", Null, TRUE, TRUE, Null), Query("det", Null, TRUE, FALSE, Null),
     [Query("default", Null, FALSE, TRUE, FALSE) EXCEPT !.min = 1, !.max = 2],
     [Query("det", "SCREENING", TRUE, TRUE, Null) EXCEPT !.fraud = FALSE, !.ai = "PENDING"]}

-----------------------------------------------------------------------------
MCInit ==
    /\ area \in Areas
    /\ Init
    /\ area = "reports" => used = {} /\ \A c \in Candidates : row[c] = Interviewed.row
    /\ ReportsInit
    /\ area = "stages" => cc = <<New, New, Absent>>
MCNext ==
    /\ UNCHANGED area
    /\ \/ area = "stages" /\ Next /\ UNCHANGED reportVars
       \/ area = "reports" /\ ReportsNext /\ UNCHANGED vars
MCSpec == MCInit /\ [][MCNext]_<<vars, reportVars, area>>
=============================================================================
