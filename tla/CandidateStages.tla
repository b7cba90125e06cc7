--------------------------- MODULE CandidateStages ---------------------------
(***************************************************************************)
(* The pipeline stage of the candidates of ONE campaign, and everything    *)
(* that writes it: the engine transition(), the board's drag and drop, the *)
(* bulk move, the resubmission, the HR admin's stage override and flag,    *)
(* the override of an automated rejection and its revert, and the verdicts *)
(* of the three scoring layers.                                            *)
(*                                                                         *)
(* Every request and every task works on a database session of its own: it *)
(* keeps the rows it loaded (seen), flushes changed COLUMNS of them under  *)
(* the row's lock (next), and shows them to the others when it commits.    *)
(***************************************************************************)
EXTENDS AllowedTransitions, Integers

CONSTANTS
    Candidates,   \* campaign_candidate ids of the campaign
    Sessions,     \* database sessions: requests and worker slots
    Openings,     \* max_candidates
    Starts,       \* situations a campaign may be in when the behaviour starts
    MaxRequests,  \* bound: human requests in one behaviour
    Mixes         \* bound: the sets of kinds of request one behaviour may mix

VARIABLES
    row,       \* committed campaign_candidates rows
    round,     \* does the candidate have an interview_schedules row, an active one
    status,    \* of the campaign
    tasks,     \* scoring messages waiting in the broker, per candidate
    sess,      \* the open database sessions
    used,      \* kinds of request made so far
    requests   \* number of requests made so far

vars == <<row, round, status, tasks, sess, used, requests>>

---------------------------------------------------------------------------
Decisions == {"SHORTLISTED", "SELECTED", "REJECTED", "HOLD", "FRAUD_REVIEW", "RESET", None}
Sources == {"DETERMINISTIC", "SEMANTIC", "AI", "HR_ADMIN", "RECRUITER", None}
NoOrig == <<None, None>>

\* det: deterministic_passed; sem: semantic_passed in the breakdown; orig: the
\* decision that decision_details says an HR override replaced.
Row == [stage : Stages, prev : Stages \cup {None}, decision : Decisions, by : Sources,
        orig : Decisions \X Sources, det : BOOLEAN, sem : BOOLEAN]
Rounds == {"none", "active", "cancelled"}
Layers == {"det", "sem", "ai"}
Requests == {"engine", "drag", "bulk", "resubmit", "override", "flag", "hr", "revert"}
HumanRoles == {"RECRUITER", "HIRING_MANAGER"}   \* the only ones the table lists
IsView(rows) == DOMAIN rows \subseteq Candidates /\ \A c \in DOMAIN rows : rows[c] \in Row

ASSUME SizesAssumption ==
    IsFiniteSet(Candidates) /\ Openings \in Nat /\ MaxRequests \in Nat
    /\ Mixes \subseteq SUBSET Requests
ASSUME StartsAssumption ==
    \A start \in Starts :
        /\ start \in [Candidates -> [row : Row, round : Rounds, tasks : SUBSET Layers]]
        /\ \A c \in Candidates :
              /\ start[c].row.stage = "INTERVIEW" => start[c].round # "none"
              /\ Eligible(start[c].row.prev, start[c].row.stage) # {}

Idle == [op |-> "none", at |-> "idle", seen |-> <<>>, next |-> <<>>, to |-> None,
         camp |-> "free"]

TypeOK ==
    /\ row \in [Candidates -> Row]
    /\ round \in [Candidates -> Rounds]
    /\ status \in {"ACTIVE", "CLOSED"}
    /\ tasks \in [Candidates -> SUBSET Layers]
    /\ \A s \in Sessions :
          /\ sess[s].op \in Requests \cup Layers \cup {"none"}
          /\ sess[s].at \in {"idle", "reread", "write", "count", "commit", "after", "judge"}
          /\ IsView(sess[s].seen) /\ IsView(sess[s].next)
          /\ sess[s].to \in Stages \cup {None}
          /\ sess[s].camp \in {"free", "held", "close"}
    /\ used \subseteq Requests /\ requests \in 0..MaxRequests

Selected(view) == {c \in DOMAIN view : view[c].stage = "SELECTED"}

Init ==
    /\ \E start \in Starts :
          /\ row = [c \in Candidates |-> start[c].row]
          /\ round = [c \in Candidates |-> start[c].round]
          /\ tasks = [c \in Candidates |-> start[c].tasks]
    /\ status = IF Cardinality(Selected(row)) >= Openings THEN "CLOSED" ELSE "ACTIVE"
    /\ sess = [s \in Sessions |-> Idle]
    /\ used = {} /\ requests = 0

---------------------------------------------------------------------------
(* The database and the object layer, as the services use them. *)

\* A flush writes the columns that differ from the loaded object, and only those.
Merge(current, loaded, changed) ==
    [f \in DOMAIN current |-> IF changed[f] = loaded[f] THEN current[f] ELSE changed[f]]

\* A flushed, uncommitted row is locked by its session.
Unlocked(s, c) == \A t \in Sessions \ {s} : c \notin DOMAIN sess[t].next

\* SELECT ... FOR UPDATE of a row the session has loaded before: the row is locked, but
\* the identity map hands back the object loaded then, without refreshing it.
LockedCandidate(s, c) == sess[s].seen[c]

\* What a session sees: its own flushed rows over the committed ones.
View(s) == [c \in Candidates |-> IF c \in DOMAIN sess[s].next THEN sess[s].next[c] ELSE row[c]]

---------------------------------------------------------------------------
(* A human request: it loads its rows, and every check is made on those. *)

MayBegin(s, op) ==
    /\ sess[s].at = "idle" /\ requests < MaxRequests
    /\ \E mix \in Mixes : used \cup {op} \subseteq mix

Begin(s, op, cs, to, at) ==
    /\ sess' = [sess EXCEPT ![s] = [op |-> op, at |-> at, seen |-> [c \in cs |-> row[c]],
                                    next |-> <<>>, to |-> to, camp |-> "free"]]
    /\ used' = used \cup {op} /\ requests' = requests + 1
    /\ UNCHANGED <<row, round, status, tasks>>

CanMove(cs, to) ==
    \E role \in HumanRoles : \A c \in cs : MayMove(role, row[c].prev, row[c].stage, to)

\* advance_to_interview, select_candidate, reject_at_interview: all call transition().
Transition(s) ==
    /\ MayBegin(s, "engine")
    /\ \E c \in Candidates, to \in {"INTERVIEW", "SELECTED", "REJECTED"} :
        CanMove({c}, to) /\ Begin(s, "engine", {c}, to, "write")

Drag(s) ==
    /\ MayBegin(s, "drag")
    /\ \E c \in Candidates, to \in Stages :
        CanMove({c}, to) /\ Begin(s, "drag", {c}, to, "write")

\* move_one is a batch of one: only its audit entry differs.
BulkMove(s) ==
    /\ MayBegin(s, "bulk")
    /\ \E cs \in (SUBSET Candidates) \ {{}}, from, to \in Stages :
        /\ from # to /\ \A c \in cs : row[c].stage = from
        /\ CanMove(cs, to) /\ Begin(s, "bulk", cs, to, "write")

Resubmit(s) ==
    /\ MayBegin(s, "resubmit")
    /\ \E c \in Candidates :
        CanMove({c}, "UPLOADED") /\ Begin(s, "resubmit", {c}, "UPLOADED", "write")

\* Mutant: a stage without a natural successor is not refused
Override_NoNext(s) ==
    /\ MayBegin(s, "override")
    /\ \E c \in Candidates : Begin(s, "override", {c}, None, "write")

\* The stalled-candidate override asks no table.
Override(s) ==
    /\ MayBegin(s, "override")
    /\ \E c \in Candidates, to \in Stages \ {"REJECTED", "FRAUD_REVIEW", "UPLOADED"} :
        to # row[c].stage /\ Begin(s, "override", {c}, to, "write")

Flag(s) ==
    /\ MayBegin(s, "flag")
    /\ \E c \in Candidates :
        row[c].stage # "FRAUD_REVIEW" /\ Begin(s, "flag", {c}, "FRAUD_REVIEW", "write")

\* Setting deterministic_passed locks the row when it changes; otherwise the refresh that
\* follows reads the row without a lock.
HrOverride(s) ==
    /\ MayBegin(s, "hr")
    /\ \E c \in Candidates :
        /\ row[c].stage = "REJECTED" /\ row[c].decision = "REJECTED"
        /\ row[c].by \in {"DETERMINISTIC", "SEMANTIC"}
        /\ Begin(s, "hr", {c}, "SCREENING", IF row[c].det THEN "reread" ELSE "write")

Revert(s) ==
    /\ MayBegin(s, "revert")
    /\ \E c \in Candidates :
        /\ row[c].decision = "RESET" /\ row[c].stage = "SCREENING"
        /\ None \notin {row[c].orig[1], row[c].orig[2]}
        /\ Begin(s, "revert", {c}, "REJECTED", "write")

Reread(s) ==
    /\ sess[s].at = "reread"
    /\ sess' = [sess EXCEPT ![s].seen = [c \in DOMAIN sess[s].seen |-> row[c]],
                            ![s].at = "write"]
    /\ UNCHANGED <<row, round, status, tasks, used, requests>>

---------------------------------------------------------------------------
(* What a request makes of a row: current is the row under the lock. *)

DecisionStages == {"SHORTLISTED", "SELECTED", "REJECTED", "HOLD", "FRAUD_REVIEW"}

Decided(r, decision, by) == [r EXCEPT !.decision = decision, !.by = by, !.orig = NoOrig]
Cleared(r) == [Decided(r, None, None) EXCEPT !.det = FALSE]

\* Mutant: the engine does not advance previous_stage
Moved_NoPrevious(current, loaded, to) == Merge(current, loaded, [loaded EXCEPT !.stage = to])

\* Both engines: the stage left becomes previous_stage.
Moved(current, loaded, to) ==
    Merge(current, loaded, [loaded EXCEPT !.prev = loaded.stage, !.stage = to])

\* transition_candidate_stage, of the override and the flag: previous_stage stays.
Forced(current, loaded, to) == Merge(current, loaded, [loaded EXCEPT !.stage = to])

Overridden(current, base) ==
    Merge(current, base, [base EXCEPT !.prev = base.stage, !.stage = "SCREENING",
                                      !.decision = "RESET", !.by = "RECRUITER", !.det = TRUE,
                                      !.orig = <<base.decision, base.by>>])

Reverted(current, loaded) ==
    Merge(current, loaded,
          [loaded EXCEPT !.stage = "REJECTED", !.orig = NoOrig,
                         !.decision = loaded.orig[1], !.by = loaded.orig[2],
                         !.det = loaded.orig[2] # "DETERMINISTIC" /\ loaded.det])

Written(s, c) ==
    LET cur == row[c]
        old == sess[s].seen[c]
        to  == sess[s].to
        base == IF old.det THEN old ELSE cur
    IN  CASE sess[s].op \in {"engine", "drag"} -> {Moved(cur, old, to)}
          [] sess[s].op = "bulk" ->
                {IF to \in DecisionStages THEN Decided(Moved(cur, old, to), to, "HR_ADMIN")
                                          ELSE Moved(cur, old, to)}
          [] sess[s].op = "resubmit" -> {Cleared(Moved(cur, old, to))}
          [] sess[s].op \in {"override", "flag"} -> {Forced(cur, old, to)}
          [] sess[s].op = "revert" -> {Reverted(cur, old)}
          [] sess[s].op = "hr" ->
                {r \in {Overridden(cur, base)} : IsAllowed(base.prev, base.stage, to)}

\* The flush of one row; a batch writes its rows one by one, all in one transaction.
Write(s) ==
    /\ sess[s].at = "write"
    /\ \E c \in DOMAIN sess[s].seen \ DOMAIN sess[s].next : \E r \in Written(s, c) :
          /\ Unlocked(s, c)
          /\ sess[s].op = "engine" => LockedCandidate(s, c).stage = sess[s].seen[c].stage
          /\ LET done == DOMAIN sess[s].next \cup {c}
             IN  sess' = [sess EXCEPT
                    ![s].next = [d \in done |-> IF d = c THEN r ELSE sess[s].next[d]],
                    ![s].at = IF sess[s].to = "SELECTED" /\ sess[s].op # "engine" THEN "count"
                              ELSE IF done = DOMAIN sess[s].seen THEN "commit" ELSE "write"]
    /\ UNCHANGED <<row, round, status, tasks, used, requests>>

\* Mutant: the campaign row is read without FOR UPDATE
CampaignFree_NoLock(s) == sess[s].camp \in {"free", "held", "close"}

CampaignFree(s) == \A t \in Sessions \ {s} : sess[t].camp = "free"

\* _close_if_all_positions_filled: the campaign row is locked, then SELECTED is counted.
Count(s) ==
    /\ sess[s].at = "count" /\ CampaignFree(s)
    /\ LET filled == Cardinality(Selected(View(s))) >= Openings
       IN  sess' = [sess EXCEPT
              ![s].camp = IF @ = "close" \/ (status = "ACTIVE" /\ filled) THEN "close" ELSE "held",
              ![s].at = IF DOMAIN sess[s].next = DOMAIN sess[s].seen THEN "commit" ELSE "write"]
    /\ UNCHANGED <<row, round, status, tasks, used, requests>>

---------------------------------------------------------------------------
(* Commit, and what the request does after it. *)

\* The hooks on interview_schedules, in the transaction of the stage move.
RoundAfter(s, c) ==
    LET from == sess[s].seen[c].stage
        to   == sess[s].to
        exit == \/ from = "INTERVIEW" /\ to \in {"SELECTED", "REJECTED", "SHORTLISTED"}
                \/ to = "SCREENING" /\ from # "UPLOADED"
    IN  IF to = "INTERVIEW" /\ round[c] = "none" THEN "active"
        ELSE IF exit /\ round[c] = "active" THEN "cancelled" ELSE round[c]

\* Mutant: the stage override lacks the INTERVIEW-entry hook
Hooked_NoOverride == {"engine", "drag", "bulk", "resubmit"}

Hooked == {"engine", "drag", "bulk", "resubmit", "override"}

Rescored(s) == {c \in DOMAIN sess[s].seen : sess[s].op \in Hooked /\ sess[s].to = "SCREENING"
                                            /\ sess[s].seen[c].stage # "UPLOADED"}
FollowUp(s) == IF sess[s].op \in {"hr", "resubmit"} THEN DOMAIN sess[s].seen ELSE Rescored(s)

Commit(s) ==
    /\ sess[s].at = "commit"
    /\ row' = View(s)
    /\ round' = [c \in Candidates |-> IF c \in DOMAIN sess[s].next /\ sess[s].op \in Hooked
                                      THEN RoundAfter(s, c) ELSE round[c]]
    /\ status' = IF sess[s].camp = "close" THEN "CLOSED" ELSE status
    /\ sess' = [sess EXCEPT ![s] = IF FollowUp(s) = {} THEN Idle
                                   ELSE [sess[s] EXCEPT !.at = "after", !.next = <<>>,
                                                        !.camp = "free"]]
    /\ UNCHANGED <<tasks, used, requests>>

Forget(s, c) ==
    LET rest == DOMAIN sess[s].seen \ {c}
    IN  sess' = [sess EXCEPT ![s] = IF rest = {} THEN Idle
                                    ELSE [sess[s] EXCEPT !.seen = [d \in rest |-> @[d]]]]

Queue(c, layer) == tasks' = [tasks EXCEPT ![c] = @ \cup {layer}]

\* enqueue_manual_rescore, in a transaction of its own on the row as it is by then.
Rescore(s) ==
    /\ sess[s].at = "after"
    /\ \E c \in Rescored(s) :
          /\ Unlocked(s, c)
          /\ IF row[c].stage \in {"UPLOADED", "SCREENING"} /\ status = "ACTIVE"
             THEN /\ row' = [row EXCEPT ![c] = [Cleared(@) EXCEPT !.sem = FALSE]]
                  /\ Queue(c, "det")
             ELSE UNCHANGED <<row, tasks>>
          /\ Forget(s, c)
    /\ UNCHANGED <<round, status, used, requests>>

\* _queue_post_override_evaluation: AI_EVALUATE if a semantic score exists (which is not
\* kept here: after a semantic rejection it does), else SEMANTIC_SCORE.
QueueOverride(s) ==
    /\ sess[s].at = "after" /\ sess[s].op = "hr"
    /\ \E c \in DOMAIN sess[s].seen :
          /\ \E layer \in IF sess[s].seen[c].by = "SEMANTIC" THEN {"ai"} ELSE {"sem", "ai"} :
                Queue(c, layer)
          /\ Forget(s, c)
    /\ UNCHANGED <<row, round, status, used, requests>>

\* The resubmitted resume is parsed by a worker, which then queues the first layer.
QueueResubmission(s) ==
    /\ sess[s].at = "after" /\ sess[s].op = "resubmit"
    /\ \E c \in DOMAIN sess[s].seen : Queue(c, "det") /\ Forget(s, c)
    /\ UNCHANGED <<row, round, status, used, requests>>

\* A refusal, an error, a deadlock victim or a crash: before the commit everything is
\* rolled back, after it only the best-effort follow-up is lost.
Abandon(s) ==
    /\ sess[s].at \in {"reread", "write", "count", "commit", "after"}
    /\ sess' = [sess EXCEPT ![s] = Idle]
    /\ UNCHANGED <<row, round, status, tasks, used, requests>>

---------------------------------------------------------------------------
(* The scoring tasks.  A layer loads the row, works, and judges the row as it is when its
   scores have been flushed (locked and refreshed). *)

\* The checks a task makes on the row it loads, before it scores.
Applies(c, layer) ==
    /\ status = "ACTIVE"
    /\ layer = "sem" => row[c].det
    /\ layer = "ai" => row[c].sem /\ row[c].stage # "REJECTED"

TakeTask(s) ==
    \E c \in Candidates : \E layer \in tasks[c] :
        /\ sess[s].at = "idle"
        /\ tasks' = [tasks EXCEPT ![c] = @ \ {layer}]
        /\ sess' = IF Applies(c, layer)
                   THEN [sess EXCEPT ![s] = [Idle EXCEPT !.op = layer, !.at = "judge",
                                                         !.seen = [d \in {c} |-> row[d]]]]
                   ELSE sess
        /\ UNCHANGED <<row, round, status, used, requests>>

\* An exception sends the message back for a retry, or to the dead letters.
TaskFails(s) ==
    /\ sess[s].at = "judge"
    /\ \E c \in DOMAIN sess[s].seen : Queue(c, sess[s].op) \/ UNCHANGED tasks
    /\ sess' = [sess EXCEPT ![s] = Idle]
    /\ UNCHANGED <<row, round, status, used, requests>>

\* transition_to_screening tests the loaded row; its flush is what locks and refreshes.
Screened(current, loaded) ==
    IF loaded.stage = "UPLOADED" THEN Moved(current, loaded, "SCREENING") ELSE current

\* transition_to_rejected and transition_on_ai_success: a no-op without an edge in the
\* table.  Whoever the edge is for, the lookup only asks whether it exists.
Verdict(r, to, by) ==
    IF IsAllowed(r.prev, r.stage, to)
    THEN Decided([r EXCEPT !.prev = r.stage, !.stage = to], to, by) ELSE r

Judge(s, layer, c, r, queued) ==
    /\ sess[s].at = "judge" /\ sess[s].op = layer /\ c \in DOMAIN sess[s].seen
    /\ Unlocked(s, c)
    /\ row' = [row EXCEPT ![c] = r]
    /\ tasks' = [tasks EXCEPT ![c] = @ \cup queued]
    /\ sess' = [sess EXCEPT ![s] = Idle]
    /\ UNCHANGED <<round, status, used, requests>>

\* The next layer's dispatch is best effort and deduplicated: it may not happen.
JudgeDeterministic(s) ==
    \E c \in DOMAIN sess[s].seen :
        LET r == Screened(row[c], sess[s].seen[c])
        IN  \/ \E queued \in {{}, {"sem"}} :
                  Judge(s, "det", c, [r EXCEPT !.det = TRUE], queued)
            \/ Judge(s, "det", c, Verdict([r EXCEPT !.det = FALSE], "REJECTED", "DETERMINISTIC"), {})

JudgeSemantic(s) ==
    \E c \in DOMAIN sess[s].seen :
        \/ \E queued \in {{}, {"ai"}} : Judge(s, "sem", c, [row[c] EXCEPT !.sem = TRUE], queued)
        \/ Judge(s, "sem", c, Verdict([row[c] EXCEPT !.sem = FALSE], "REJECTED", "SEMANTIC"), {})

\* No resume embedding: the layer only leaves its note in the decision's source and details.
NoteMissingEmbedding(s) ==
    \E c \in DOMAIN sess[s].seen :
        LET noted == Merge(row[c], sess[s].seen[c], [sess[s].seen[c] EXCEPT !.by = "SEMANTIC"])
        IN  Judge(s, "sem", c, [noted EXCEPT !.orig = NoOrig], {})

\* Mutant: the edge is looked up for the row the task loaded before it called the model
JudgeAi_Stale(s) ==
    \E c \in DOMAIN sess[s].seen, to \in {"REJECTED", "SHORTLISTED", "HOLD"} :
        LET old == sess[s].seen[c]
        IN  Judge(s, "ai", c, Merge(row[c], old, Verdict(old, to, "AI")), {})

JudgeAi(s) ==
    \E c \in DOMAIN sess[s].seen, to \in {"REJECTED", "SHORTLISTED", "HOLD"} :
        Judge(s, "ai", c, Verdict(row[c], to, "AI"), {})

---------------------------------------------------------------------------
Request(s) == Transition(s) \/ Drag(s) \/ BulkMove(s) \/ Resubmit(s)
              \/ Override(s) \/ Flag(s) \/ HrOverride(s) \/ Revert(s)
Work(s) == Reread(s) \/ Write(s) \/ Count(s) \/ Commit(s) \/ Rescore(s)
           \/ QueueOverride(s) \/ QueueResubmission(s) \/ Abandon(s)
Scoring(s) == TakeTask(s) \/ TaskFails(s) \/ JudgeDeterministic(s) \/ JudgeSemantic(s)
              \/ NoteMissingEmbedding(s) \/ JudgeAi(s)

Next == \E s \in Sessions : Request(s) \/ Work(s) \/ Scoring(s)

Spec == Init /\ [][Next]_vars
---------------------------------------------------------------------------
(* Properties. *)

\* The hard invariant of the INTERVIEW-entry hook: whichever of the writers put a candidate
\* at INTERVIEW, and whatever it overwrote, the candidate has a round to schedule.
InterviewHasRound == \A c \in Candidates : row[c].stage = "INTERVIEW" => round[c] # "none"

\* _close_if_all_positions_filled: however selections interleave, once every opening is
\* filled the campaign is closed, where transition() (which does not count) is not used.
FilledCloses ==
    "engine" \in used \/ Cardinality(Selected(row)) < Openings \/ status = "CLOSED"

\* Moves through the table, interleaved with automated verdicts, never take a candidate to
\* a stage the table offers no way out of: the pair <<previous_stage, pipeline_stage>>
\* stays one the table knows.  The stage override, the flag and the revert leave
\* previous_stage as it is, and can break this.
NoDeadEnd ==
    used \cap {"override", "flag", "revert"} # {}
    \/ \A c \in Candidates : Eligible(row[c].prev, row[c].stage) # {}

Judged(s, layers) == sess[s].at = "judge" /\ sess[s].op \in layers /\ sess'[s].at = "idle"

\* transition_to_rejected, transition_on_ai_success: a verdict of a slow layer moves the
\* candidate along an edge from the stage it has when the verdict lands, not from the one
\* it had when the layer started.
VerdictFollowsTable ==
    [][\A s \in Sessions, c \in Candidates :
          Judged(s, {"sem", "ai"}) /\ row'[c].stage # row[c].stage
          => IsAllowed(row[c].prev, row[c].stage, row'[c].stage)]_vars

\* "otherwise this would just be comparing two stale reads and would never actually catch a
\* race" (stage_transition_service.py:457-460): when transition() is about to commit, the
\* candidate is still where transition() checked the move from.
ConflictDetected ==
    \A s \in Sessions : sess[s].op = "engine" /\ sess[s].at = "commit" =>
        \A c \in DOMAIN sess[s].next : row[c].stage = sess[s].seen[c].stage

\* "never overwrites a candidate that isn't actually at SCREENING"
\* (stage_transition_service.py, transition_on_ai_success): a SHORTLIST or HOLD
\* recommendation only moves a candidate out of SCREENING.
AiOnlyFromScreening ==
    [][\A s \in Sessions, c \in Candidates :
          Judged(s, {"ai"}) /\ row'[c].stage \in {"SHORTLISTED", "HOLD"} \ {row[c].stage}
          => row[c].stage = "SCREENING"]_vars

\* "Once every opening is filled the campaign auto-closes" (pipeline_transition_service.py,
\* _close_if_all_positions_filled), whichever writer selected the last candidate.
EveryFillCloses == Cardinality(Selected(row)) < Openings \/ status = "CLOSED"
=============================================================================
