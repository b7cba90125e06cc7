------------------------- MODULE CampaignLifecycle -------------------------
(***************************************************************************)
(* One hiring campaign: its settings, its life from ACTIVE over PAUSED to    *)
(* CLOSED and back, and the background tasks of its candidates (campaign_    *)
(* service.py, campaign_scheduler_service.py, CampaignRepository.py).        *)
(*                                                                         *)
(* Administrators work concurrently.  Edits lock the campaign row (SELECT    *)
(* ... FOR UPDATE); closing, reopening, resetting the weights and replaying  *)
(* dead letters read it without a lock and write it later.  Pausing and      *)
(* closing change the rows of queued tasks, never the broker: the messages   *)
(* stay there and workers still receive them.  Scoring itself is in          *)
(* ScoringChain, stages in CandidateStages, a job's files in BulkUpload.     *)
(***************************************************************************)
EXTENDS Integers, Sequences, FiniteSets

CONSTANTS
    Admins,       \* concurrent requests
    Candidates,   \* candidates who may be selected
    Tasks,        \* background tasks of candidates
    Kind,         \* task -> "det" (DETERMINISTIC_SCORE), "ai", "parse"
    Weights,      \* scoring configurations
    Defaults,     \* the platform's default configuration
    MaxOpenings,
    MaxReplays,   \* MAX_DLQ_REPLAYS_PER_TASK
    Scenarios     \* budgets of events, one of them chosen at the start

VARIABLES
    camp,      \* the committed campaign row
    jdOpen,    \* its JD is active, not closed, its mandatory skills verified
    history,   \* campaign_weight_configuration_history
    selected,  \* candidates in SELECTED
    row,       \* task -> status of its latest celery_task_log row
    msgs,      \* task -> its messages in the broker
    runs,      \* task -> workers executing it
    outcome,   \* task -> what its runs came to so far
    dlq,       \* task -> its dead_letter_queue entries, oldest first
    job,       \* status of the campaign's bulk upload job
    sess,      \* request -> what it read and how far it is
    sweep,     \* the Beat task that closes expired campaigns
    left       \* what may still happen in the chosen scenario

vars == <<camp, jdOpen, history, selected, row, msgs, runs, outcome, dlq, job, sess, sweep, left>>

ASSUME CampaignAssumption ==
    /\ Defaults \in Weights /\ MaxOpenings \in Nat \ {0} /\ MaxReplays \in Nat
    /\ Kind \in [Tasks -> {"det", "ai", "parse"}]

None == "none"
Camp == [status : {"ACTIVE", "PAUSED", "CLOSED"}, deadline : {None, "future", "past"},
         openings : 0..MaxOpenings, weights : Weights]    \* 0 openings: not limited
Statuses == {None, "QUEUED", "RUNNING", "PAUSED", "SUCCESS", "FAILURE", "DEAD"}
Change == [by : {"patch", "scoring", "reset"}, old : Weights, new : Weights]
Entry == [replayed : BOOLEAN, resolved : BOOLEAN]
Edits == {"patch", "scoring", "openings", "deadline", "pause", "resume"}
Idle == [op |-> None, at |-> "idle", seen |-> <<>>, filled |-> 0, task |-> None, todo |-> {}]

CampOK == camp \in Camp
HistoryOK == \A i \in DOMAIN history : history[i] \in Change
RowsOK == row \in [Tasks -> Statuses]
DlqOK == \A t \in Tasks : \A i \in DOMAIN dlq[t] : dlq[t][i] \in Entry

(* Every record stays in its type: one row, one history, one open request    *)
(* per administrator.                                                       *)
TypeOK ==
    /\ CampOK /\ jdOpen \in BOOLEAN /\ HistoryOK /\ selected \subseteq Candidates
    /\ RowsOK /\ DlqOK /\ DOMAIN sess = Admins
    /\ msgs \in [Tasks -> Nat] /\ runs \in [Tasks -> Nat]
    /\ outcome \in [Tasks -> {None, "done", "failed", "skipped"}]
    /\ job \in {"PENDING", "EXTRACTING", "PROCESSING", "FAILED"}
    /\ \A s \in Admins : sess[s].op = None <=> sess[s] = Idle

(* An active campaign.  Its tasks are all finished, or they are queued: a     *)
(* parse with its message in the broker or, the publish having been refused, *)
(* without, the others with it.                                             *)
Init ==
    /\ camp \in [status : {"ACTIVE"}, deadline : {None, "future"}, openings : {0, 1},
                 weights : {Defaults}]
    /\ jdOpen = TRUE /\ history = <<>> /\ selected = {}
    /\ left \in Scenarios
    /\ \/ /\ left["tasks"] > 0
          /\ row = [t \in Tasks |-> "QUEUED"] /\ outcome = [t \in Tasks |-> None]
          /\ msgs \in {m \in [Tasks -> {0, 1}] : \A t \in Tasks : Kind[t] # "parse" => m[t] = 1}
       \/ /\ left["tasks"] = 0
          /\ row = [t \in Tasks |-> "SUCCESS"] /\ outcome = [t \in Tasks |-> "done"]
          /\ msgs = [t \in Tasks |-> 0]
    /\ runs = [t \in Tasks |-> 0]
    /\ dlq = [t \in Tasks |-> <<>>]
    /\ job = "PENDING"
    /\ sess = [s \in Admins |-> Idle] /\ sweep = "idle"

Spend(k) == left[k] > 0 /\ left' = [left EXCEPT ![k] = @ - 1]

Locked(s) == sess[s].at \in {"held", "sent"}
Filled == Cardinality(selected)

RowFree_Ignored(s) == ~Locked(s)

(* Nobody else holds the campaign's row lock. *)
RowFree(s) == \A t \in Admins \ {s} : ~Locked(t)

End(s) == sess' = [sess EXCEPT ![s] = Idle]

-----------------------------------------------------------------------------
(* Edits under the row lock *)

(* get_by_id_for_update; the selected candidates are counted under the lock. *)
LockForUpdate(s, op) ==
    /\ sess[s] = Idle
    /\ RowFree(s)
    /\ Spend(op)
    /\ sess' = [sess EXCEPT ![s] = [Idle EXCEPT !.op = op, !.at = "held", !.seen = camp,
                                               !.filled = Filled]]
    /\ UNCHANGED <<camp, jdOpen, history, selected, row, msgs, runs, outcome, dlq, job, sweep>>

(* reset_scoring_to_defaults has loaded the campaign when it delegates: the   *)
(* locking read returns the loaded object with the values read before.       *)
BeginReset(s) ==
    /\ sess[s] = Idle
    /\ Spend("reset")
    /\ sess' = [sess EXCEPT ![s] = [Idle EXCEPT !.op = "reset", !.at = "read", !.seen = camp]]
    /\ UNCHANGED <<camp, jdOpen, history, selected, row, msgs, runs, outcome, dlq, job, sweep>>

LockReset(s) ==
    /\ sess[s].op = "reset" /\ sess[s].at = "read" /\ RowFree(s)
    /\ sess' = [sess EXCEPT ![s].at = "held"]
    /\ UNCHANGED <<camp, jdOpen, history, selected, row, msgs, runs, outcome, dlq, job, sweep, left>>

(* update_scoring_configuration does not look at the status; a closed        *)
(* campaign refuses every other edit, and a status change must fit.          *)
Accepted(s) ==
    \/ sess[s].op \in {"scoring", "reset"}
    \/ sess[s].op \in {"patch", "openings", "deadline"} /\ sess[s].seen.status # "CLOSED"
    \/ sess[s].op = "pause" /\ sess[s].seen.status = "ACTIVE"
    \/ sess[s].op = "resume" /\ sess[s].seen.status = "PAUSED"

(* 403 or 422; only the blocked attempt is audited. *)
Refuse(s) ==
    /\ sess[s].at = "held" /\ ~Accepted(s)
    /\ End(s)
    /\ UNCHANGED <<camp, jdOpen, history, selected, row, msgs, runs, outcome, dlq, job, sweep, left>>

(* A change of the weights and its history row commit together; identical    *)
(* weights change nothing.                                                  *)
RecordChange(s, w) ==
    LET old == sess[s].seen.weights IN
    /\ camp' = IF w = old THEN camp ELSE [camp EXCEPT !.weights = w]
    /\ history' = IF w = old THEN history
                  ELSE Append(history, [by |-> sess[s].op, old |-> old, new |-> w])

PatchWeights(s) ==
    /\ sess[s].at = "held" /\ sess[s].op = "patch" /\ Accepted(s)
    /\ \E w \in Weights : RecordChange(s, w)
    /\ End(s)
    /\ UNCHANGED <<jdOpen, selected, row, msgs, runs, outcome, dlq, job, sweep, left>>

(* The weights a reset read may be out of date.                              *)
SetWeights(s) ==
    /\ sess[s].at = "held" /\ sess[s].op \in {"scoring", "reset"}
    /\ \E w \in IF sess[s].op = "reset" THEN {Defaults} ELSE Weights : RecordChange(s, w)
    /\ End(s)
    /\ UNCHANGED <<jdOpen, selected, row, msgs, runs, outcome, dlq, job, sweep, left>>

(* Only the columns that differ from the loaded ones are written: a mixture  *)
(* that does not sum to 100 meets chk_weights_sum_100.                       *)
ResetRejected(s) ==
    /\ sess[s].op = "reset" /\ sess[s].at = "held" /\ sess[s].seen.weights # camp.weights
    /\ End(s)
    /\ UNCHANGED <<camp, jdOpen, history, selected, row, msgs, runs, outcome, dlq, job, sweep, left>>

(* Openings are not cut below what is filled; 0 clears the limit.            *)
SetOpenings(s) ==
    /\ sess[s].at = "held" /\ sess[s].op = "openings" /\ Accepted(s)
    /\ \E n \in 0..MaxOpenings :
          /\ n # 0 => n >= sess[s].filled
          /\ camp' = [camp EXCEPT !.openings = n]
    /\ End(s)
    /\ UNCHANGED <<jdOpen, history, selected, row, msgs, runs, outcome, dlq, job, sweep, left>>

(* A deadline is moved to a future date or cleared. *)
SetDeadline(s) ==
    /\ sess[s].at = "held" /\ sess[s].op = "deadline" /\ Accepted(s)
    /\ \E d \in {None, "future"} : camp' = [camp EXCEPT !.deadline = d]
    /\ End(s)
    /\ UNCHANGED <<jdOpen, history, selected, row, msgs, runs, outcome, dlq, job, sweep, left>>

-----------------------------------------------------------------------------
(* Pause, resume, close, reopen *)

(* Rows of a parse carry no campaign_candidate_id: pausing and closing only  *)
(* find the rows of scoring tasks.                                          *)
Linked(t) == Kind[t] # "parse"

SetQueued(to) == row' = [t \in Tasks |-> IF Linked(t) /\ row[t] = "QUEUED" THEN to ELSE row[t]]

(* The rows, not the messages. *)
SuspendQueued == SetQueued("PAUSED")
KillQueued == SetQueued("DEAD")
CancelPendingJob == job' = IF job \in {"PENDING", "EXTRACTING"} THEN "FAILED" ELSE job

Pause(s) ==
    /\ sess[s].at = "held" /\ sess[s].op = "pause" /\ Accepted(s)
    /\ camp' = [camp EXCEPT !.status = "PAUSED"]
    /\ SuspendQueued
    /\ End(s)
    /\ UNCHANGED <<jdOpen, history, selected, msgs, runs, outcome, dlq, job, sweep, left>>

(* _resubmit_paused_tasks publishes a message for every PAUSED deterministic  *)
(* task before the rows or the campaign are written.                         *)
ResubmitPaused(s) ==
    /\ sess[s].at = "held" /\ sess[s].op = "resume" /\ Accepted(s)
    /\ LET paused == {t \in Tasks : Kind[t] = "det" /\ row[t] = "PAUSED"} IN
       /\ msgs' = [t \in Tasks |-> IF t \in paused THEN msgs[t] + 1 ELSE msgs[t]]
       /\ sess' = [sess EXCEPT ![s].at = "sent", ![s].todo = paused]
    /\ UNCHANGED <<camp, jdOpen, history, selected, row, runs, outcome, dlq, job, sweep, left>>

PendingParse == \E t \in Tasks : Kind[t] = "parse" /\ row[t] = "QUEUED"

(* A pending resume is published without its prompt_template_id: apply_async  *)
(* rejects the call and the whole resume rolls back.                         *)
ResumeFails(s) ==
    /\ sess[s].at = "sent" /\ PendingParse
    /\ End(s)
    /\ UNCHANGED <<camp, jdOpen, history, selected, row, msgs, runs, outcome, dlq, job, sweep, left>>

(* Whatever a worker made of the row meanwhile is overwritten by QUEUED.     *)
Resume(s) ==
    /\ sess[s].at = "sent" /\ ~PendingParse
    /\ camp' = [camp EXCEPT !.status = "ACTIVE"]
    /\ row' = [t \in Tasks |-> IF t \in sess[s].todo THEN "QUEUED" ELSE row[t]]
    /\ End(s)
    /\ UNCHANGED <<jdOpen, history, selected, msgs, runs, outcome, dlq, job, sweep, left>>

BeginClose(s) ==
    /\ sess[s] = Idle
    /\ camp.status \in {"ACTIVE", "PAUSED"}
    /\ Spend("close")
    /\ sess' = [sess EXCEPT ![s] = [Idle EXCEPT !.op = "close", !.at = "read", !.seen = camp]]
    /\ UNCHANGED <<camp, jdOpen, history, selected, row, msgs, runs, outcome, dlq, job, sweep>>

(* close_campaign kills the queued rows and cancels a job not yet processing. *)
Close(s) ==
    /\ sess[s].op = "close" /\ RowFree(s)
    /\ camp' = [camp EXCEPT !.status = "CLOSED"]
    /\ KillQueued
    /\ CancelPendingJob
    /\ End(s)
    /\ UNCHANGED <<jdOpen, history, selected, msgs, runs, outcome, dlq, sweep, left>>

(* get_reopen_readiness *)
BeginReopen(s) ==
    /\ sess[s] = Idle
    /\ camp.status = "CLOSED" /\ jdOpen
    /\ Spend("reopen")
    /\ sess' = [sess EXCEPT ![s] = [Idle EXCEPT !.op = "reopen", !.at = "read", !.seen = camp]]
    /\ UNCHANGED <<camp, jdOpen, history, selected, row, msgs, runs, outcome, dlq, job, sweep>>

(* A deadline that has passed is cleared; no task is queued again. *)
Reopen(s) ==
    /\ sess[s].op = "reopen" /\ RowFree(s)
    /\ camp' = [camp EXCEPT !.status = "ACTIVE",
                            !.deadline = IF sess[s].seen.deadline = "past" THEN None ELSE @]
    /\ End(s)
    /\ UNCHANGED <<jdOpen, history, selected, row, msgs, runs, outcome, dlq, job, sweep, left>>

(* The Beat task loads expired ACTIVE campaigns and closes them at its       *)
(* commit, whatever became of the deadline between.                          *)
FindExpired ==
    /\ sweep = "idle" /\ camp.status = "ACTIVE" /\ camp.deadline = "past"
    /\ sweep' = "found"
    /\ UNCHANGED <<camp, jdOpen, history, selected, row, msgs, runs, outcome, dlq, job, sess, left>>

CloseExpired ==
    /\ sweep = "found" /\ \A s \in Admins : ~Locked(s)
    /\ camp' = [camp EXCEPT !.status = "CLOSED"]
    /\ sweep' = "idle"
    /\ UNCHANGED <<jdOpen, history, selected, row, msgs, runs, outcome, dlq, job, sess, left>>

DeadlinePasses ==
    /\ camp.deadline = "future"
    /\ Spend("time")
    /\ camp' = [camp EXCEPT !.deadline = "past"]
    /\ UNCHANGED <<jdOpen, history, selected, row, msgs, runs, outcome, dlq, job, sess, sweep>>

(* The JD is superseded or soft-deleted; JdPipeline says when it may be.      *)
JdCloses ==
    /\ jdOpen
    /\ Spend("jd")
    /\ jdOpen' = FALSE
    /\ UNCHANGED <<camp, history, selected, row, msgs, runs, outcome, dlq, job, sess, sweep>>

CloseIfFilled ==
    camp' = IF camp.openings # 0 /\ Filled' >= camp.openings
            THEN [camp EXCEPT !.status = "CLOSED"] ELSE camp

Select_Unlocked(c) ==
    /\ c \notin selected
    /\ Spend("select")
    /\ selected' = selected \cup {c}
    /\ CloseIfFilled
    /\ UNCHANGED <<jdOpen, history, row, msgs, runs, outcome, dlq, job, sess, sweep>>

(* A selection waits for the row lock, counts itself and closes a campaign   *)
(* whose openings are filled; the status is not a condition for selecting.   *)
Select(c) ==
    /\ c \notin selected /\ \A s \in Admins : ~Locked(s)
    /\ Spend("select")
    /\ selected' = selected \cup {c}
    /\ CloseIfFilled
    /\ UNCHANGED <<jdOpen, history, row, msgs, runs, outcome, dlq, job, sess, sweep>>

(* The extraction worker starts, has staged the files, and only then looks    *)
(* at the campaign; it writes the job over whatever a close made of it.      *)
Extract ==
    /\ Spend("extract")
    /\ job' = CASE left["extract"] = 3 -> "EXTRACTING"
                [] left["extract"] = 2 -> "PROCESSING"
                [] OTHER -> IF camp.status = "ACTIVE" THEN job ELSE "FAILED"
    /\ UNCHANGED <<camp, jdOpen, history, selected, row, msgs, runs, outcome, dlq, sess, sweep>>

-----------------------------------------------------------------------------
(* Workers and dead letters *)

Ignored_Paused(t) == Linked(t) /\ row[t] \in {"SUCCESS", "PAUSED"}

(* Only a SUCCESS row makes a worker leave a scoring task alone: a PAUSED or  *)
(* a DEAD row does not.                                                     *)
Ignored(t) == Linked(t) /\ row[t] = "SUCCESS"

(* A worker receives a message.  A scoring task of a closed campaign is      *)
(* marked SUCCESS without a score.                                          *)
Start(t) ==
    /\ msgs[t] > 0
    /\ msgs' = [msgs EXCEPT ![t] = @ - 1]
    /\ IF Ignored(t) THEN UNCHANGED <<row, runs, outcome>>
       ELSE IF Linked(t) /\ camp.status = "CLOSED"
       THEN /\ row' = [row EXCEPT ![t] = "SUCCESS"]
            /\ outcome' = [outcome EXCEPT ![t] = IF @ = "done" THEN @ ELSE "skipped"]
            /\ UNCHANGED runs
       ELSE /\ row' = [row EXCEPT ![t] = "RUNNING"]
            /\ runs' = [runs EXCEPT ![t] = @ + 1]
            /\ UNCHANGED outcome
    /\ UNCHANGED <<camp, jdOpen, history, selected, dlq, job, sess, sweep, left>>

(* mark_success; the open dead letters of the chain are resolved with it. *)
Finish(t) ==
    /\ runs[t] > 0
    /\ runs' = [runs EXCEPT ![t] = @ - 1]
    /\ row' = [row EXCEPT ![t] = "SUCCESS"]
    /\ outcome' = [outcome EXCEPT ![t] = "done"]
    /\ dlq' = [dlq EXCEPT ![t] = [i \in DOMAIN @ |-> [@[i] EXCEPT !.resolved = TRUE]]]
    /\ UNCHANGED <<camp, jdOpen, history, selected, msgs, job, sess, sweep, left>>

(* The last attempt fails: what the retry driver runs goes to the dead-letter *)
(* queue, a deterministic task is only marked FAILURE.                       *)
Fail(t) ==
    /\ runs[t] > 0
    /\ Spend("fail")
    /\ runs' = [runs EXCEPT ![t] = @ - 1]
    /\ row' = [row EXCEPT ![t] = "FAILURE"]
    /\ outcome' = [outcome EXCEPT ![t] = IF @ = "done" THEN @ ELSE "failed"]
    /\ dlq' = IF Kind[t] = "det" THEN dlq
              ELSE [dlq EXCEPT ![t] = Append(@, [replayed |-> FALSE, resolved |-> FALSE])]
    /\ UNCHANGED <<camp, jdOpen, history, selected, msgs, job, sess, sweep>>

Replays(t) == Cardinality({i \in DOMAIN dlq[t] : dlq[t][i].replayed})
Open(t) == {i \in DOMAIN dlq[t] : ~dlq[t][i].replayed /\ ~dlq[t][i].resolved}

(* The entries chosen are read, checked and counted without a lock. *)
BeginReplay(s, t) ==
    /\ sess[s] = Idle
    /\ Open(t) # {} /\ Replays(t) < MaxReplays
    /\ Spend("replay")
    /\ \E es \in SUBSET Open(t) :
          /\ es # {} /\ Replays(t) + Cardinality(es) <= MaxReplays
          /\ sess' = [sess EXCEPT ![s] = [Idle EXCEPT !.op = "replay", !.at = "read",
                                                     !.task = t, !.todo = es]]
    /\ UNCHANGED <<camp, jdOpen, history, selected, row, msgs, runs, outcome, dlq, job, sweep>>

MarkReplayed(s) ==
    /\ sess[s].op = "replay" /\ sess[s].at = "read"
    /\ dlq' = [dlq EXCEPT ![sess[s].task] =
                 [i \in DOMAIN @ |-> IF i \in sess[s].todo THEN [@[i] EXCEPT !.replayed = TRUE]
                                     ELSE @[i]]]
    /\ sess' = [sess EXCEPT ![s].at = "marked"]
    /\ UNCHANGED <<camp, jdOpen, history, selected, row, msgs, runs, outcome, job, sweep, left>>

(* After the commit the messages are published, under new task ids; for a    *)
(* resume the call lacks its prompt_template_id and is rejected.             *)
SendReplay(s) ==
    /\ sess[s].at = "marked"
    /\ IF Kind[sess[s].task] = "parse" THEN UNCHANGED <<msgs, row>>
       ELSE /\ msgs' = [msgs EXCEPT ![sess[s].task] = @ + Cardinality(sess[s].todo)]
            /\ row' = [row EXCEPT ![sess[s].task] = None]
    /\ End(s)
    /\ UNCHANGED <<camp, jdOpen, history, selected, runs, outcome, dlq, job, sweep, left>>

-----------------------------------------------------------------------------
Begin(s) == (\E op \in Edits : LockForUpdate(s, op)) \/ BeginReset(s) \/ BeginClose(s)
            \/ BeginReopen(s) \/ (\E t \in Tasks : BeginReplay(s, t))
Proceed(s) == \/ LockReset(s) \/ Refuse(s) \/ PatchWeights(s) \/ SetWeights(s) \/ ResetRejected(s)
              \/ SetOpenings(s) \/ SetDeadline(s) \/ Pause(s) \/ ResubmitPaused(s) \/ ResumeFails(s) \/ Resume(s)
              \/ Close(s) \/ Reopen(s) \/ MarkReplayed(s) \/ SendReplay(s)
Work(t) == Start(t) \/ Finish(t) \/ Fail(t)
Outside == \/ FindExpired \/ CloseExpired \/ DeadlinePasses \/ JdCloses \/ Extract
           \/ (\E c \in Candidates : Select(c))

Next == (\E s \in Admins : Begin(s) \/ Proceed(s)) \/ (\E t \in Tasks : Work(t)) \/ Outside
Spec == Init /\ [][Next]_vars

(* Workers keep taking messages and end their runs; requests go on.          *)
FairSpec ==
    /\ Spec
    /\ \A t \in Tasks : WF_vars(Start(t)) /\ WF_vars(Finish(t) \/ Fail(t))
    /\ \A s \in Admins : WF_vars(Proceed(s))

-----------------------------------------------------------------------------
(* The weight history is a chain: a change under the row lock starts from    *)
(* the weights the change before it left.  (A reset may have read them       *)
(* before the lock.)                                                        *)
WeightHistoryIsChain ==
    \A i \in 1..(Len(history) - 1) :
        history[i + 1].by # "reset" => history[i + 1].old = history[i].new

(* Openings are never set below the candidates selected by then, however a   *)
(* selection and an edit meet.                                              *)
OpeningsCoverFilled ==
    [][camp'.openings # camp.openings /\ camp'.openings # 0
         => camp'.openings >= Cardinality(selected')]_vars

(* A task whose row says QUEUED, and whose message was not refused at the     *)
(* upload, comes to something - a score, a failure, or a run that found the   *)
(* campaign closed - unless a pause or a close takes it out of the queue.  In *)
(* particular a resumed task is not lost: its message is published before its *)
(* row is written, and may be received while the row still says PAUSED.       *)
QueuedTaskDecided ==
    \A t \in Tasks :
        row[t] = "QUEUED" /\ (Linked(t) \/ msgs[t] > 0)
            ~> outcome[t] # None \/ row[t] \in {"PAUSED", "DEAD"}

(* "a fresh resume.process_document task for every resume that was uploaded   *)
(* [...] and never got parsed": resuming does not fail for it.               *)
ResumeSubmitsPending ==
    [][\A s \in Admins : sess[s].at = "sent" /\ sess'[s] = Idle => camp'.status = "ACTIVE"]_vars
=============================================================================
