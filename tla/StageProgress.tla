--------------------------- MODULE StageProgress ---------------------------
(***************************************************************************)
(* The trail ONE processing task leaves, of an uploaded JD or resume, and  *)
(* the screens that are computed from it: the status view, the timeline,   *)
(* the failure box and the upload history.                                 *)
(*                                                                         *)
(* The trail is four kinds of rows written by different commits of the     *)
(* worker: the task log, a row for each stage and attempt, the failures,   *)
(* the checkpoint (JDs only) and the dead letter.  A screen reads the log  *)
(* first and the other rows later.  What the stages themselves do is the   *)
(* subject of ResumeTask and JdPipeline.                                   *)
(***************************************************************************)
EXTENDS Integers, FiniteSetsExt, SequencesExt

CONSTANTS
    Scenes,  \* bound: [kind: of document, "JD" or "RESUME", fragile: stages that may fail,
             \* deaths: of the worker, presses: of Retry, purges: by an admin]
    Null

VARIABLES
    kind,
    log,         \* celery_task_log: [status, retries]
    rows,        \* document_processing_stage_executions, in order of creation
    failures,    \* stage_failure_logs, in order of creation
    checkpoint,  \* failed_at_stage of the checkpoint, or Null
    dead,        \* "none", or a dead_letter_queue row "bare" or with the submission's "payload"
    file,        \* is the uploaded JD file still in storage?
    failed,      \* does the resume (or the file of the bulk job) say FAILED?
    queue,       \* broker messages: retries of each, the first is in the worker's hands
    run,         \* control state of the worker
    press,       \* control state of a Retry request
    seen,        \* the log as a screen has read it, before it reads the other rows
    left,        \* the scene, and what is left of its deaths, presses and purges
    upset        \* history: a worker died after the fate of an attempt was known and before
                 \* its message was acknowledged, or a task that had not failed was purged

progressVars == <<kind, log, rows, failures, checkpoint, dead, file, failed, queue, run, press, seen, left, upset>>
trail == <<rows, failures, checkpoint, dead, file, failed>>

---------------------------------------------------------------------------
Stage == <<"VALIDATION", "STORAGE", "TEXT_EXTRACTION", "TEXT_CLEANING", "PII_DETECTION", "PII_REDACTION",
           "AI_EXTRACTION", "JSON_VALIDATION", "SKILL_NORMALIZATION", "EMBEDDING_GENERATION", "PERSISTENCE">>

\* Of the log; GONE when it was purged.  PAUSED and DEAD are never written to it here.
Status == {"QUEUED", "RUNNING", "RETRY", "SUCCESS", "FAILURE", "GONE"}

\* "Null" is no stage, no classification and no log row.
ASSUME ProgressAssumption ==
    /\ Null \notin ToSet(Stage) \cup {"TRANSIENT", "PERMANENT"}
    /\ Null \notin [status : Status, retries : Nat]
    /\ \A scene \in Scenes : scene.kind \in {"JD", "RESUME"}

Order(s) == CHOOSE i \in DOMAIN Stage : Stage[i] = s

MaxTries(s) == IF s = "AI_EXTRACTION" THEN 5 ELSE 3

JdStages == <<"TEXT_EXTRACTION", "TEXT_CLEANING", "AI_EXTRACTION", "JSON_VALIDATION", "SKILL_NORMALIZATION",
              "EMBEDDING_GENERATION", "PERSISTENCE">>
ResumeStages == <<"TEXT_EXTRACTION", "TEXT_CLEANING", "PII_DETECTION", "PII_REDACTION", "AI_EXTRACTION",
                  "JSON_VALIDATION", "SKILL_NORMALIZATION", "PERSISTENCE">>
Pipeline == IF kind = "JD" THEN JdStages ELSE ResumeStages

AtRest == [at |-> "idle"]
Current == Pipeline[run.i]

ProgressInit ==
    /\ left \in Scenes
    /\ kind = left.kind
    /\ log = [status |-> "QUEUED", retries |-> 0]
    /\ rows = <<>> /\ failures = <<>> /\ checkpoint = Null /\ dead = "none"
    /\ file = TRUE /\ failed = FALSE
    /\ queue = <<0>>
    /\ run = AtRest /\ press = "no" /\ seen = Null
    /\ upset = FALSE

---------------------------------------------------------------------------
(* The rows of the stages. *)

Index(s, a) == {i \in DOMAIN rows : rows[i].stage = s /\ rows[i].attempt = a}

\* One row for each stage and attempt: a second delivery of the attempt resets it.
Written(rs, s, a, status) ==
    IF \E i \in DOMAIN rs : rs[i].stage = s /\ rs[i].attempt = a
    THEN [i \in DOMAIN rs |-> IF rs[i].stage = s /\ rs[i].attempt = a THEN [rs[i] EXCEPT !.status = status] ELSE rs[i]]
    ELSE Append(rs, [stage |-> s, attempt |-> a, status |-> status])

---------------------------------------------------------------------------
(* The worker. *)

\* mark_running whatever the row says; a purged row is created again.
Take ==
    /\ run.at = "idle" /\ queue # <<>>
    /\ log' = [status |-> "RUNNING", retries |-> log.retries]
    /\ run' = [at |-> "run", i |-> 1, attempt |-> Head(queue) + 1, class |-> Null,
               from |-> IF checkpoint = Null THEN 0 ELSE Order(checkpoint)]
    /\ UNCHANGED <<kind, trail, queue, press, seen, left, upset>>

Goes(at) == run' = [run EXCEPT !.at = at]

Skipped == run.i <= Len(Pipeline) /\ Order(Current) < run.from

SkipStage ==
    /\ run.at = "run" /\ Skipped
    /\ rows' = Written(rows, Current, run.attempt, "SKIPPED")
    /\ run' = [run EXCEPT !.i = @ + 1]
    /\ UNCHANGED <<kind, log, failures, checkpoint, dead, file, failed, queue, press, seen, left, upset>>

StartStage ==
    /\ run.at = "run" /\ run.i <= Len(Pipeline) /\ ~Skipped
    /\ rows' = Written(rows, Current, run.attempt, "RUNNING")
    /\ Goes("stage")
    /\ UNCHANGED <<kind, log, failures, checkpoint, dead, file, failed, queue, press, seen, left, upset>>

NoFile == kind = "JD" /\ Current = "TEXT_EXTRACTION" /\ ~file

\* PERSISTENCE is where a resume becomes PARSED.
CompleteStage ==
    /\ run.at = "stage" /\ Index(Current, run.attempt) # {} /\ ~NoFile
    /\ rows' = Written(rows, Current, run.attempt, "SUCCESS")
    /\ failed' = (failed /\ Current # "PERSISTENCE")
    /\ run' = [run EXCEPT !.at = "run", !.i = @ + 1]
    /\ UNCHANGED <<kind, log, failures, checkpoint, dead, file, queue, press, seen, left, upset>>

FailStage ==
    /\ run.at = "stage" /\ Index(Current, run.attempt) # {}
    /\ Current \in left.fragile \/ NoFile
    /\ rows' = Written(rows, Current, run.attempt, "FAILED")
    /\ \E c \in {"TRANSIENT", "PERMANENT"} :
          run' = [run EXCEPT !.at = IF kind = "JD" THEN "checkpoint" ELSE "record", !.class = c]
    /\ UNCHANGED <<kind, log, failures, checkpoint, dead, file, failed, queue, press, seen, left, upset>>

\* The row was purged under the stage: its UPDATE finds nothing, and the session it breaks
\* takes the bookkeeping of the failure with it.  The log stays as it is.
LoseStage ==
    /\ run.at = "stage" /\ Index(Current, run.attempt) = {}
    /\ run' = AtRest /\ queue' = Tail(queue)
    /\ UNCHANGED <<kind, log, trail, press, seen, left, upset>>

SaveCheckpoint ==
    /\ run.at = "checkpoint"
    /\ checkpoint' = Current
    /\ Goes("record")
    /\ UNCHANGED <<kind, log, rows, failures, dead, file, failed, queue, press, seen, left, upset>>

RecordFailure ==
    /\ run.at = "record"
    /\ failures' = Append(failures, [stage |-> Current, attempt |-> run.attempt, class |-> run.class])
    /\ Goes("decide")
    /\ UNCHANGED <<kind, log, rows, checkpoint, dead, file, failed, queue, press, seen, left, upset>>

IsLast_Late == run.class = "PERMANENT" \/ run.attempt > MaxTries(Current)

IsLast == run.class = "PERMANENT" \/ run.attempt >= MaxTries(Current)

\* A JD's checkpoint stays, and its submission goes into the dead letter.
GiveUp ==
    /\ run.at = "decide" /\ IsLast
    /\ dead' = IF dead = "payload" \/ checkpoint # Null THEN "payload" ELSE "bare"
    /\ Goes(IF kind = "RESUME" THEN "resume" ELSE "fail")
    /\ UNCHANGED <<kind, log, rows, failures, checkpoint, file, failed, queue, press, seen, left, upset>>

MarkResume ==
    /\ run.at = "resume"
    /\ failed' = TRUE
    /\ Goes("fail")
    /\ UNCHANGED <<kind, log, rows, failures, checkpoint, dead, file, queue, press, seen, left, upset>>

MarkFailure ==
    /\ run.at = "fail"
    /\ log' = [log EXCEPT !.status = "FAILURE"]
    /\ Goes("ack")
    /\ UNCHANGED <<kind, trail, queue, press, seen, left, upset>>

MarkRetry ==
    /\ run.at = "decide" /\ ~IsLast
    /\ log' = [status |-> "RETRY", retries |-> log.retries + 1]
    /\ Goes("publish")
    /\ UNCHANGED <<kind, trail, queue, press, seen, left, upset>>

PublishRetry ==
    /\ run.at = "publish"
    /\ queue' = Append(queue, run.attempt)
    /\ Goes("ack")
    /\ UNCHANGED <<kind, log, trail, press, seen, left, upset>>

Acknowledge ==
    /\ run.at = "ack"
    /\ queue' = Tail(queue)
    /\ run' = AtRest
    /\ UNCHANGED <<kind, log, trail, press, seen, left, upset>>

\* A duplicate of another JD, found by its text or when it is stored.
FindDuplicate ==
    /\ kind = "JD" /\ run.at = "run"
    /\ \/ run.i = 2 /\ run.from <= Order(JdStages[1])
       \/ run.i > Len(Pipeline)
    /\ Goes("skip")
    /\ UNCHANGED <<kind, log, trail, queue, press, seen, left, upset>>

\* The rest is recorded as skipped, as attempt 1, one commit for each stage.
SkipRest ==
    /\ run.at = "skip" /\ run.i <= Len(Pipeline)
    /\ rows' = Written(rows, Current, 1, "SKIPPED")
    /\ run' = [run EXCEPT !.i = @ + 1]
    /\ UNCHANGED <<kind, log, failures, checkpoint, dead, file, failed, queue, press, seen, left, upset>>

\* The upload is deleted, and the driver is not asked.
DropUpload ==
    /\ run.at = "skip" /\ run.i > Len(Pipeline)
    /\ file' = FALSE
    /\ Goes("fail")
    /\ UNCHANGED <<kind, log, rows, failures, checkpoint, dead, failed, queue, press, seen, left, upset>>

DropCheckpoint ==
    /\ run.at = "run" /\ run.i > Len(Pipeline)
    /\ checkpoint' = Null
    /\ Goes("done")
    /\ UNCHANGED <<kind, log, rows, failures, dead, file, failed, queue, press, seen, left, upset>>

MarkSuccess ==
    /\ run.at = "done"
    /\ log' = [log EXCEPT !.status = "SUCCESS"]
    /\ Goes("ack")
    /\ UNCHANGED <<kind, trail, queue, press, seen, left, upset>>

\* The broker delivers the message again, with the same retries.
Die ==
    /\ run.at # "idle" /\ left.deaths > 0
    /\ left' = [left EXCEPT !.deaths = @ - 1]
    /\ upset' = (upset \/ run.at \notin {"run", "stage"})
    /\ run' = AtRest
    /\ UNCHANGED <<kind, log, trail, queue, press, seen>>

---------------------------------------------------------------------------
(* People. *)

\* Retry of a failed JD: the trail is purged, the row reset, the first message sent again.
PressRetry ==
    /\ kind = "JD" /\ press = "no" /\ left.presses > 0
    /\ log.status = "FAILURE" /\ checkpoint # Null
    /\ rows' = <<>> /\ failures' = <<>> /\ checkpoint' = Null
    /\ press' = "reset"
    /\ left' = [left EXCEPT !.presses = @ - 1]
    /\ UNCHANGED <<kind, log, dead, file, failed, queue, run, seen, upset>>

ResetLog ==
    /\ press = "reset"
    /\ IF log.status = "GONE"
       THEN press' = "no" /\ UNCHANGED log
       ELSE press' = "send" /\ log' = [status |-> "QUEUED", retries |-> 0]
    /\ UNCHANGED <<kind, trail, queue, run, seen, left, upset>>

SendAgain ==
    /\ press = "send"
    /\ queue' = Append(queue, 0)
    /\ press' = "no"
    /\ UNCHANGED <<kind, log, trail, run, seen, left, upset>>

\* A dead letter is all that the first branch asks for.
Purge ==
    /\ left.purges > 0 /\ left' = [left EXCEPT !.purges = @ - 1]
    /\ dead # "none" \/ log.status = "FAILURE"
    /\ rows' = <<>> /\ failures' = <<>> /\ checkpoint' = Null /\ dead' = "none"
    /\ file' = (file /\ ~(kind = "JD" /\ dead = "payload"))
    /\ log' = IF dead # "none" THEN log ELSE [status |-> "GONE", retries |-> 0]
    /\ upset' = (upset \/ log.status # "FAILURE")
    /\ UNCHANGED <<kind, failed, queue, run, press, seen>>

\* A screen reads the log; what it shows is computed from the rows of a later step.
OpenScreen ==
    /\ seen = Null /\ log.status # "GONE"
    /\ seen' = log
    /\ UNCHANGED <<kind, log, trail, queue, run, press, left, upset>>

CloseScreen ==
    /\ seen # Null
    /\ seen' = Null
    /\ UNCHANGED <<kind, log, trail, queue, run, press, left, upset>>

ProgressNext ==
    \/ Take \/ SkipStage \/ StartStage \/ CompleteStage \/ FailStage \/ LoseStage
    \/ SaveCheckpoint \/ RecordFailure \/ GiveUp \/ MarkResume \/ MarkFailure
    \/ MarkRetry \/ PublishRetry \/ Acknowledge \/ FindDuplicate \/ SkipRest \/ DropUpload \/ DropCheckpoint \/ MarkSuccess
    \/ Die \/ PressRetry \/ ResetLog \/ SendAgain \/ Purge \/ OpenScreen \/ CloseScreen

ProgressSpec == ProgressInit /\ [][ProgressNext]_progressVars

---------------------------------------------------------------------------
(* The screens, of the log l as it was read and the rows as they are. *)

StagesReached == {rows[i].stage : i \in DOMAIN rows}
Of(s) == {rows[i] : i \in {j \in DOMAIN rows : rows[j].stage = s}}

\* The row with the highest attempt: of those that were not skipped, if there are any.
Collapsed_Newest(s) == CHOOSE r \in Of(s) : \A q \in Of(s) : q.attempt <= r.attempt

Collapsed(s) ==
    LET real == {r \in Of(s) : r.status # "SKIPPED"}
        among == IF real = {} THEN Of(s) ELSE real
    IN  CHOOSE r \in among : \A q \in among : q.attempt <= r.attempt

Furthest == IF StagesReached = {} THEN Null ELSE CHOOSE s \in StagesReached : \A t \in StagesReached : Order(t) <= Order(s)

Remaining(s, attempt) == IF MaxTries(s) > attempt THEN MaxTries(s) - attempt ELSE 0

RemainingOf(row) == IF row.status = "FAILED" THEN Remaining(row.stage, row.attempt) ELSE Null

\* No row yet: the default policy.
Budget(l) ==
    LET s == IF Furthest = Null THEN Stage[1] ELSE Furthest
    IN  [max |-> MaxTries(s),
         left |-> IF l.status \in {"SUCCESS", "FAILURE", "DEAD"} THEN 0 ELSE Remaining(s, l.retries + 1)]

StatusView(l) ==
    [overall |-> l.status, current |-> Furthest, budget |-> Budget(l), retries |-> l.retries,
     stages |-> [s \in StagesReached |-> Collapsed(s).status],
     remaining |-> [s \in StagesReached |-> RemainingOf(Collapsed(s))]]

\* The upload history of a user: every row, the newest row's stage.
HistoryView(l) ==
    [overall |-> l.status, stages |-> rows, current |-> IF rows = <<>> THEN Null ELSE rows[Len(rows)].stage]

Retryable(row) ==
    LET of == {i \in DOMAIN failures : failures[i].stage = row.stage /\ failures[i].attempt = row.attempt}
    IN  IF row.status # "FAILED" \/ of = {} THEN Null
        ELSE failures[Max(of)].class = "TRANSIENT"

\* progress in thousandths; the denominator is fixed for both flows.
TrackedStages == 7

Shown_Behind(l) == l.retries

Shown(l) == l.retries + 1

Timeline(l) ==
    LET shown == {i \in DOMAIN rows : rows[i].attempt = Shown(l)}
        done == Cardinality({i \in shown : rows[i].status \in {"SUCCESS", "SKIPPED"}})
    IN  [attempt |-> Shown(l), stages |-> {rows[i] : i \in shown},
         retryable |-> [i \in shown |-> Retryable(rows[i])],
         current |-> IF shown = {} THEN Null ELSE rows[Max(shown)].stage,
         progress |-> (done * 1000) \div TrackedStages]

\* The failure box of a resume, of a bulk file and of the job's list of failures.
FailedRows == {i \in DOMAIN rows : rows[i].status = "FAILED"}

FailureBox_First ==
    IF FailedRows = {} THEN [stage |-> Null, class |-> Null, dlq |-> dead # "none"]
    ELSE LET row == rows[Min(FailedRows)]
             of == {i \in DOMAIN failures : failures[i].stage = row.stage /\ failures[i].attempt = row.attempt}
         IN  [stage |-> row.stage, class |-> IF of = {} THEN Null ELSE failures[Max(of)].class, dlq |-> dead # "none"]

FailureBox ==
    IF FailedRows = {} THEN [stage |-> Null, class |-> Null, dlq |-> dead # "none"]
    ELSE LET row == rows[Max(FailedRows)]
             of == {i \in DOMAIN failures : failures[i].stage = row.stage /\ failures[i].attempt = row.attempt}
         IN  [stage |-> row.stage, class |-> IF of = {} THEN Null ELSE failures[Max(of)].class, dlq |-> dead # "none"]

\* The detail of a resume and of a bulk file.
DetailView(l) ==
    [status |-> l.status, attempt |-> Shown(l), current |-> HistoryView(l).current,
     failure |-> IF failed THEN FailureBox ELSE Null]

---------------------------------------------------------------------------
(* Properties. *)

ProgressTypeOK ==
    /\ kind \in {"JD", "RESUME"} /\ log.status \in Status
    /\ log.retries \in Nat /\ checkpoint \in ToSet(Stage) \cup {Null}
    /\ dead \in {"none", "bare", "payload"} /\ file \in BOOLEAN /\ failed \in BOOLEAN
    /\ \A i \in DOMAIN rows : Index(rows[i].stage, rows[i].attempt) = {i}

(* The attempts left that a screen shows at a failed stage are what the driver  *)
(* acts on: none left when it gives a passing error up, some when it retries.   *)
BudgetIsTheDrivers ==
    (run.at \in {"publish", "resume", "fail"} /\ run.class = "TRANSIENT") =>
        \A i \in Index(Current, run.attempt) : (RemainingOf(rows[i]) > 0) <=> (run.at = "publish")

(* The timeline a resume opens with is of the attempt that is running: the      *)
(* stage the worker is in is on it, as RUNNING.                                 *)
TimelineIsTheRun ==
    (kind = "RESUME" /\ run.at = "stage" /\ ~upset) =>
        [stage |-> Current, attempt |-> run.attempt, status |-> "RUNNING"] \in Timeline(log).stages

(* The failure box of a failed resume names the stage and the classification of *)
(* the failure that ended it, and that it is in the dead-letter queue.          *)
FailureIsTheLast ==
    (failed /\ log.status = "FAILURE" /\ ~upset /\ failures # <<>>) =>
        LET end == failures[Len(failures)]
        IN  DetailView(log).failure = [stage |-> end.stage, class |-> end.class, dlq |-> dead # "none"]

(* A screen that says SUCCESS shows every stage as done, although it read the   *)
(* log before the stages and although retries of a JD skip what was done.       *)
SuccessShowsEveryStage ==
    (seen # Null /\ ~upset) =>
        (seen.status = "SUCCESS" =>
            \A i \in DOMAIN Pipeline :
                Pipeline[i] \in StagesReached /\ StatusView(seen).stages[Pipeline[i]] = "SUCCESS")

\* Every screen of a task, whenever it reads, tells what the worker and the retry driver did:
\* the tries left, the attempt, the failed stage and, in the end, all stages.
ScreensTellTheRun == BudgetIsTheDrivers /\ TimelineIsTheRun /\ FailureIsTheLast /\ SuccessShowsEveryStage

(* A JD that was created keeps its file: only tasks that have finished failing  *)
(* are purged (DeadLetterCleanupService's docstring).                           *)
LiveFileKept == (kind = "JD" /\ log.status = "SUCCESS") => file

(* The task's retries_remaining never disagrees with what the driver will do    *)
(* next (get_retries_remaining's docstring).                                    *)
BudgetNeverDisagrees ==
    (run.at = "decide" /\ run.class = "TRANSIENT" /\ ~upset) =>
        ((StatusView(log).budget.left > 0) <=> ~IsLast)

(* Progress is at most 100 %: both flows share the tracked stages.              *)
ProgressAtMostFull == Timeline(log).progress <= 1000
=============================================================================
