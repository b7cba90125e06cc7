---------------------------- MODULE ResumeTask ----------------------------
(***************************************************************************)
(* The life of ONE resume through upload, the Celery broker, the workers   *)
(* that run process_resume_document, the retry driver, the dead-letter     *)
(* queue, manual retry/replay and the recovery sweep.                      *)
(*                                                                         *)
(* Processes: API requests (upload, retry_parse, replay_from_dlq), Celery  *)
(* workers and recovery scans.  A step is the code between two commits or  *)
(* broker calls, so every interleaving and every crash between two commits *)
(* is a behaviour.  Each request mints one task id (uuid4), so the task    *)
(* ids are the requests themselves.                                        *)
(***************************************************************************)
EXTENDS Naturals, Sequences, FiniteSets

CONSTANTS
    Requests,      \* API calls, and the task id each one mints
    Workers,       \* Celery worker slots
    Scanners,      \* Beat tick, start-up hook, other app instances
    DefaultMax,    \* DEFAULT_POLICY.max_attempts
    AIMax,         \* STAGE_POLICIES[AI_EXTRACTION].max_attempts
    MaxFaults,     \* bound: how often each kind of event may happen in a behaviour
    Mixes,         \* bound: the sets of kinds that may happen in one behaviour
    NoTask         \* resumes.task_id IS NULL

\* What a behaviour may do without: the faults, a manual retry or replay, the sweeps.
FaultKinds == {"crash", "slow", "lose", "outage", "db", "api", "scan", "manual", "sweep"}

ASSUME PolicyAssumption == DefaultMax \in Nat \ {0} /\ AIMax \in Nat \ {0}
ASSUME FaultsAssumption == MaxFaults \in [FaultKinds -> Nat] /\ Mixes \subseteq SUBSET FaultKinds
ASSUME NamesAssumption ==
    /\ NoTask \notin Requests
    /\ Workers \cap {"QUEUE", "ORPHAN", "LOST", "DONE"} = {}

VARIABLES
    log,     \* celery_task_log: one row per task id
    resume,  \* resumes.parse_status and resumes.task_id
    skills,  \* candidate_skills of the resume: the matched row, the unmatched rows
    dlq,     \* dead_letter_queue rows of the resume
    cand,    \* the campaign_candidate: SCREENING reached, DETERMINISTIC_SCORE row and messages
    msgs,    \* every message ever published, and where it is now
    run,     \* worker control state
    req,     \* request control state
    scan,    \* recovery-scan control state
    faults   \* what has happened so far of each kind

vars == <<log, resume, skills, dlq, cand, msgs, run, req, scan, faults>>

---------------------------------------------------------------------------
Stages == {"AI", "OTHER"}   \* the two retry policies: AI_EXTRACTION, and every other stage
Verdicts == {"PERMANENT", "RETRIABLE"}
InFlight == {"RUNNING", "RETRY"}
Places == {"QUEUE", "ORPHAN", "LOST", "DONE"}

Row == [status : {"ABSENT", "QUEUED", "RUNNING", "RETRY", "SUCCESS", "FAILURE"},
        flag   : BOOLEAN,                    \* dispatch_failed
        age    : {"NONE", "FRESH", "OLD"},   \* started_at against the 15-minute cutoff
        done   : BOOLEAN,                    \* completed_at IS NOT NULL
        linked : BOOLEAN]                    \* resume_id IS NOT NULL

NewRow(linked) == [status |-> "QUEUED", flag |-> FALSE, age |-> "NONE",
                   done |-> FALSE, linked |-> linked]

Message == [task : Requests, retries : Nat, at : Places \cup Workers,
            by   : {"DISPATCH", "RETRY", "INFLIGHT"}]

WorkerPC == {"idle", "start", "pipeline", "persisted", "linked", "followup",
             "scoring", "scored", "failed", "retrying", "giveup", "closing", "ack"}
RequestPC == {"idle", "stored", "recorded", "logged", "retry", "replay",
              "redispatch", "done"}
ScanPC == {"idle", "queued", "resend", "asked", "stalled", "redispatch"}

DeadLetterRow == [task : Requests, resolved : BOOLEAN, replays : Nat]

LogOK == log \in [Requests -> Row]
ResumeOK == resume \in [parse : {"NONE", "PENDING", "PARSED", "FAILED"},
                       task : Requests \cup {NoTask}]
SkillsOK == skills \in [matched : BOOLEAN, unmatched : Nat]
DlqOK == dlq \in Seq(DeadLetterRow)
CandOK == cand \in [screening : BOOLEAN, row : BOOLEAN, sends : Nat]
MsgsOK == msgs \in Seq(Message)
RunOK ==
    /\ run \in [Workers -> [pc : WorkerPC, msg : Nat, stage : Stages, verdict : Verdicts]]
    /\ \A w \in Workers : run[w].pc # "idle" => run[w].msg \in 1..Len(msgs)
ReqOK ==
    /\ req \in [Requests -> [pc : RequestPC, entry : Nat]]
    /\ \A q \in Requests : req[q].pc = "replay" => req[q].entry \in 1..Len(dlq)
ScanOK ==
    /\ scan \in [Scanners -> [pc : ScanPC, todo : SUBSET Requests,
                              live : SUBSET Requests, task : Requests \cup {NoTask}]]
    /\ \A s \in Scanners : scan[s].pc \in {"resend", "redispatch"} => scan[s].task \in Requests
FaultsOK == faults \in [FaultKinds -> Nat]

(* What the rows, the messages and the control records hold; a worker that *)
(* is not idle runs a message that was published, and a replay request     *)
(* points at an existing dead-letter entry.                                *)
TypeOK == /\ LogOK /\ ResumeOK /\ SkillsOK /\ DlqOK /\ CandOK
          /\ MsgsOK /\ RunOK /\ ReqOK /\ ScanOK /\ FaultsOK

IdleWorker == [pc |-> "idle", msg |-> 0, stage |-> "OTHER", verdict |-> "RETRIABLE"]

Init ==
    /\ log = [t \in Requests |-> [NewRow(FALSE) EXCEPT !.status = "ABSENT"]]
    /\ resume = [parse |-> "NONE", task |-> NoTask]
    /\ skills = [matched |-> FALSE, unmatched |-> 0]
    /\ dlq = <<>>
    /\ cand = [screening |-> FALSE, row |-> FALSE, sends |-> 0]
    /\ msgs = <<>>
    /\ run = [w \in Workers |-> IdleWorker]
    /\ req = [q \in Requests |-> [pc |-> "idle", entry |-> 0]]
    /\ scan = [s \in Scanners |-> [pc |-> "idle", todo |-> {}, live |-> {}, task |-> NoTask]]
    /\ faults = [k \in FaultKinds |-> 0]

---------------------------------------------------------------------------
Happened == {k \in FaultKinds : faults[k] > 0}
Allowed(kind) == \E mix \in Mixes : Happened \cup {kind} \subseteq mix

Spend(kind) == /\ faults[kind] < MaxFaults[kind]
               /\ Allowed(kind)
               /\ faults' = [faults EXCEPT ![kind] = @ + 1]

\* Of a kind that may happen without limit only the fact that it happens is kept.
Enter(kind) == Allowed(kind) /\ faults' = [faults EXCEPT ![kind] = 1]

Publish(t, retries, by) ==
    msgs' = Append(msgs, [task |-> t, retries |-> retries, at |-> "QUEUE", by |-> by])

Move(i, place) == msgs' = [msgs EXCEPT ![i].at = place]

Running(w) == msgs[run[w].msg].task
Attempt(w) == msgs[run[w].msg].retries + 1
WorkerGo(w, pc) == run' = [run EXCEPT ![w].pc = pc]
WorkerTakes(w, i) == run' = [run EXCEPT ![w] = [@ EXCEPT !.pc = "start", !.msg = i]]
WorkerRests(w) == run' = [run EXCEPT ![w] = IdleWorker]
WorkerFails(w, stage, verdict) ==   \* a StageExecutionError of that stage, as classify sees it
    run' = [run EXCEPT ![w] = [@ EXCEPT !.pc = "failed", !.stage = stage, !.verdict = verdict]]
RequestGo(q, pc) == req' = [req EXCEPT ![q].pc = pc]

(***************************************************************************)
(* API requests.                                                           *)
(***************************************************************************)

\* Resume, candidate and campaign_candidate are committed before any task exists.
UploadStore(q) ==
    /\ req[q].pc = "idle"
    /\ resume.parse = "NONE"
    /\ resume' = [resume EXCEPT !.parse = "PENDING"]
    /\ RequestGo(q, "stored")
    /\ UNCHANGED <<log, skills, dlq, cand, msgs, run, scan, faults>>

UploadRecordTask(q) ==
    /\ req[q].pc = "stored"
    /\ resume' = [resume EXCEPT !.task = q]
    /\ RequestGo(q, "recorded")
    /\ UNCHANGED <<log, skills, dlq, cand, msgs, run, scan, faults>>

UploadLog(q) ==
    /\ req[q].pc = "recorded"
    /\ log' = [log EXCEPT ![q] = NewRow(TRUE)]
    /\ RequestGo(q, "logged")
    /\ UNCHANGED <<resume, skills, dlq, cand, msgs, run, scan, faults>>

UploadDispatch(q) ==
    /\ req[q].pc = "logged"
    /\ RequestGo(q, "done")
    /\ \/ Publish(q, 0, "DISPATCH") /\ UNCHANGED <<log, faults>>
       \/ /\ Spend("outage")
          /\ log' = [log EXCEPT ![q].flag = TRUE]
          /\ UNCHANGED msgs
    /\ UNCHANGED <<resume, skills, dlq, cand, run, scan>>

RetryRead(q) ==
    /\ req[q].pc = "idle"
    /\ resume.parse = "FAILED"
    /\ Spend("manual")
    /\ RequestGo(q, "retry")
    /\ UNCHANGED <<log, resume, skills, dlq, cand, msgs, run, scan>>

RetryCommit(q) ==
    /\ req[q].pc = "retry"
    /\ resume' = [parse |-> "PENDING", task |-> q]
    /\ RequestGo(q, "redispatch")
    /\ UNCHANGED <<log, skills, dlq, cand, msgs, run, scan, faults>>

\* Mutant: the entry is looked up one position further.
ReplayRead_NextEntry(q) ==
    /\ req[q].pc = "idle"
    /\ Spend("manual")
    /\ \E i \in DOMAIN dlq :
          /\ dlq[i].replays = 0
          /\ req' = [req EXCEPT ![q] = [pc |-> "replay", entry |-> i + 1]]
    /\ UNCHANGED <<log, resume, skills, dlq, cand, msgs, run, scan>>

ReplayRead(q) ==
    /\ req[q].pc = "idle"
    /\ Spend("manual")
    /\ \E i \in DOMAIN dlq :
          /\ dlq[i].replays = 0
          /\ req' = [req EXCEPT ![q] = [pc |-> "replay", entry |-> i]]
    /\ UNCHANGED <<log, resume, skills, dlq, cand, msgs, run, scan>>

ReplayCommit(q) ==
    /\ req[q].pc = "replay"
    /\ resume' = [parse |-> "PENDING", task |-> q]
    /\ dlq' = [dlq EXCEPT ![req[q].entry].replays = @ + 1]
    /\ RequestGo(q, "redispatch")
    /\ UNCHANGED <<log, skills, cand, msgs, run, scan, faults>>

\* apply_async after the commit, without a celery_task_log row and without an except.
Redispatch(q) ==
    /\ req[q].pc = "redispatch"
    /\ RequestGo(q, "done")
    /\ \/ Publish(q, 0, "DISPATCH") /\ UNCHANGED faults
       \/ Spend("outage") /\ UNCHANGED msgs
    /\ UNCHANGED <<log, resume, skills, dlq, cand, run, scan>>

RequestCrash(q) ==
    /\ req[q].pc \notin {"idle", "done"}
    /\ Spend("api")
    /\ RequestGo(q, "done")
    /\ UNCHANGED <<log, resume, skills, dlq, cand, msgs, run, scan>>

RequestStep(q) ==
    \/ UploadStore(q) \/ UploadRecordTask(q) \/ UploadLog(q) \/ UploadDispatch(q)
    \/ RetryRead(q) \/ RetryCommit(q) \/ ReplayRead(q) \/ ReplayCommit(q)
    \/ Redispatch(q)

(***************************************************************************)
(* The broker: Redis moves a delivered message to an unacked set and       *)
(* returns it to the queue when visibility_timeout elapses.                *)
(***************************************************************************)

\* What happens to the message of w, if the broker still counts it as delivered to w.
Release(w, place) ==
    IF msgs[run[w].msg].at = w THEN Move(run[w].msg, place) ELSE UNCHANGED msgs

\* Mutant: task_acks_late off, the message is acked on receipt.
Receive_AckEarly(w) ==
    /\ run[w].pc = "idle"
    /\ \E i \in DOMAIN msgs :
          /\ msgs[i].at = "QUEUE"
          /\ Move(i, "DONE")
          /\ WorkerTakes(w, i)
    /\ UNCHANGED <<log, resume, skills, dlq, cand, req, scan, faults>>

Receive(w) ==
    /\ run[w].pc = "idle"
    /\ \E i \in DOMAIN msgs :
          /\ msgs[i].at = "QUEUE"
          /\ Move(i, w)
          /\ WorkerTakes(w, i)
    /\ UNCHANGED <<log, resume, skills, dlq, cand, req, scan, faults>>

\* task_acks_late: acked after the task finished, whatever its outcome; a no-op for a
\* delivery the broker has meanwhile given back to the queue.
Ack(w) ==
    /\ run[w].pc = "ack"
    /\ Release(w, "DONE")
    /\ WorkerRests(w)
    /\ UNCHANGED <<log, resume, skills, dlq, cand, req, scan, faults>>

WorkerCrash(w) ==
    /\ run[w].pc # "idle"
    /\ Spend("crash")
    /\ Release(w, "ORPHAN")
    /\ WorkerRests(w)
    /\ UNCHANGED <<log, resume, skills, dlq, cand, req, scan>>

VisibilityTimeout ==
    /\ \E i \in DOMAIN msgs : /\ msgs[i].at = "ORPHAN"
                              /\ Move(i, "QUEUE")
    /\ UNCHANGED <<log, resume, skills, dlq, cand, run, req, scan, faults>>

\* A run that outlives visibility_timeout: redelivered while still executing.
SlowRedelivery ==
    /\ Spend("slow")
    /\ \E i \in DOMAIN msgs : /\ msgs[i].at \in Workers
                              /\ Move(i, "QUEUE")
    /\ UNCHANGED <<log, resume, skills, dlq, cand, run, req, scan>>

\* "the broker entry is gone entirely": what the in-flight sweep is the backstop for.
LoseOrphan ==
    /\ Spend("lose")
    /\ \E i \in DOMAIN msgs : /\ msgs[i].at = "ORPHAN"
                              /\ Move(i, "LOST")
    /\ UNCHANGED <<log, resume, skills, dlq, cand, run, req, scan>>

(***************************************************************************)
(* process_resume_document, one step per commit.                           *)
(***************************************************************************)

\* A retry or replay task has no row yet: the worker creates one, without resume_id.
CreateLog(w) ==
    /\ run[w].pc = "start"
    /\ log[Running(w)].status = "ABSENT"
    /\ log' = [log EXCEPT ![Running(w)] = NewRow(FALSE)]
    /\ UNCHANGED <<resume, skills, dlq, cand, msgs, run, req, scan, faults>>

\* No look at the old status: a SUCCESS row of a redelivered message runs again.
MarkRunning(w) ==
    LET t == Running(w) IN
    /\ run[w].pc = "start"
    /\ log[t].status # "ABSENT"
    /\ log' = [log EXCEPT ![t].status = "RUNNING",
                          ![t].age = IF @ = "NONE" THEN "FRESH" ELSE @]
    /\ WorkerGo(w, "pipeline")
    /\ UNCHANGED <<resume, skills, dlq, cand, msgs, req, scan, faults>>

\* Mutant: the generic handler closes the row without marking the parse FAILED.
FailOutsideStage_NoMark(w) ==
    /\ run[w].pc = "pipeline"
    /\ WorkerGo(w, "closing")
    /\ UNCHANGED <<log, resume, skills, dlq, cand, msgs, req, scan, faults>>

\* Unsupported format, or anything raised outside run_stage: the generic handler.
FailOutsideStage(w) ==
    /\ run[w].pc = "pipeline"
    /\ WorkerGo(w, "giveup")
    /\ UNCHANGED <<log, resume, skills, dlq, cand, msgs, req, scan, faults>>

StageFails(w) ==
    /\ run[w].pc = "pipeline"
    /\ \E s \in Stages, v \in Verdicts :
          WorkerFails(w, s, v)
    /\ UNCHANGED <<log, resume, skills, dlq, cand, msgs, req, scan, faults>>

\* persist_processed_resume commits PARSED and the skill rows of this extraction
\* (m: it matched the canonical skill, u: it holds an unmatched one) together, or
\* violates the (resume, canonical skill) unique index and is rolled back.
Persist(w) ==
    /\ run[w].pc = "pipeline"
    /\ \E m, u \in BOOLEAN :
          /\ ~(m /\ skills.matched)
          /\ skills' = [matched   |-> skills.matched \/ m,
                        unmatched |-> skills.unmatched + (IF u THEN 1 ELSE 0)]
    /\ resume' = [resume EXCEPT !.parse = "PARSED"]
    /\ WorkerGo(w, "persisted")
    /\ UNCHANGED <<log, dlq, cand, msgs, req, scan, faults>>

\* IntegrityError is not in classify's tables: UNKNOWN, which is retried.
PersistConflict(w) ==
    /\ run[w].pc = "pipeline"
    /\ skills.matched
    /\ WorkerFails(w, "OTHER", "RETRIABLE")
    /\ UNCHANGED <<log, resume, skills, dlq, cand, msgs, req, scan, faults>>

\* After the PARSED commit: complete_stage can fail as a stage error of PERSISTENCE,
\* link_document_id and the resume_id commit as an ordinary exception.
LinkTask(w) ==
    /\ run[w].pc = "persisted"
    /\ \/ /\ log' = [log EXCEPT ![Running(w)].linked = TRUE]
          /\ WorkerGo(w, "linked")
          /\ UNCHANGED faults
       \/ /\ Spend("db")
          /\ \/ WorkerFails(w, "OTHER", "RETRIABLE")
             \/ WorkerGo(w, "giveup")
          /\ UNCHANGED log
    /\ UNCHANGED <<resume, skills, dlq, cand, msgs, req, scan>>

MarkSuccess(w) ==
    /\ run[w].pc = "linked"
    /\ \/ /\ log' = [log EXCEPT ![Running(w)].status = "SUCCESS", ![Running(w)].done = TRUE]
          /\ dlq' = [i \in DOMAIN dlq |-> [dlq[i] EXCEPT !.resolved = TRUE]]
          /\ WorkerGo(w, "followup")
          /\ UNCHANGED faults
       \/ Spend("db") /\ WorkerGo(w, "giveup") /\ UNCHANGED <<log, dlq>>
    /\ UNCHANGED <<resume, skills, cand, msgs, req, scan>>

MoveToScreening(w) ==
    /\ run[w].pc = "followup"
    /\ \/ cand' = [cand EXCEPT !.screening = TRUE] /\ UNCHANGED faults
       \/ Spend("db") /\ UNCHANGED cand
    /\ WorkerGo(w, "scoring")
    /\ UNCHANGED <<log, resume, skills, dlq, msgs, req, scan>>

\* The idempotency key is looked up, and the unique index backs the insert.
CreateScoringRow(w) ==
    /\ run[w].pc = "scoring"
    /\ \/ /\ ~cand.row
          /\ cand' = [cand EXCEPT !.row = TRUE]
          /\ WorkerGo(w, "scored")
       \/ cand.row /\ WorkerGo(w, "ack") /\ UNCHANGED cand
    /\ UNCHANGED <<log, resume, skills, dlq, msgs, req, scan, faults>>

DispatchScoring(w) ==
    /\ run[w].pc = "scored"
    /\ \/ cand' = [cand EXCEPT !.sends = @ + 1] /\ UNCHANGED faults
       \/ Spend("outage") /\ UNCHANGED cand
    /\ WorkerGo(w, "ack")
    /\ UNCHANGED <<log, resume, skills, dlq, msgs, req, scan>>

MaxAttempts(stage) == IF stage = "AI" THEN AIMax ELSE DefaultMax

Exhausted(w) == \/ run[w].verdict = "PERMANENT"
                \/ Attempt(w) >= MaxAttempts(run[w].stage)

\* RetryDriver.handle_failure. A database failure inside it escapes the handler.
DeadLetter(w) ==
    /\ run[w].pc = "failed"
    /\ Exhausted(w)
    /\ dlq' = Append(dlq, [task |-> Running(w), resolved |-> FALSE, replays |-> 0])
    /\ WorkerGo(w, "giveup")
    /\ UNCHANGED <<log, resume, skills, cand, msgs, req, scan, faults>>

MarkRetry(w) ==
    /\ run[w].pc = "failed"
    /\ ~Exhausted(w)
    /\ log' = [log EXCEPT ![Running(w)].status = "RETRY"]
    /\ WorkerGo(w, "retrying")
    /\ UNCHANGED <<resume, skills, dlq, cand, msgs, req, scan, faults>>

HandlerFails(w) ==
    /\ run[w].pc = "failed"
    /\ Spend("db")
    /\ WorkerGo(w, "ack")
    /\ UNCHANGED <<log, resume, skills, dlq, cand, msgs, req, scan>>

\* celery_task.retry publishes the next attempt; if it cannot, it rejects the message.
PublishRetry(w) ==
    /\ run[w].pc = "retrying"
    /\ \/ Publish(Running(w), Attempt(w), "RETRY") /\ UNCHANGED faults
       \/ Spend("outage") /\ UNCHANGED msgs
    /\ WorkerGo(w, "ack")
    /\ UNCHANGED <<log, resume, skills, dlq, cand, req, scan>>

\* Both except branches: parse_status FAILED first (a failure there is swallowed) ...
MarkParseFailed(w) ==
    /\ run[w].pc = "giveup"
    /\ \/ resume' = [resume EXCEPT !.parse = "FAILED"] /\ UNCHANGED faults
       \/ Spend("db") /\ UNCHANGED resume
    /\ WorkerGo(w, "closing")
    /\ UNCHANGED <<log, skills, dlq, cand, msgs, req, scan>>

\* ... then the row, whatever status it has by now.
MarkFailure(w) ==
    /\ run[w].pc = "closing"
    /\ \/ /\ log' = [log EXCEPT ![Running(w)].status = "FAILURE", ![Running(w)].done = TRUE]
          /\ UNCHANGED faults
       \/ Spend("db") /\ UNCHANGED log
    /\ WorkerGo(w, "ack")
    /\ UNCHANGED <<resume, skills, dlq, cand, msgs, req, scan>>

WorkerStep(w) ==
    \/ Receive(w) \/ CreateLog(w) \/ MarkRunning(w)
    \/ FailOutsideStage(w) \/ StageFails(w) \/ Persist(w) \/ PersistConflict(w)
    \/ LinkTask(w) \/ MarkSuccess(w) \/ MoveToScreening(w)
    \/ CreateScoringRow(w) \/ DispatchScoring(w)
    \/ DeadLetter(w) \/ MarkRetry(w) \/ HandlerFails(w) \/ PublishRetry(w)
    \/ MarkParseFailed(w) \/ MarkFailure(w) \/ Ack(w)

(***************************************************************************)
(* recover_stalled_resume_uploads: first the rows whose dispatch failed,   *)
(* then the rows stalled in flight.                                        *)
(***************************************************************************)

ScanQueued(s) ==
    /\ scan[s].pc = "idle"
    /\ Enter("sweep")
    /\ scan' = [scan EXCEPT ![s].pc = "queued",
                  ![s].todo = {t \in Requests : log[t].status = "QUEUED" /\ log[t].flag}]
    /\ UNCHANGED <<log, resume, skills, dlq, cand, msgs, run, req>>

\* Mutant: the row read by the scan is trusted, the UPDATE has no WHERE.
ClaimQueued_NoRecheck(s) ==
    /\ scan[s].pc = "queued"
    /\ \E t \in scan[s].todo :
          /\ log' = [log EXCEPT ![t].flag = FALSE]
          /\ scan' = [scan EXCEPT ![s].pc = "resend", ![s].task = t, ![s].todo = @ \ {t}]
    /\ UNCHANGED <<resume, skills, dlq, cand, msgs, run, req, faults>>

\* claim_for_redispatch: UPDATE .. WHERE dispatch_failed, as it is now.
ClaimQueued(s) ==
    /\ scan[s].pc = "queued"
    /\ \E t \in scan[s].todo :
          \/ /\ log[t].flag
             /\ log' = [log EXCEPT ![t].flag = FALSE]
             /\ scan' = [scan EXCEPT ![s].pc = "resend", ![s].task = t,
                                     ![s].todo = @ \ {t}]
          \/ /\ ~log[t].flag
             /\ scan' = [scan EXCEPT ![s].todo = @ \ {t}]
             /\ UNCHANGED log
    /\ UNCHANGED <<resume, skills, dlq, cand, msgs, run, req, faults>>

SendQueued(s) ==
    LET t == scan[s].task IN
    /\ scan[s].pc = "resend"
    /\ \/ Publish(t, 0, "DISPATCH") /\ UNCHANGED <<log, faults>>
       \/ Spend("outage") /\ log' = [log EXCEPT ![t].flag = TRUE] /\ UNCHANGED msgs
    /\ scan' = [scan EXCEPT ![s].pc = "queued", ![s].task = NoTask]
    /\ UNCHANGED <<resume, skills, dlq, cand, run, req>>

Executing == {Running(w) : w \in {v \in Workers : run[v].pc # "idle"}}
Waiting == {msgs[i].task : i \in {j \in DOMAIN msgs : msgs[j].at = "QUEUE"}}

\* _live_task_ids: what runs, and of the delivered-but-waiting messages those a worker
\* has prefetched or holds for a countdown. No answer ends the scan.
AskLive(s) ==
    /\ scan[s].pc = "queued"
    /\ scan[s].todo = {}
    /\ \/ \E held \in SUBSET Waiting :
             scan' = [scan EXCEPT ![s].pc = "asked", ![s].live = Executing \cup held]
          /\ UNCHANGED faults
       \/ Spend("outage") /\ scan' = [scan EXCEPT ![s].pc = "idle"]
    /\ UNCHANGED <<log, resume, skills, dlq, cand, msgs, run, req>>

\* Mutant: the scan looks at RUNNING rows only.
Stalled_RunningOnly(t) == /\ log[t].status = "RUNNING"
                          /\ ~log[t].done
                          /\ log[t].age = "OLD"

Stalled(t) == /\ log[t].status \in InFlight
              /\ ~log[t].done
              /\ log[t].age = "OLD"

\* A row without resume_id resolves to no campaign and is skipped ("campaign_not_found").
ReadStalled(s) ==
    /\ scan[s].pc = "asked"
    /\ scan' = [scan EXCEPT ![s].pc = "stalled", ![s].live = {},
                  ![s].todo = {t \in Requests : Stalled(t) /\ log[t].linked} \ scan[s].live]
    /\ UNCHANGED <<log, resume, skills, dlq, cand, msgs, run, req, faults>>

\* claim_in_flight_for_redispatch: re-checks status and completed_at, nothing else.
ClaimInFlight(s) ==
    /\ scan[s].pc = "stalled"
    /\ \E t \in scan[s].todo :
          LET mine == log[t].status \in InFlight /\ ~log[t].done IN
          \/ /\ mine
             /\ log' = [log EXCEPT ![t].status = "QUEUED", ![t].age = "NONE"]
             /\ scan' = [scan EXCEPT ![s].pc = "redispatch", ![s].task = t,
                                     ![s].todo = @ \ {t}]
          \/ /\ ~mine
             /\ scan' = [scan EXCEPT ![s].todo = @ \ {t}]
             /\ UNCHANGED log
    /\ UNCHANGED <<resume, skills, dlq, cand, msgs, run, req, faults>>

\* A failed apply_async is only logged here: the row stays QUEUED, unflagged.
SendInFlight(s) ==
    /\ scan[s].pc = "redispatch"
    /\ \/ Publish(scan[s].task, 0, "INFLIGHT") /\ UNCHANGED faults
       \/ Spend("outage") /\ UNCHANGED msgs
    /\ scan' = [scan EXCEPT ![s].pc = "stalled", ![s].task = NoTask]
    /\ UNCHANGED <<log, resume, skills, dlq, cand, run, req>>

ScanEnds(s) ==
    /\ scan[s].pc = "stalled"
    /\ scan[s].todo = {}
    /\ scan' = [scan EXCEPT ![s].pc = "idle"]
    /\ UNCHANGED <<log, resume, skills, dlq, cand, msgs, run, req, faults>>

ScanCrash(s) ==
    /\ scan[s].pc # "idle"
    /\ Spend("scan")
    /\ scan' = [scan EXCEPT ![s] = [pc |-> "idle", todo |-> {}, live |-> {}, task |-> NoTask]]
    /\ UNCHANGED <<log, resume, skills, dlq, cand, msgs, run, req>>

ScanStep(s) ==
    \/ ScanQueued(s) \/ ClaimQueued(s) \/ SendQueued(s)
    \/ AskLive(s) \/ ReadStalled(s) \/ ClaimInFlight(s) \/ SendInFlight(s) \/ ScanEnds(s)

(***************************************************************************)
(* Time: started_at falls behind the cutoff.  A row nobody works on ages   *)
(* for free; one that a worker or a queued message will still touch ages   *)
(* only when the system is that slow.  A row whose started_at a claim       *)
(* cleared, and which the run it was taken from set in flight again, counts *)
(* by queued_at, which is behind the cutoff already; that a scan finds it    *)
(* while somebody still has it is bounded by the same budget.               *)
(***************************************************************************)
InHand(t) == \/ t \in Executing
             \/ \E i \in DOMAIN msgs : msgs[i].task = t /\ msgs[i].at \in {"QUEUE", "ORPHAN"}

GrowOld(t) ==
    /\ log[t].age # "OLD"
    /\ log[t].status \in InFlight
    /\ log' = [log EXCEPT ![t].age = "OLD"]
    /\ \/ ~InHand(t) /\ UNCHANGED faults
       \/ InHand(t) /\ Spend("slow")
    /\ UNCHANGED <<resume, skills, dlq, cand, msgs, run, req, scan>>

---------------------------------------------------------------------------
Next ==
    \/ \E q \in Requests : RequestStep(q) \/ RequestCrash(q) \/ GrowOld(q)
    \/ \E w \in Workers : WorkerStep(w) \/ WorkerCrash(w)
    \/ \E s \in Scanners : ScanStep(s) \/ ScanCrash(s)
    \/ VisibilityTimeout \/ SlowRedelivery \/ LoseOrphan

\* Requests run to their end, workers are never starved, Beat keeps ticking, Redis
\* applies visibility_timeout and time passes.  No fault is ever obliged to happen.
Fairness ==
    /\ \A q \in Requests :
          /\ WF_vars(RequestStep(q) /\ req[q].pc # "idle")
          /\ WF_vars(GrowOld(q) /\ ~InHand(q))
    /\ \A w \in Workers : WF_vars(WorkerStep(w))
    /\ \A s \in Scanners : WF_vars(ScanStep(s))
    /\ WF_vars(VisibilityTimeout)

Spec == Init /\ [][Next]_vars
FairSpec == Spec /\ Fairness
---------------------------------------------------------------------------
(***************************************************************************)
(* Properties.                                                             *)
(***************************************************************************)

(* A row flagged dispatch_failed was never delivered and nobody is about   *)
(* to send it, so sending it again under the same task id is safe          *)
(* (mark_dispatch_failed, claim_for_redispatch).                           *)
Sent(t) == \E i \in 1..Len(msgs) : msgs[i].task = t

FlagMeansUnsent ==
    \A t \in Requests : log[t].flag =>
        /\ log[t].status = "QUEUED"
        /\ ~Sent(t)
        /\ \A s \in Scanners : scan[s].pc = "resend" => scan[s].task # t

(* Whatever the number of concurrent sweeps and their failures, a task is  *)
(* dispatched for the first time at most once: two recovery calls never    *)
(* redispatch the same row twice (claim_for_redispatch's CAS).             *)
OneFirstDispatch ==
    \A i, j \in 1..Len(msgs) :
        (msgs[i].task = msgs[j].task /\ msgs[i].by = "DISPATCH" /\ msgs[j].by = "DISPATCH")
            => i = j

(* Deterministic scoring is queued at most once per candidate and resume,  *)
(* however often the pipeline is redelivered, retried or replayed          *)
(* (_enqueue_deterministic_scoring's idempotency key).                     *)
ScoringOnce == cand.sends <= 1

(* A message never carries more attempts than the largest retry policy     *)
(* allows, so no lineage of retries outlives its policy (RetryDriver).     *)
RetryBudget ==
    \A i \in 1..Len(msgs) : msgs[i].retries < DefaultMax \/ msgs[i].retries < AIMax

(* A task that ended in FAILURE leaves no PENDING resume behind it, unless *)
(* the database failed under the error handler itself: the except branches *)
(* mark the parse FAILED before they close the row.                        *)
NoSilentFailure ==
    \A t \in Requests :
        (resume.task = t /\ log[t].status = "FAILURE" /\ faults["db"] = 0)
            => resume.parse # "PENDING"

Carried(t) ==
    \/ \E i \in DOMAIN msgs : msgs[i].task = t /\ msgs[i].at \notin {"DONE", "LOST"}
    \/ t \in Executing
    \/ req[t].pc \notin {"idle", "done"}
    \/ \E s \in Scanners : scan[s].pc \in {"resend", "redispatch"} /\ scan[s].task = t
    \/ log[t].status = "QUEUED" /\ log[t].flag
    \/ log[t].status \in InFlight /\ ~log[t].done /\ log[t].linked

\* PENDING for good: no message, process or recoverable row will ever move it.
Stranded == resume.parse = "PENDING" /\ \A t \in Requests : ~Carried(t)

(* Worker crashes, dead sweeps, redeliveries of slow runs and retries by   *)
(* hand never strand a resume at PENDING; it takes a refused publish, a    *)
(* failing database, a lost broker entry or the death of a request between *)
(* its commit and its publish. A sweep that dies holds only rows whose own *)
(* message was never sent or was lost, so its death is not one more cause. *)
CrashesNeverStrand ==
    Stranded => \E k \in {"outage", "db", "lose", "api"} : faults[k] > 0

(* As long as nothing is delivered twice, fails in the database or is      *)
(* retried by hand, a parsed resume stays parsed: follow-ups that cannot   *)
(* be queued do not undo it (_enqueue_deterministic_scoring never raises). *)
Redelivered == \/ Happened \cap {"crash", "slow"} # {}
               \/ \E i \in DOMAIN msgs : msgs[i].by = "INFLIGHT"

ParsedStays ==
    [][(resume.parse = "PARSED" /\ ~Redelivered /\ Happened \cap {"db", "manual"} = {})
           => resume'.parse = "PARSED"]_vars

(* Every resume that waits for parsing is eventually parsed, reported as   *)
(* FAILED, or beyond the reach of every recovery path.                     *)
EventuallyDecided == (resume.parse = "PENDING") ~> (resume.parse # "PENDING" \/ Stranded)

(* What comments and messages in the code say, and the code does not do.   *)

(* celery_app.py: "a redelivered/re-run task cannot double-create data".   *)
NoDoubleData == skills.unmatched <= 1

(* claim_in_flight_for_redispatch: "a task that came back to life between  *)
(* the scan and this call (the broker redelivered it, or another recovery  *)
(* run got there first) fails the swap and is left alone".                 *)
RecoveredLeftAlone ==
    [][\A s \in Scanners :
          (scan[s].pc = "stalled" /\ scan'[s].pc = "redispatch") => Stalled(scan'[s].task)]_vars
===========================================================================
