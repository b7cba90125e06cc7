----------------------------- MODULE JdPipeline -----------------------------
(***************************************************************************)
(* Job descriptions: the routes that submit, update, close and replay, the *)
(* Celery task that runs the document pipeline stage by stage with its     *)
(* checkpoint, retry driver and dead letters, the task that embeds a       *)
(* version, and the campaigns created on versions.  One step per commit,   *)
(* broker call or stage; a request that reads and later commits takes two. *)
(***************************************************************************)
EXTENDS Integers, Sequences, FiniteSets

CONSTANTS
    Workers,     \* Celery worker slots
    Clerks,      \* HTTP request threads
    Contents,    \* document texts, as their hashes
    MaxTasks,    \* bound: submissions
    MaxJds,      \* bound: rows of job_descriptions
    Attempts,    \* max_attempts of a stage: STAGE_POLICIES, else DEFAULT_POLICY
    Scenarios    \* bound: how many events of each kind a behaviour holds

EventKinds == {"create", "upload", "rewrite", "replace", "edit", "close", "attach",
               "crash", "fail", "lost", "replay"}
STAGE_ORDER == <<"TEXT_EXTRACTION", "TEXT_CLEANING", "AI_EXTRACTION", "JSON_VALIDATION",
                 "SKILL_NORMALIZATION", "EMBEDDING_GENERATION", "PERSISTENCE">>

ASSUME BoundsAssumption == MaxTasks \in Nat \ {0} /\ MaxJds \in Nat
ASSUME AttemptsAssumption == Attempts \in [1..Len(STAGE_ORDER) -> Nat \ {0}]
ASSUME ScenariosAssumption == Scenarios \subseteq [EventKinds -> Nat]
ASSUME NoContentIsNone == "none" \notin Contents

VARIABLES
    jds,         \* job_descriptions, in insertion order
    campaigns,   \* the versions with an open campaign
    unembedded,  \* the versions whose EMBED_JD was refused or dead-lettered
    tasks,       \* celery_task_log with what each submission asked for
    checkpoints, \* document_processing_checkpoints: the failed stage, 0 without a row
    dead,        \* dead_letter_queue entries of each task
    files,       \* uploaded documents in storage, named by their submission
    queue,       \* messages waiting in the broker
    run,         \* control state of the workers
    req,         \* control state of the requests
    events       \* how many events of each kind may still happen

vars == <<jds, campaigns, unembedded, tasks, checkpoints, dead, files, queue, run, req, events>>

---------------------------------------------------------------------------
TaskId == 1..MaxTasks
JdId == 1..MaxJds
Stage == 1..Len(STAGE_ORDER)
StageIndex(name) == CHOOSE i \in Stage : STAGE_ORDER[i] = name
Status == {"NONE", "QUEUED", "RUNNING", "RETRY", "SUCCESS", "FAILURE"}
Job == [kind : {"PROCESS", "EMBED"}, id : Nat, try : Nat, old : 0..MaxTasks]
NoJob == [kind |-> "PROCESS", id |-> 0, try |-> 0, old |-> 0]
Process(t, try, old) == [kind |-> "PROCESS", id |-> t, try |-> try, old |-> old]
Embed(j, try) == [kind |-> "EMBED", id |-> j, try |-> try, old |-> 0]

JdsOK ==
    /\ jds \in Seq([root : JdId, parent : 0..MaxJds, content : Contents, version : Nat,
                    active : BOOLEAN, closed : BOOLEAN, file : 0..MaxTasks,
                    embedded : BOOLEAN, skills : {"whole", "bare"}])
    /\ Len(jds) <= MaxJds /\ campaigns \cup unembedded \subseteq 1..Len(jds)

TasksOK ==
    /\ tasks \in [TaskId -> [status : Status, base : 0..MaxJds, version : Nat, file : BOOLEAN,
                             content : Contents \cup {"none"}, made : 0..MaxJds,
                             error : {"none", "stage", "duplicate"}]]
    /\ checkpoints \in [TaskId -> 0..Len(STAGE_ORDER)]
    /\ dead \in [TaskId -> [entries : Nat, replayed : BOOLEAN]]
    /\ files \subseteq TaskId

ActorsOK ==
    /\ queue \subseteq Job
    /\ run \in [Workers -> [pc : {"idle", "stage", "commit", "finish", "mark", "failed",
                                  "hopeless", "bury", "duplicate", "embed"},
                            job : Job, at : Stage, resumed : BOOLEAN, new : 0..MaxJds]]
    /\ req \in [Clerks -> [pc : {"idle", "send", "edit", "close", "attach", "purge", "reset"},
                           id : Nat, old : 0..MaxTasks]]
    /\ events \in [EventKinds -> Nat]

(* What the rows, the messages and the control records hold. *)
TypeOK == JdsOK /\ TasksOK /\ ActorsOK

NoTask == [status |-> "NONE", base |-> 0, version |-> 1, file |-> FALSE, content |-> "none",
           made |-> 0, error |-> "none"]
Idle == [pc |-> "idle", job |-> NoJob, at |-> 1, resumed |-> FALSE, new |-> 0]
NoRequest == [pc |-> "idle", id |-> 0, old |-> 0]

Init ==
    /\ jds = <<>> /\ campaigns = {} /\ unembedded = {} /\ files = {} /\ queue = {}
    /\ tasks = [t \in TaskId |-> NoTask]
    /\ checkpoints = [t \in TaskId |-> 0]
    /\ dead = [t \in TaskId |-> [entries |-> 0, replayed |-> FALSE]]
    /\ run = [w \in Workers |-> Idle]
    /\ req = [c \in Clerks |-> NoRequest]
    /\ events \in Scenarios

---------------------------------------------------------------------------
Rows == 1..Len(jds)
Spend(kind) == events[kind] > 0 /\ events' = [events EXCEPT ![kind] = @ - 1]
Unused == {t \in TaskId : tasks[t].status = "NONE"}
NewTask == CHOOSE t \in Unused : \A u \in Unused : t <= u

Current(j) == jds[j].active /\ j \notin campaigns
\* get_by_content_hash: any row, live or not; get_duplicate_excluding_lineage.
Copies(content) == {j \in Rows : jds[j].content = content}
Elsewhere(content, base) == {j \in Copies(content) : jds[j].root # jds[base].root}

IsReprocess(t) == tasks[t].base # 0
Duplicates(t) == IF IsReprocess(t) THEN Elsewhere(tasks[t].content, tasks[t].base)
                                   ELSE Copies(tasks[t].content)

IndexAllows_Parent(base) ==
    \A j \in Rows : jds[j].parent = base => ~jds[j].active

\* uq_jd_active_lineage_version: one active row for each lineage_root_id, which a root lacks.
IndexAllows(base) ==
    \A j \in Rows : jds[j].root = jds[base].root /\ jds[j].active => j = base \/ jds[j].parent = 0

Inserted(base, row) ==
    IF base = 0 THEN Append(jds, row) ELSE Append([jds EXCEPT ![base].active = FALSE], row)

\* EMBED_JD has no row until a worker takes it: a refused publish leaves nothing behind.
QueueEmbedding(j) ==
    \/ queue' = queue \cup {Embed(j, 1)} /\ UNCHANGED <<unembedded, events>>
    \/ Spend("lost") /\ unembedded' = unembedded \cup {j} /\ UNCHANGED queue

(***************************************************************************)
(* The routes: submissions.                                                *)
(***************************************************************************)
\* The upload, if any, is stored and the task's row committed before the publish.
Accept(c, base, content, file) ==
    /\ req[c].pc = "idle" /\ Unused # {}
    /\ tasks' = [tasks EXCEPT ![NewTask] =
          [NoTask EXCEPT !.status = "QUEUED", !.base = base, !.file = file, !.content = content,
                         !.version = IF base = 0 THEN 1 ELSE jds[base].version + 1]]
    /\ files' = IF file THEN files \cup {NewTask} ELSE files
    /\ req' = [req EXCEPT ![c] = [pc |-> "send", id |-> NewTask,
                                  old |-> IF base = 0 THEN 0 ELSE jds[base].file]]
    /\ UNCHANGED <<jds, campaigns, unembedded, checkpoints, dead, queue, run>>

\* Only a text is compared with the stored hashes before it is accepted.
CreateFromText(c) ==
    \E x \in Contents : Spend("create") /\ Copies(x) = {} /\ Accept(c, 0, x, FALSE)

CreateFromFile(c) == \E x \in Contents : Spend("upload") /\ Accept(c, 0, x, TRUE)

\* update_jd with another text, or with a document: both need the pipeline.
Rewrite(c) ==
    \E j \in Rows, x \in Contents :
        /\ Spend("rewrite") /\ Current(j)
        /\ Elsewhere(x, j) = {} /\ x # jds[j].content
        /\ Accept(c, j, x, FALSE)

Replace(c) ==
    \E j \in Rows, x \in Contents : Spend("replace") /\ Current(j) /\ Accept(c, j, x, TRUE)

Send(c) ==
    /\ req[c].pc = "send"
    /\ \/ /\ queue' = queue \cup {Process(req[c].id, 1, req[c].old)}
          /\ UNCHANGED events
       \/ Spend("lost") /\ UNCHANGED queue
    /\ req' = [req EXCEPT ![c] = NoRequest]
    /\ UNCHANGED <<jds, campaigns, unembedded, tasks, checkpoints, dead, files, run>>

(***************************************************************************)
(* The routes: a metadata-only update, a soft delete, a new campaign.      *)
(***************************************************************************)
Usable(op, j) == IF op = "attach" THEN jds[j].active /\ ~jds[j].closed ELSE Current(j)

Load(c, op, j) ==
    /\ req[c].pc = "idle" /\ Spend(op) /\ Usable(op, j)
    /\ req' = [req EXCEPT ![c] = [NoRequest EXCEPT !.pc = op, !.id = j]]
    /\ UNCHANGED <<jds, campaigns, unembedded, tasks, checkpoints, dead, files, queue, run>>

\* The next version keeps the text, the document and the file, but no embedding.
Edit(c) ==
    LET j == req[c].id IN
    /\ req[c].pc = "edit" /\ Len(jds) < MaxJds
    /\ IF IndexAllows(j)
       THEN /\ jds' = Inserted(j, [jds[j] EXCEPT !.parent = j, !.version = @ + 1, !.active = TRUE,
                                                 !.closed = FALSE, !.embedded = FALSE])
            /\ QueueEmbedding(Len(jds) + 1)
       ELSE UNCHANGED <<jds, unembedded, queue, events>>
    /\ req' = [req EXCEPT ![c] = NoRequest]
    /\ UNCHANGED <<campaigns, tasks, checkpoints, dead, files, run>>

Close(c) ==
    /\ req[c].pc = "close"
    /\ jds' = [jds EXCEPT ![req[c].id].active = FALSE, ![req[c].id].closed = TRUE]
    /\ req' = [req EXCEPT ![c] = NoRequest]
    /\ UNCHANGED <<campaigns, unembedded, tasks, checkpoints, dead, files, queue, run, events>>

Attach(c) ==
    /\ req[c].pc = "attach"
    /\ campaigns' = campaigns \cup {req[c].id}
    /\ req' = [req EXCEPT ![c] = NoRequest]
    /\ UNCHANGED <<unembedded, jds, tasks, checkpoints, dead, files, queue, run, events>>

(***************************************************************************)
(* JDRetryService: replay of a failed submission.  The kwargs come from    *)
(* the checkpoint, which does not hold old_file_path.                      *)
(***************************************************************************)
LoadReplayable(c, t) ==
    /\ req[c].pc = "idle" /\ Spend("replay")
    /\ tasks[t].status = "FAILURE" /\ checkpoints[t] # 0
    /\ req' = [req EXCEPT ![c] = [pc |-> "purge", id |-> t, old |-> 0]]
    /\ UNCHANGED <<jds, campaigns, unembedded, tasks, checkpoints, dead, files, queue, run>>

Purge(c) ==
    /\ req[c].pc = "purge"
    /\ checkpoints' = [checkpoints EXCEPT ![req[c].id] = 0]
    /\ dead' = [dead EXCEPT ![req[c].id].replayed = dead[req[c].id].entries > 0]
    /\ req' = [req EXCEPT ![c].pc = "reset"]
    /\ UNCHANGED <<jds, campaigns, unembedded, tasks, files, queue, run, events>>

ResetTaskLog(c) ==
    /\ req[c].pc = "reset"
    /\ tasks' = [tasks EXCEPT ![req[c].id].status = "QUEUED", ![req[c].id].error = "none"]
    /\ req' = [req EXCEPT ![c].pc = "send"]
    /\ UNCHANGED <<jds, campaigns, unembedded, checkpoints, dead, files, queue, run, events>>

(***************************************************************************)
(* process_jd_document.                                                    *)
(***************************************************************************)
Task(w) == run[w].job.id
Go(w, pc) == run' = [run EXCEPT ![w].pc = pc]

\* The serialized skill matches have no importance, aliases or normalized text.
SkillDetailLost(t) == checkpoints[t] > StageIndex("SKILL_NORMALIZATION")

\* A delivery starts whatever the row says; a checkpoint skips the stages before the failed one.
Start(w, m) ==
    /\ run[w].pc = "idle" /\ m \in queue /\ m.kind = "PROCESS"
    /\ queue' = queue \ {m}
    /\ tasks' = [tasks EXCEPT ![m.id].status = "RUNNING"]
    /\ run' = [run EXCEPT ![w] =
          [pc |-> "stage", job |-> m, new |-> 0,
           at |-> IF checkpoints[m.id] = 0 THEN 1 ELSE checkpoints[m.id],
           resumed |-> SkillDetailLost(m.id)]]
    /\ UNCHANGED <<jds, campaigns, unembedded, checkpoints, dead, files, req, events>>

\* TEXT_EXTRACTION of a document also looks for its hash.
RunStage(w) ==
    /\ run[w].pc = "stage" /\ STAGE_ORDER[run[w].at] # "PERSISTENCE"
    /\ IF STAGE_ORDER[run[w].at] = "TEXT_EXTRACTION" /\ tasks[Task(w)].file /\ Duplicates(Task(w)) # {}
       THEN Go(w, "duplicate")
       ELSE run' = [run EXCEPT ![w].at = @ + 1]
    /\ UNCHANGED <<jds, campaigns, unembedded, tasks, checkpoints, dead, files, queue, req, events>>

\* persist_processed_jd reads first: duplicates, then an open campaign on the old version.
PersistCheck(w) ==
    /\ run[w].pc = "stage" /\ STAGE_ORDER[run[w].at] = "PERSISTENCE"
    /\ IF Duplicates(Task(w)) # {} THEN Go(w, "duplicate") /\ UNCHANGED checkpoints
       ELSE IF tasks[Task(w)].base \in campaigns
            THEN Go(w, "failed") /\ checkpoints' = [checkpoints EXCEPT ![Task(w)] = run[w].at]
            ELSE Go(w, "commit") /\ UNCHANGED checkpoints
    /\ UNCHANGED <<jds, campaigns, unembedded, tasks, dead, files, queue, req, events>>

PersistCommit(w) ==
    LET t == tasks[Task(w)] IN
    /\ run[w].pc = "commit" /\ Len(jds) < MaxJds
    /\ IF t.base # 0 /\ ~IndexAllows(t.base)
       THEN /\ Go(w, "failed") /\ UNCHANGED jds
            /\ checkpoints' = [checkpoints EXCEPT ![Task(w)] = run[w].at]
       ELSE /\ run' = [run EXCEPT ![w].pc = "finish", ![w].new = Len(jds) + 1]
            /\ UNCHANGED checkpoints
            /\ jds' = Inserted(t.base,
                  [root |-> IF t.base = 0 THEN Len(jds) + 1 ELSE jds[t.base].root,
                   parent |-> t.base, content |-> t.content, version |-> t.version,
                   active |-> TRUE, closed |-> FALSE, file |-> IF t.file THEN Task(w) ELSE 0,
                   embedded |-> TRUE, skills |-> IF run[w].resumed THEN "bare" ELSE "whole"])
    /\ UNCHANGED <<campaigns, unembedded, tasks, dead, files, queue, req, events>>

Finish(w) ==
    /\ run[w].pc = "finish"
    /\ checkpoints' = [checkpoints EXCEPT ![Task(w)] = 0]
    /\ Go(w, "mark")
    /\ UNCHANGED <<jds, campaigns, unembedded, tasks, dead, files, queue, req, events>>

\* SUCCESS; a reprocess with a document deletes the one it replaces; EMBED_JD is queued.
MarkSuccess(w) ==
    /\ run[w].pc = "mark"
    /\ tasks' = [tasks EXCEPT ![Task(w)].status = "SUCCESS", ![Task(w)].made = run[w].new]
    /\ files' = IF IsReprocess(Task(w)) /\ tasks[Task(w)].file
                THEN files \ {run[w].job.old} ELSE files
    /\ QueueEmbedding(run[w].new)
    /\ run' = [run EXCEPT ![w] = Idle]
    /\ UNCHANGED <<jds, campaigns, checkpoints, dead, req>>

\* DuplicateJDException: the uploaded document is deleted, no dead letter is written.
RejectDuplicate(w) ==
    /\ run[w].pc = "duplicate"
    /\ files' = IF tasks[Task(w)].file THEN files \ {Task(w)} ELSE files
    /\ tasks' = [tasks EXCEPT ![Task(w)].status = "FAILURE", ![Task(w)].error = "duplicate"]
    /\ run' = [run EXCEPT ![w] = Idle]
    /\ UNCHANGED <<jds, campaigns, unembedded, checkpoints, dead, queue, req, events>>

(***************************************************************************)
(* Failures: the checkpoint, the retry driver, dead letters, crashes.      *)
(***************************************************************************)
\* run_stage commits the checkpoint on its own connection before the driver classifies.
StageFails(w) ==
    /\ run[w].pc = "stage" /\ Spend("fail")
    /\ checkpoints' = [checkpoints EXCEPT ![Task(w)] = run[w].at]
    /\ \/ Go(w, "failed") \/ Go(w, "hopeless")
    /\ UNCHANGED <<jds, campaigns, unembedded, tasks, dead, files, queue, req>>

Exhausted(w) == run[w].job.try >= Attempts[run[w].at]

Retry_Unsent(w) ==
    /\ run[w].pc = "failed" /\ ~Exhausted(w)
    /\ tasks' = [tasks EXCEPT ![Task(w)].status = "RETRY"]
    /\ run' = [run EXCEPT ![w] = Idle]
    /\ UNCHANGED <<jds, campaigns, unembedded, checkpoints, dead, files, queue, req, events>>

Retry(w) ==
    /\ run[w].pc = "failed" /\ ~Exhausted(w)
    /\ tasks' = [tasks EXCEPT ![Task(w)].status = "RETRY"]
    /\ queue' = queue \cup {[run[w].job EXCEPT !.try = @ + 1]}
    /\ run' = [run EXCEPT ![w] = Idle]
    /\ UNCHANGED <<jds, campaigns, unembedded, checkpoints, dead, files, req, events>>

DeadLetter_DropsCheckpoint(w) ==
    /\ (run[w].pc = "failed" /\ Exhausted(w)) \/ run[w].pc = "hopeless"
    /\ dead' = [dead EXCEPT ![Task(w)].entries = @ + 1]
    /\ checkpoints' = [checkpoints EXCEPT ![Task(w)] = 0]
    /\ Go(w, "bury")
    /\ UNCHANGED <<jds, campaigns, unembedded, tasks, files, queue, req, events>>

\* The checkpoint stays: it is the only copy of the submission a replay can start from.
DeadLetter(w) ==
    /\ (run[w].pc = "failed" /\ Exhausted(w)) \/ run[w].pc = "hopeless"
    /\ dead' = [dead EXCEPT ![Task(w)].entries = @ + 1]
    /\ Go(w, "bury")
    /\ UNCHANGED <<jds, campaigns, unembedded, tasks, checkpoints, files, queue, req, events>>

MarkFailure(w) ==
    /\ run[w].pc = "bury"
    /\ tasks' = [tasks EXCEPT ![Task(w)].status = "FAILURE", ![Task(w)].error = "stage"]
    /\ run' = [run EXCEPT ![w] = Idle]
    /\ UNCHANGED <<jds, campaigns, unembedded, checkpoints, dead, files, queue, req, events>>

\* task_acks_late: the message of a worker that died is delivered again, with the same attempt.
Crash(w) ==
    /\ run[w].pc # "idle" /\ Spend("crash")
    /\ queue' = queue \cup {run[w].job}
    /\ run' = [run EXCEPT ![w] = Idle]
    /\ UNCHANGED <<jds, campaigns, unembedded, tasks, checkpoints, dead, files, req>>

(***************************************************************************)
(* generate_jd_embedding.                                                  *)
(***************************************************************************)
StartEmbedding(w, m) ==
    /\ run[w].pc = "idle" /\ m \in queue /\ m.kind = "EMBED"
    /\ queue' = queue \ {m}
    /\ run' = [run EXCEPT ![w] = IF jds[m.id].active /\ ~jds[m.id].embedded
                                 THEN [Idle EXCEPT !.pc = "embed", !.job = m] ELSE Idle]
    /\ UNCHANGED <<jds, campaigns, unembedded, tasks, checkpoints, dead, files, req, events>>

EmbedVersion(w) ==
    /\ run[w].pc = "embed"
    /\ jds' = [jds EXCEPT ![run[w].job.id].embedded = TRUE]
    /\ run' = [run EXCEPT ![w] = Idle]
    /\ UNCHANGED <<campaigns, unembedded, tasks, checkpoints, dead, files, queue, req, events>>

EmbeddingFails_Silently(w) ==
    /\ run[w].pc = "embed" /\ Spend("fail")
    /\ run' = [run EXCEPT ![w] = Idle]
    /\ UNCHANGED <<jds, campaigns, unembedded, tasks, checkpoints, dead, files, queue, req>>

EmbeddingFails(w) ==
    /\ run[w].pc = "embed" /\ Spend("fail")
    /\ IF run[w].job.try < Attempts[StageIndex("EMBEDDING_GENERATION")]
       THEN queue' = queue \cup {[run[w].job EXCEPT !.try = @ + 1]} /\ UNCHANGED unembedded
       ELSE unembedded' = unembedded \cup {run[w].job.id} /\ UNCHANGED queue
    /\ run' = [run EXCEPT ![w] = Idle]
    /\ UNCHANGED <<jds, campaigns, tasks, checkpoints, dead, files, req>>

---------------------------------------------------------------------------
Request(c) ==
    \/ CreateFromText(c) \/ CreateFromFile(c) \/ Rewrite(c) \/ Replace(c)
    \/ \E op \in {"edit", "close", "attach"}, j \in Rows : Load(c, op, j)
    \/ \E t \in TaskId : LoadReplayable(c, t)

Continue(c) == Send(c) \/ Edit(c) \/ Close(c) \/ Attach(c) \/ Purge(c) \/ ResetTaskLog(c)

Work(w) ==
    \/ \E m \in queue : Start(w, m) \/ StartEmbedding(w, m)
    \/ RunStage(w) \/ PersistCheck(w) \/ PersistCommit(w) \/ Finish(w) \/ MarkSuccess(w)
    \/ RejectDuplicate(w) \/ Retry(w) \/ DeadLetter(w) \/ MarkFailure(w) \/ EmbedVersion(w)

Fault(w) == StageFails(w) \/ EmbeddingFails(w) \/ Crash(w)

Next ==
    \/ \E c \in Clerks : Request(c) \/ Continue(c)
    \/ \E w \in Workers : Work(w) \/ Fault(w)

Spec == Init /\ [][Next]_vars

\* Worker processes keep consuming and an accepted request runs to its end.
FairSpec == /\ Spec
            /\ \A w \in Workers : WF_vars(Work(w))
            /\ \A c \in Clerks : WF_vars(Continue(c))

---------------------------------------------------------------------------
(* Whatever order routes, reprocessing runs, redeliveries and replays take, a   *)
(* new version replaces only the version it was made from: no lineage ever has  *)
(* two versions campaigns can be created on.                                    *)
Versions == INSTANCE JdVersions WITH
    MaxVersions <- MaxJds,
    made <- [j \in Rows |-> [root |-> jds[j].root, parent |-> jds[j].parent]],
    live <- {j \in Rows : jds[j].active}

OneLiveVersion == Versions!Spec

(* A submission that failed for good without a version to show for it, and that *)
(* nothing is working on any more, still has the checkpoint its replay is       *)
(* rebuilt from (JDRetryService refuses one without).                           *)
Busy(t) == \/ \E m \in queue : m.kind = "PROCESS" /\ m.id = t
           \/ \E w \in Workers : run[w].pc \notin {"idle", "embed"} /\ Task(w) = t
           \/ \E c \in Clerks : req[c].pc \in {"purge", "reset", "send"} /\ req[c].id = t
FailedCanBeReplayed ==
    \A t \in TaskId : tasks[t].status = "FAILURE" /\ tasks[t].error = "stage" /\ tasks[t].made = 0 /\ ~Busy(t)
                        => checkpoints[t] # 0

(* Every submission that reached the broker is decided, through failures,       *)
(* redeliveries and replays.                                                    *)
EverySubmissionDecided ==
    \A t \in TaskId :
        (\E m \in queue : m.kind = "PROCESS" /\ m.id = t) ~> tasks[t].status \in {"SUCCESS", "FAILURE"}

(* The version a metadata-only update makes has no embedding of its own: unless *)
(* EMBED_JD was refused or dead-lettered, it gets one while it is live.         *)
AwaitsEmbedding(j) == j \in Rows /\ jds[j].active /\ ~jds[j].embedded /\ j \notin unembedded
LiveVersionEmbedded == \A j \in JdId : AwaitsEmbedding(j) ~> ~AwaitsEmbedding(j)

(* A retry persists what a run without a failure would have persisted.          *)
RetryKeepsSkills == \A j \in Rows : jds[j].skills = "whole"
=============================================================================
