----------------------------- MODULE BulkUpload -----------------------------
(***************************************************************************)
(* ONE bulk ZIP upload: the request that stores it, the extraction task,   *)
(* the per-file parse tasks that run concurrently on the workers, the      *)
(* job's counters and its finalisation, cancellation, and the replay of    *)
(* dead-lettered files.  One step per commit or broker call.               *)
(*                                                                         *)
(* A file's task id is the pair <<file, gen>>: gen counts its replays.     *)
(* celery_task_log is monitoring only here; of its writes only the fact    *)
(* that they may fail is kept (MarkDone, DbFails).                         *)
(***************************************************************************)
EXTENDS Integers, Sequences, FiniteSets

CONSTANTS
    Files,         \* the entries an archive may hold
    Archives,      \* the sets of entries the uploaded ZIP may turn out to hold
    Content,       \* Content[f]: the bytes of f, as their MD5 sees them
    Person,        \* Person[f]: the candidate the pipeline reads out of f
    Prior,         \* contents that already have a resumes row (any campaign)
    Members,       \* persons already in the campaign
    Workers,       \* Celery worker slots that run parse_bulk_upload_file
    Clerks,        \* cancel and replay requests
    FileAttempts,   \* max_attempts of the retry policy
    MaxReplays,    \* bound: replays of one file
    MaxFaults,     \* bound: how often each kind of event may happen in a behaviour
    Mixes          \* bound: the sets of kinds that may happen in one behaviour

\* What a behaviour may do without: the faults, a campaign pause, and an archive of
\* several files, automatic retries, cancels and replays.
FaultKinds == {"crash", "slow", "outage", "db", "pause", "several", "retry", "cancel", "replay"}

ASSUME FilesAssumption == IsFiniteSet(Files) /\ Files # {} /\ Archives \subseteq SUBSET Files
ASSUME ContentAssumption == \A f, g \in Files : Content[f] = Content[g] => Person[f] = Person[g]
ASSUME BoundsAssumption ==
    /\ FileAttempts \in Nat \ {0} /\ MaxReplays \in Nat
    /\ MaxFaults \in [FaultKinds -> Nat] /\ Mixes \subseteq SUBSET FaultKinds

VARIABLES
    job,      \* the bulk_upload_jobs row
    file,     \* bulk_upload_job_files rows, and whether the staged object exists
    resumes,  \* resumes rows created by this upload, in creation order
    members,  \* persons with a campaign_candidate in the campaign
    scored,   \* resumes whose embedding and scoring were queued
    dead,     \* task ids with a dead_letter_queue row
    open,     \* the campaign is ACTIVE (not PAUSED or CLOSED)
    queue,    \* parse messages waiting in the broker
    run,      \* worker control state
    ext,      \* control state of the upload request and of the extraction task
    req,      \* cancel / replay request control state
    faults    \* what has happened so far of each kind

vars == <<job, file, resumes, members, scored, dead, open, queue, run, ext, req, faults>>

---------------------------------------------------------------------------
Unresolved == {"QUEUED", "RUNNING"}
FileStatus == Unresolved \cup {"ABSENT", "PROCESSED", "FAILED", "CANCELLED"}
Terminal == {"COMPLETED", "PARTIAL_FAILURE", "FAILED", "CANCELLED"}
NonReplayable == {"NONE", "PENDING", "EXTRACTING", "CANCELLED"}
JobStatus == Terminal \cup NonReplayable \cup {"PROCESSING"}

Message == [file : Files, gen : 0..MaxReplays, try : 1..FileAttempts]

WorkerPC == {"idle", "claim", "parse", "known", "link", "stages", "stored", "parsed",
             "conflict", "refused", "failed", "retry", "giveup", "fail",
             "counted", "closing", "mark", "followup", "ack"}
ExtractPC == {"none", "committed", "queued", "marked", "unpack", "staged", "check", "send", "done"}
ClerkPC == {"idle", "cancel", "replay", "send", "done"}
Outcomes == {"none", "processed", "duplicate", "failed"}

JobOK == job \in [status : JobStatus, total : Nat, processed : Nat, failed : Int, duplicate : Nat]
FileOK == file \in [Files -> [status : FileStatus, gen : 0..MaxReplays, object : BOOLEAN]]
ResumesOK == resumes \in Seq([file : Files, parse : {"PENDING", "PARSED", "FAILED"}])
SetsOK == /\ scored \subseteq 1..Len(resumes)
          /\ dead \subseteq Files \X (0..MaxReplays)
          /\ open \in BOOLEAN
QueueOK == queue \in [Message -> Nat]
RunOK ==
    /\ run \in [Workers -> [pc : WorkerPC, msg : Message, held : BOOLEAN, resume : Nat,
                            outcome : Outcomes, verdict : Terminal]]
    /\ \A w \in Workers : /\ run[w].resume \in 0..Len(resumes)
                          /\ run[w].pc \in {"stored", "parsed", "followup"} => run[w].resume # 0
ExtOK == ext \in [pc : ExtractPC, logged : BOOLEAN, staged : SUBSET Files, todo : SUBSET Files]
ReqOK == req \in [Clerks -> [pc : ClerkPC, msg : Message, reopen : BOOLEAN]]
FaultsOK == faults \in [FaultKinds -> Nat]

(* What the rows, messages and control records hold; a worker past the     *)
(* resume commit always points at a resume that exists.                    *)
TypeOK == /\ JobOK /\ FileOK /\ ResumesOK /\ SetsOK /\ QueueOK
          /\ RunOK /\ ExtOK /\ ReqOK /\ FaultsOK

FirstTask(f) == [file |-> f, gen |-> 0, try |-> 1]
AnyTask == FirstTask(CHOOSE f \in Files : TRUE)
IdleWorker == [pc |-> "idle", msg |-> AnyTask, held |-> FALSE, resume |-> 0,
               outcome |-> "none", verdict |-> "FAILED"]

Init ==
    /\ job = [status |-> "NONE", total |-> 0, processed |-> 0, failed |-> 0, duplicate |-> 0]
    /\ file = [f \in Files |-> [status |-> "ABSENT", gen |-> 0, object |-> FALSE]]
    /\ resumes = <<>>
    /\ members = Members
    /\ scored = {}
    /\ dead = {}
    /\ open = TRUE
    /\ queue = [m \in Message |-> 0]
    /\ run = [w \in Workers |-> IdleWorker]
    /\ ext = [pc |-> "none", logged |-> FALSE, staged |-> {}, todo |-> {}]
    /\ req = [c \in Clerks |-> [pc |-> "idle", msg |-> AnyTask, reopen |-> FALSE]]
    /\ faults = [k \in FaultKinds |-> 0]

---------------------------------------------------------------------------
Happened == {k \in FaultKinds : faults[k] > 0}
Allowed(kind) == \E mix \in Mixes : Happened \cup {kind} \subseteq mix

Spend(kind) == /\ faults[kind] < MaxFaults[kind]
               /\ Allowed(kind)
               /\ faults' = [faults EXCEPT ![kind] = @ + 1]

\* Of a kind with a limit of its own only the fact that it happens is kept.
Enter(kind) == Allowed(kind) /\ faults' = [faults EXCEPT ![kind] = 1]

Publish(m) == queue' = [queue EXCEPT ![m] = @ + 1]

\* apply_async: the message reaches the broker, or the call fails (or its process dies).
TryPublish(m) == \/ Publish(m) /\ UNCHANGED faults
                 \/ Spend("outage") /\ UNCHANGED queue

Entry(w) == run[w].msg.file
WorkerGo(w, pc) == run' = [run EXCEPT ![w].pc = pc]
WorkerCounted(w, outcome) ==
    run' = [run EXCEPT ![w] = [@ EXCEPT !.pc = "counted", !.outcome = outcome]]
ExtGo(pc) == ext' = [ext EXCEPT !.pc = pc]
JobStatusIs(s) == job' = [job EXCEPT !.status = s]
FileStatusIs(f, s) == file' = [file EXCEPT ![f].status = s]

(***************************************************************************)
(* The upload request and the extraction task.                             *)
(***************************************************************************)
UploadZip ==
    /\ ext.pc = "none"
    /\ open
    /\ JobStatusIs("PENDING")
    /\ ExtGo("committed")
    /\ UNCHANGED <<file, resumes, members, scored, dead, open, queue, run, req, faults>>

\* No except around apply_async: the job stays PENDING without a task.
SendExtract ==
    /\ ext.pc = "committed"
    /\ \/ ExtGo("queued") /\ UNCHANGED faults
       \/ ExtGo("done") /\ Spend("outage")
    /\ UNCHANGED <<job, file, resumes, members, scored, dead, open, queue, run, req>>

\* celery_task_log.task_id is unique and create_log does not look first: a redelivered
\* extraction dies there, before it has read the job.
StartExtract ==
    /\ ext.pc = "queued"
    /\ ext' = [ext EXCEPT !.pc = IF ext.logged THEN "done" ELSE "marked", !.logged = TRUE]
    /\ UNCHANGED <<job, file, resumes, members, scored, dead, open, queue, run, req, faults>>

\* Unconditional: whatever the job's status has become since it was uploaded.
MarkExtracting ==
    /\ ext.pc = "marked"
    /\ JobStatusIs("EXTRACTING")
    /\ ExtGo("unpack")
    /\ UNCHANGED <<file, resumes, members, scored, dead, open, queue, run, req, faults>>

\* Corrupt archive, too many files, or storage unavailable before a row exists.
RejectArchive ==
    /\ ext.pc = "unpack"
    /\ JobStatusIs("FAILED")
    /\ ExtGo("done")
    /\ UNCHANGED <<file, resumes, members, scored, dead, open, queue, run, req, faults>>

StageFiles ==
    /\ ext.pc = "unpack"
    /\ \E S \in Archives :
          /\ IF Cardinality(S) > 1 THEN Enter("several") ELSE UNCHANGED faults
          /\ file' = [f \in Files |-> IF f \in S
                                      THEN [status |-> "QUEUED", gen |-> 0, object |-> TRUE]
                                      ELSE file[f]]
          /\ ext' = [ext EXCEPT !.pc = "staged", !.staged = S, !.todo = S]
    /\ UNCHANGED <<job, resumes, members, scored, dead, open, queue, run, req>>

OpenJob ==
    /\ ext.pc = "staged"
    /\ job' = [job EXCEPT !.total = Cardinality(ext.staged),
                          !.status = IF ext.staged = {} THEN "FAILED" ELSE "PROCESSING"]
    /\ ExtGo("check")
    /\ UNCHANGED <<file, resumes, members, scored, dead, open, queue, run, req, faults>>

\* The campaign was paused or closed while the archive was unpacked.
AbandonFiles ==
    /\ ext.pc = "check"
    /\ ~open
    /\ file' = [f \in Files |-> IF f \in ext.staged THEN [file[f] EXCEPT !.status = "CANCELLED"]
                                                    ELSE file[f]]
    /\ JobStatusIs("FAILED")
    /\ ExtGo("done")
    /\ UNCHANGED <<resumes, members, scored, dead, open, queue, run, req, faults>>

KeepFiles ==
    /\ ext.pc = "check"
    /\ open
    /\ ExtGo("send")
    /\ UNCHANGED <<job, file, resumes, members, scored, dead, open, queue, run, req, faults>>

\* Every staged row is dispatched, cancelled meanwhile or not.
DispatchFile ==
    /\ ext.pc = "send"
    /\ \E f \in ext.todo : /\ Publish(FirstTask(f))
                           /\ ext' = [ext EXCEPT !.todo = @ \ {f}]
    /\ UNCHANGED <<job, file, resumes, members, scored, dead, open, run, req, faults>>

ExtractDone ==
    /\ ext.pc = "send"
    /\ ext.todo = {}
    /\ ExtGo("done")
    /\ UNCHANGED <<job, file, resumes, members, scored, dead, open, queue, run, req, faults>>

\* A publish fails half-way: the generic handler deletes every staged object and fails
\* the job, although rows exist and some files have been dispatched.
DispatchFails ==
    /\ ext.pc = "send"
    /\ ext.todo # {}
    /\ Spend("outage")
    /\ file' = [f \in Files |-> IF f \in ext.staged THEN [file[f] EXCEPT !.object = FALSE]
                                                    ELSE file[f]]
    /\ JobStatusIs("FAILED")
    /\ ExtGo("done")
    /\ UNCHANGED <<resumes, members, scored, dead, open, queue, run, req>>

ExtractCrash ==
    /\ ext.pc \in {"marked", "unpack", "staged", "check", "send"}
    /\ Spend("crash")
    /\ ExtGo("queued")
    /\ UNCHANGED <<job, file, resumes, members, scored, dead, open, queue, run, req>>

ExtractStep ==
    \/ SendExtract \/ StartExtract \/ MarkExtracting \/ RejectArchive \/ StageFiles \/ OpenJob
    \/ AbandonFiles \/ KeepFiles \/ DispatchFile \/ ExtractDone

(***************************************************************************)
(* The broker, for parse messages: redelivery after a crash, and while a   *)
(* run that outlives visibility_timeout is still executing.                *)
(***************************************************************************)
Receive(w) ==
    /\ run[w].pc = "idle"
    /\ \E m \in Message :
          /\ queue[m] > 0
          /\ queue' = [queue EXCEPT ![m] = @ - 1]
          /\ run' = [run EXCEPT ![w] = [IdleWorker EXCEPT !.pc = "claim", !.msg = m, !.held = TRUE]]
    /\ UNCHANGED <<job, file, resumes, members, scored, dead, open, ext, req, faults>>

Ack(w) ==
    /\ run[w].pc = "ack"
    /\ run' = [run EXCEPT ![w] = IdleWorker]
    /\ UNCHANGED <<job, file, resumes, members, scored, dead, open, queue, ext, req, faults>>

WorkerCrash(w) ==
    /\ run[w].pc # "idle"
    /\ Spend("crash")
    /\ IF run[w].held THEN Publish(run[w].msg) ELSE UNCHANGED queue
    /\ run' = [run EXCEPT ![w] = IdleWorker]
    /\ UNCHANGED <<job, file, resumes, members, scored, dead, open, ext, req>>

SlowRedelivery(w) ==
    /\ run[w].pc # "idle" /\ run[w].held
    /\ Spend("slow")
    /\ Publish(run[w].msg)
    /\ run' = [run EXCEPT ![w].held = FALSE]
    /\ UNCHANGED <<job, file, resumes, members, scored, dead, open, ext, req>>

(***************************************************************************)
(* parse_bulk_upload_file, one step per commit.                            *)
(***************************************************************************)

\* Mutant: the claim does not look at the file's status.
Claim_Any(w) ==
    /\ run[w].pc = "claim"
    /\ FileStatusIs(Entry(w), "RUNNING")
    /\ WorkerGo(w, "parse")
    /\ UNCHANGED <<job, resumes, members, scored, dead, open, queue, ext, req, faults>>

\* try_start_processing: QUEUED or RUNNING -> RUNNING, otherwise the run is skipped.
Claim(w) ==
    /\ run[w].pc = "claim"
    /\ IF file[Entry(w)].status \in Unresolved
       THEN FileStatusIs(Entry(w), "RUNNING") /\ WorkerGo(w, "parse")
       ELSE UNCHANGED file /\ WorkerGo(w, "ack")
    /\ UNCHANGED <<job, resumes, members, scored, dead, open, queue, ext, req, faults>>

\* Download or validation fails, an image, or no name and email in the text.
Unreadable(w) ==
    /\ run[w].pc \in {"parse", "stages"}
    /\ WorkerGo(w, "giveup")
    /\ UNCHANGED <<job, file, resumes, members, scored, dead, open, queue, ext, req, faults>>

Stored(c) == c \in Prior \/ \E i \in DOMAIN resumes : Content[resumes[i].file] = c

\* get_by_file_hash_global, then whether its candidate is in the campaign.
LookUp(w) ==
    /\ run[w].pc = "parse"
    /\ file[Entry(w)].object
    /\ WorkerGo(w, IF ~Stored(Content[Entry(w)]) THEN "stages"
                   ELSE IF Person[Entry(w)] \in members THEN "known" ELSE "link")
    /\ UNCHANGED <<job, file, resumes, members, scored, dead, open, queue, ext, req, faults>>

CountDuplicate(w, status) ==
    /\ FileStatusIs(Entry(w), status)
    /\ job' = [job EXCEPT !.duplicate = @ + 1]

KnownDuplicate(w) ==
    /\ run[w].pc = "known"
    /\ CountDuplicate(w, "PROCESSED")
    /\ WorkerCounted(w, "duplicate")
    /\ UNCHANGED <<resumes, members, scored, dead, open, queue, ext, req, faults>>

\* create_campaign_candidate, under the campaign's row lock: member already, closed, or added.
Enrolled(w) == Person[Entry(w)] \in members

LinkDuplicate(w) ==
    /\ run[w].pc = "link" /\ ~Enrolled(w) /\ open
    /\ members' = members \cup {Person[Entry(w)]}
    /\ CountDuplicate(w, "PROCESSED")
    /\ WorkerCounted(w, "duplicate")
    /\ UNCHANGED <<resumes, scored, dead, open, queue, ext, req, faults>>

RefuseLink(w) ==
    /\ run[w].pc \in {"link", "parsed"}
    /\ Enrolled(w) \/ ~open
    /\ WorkerGo(w, IF Enrolled(w) THEN "conflict" ELSE "refused")
    /\ UNCHANGED <<job, file, resumes, members, scored, dead, open, queue, ext, req, faults>>

\* "already exists in this campaign": the file is FAILED, but counted as a duplicate.
CountConflict(w) ==
    /\ run[w].pc = "conflict"
    /\ CountDuplicate(w, "FAILED")
    /\ WorkerCounted(w, "failed")
    /\ UNCHANGED <<resumes, members, scored, dead, open, queue, ext, req, faults>>

StoreResume(w) ==
    /\ run[w].pc = "stages"
    /\ resumes' = Append(resumes, [file |-> Entry(w), parse |-> "PENDING"])
    /\ run' = [run EXCEPT ![w] = [@ EXCEPT !.pc = "stored", !.resume = Len(resumes) + 1]]
    /\ UNCHANGED <<job, file, members, scored, dead, open, queue, ext, req, faults>>

Persist(w) ==
    /\ run[w].pc = "stored"
    /\ resumes' = [resumes EXCEPT ![run[w].resume].parse = "PARSED"]
    /\ WorkerGo(w, "parsed")
    /\ UNCHANGED <<job, file, members, scored, dead, open, queue, ext, req, faults>>

\* The campaign_candidate, PROCESSED and the counter are one commit.
CountProcessed(w) ==
    /\ run[w].pc = "parsed" /\ ~Enrolled(w) /\ open
    /\ members' = members \cup {Person[Entry(w)]}
    /\ FileStatusIs(Entry(w), "PROCESSED")
    /\ job' = [job EXCEPT !.processed = @ + 1]
    /\ WorkerCounted(w, "processed")
    /\ UNCHANGED <<resumes, scored, dead, open, queue, ext, req, faults>>

StageFails(w) ==
    /\ run[w].pc \in {"stages", "stored"}
    /\ WorkerGo(w, "failed")
    /\ UNCHANGED <<job, file, resumes, members, scored, dead, open, queue, ext, req, faults>>

\* RetryDriver.handle_failure: PERMANENT, or the last attempt.
DeadLetter(w) ==
    /\ run[w].pc = "failed"
    /\ dead' = dead \cup {<<Entry(w), run[w].msg.gen>>}
    /\ WorkerGo(w, "giveup")
    /\ UNCHANGED <<job, file, resumes, members, scored, open, queue, ext, req, faults>>

Retry(w) ==
    /\ run[w].pc = "failed"
    /\ run[w].msg.try < FileAttempts
    /\ Enter("retry")
    /\ WorkerGo(w, "retry")
    /\ UNCHANGED <<job, file, resumes, members, scored, dead, open, queue, ext, req>>

PublishRetry(w) ==
    /\ run[w].pc = "retry"
    /\ TryPublish([run[w].msg EXCEPT !.try = @ + 1])
    /\ WorkerGo(w, "ack")
    /\ UNCHANGED <<job, file, resumes, members, scored, dead, open, ext, req>>

\* Both handlers: roll back, then mark the resume of this run, if it got that far; a
\* failure to do so is only logged.
MarkParseFailed(w) ==
    /\ run[w].pc = "giveup"
    /\ \/ /\ resumes' = IF run[w].resume = 0 THEN resumes
                        ELSE [resumes EXCEPT ![run[w].resume].parse = "FAILED"]
          /\ UNCHANGED faults
       \/ Spend("db") /\ run[w].resume # 0 /\ UNCHANGED resumes
    /\ WorkerGo(w, "fail")
    /\ UNCHANGED <<job, file, members, scored, dead, open, queue, ext, req>>

CountFailed(w) ==
    /\ run[w].pc \in {"fail", "refused"}
    /\ FileStatusIs(Entry(w), "FAILED")
    /\ job' = [job EXCEPT !.failed = @ + 1]
    /\ WorkerCounted(w, "failed")
    /\ UNCHANGED <<resumes, members, scored, dead, open, queue, ext, req, faults>>

Resolved == job.processed + job.failed + job.duplicate

\* Mutant: duplicates are forgotten in the sum.
AllResolved_NoDuplicates == job.processed + job.failed >= job.total

\* Mutant: the job is closed by the last but one file.
AllResolved_OffByOne == Resolved + 1 >= job.total

AllResolved == Resolved >= job.total

Verdict == IF job.failed = 0 THEN "COMPLETED"
           ELSE IF job.processed > 0 \/ job.duplicate > 0 THEN "PARTIAL_FAILURE"
           ELSE "FAILED"

\* _maybe_finalize_job: read and decide in one step, write in the next.
FinalizeRead(w) ==
    /\ run[w].pc = "counted"
    /\ IF job.status = "PROCESSING" /\ job.total # 0 /\ AllResolved
       THEN run' = [run EXCEPT ![w] = [@ EXCEPT !.pc = "closing", !.verdict = Verdict]]
       ELSE WorkerGo(w, "mark")
    /\ UNCHANGED <<job, file, resumes, members, scored, dead, open, queue, ext, req, faults>>

FinalizeCommit(w) ==
    /\ run[w].pc = "closing"
    /\ JobStatusIs(run[w].verdict)
    /\ WorkerGo(w, "mark")
    /\ UNCHANGED <<file, resumes, members, scored, dead, open, queue, ext, req, faults>>

MarkDone(w) ==
    /\ run[w].pc = "mark"
    /\ WorkerGo(w, IF run[w].outcome = "processed" THEN "followup" ELSE "ack")
    /\ UNCHANGED <<job, file, resumes, members, scored, dead, open, queue, ext, req, faults>>

\* Embedding and deterministic scoring of the new resume are queued; failures are logged.
FollowUp(w) ==
    /\ run[w].pc = "followup"
    /\ WorkerGo(w, "ack")
    /\ \/ scored' = scored \cup {run[w].resume} /\ UNCHANGED faults
       \/ Spend("outage") /\ UNCHANGED scored
    /\ UNCHANGED <<job, file, resumes, members, dead, open, queue, ext, req>>

\* A commit fails.  In the body the generic handler takes over, whatever was committed
\* before; before the job is loaded, or in a handler, nothing more is written and the
\* message is acked.
DbFails(w) ==
    /\ Spend("db")
    /\ \/ /\ run[w].pc \in {"known", "link", "parsed", "counted", "closing", "mark"}
          /\ run[w].outcome # "failed"
          /\ WorkerGo(w, "giveup")
       \/ /\ \/ run[w].pc \in {"claim", "failed", "fail", "conflict", "refused"}
             \/ run[w].pc \in {"counted", "closing", "mark"} /\ run[w].outcome = "failed"
          /\ WorkerGo(w, "ack")
    /\ UNCHANGED <<job, file, resumes, members, scored, dead, open, queue, ext, req>>

WorkerStep(w) ==
    \/ Claim(w) \/ Unreadable(w) \/ LookUp(w) \/ KnownDuplicate(w) \/ LinkDuplicate(w)
    \/ RefuseLink(w) \/ CountConflict(w) \/ StoreResume(w) \/ Persist(w) \/ CountProcessed(w)
    \/ StageFails(w) \/ DeadLetter(w) \/ Retry(w) \/ PublishRetry(w) \/ MarkParseFailed(w)
    \/ CountFailed(w) \/ FinalizeRead(w) \/ FinalizeCommit(w) \/ MarkDone(w) \/ FollowUp(w) \/ Ack(w)

(***************************************************************************)
(* cancel_job and replay_failed_file.                                      *)
(***************************************************************************)
CancelRead(c) ==
    /\ req[c].pc = "idle"
    /\ job.status \notin Terminal \cup {"NONE"}
    /\ Enter("cancel")
    /\ req' = [req EXCEPT ![c].pc = "cancel"]
    /\ UNCHANGED <<job, file, resumes, members, scored, dead, open, queue, run, ext>>

CancelCommit(c) ==
    /\ req[c].pc = "cancel"
    /\ file' = [f \in Files |-> IF file[f].status = "QUEUED"
                                THEN [file[f] EXCEPT !.status = "CANCELLED"] ELSE file[f]]
    /\ JobStatusIs("CANCELLED")
    /\ req' = [req EXCEPT ![c].pc = "done"]
    /\ UNCHANGED <<resumes, members, scored, dead, open, queue, run, ext, faults>>

ReplayRead(c) ==
    /\ req[c].pc = "idle"
    /\ job.status \notin NonReplayable
    /\ open
    /\ Enter("replay")
    /\ \E f \in Files :
          /\ file[f].status = "FAILED" /\ file[f].gen < MaxReplays
          /\ <<f, file[f].gen>> \in dead
          /\ req' = [req EXCEPT ![c] = [pc |-> "replay", msg |-> FirstTask(f),
                                        reopen |-> job.status # "PROCESSING"]]
    /\ UNCHANGED <<job, file, resumes, members, scored, dead, open, queue, run, ext>>

\* Mutant: the file is requeued whatever its status.
ReplayCommit_NoRecheck(c) ==
    LET f == req[c].msg.file IN
    /\ req[c].pc = "replay"
    /\ file[f].gen < MaxReplays
    /\ file' = [file EXCEPT ![f].status = "QUEUED", ![f].gen = @ + 1]
    /\ job' = [job EXCEPT !.failed = @ - 1, !.status = IF req[c].reopen THEN "PROCESSING" ELSE @]
    /\ req' = [req EXCEPT ![c].pc = "send", ![c].msg.gen = file[f].gen + 1]
    /\ UNCHANGED <<resumes, members, scored, dead, open, queue, run, ext, faults>>

\* requeue_for_replay is a compare-and-set on FAILED; the job is reopened on the status
\* read before it.
ReplayCommit(c) ==
    LET f == req[c].msg.file IN
    /\ req[c].pc = "replay"
    /\ file[f].status = "FAILED"
    /\ file[f].gen < MaxReplays
    /\ file' = [file EXCEPT ![f].status = "QUEUED", ![f].gen = @ + 1]
    /\ job' = [job EXCEPT !.failed = @ - 1, !.status = IF req[c].reopen THEN "PROCESSING" ELSE @]
    /\ req' = [req EXCEPT ![c].pc = "send", ![c].msg.gen = file[f].gen + 1]
    /\ UNCHANGED <<resumes, members, scored, dead, open, queue, run, ext, faults>>

ReplayRefused(c) ==
    /\ req[c].pc = "replay"
    /\ file[req[c].msg.file].status # "FAILED"
    /\ req' = [req EXCEPT ![c].pc = "done"]
    /\ UNCHANGED <<job, file, resumes, members, scored, dead, open, queue, run, ext, faults>>

ReplaySend(c) ==
    /\ req[c].pc = "send"
    /\ TryPublish(req[c].msg)
    /\ req' = [req EXCEPT ![c].pc = "done"]
    /\ UNCHANGED <<job, file, resumes, members, scored, dead, open, run, ext>>

\* What a request does once it has begun.
RequestStep(c) == CancelCommit(c) \/ ReplayCommit(c) \/ ReplayRefused(c) \/ ReplaySend(c)

\* The campaign is paused, resumed or closed by its owner or the scheduler.
CampaignChanges ==
    /\ Spend("pause")
    /\ open' = ~open
    /\ UNCHANGED <<job, file, resumes, members, scored, dead, queue, run, ext, req>>

Next ==
    \/ UploadZip \/ ExtractStep \/ DispatchFails \/ ExtractCrash \/ CampaignChanges
    \/ \E w \in Workers : \/ Receive(w) \/ WorkerStep(w) \/ DbFails(w)
                          \/ WorkerCrash(w) \/ SlowRedelivery(w)
    \/ \E c \in Clerks : CancelRead(c) \/ ReplayRead(c) \/ RequestStep(c)

Spec == Init /\ [][Next]_vars

\* Tasks that were received run on, messages are delivered, begun requests are finished;
\* uploads, cancels, replays and faults may or may not happen.
Fairness ==
    /\ WF_vars(ExtractStep)
    /\ \A w \in Workers : WF_vars(Receive(w) \/ WorkerStep(w))
    /\ \A c \in Clerks : WF_vars(RequestStep(c))

FairSpec == Spec /\ Fairness

---------------------------------------------------------------------------
(***************************************************************************)
(* Properties.                                                             *)
(***************************************************************************)
Working(w) == run[w].pc \notin {"idle", "claim", "ack"} /\ run[w].outcome = "none"
Settled(f) == file[f].status \in {"PROCESSED", "FAILED"}

\* No second run of a file can be alive or come back: none is delivered twice while it
\* executes, and a crash is not followed by messages of the same file's later tasks.
Exclusive == /\ "slow" \notin Happened
             /\ "crash" \in Happened => Happened \cap {"retry", "replay"} = {}

(* As long as runs of a file exclude each other and no commit fails, the   *)
(* counters of the job row count exactly the files that settled: status    *)
(* and counter are one commit, a replay takes its failure back, and no     *)
(* file is settled twice (bulk_upload_tasks.py:467, :632, :692, :707;      *)
(* bulk_upload_service.py:271-277).                                        *)
CountersExact ==
    Exclusive /\ "db" \notin Happened => Resolved = Cardinality({f \in Files : Settled(f)})

(* Retries, concurrent replays and a refused publish never give a file a   *)
(* second run while one has claimed it and not settled it ("a RUNNING file *)
(* reaching this method can only be this same task's own earlier attempt", *)
(* try_start_processing; requeue_for_replay's compare-and-set).            *)
OneRunPerFile ==
    Exclusive => \A v, w \in Workers : v # w /\ Working(v) /\ Working(w) => Entry(v) # Entry(w)

(* A job that _maybe_finalize_job closed has no file left to work on:      *)
(* COMPLETED and PARTIAL_FAILURE mean every file resolved, unless one of   *)
(* them was replayed.  The decision trusts the counters, so it is as good  *)
(* as they are: a file two runs settled, or one counted again after a      *)
(* failed commit, stands for another that still runs.                      *)
ClosedMeansResolved ==
    (/\ job.status \in {"COMPLETED", "PARTIAL_FAILURE"}
     /\ Exclusive /\ Happened \cap {"db", "replay"} = {}) =>
        \A f \in Files : file[f].status \notin Unresolved

(* A file nobody works on any more leaves no resume behind at              *)
(* parse_status PENDING ("instead of a visible terminal state").           *)
NoPendingResume ==
    \A i \in DOMAIN resumes :
        Settled(resumes[i].file) /\ resumes[i].parse = "PENDING" =>
            \E w \in Workers : run[w].resume = i

(* A file auto-skipped as an exact duplicate never had a resumes row of    *)
(* its own ("this job_file's own storage_path was never given a Resume     *)
(* row, since matched_resume's is reused instead").                        *)
DuplicateHasNoResume ==
    \A w \in Workers : run[w].outcome = "duplicate" =>
        \A i \in DOMAIN resumes : resumes[i].file # Entry(w)

(* Cancelling skips the queued files for good: a CANCELLED file is never   *)
(* picked up, counted or replayed, whatever is redelivered or fails.       *)
CancelledFileStays ==
    [][\A f \in Files : file[f].status = "CANCELLED" => file'[f].status = "CANCELLED"]_vars

(* Cancelling leaves running work alone: a file leaves RUNNING only by a   *)
(* run that settles it.                                                    *)
RunningFinishes ==
    [][\A f \in Files : file[f].status = "RUNNING" /\ file'[f].status # "RUNNING" =>
          file'[f].status \in {"PROCESSED", "FAILED"}]_vars

(* A file that succeeded stays so: nothing after its commit (finalising,   *)
(* queueing embedding and scoring) takes PROCESSED back ("a failure here   *)
(* must never affect this file's already-recorded PROCESSED outcome").     *)
ProcessedStays ==
    [][\A f \in Files :
          (/\ file[f].status = "PROCESSED"
           /\ Exclusive /\ "db" \notin Happened) => file'[f].status = "PROCESSED"]_vars

(* Every accepted upload reaches a terminal status, however the files      *)
(* fail, are retried or turn out to be duplicates.                         *)
JobSettles == (job.status = "PENDING") ~> (job.status \in Terminal)

(* A cancelled job stays settled: "the job moves to CANCELLED", from any   *)
(* status that may be cancelled.                                           *)
CancelSettles ==
    \A c \in Clerks : (req[c].pc = "cancel") ~> [](job.status \in Terminal)

(* A resume that was parsed for a PROCESSED file gets its scoring queued   *)
(* ("otherwise its campaign_candidate is never scored and never leaves     *)
(* UPLOADED").                                                             *)
ProcessedIsScored ==
    \A f \in Files : (file[f].status = "PROCESSED") ~>
        \A i \in DOMAIN resumes :
            resumes[i].file = f /\ resumes[i].parse = "PARSED" => i \in scored
===========================================================================
