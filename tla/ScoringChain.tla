---------------------------- MODULE ScoringChain ----------------------------
(***************************************************************************)
(* The screening of ONE campaign candidate: the Celery tasks that embed    *)
(* the resume and score it deterministically, semantically and with the    *)
(* LLM, the composite score, and the requests that restart parts of the    *)
(* chain.  Every task owns a celery_task_log row, and every enqueue tests  *)
(* the rows, commits a new one and only then publishes its message.        *)
(* One step per commit, broker call or long computation.                   *)
(***************************************************************************)
EXTENDS Integers, FiniteSets

CONSTANTS
    Workers,     \* Celery worker slots
    Clerks,      \* HR requests and the Beat scan
    MaxTasks,    \* bound: task ids handed out
    MaxAttempts, \* max_attempts of the scoring retry policies
    MaxJdWaits,  \* _JD_EMBEDDING_MAX_RETRIES
    Scenarios    \* bound: the verdicts and the JD's embedding, with the events of a behaviour

EventKinds == {"crash", "slow", "lost", "fail", "close", "rescan",
               "reject", "override", "rescore", "resubmit", "weights"}

\* Init hands out two task ids.
ASSUME BoundsAssumption == MaxTasks \in Nat \ {0, 1} /\ MaxAttempts \in Nat /\ MaxJdWaits \in Nat
ASSUME ScenariosAssumption ==
    Scenarios \subseteq [jd : {"none", "same", "other"}, det : {"pass", "fail"},
                         sem : {"pass", "fail"}, may : [EventKinds -> Nat]]
ASSUME ProcsAssumption == Workers \cap Clerks = {}

VARIABLES
    cand,    \* the campaign_candidates row, with its AI evaluation row
    env,     \* what the chain reads: campaign, embeddings, weights, the true verdicts
    task,    \* celery_task_log: one entry for each task id
    key,     \* the row that holds the permanent idempotency key of a task type
    dead,    \* task ids with a dead_letter_queue row
    lost,    \* task ids whose first message never reached the broker
    queue,   \* messages waiting in the broker
    run,     \* control state of the workers and the clerks
    events   \* how many events of each kind may still happen

vars == <<cand, env, task, key, dead, lost, queue, run, events>>

---------------------------------------------------------------------------
Procs == Workers \cup Clerks
TaskId == 1..MaxTasks
Keyed == {"EMBED", "SEM"}
Kind == Keyed \cup {"DET", "AI", "COMP"}
Live == {"QUEUED", "RUNNING"}
Status == Live \cup {"NONE", "RETRY", "SUCCESS", "FAILURE", "DEAD"}
Verdict == {"REJECT", "SHORTLIST", "HOLD"}
MaxTry == IF MaxAttempts > MaxJdWaits THEN MaxAttempts ELSE MaxJdWaits + 1
Message == [id : TaskId, kind : Kind, try : 1..MaxTry]
Inputs == [det : {"none", "pass", "fail"}, sem : BOOLEAN, ai : Verdict \cup {"none"}, weights : Nat]
NoInputs == [det |-> "none", sem |-> FALSE, ai |-> "none", weights |-> 0]

Stage == {"UPLOADED", "SCREENING", "REJECTED", "SHORTLISTED", "HOLD"}
Result == {"none", "pass", "fail"}

CandRow == [stage : Stage, det : Result, sem : BOOLEAN, breakdown : Result,
            ai : Verdict \cup {"none"}, review : {"PENDING", "MANUAL_REVIEW", "SKIPPED", "COMPLETED"},
            comp : Inputs, attempt : Nat, resume : Nat]
Surroundings == [open : BOOLEAN, resume : BOOLEAN, jd : {"none", "same", "other"}, weights : Nat,
                 det : {"pass", "fail"}, sem : {"pass", "fail"}]
TaskRow == [kind : Kind, status : Status]
Control == [pc : {"idle", "run", "llm", "compute", "mark", "check", "create", "reset", "send"},
            msg : Message, want : Kind \cup {"none"}, new : 0..MaxTasks,
            stage : Stage, inputs : Inputs, attempt : Nat]

(* What the rows, the messages and the control records hold. *)
TypeOK ==
    /\ cand \in CandRow
    /\ env \in Surroundings
    /\ task \in [TaskId -> TaskRow]
    /\ key \in [Keyed -> 0..MaxTasks]
    /\ dead \subseteq TaskId /\ lost \subseteq TaskId
    /\ queue \subseteq Message
    /\ run \in [Procs -> Control]
    /\ events \in [EventKinds -> Nat]

First(id, kind) == [id |-> id, kind |-> kind, try |-> 1]
Idle == [pc |-> "idle", msg |-> First(1, "DET"), want |-> "none", new |-> 0,
         stage |-> "UPLOADED", inputs |-> NoInputs, attempt |-> 0]

\* The parse has stored the resume and queued its embedding and its scoring.
Init ==
    /\ cand = [stage |-> "UPLOADED", det |-> "none", sem |-> FALSE, breakdown |-> "none",
               ai |-> "none", review |-> "PENDING", comp |-> NoInputs, attempt |-> 0, resume |-> 1]
    /\ \E s \in Scenarios :
          /\ env = [open |-> TRUE, resume |-> FALSE, jd |-> s.jd, weights |-> 0,
                    det |-> s.det, sem |-> s.sem]
          /\ events = s.may
    /\ task = [i \in TaskId |-> [kind |-> IF i = 2 THEN "EMBED" ELSE "DET",
                                 status |-> IF i <= 2 THEN "QUEUED" ELSE "NONE"]]
    /\ key = [k \in Keyed |-> IF k = "EMBED" THEN 2 ELSE 0]
    /\ dead = {} /\ lost = {}
    /\ queue = {First(1, "DET"), First(2, "EMBED")}
    /\ run = [p \in Procs |-> Idle]

---------------------------------------------------------------------------
Spend(kind) == events[kind] > 0 /\ events' = [events EXCEPT ![kind] = @ - 1]

\* The ids whose row was ever written, or whose message was ever published.
Fresh == {i \in TaskId : /\ task[i].status = "NONE" /\ i \notin lost
                         /\ \A m \in queue : m.id # i
                         /\ \A p \in Procs : run[p].msg.id # i /\ run[p].new # i}
NewId == CHOOSE i \in Fresh : \A j \in Fresh : i <= j

Go(p, pc) == run' = [run EXCEPT ![p].pc = pc]
Job(w) == run[w].msg
Row(w) == task[Job(w).id].status
At(w, kind) == run[w].pc = "run" /\ Job(w).kind = kind /\ env.open
SetRow(id, status) == task' = [task EXCEPT ![id].status = status]
\* A layer is done: its follow-up is published before or after the row is marked.
Follow(w, kind) ==
    run' = [run EXCEPT ![w] = [@ EXCEPT !.want = kind,
                !.pc = IF Job(w).kind \in {"SEM", "EMBED"} /\ kind # "none" THEN "check" ELSE "mark"]]

(***************************************************************************)
(* Delivery, retries, crashes.                                             *)
(***************************************************************************)
\* Only a SUCCESS row stops a delivery: a DEAD, cancelled or deleted one does not.
Start(w) ==
    /\ run[w].pc = "idle"
    /\ \E m \in queue :
        /\ queue' = queue \ {m}
        /\ IF task[m.id].status = "SUCCESS" THEN UNCHANGED <<task, run>>
           ELSE /\ task' = [task EXCEPT ![m.id] = [kind |-> m.kind, status |-> "RUNNING"]]
                /\ run' = [run EXCEPT ![w] = [Idle EXCEPT !.pc = "run", !.msg = m]]
    /\ UNCHANGED <<cand, env, key, dead, lost, events>>

ClosedSkip(w) ==
    /\ run[w].pc = "run" /\ Job(w).kind # "EMBED" /\ ~env.open
    /\ Go(w, "mark")
    /\ UNCHANGED <<cand, env, task, key, dead, lost, queue, events>>

\* mark_success of a row that a rescore has deleted raises: the follow-up is skipped.
Mark(w) ==
    /\ run[w].pc = "mark"
    /\ IF Row(w) = "NONE" THEN UNCHANGED task ELSE SetRow(Job(w).id, "SUCCESS")
    /\ IF Row(w) # "NONE" /\ Job(w).kind \in {"DET", "AI"} /\ run[w].want # "none"
       THEN Go(w, "check") ELSE run' = [run EXCEPT ![w] = Idle]
    /\ UNCHANGED <<cand, env, key, dead, lost, queue, events>>

Again(w) == queue' = queue \cup {[Job(w) EXCEPT !.try = @ + 1]}

\* An exception before the commit; the deterministic task has no retry.
Fail(w) ==
    /\ run[w].pc \in {"run", "llm", "compute"}
    /\ Spend("fail")
    /\ run' = [run EXCEPT ![w] = Idle]
    /\ \/ /\ Job(w).kind # "DET" /\ Row(w) # "NONE" /\ Job(w).try < MaxAttempts
          /\ SetRow(Job(w).id, "RETRY") /\ Again(w)
          /\ UNCHANGED <<dead, cand>>
       \/ /\ Job(w).kind # "DET" /\ Row(w) # "NONE"
          /\ SetRow(Job(w).id, "DEAD")
          /\ dead' = dead \cup {Job(w).id}
          /\ cand' = IF Job(w).kind = "EMBED" THEN [cand EXCEPT !.review = "MANUAL_REVIEW"] ELSE cand
          /\ UNCHANGED queue
       \/ /\ Job(w).kind = "DET"
          /\ SetRow(Job(w).id, "FAILURE")
          /\ UNCHANGED <<dead, cand, queue>>
       \/ /\ Row(w) = "NONE"
          /\ UNCHANGED <<task, dead, cand, queue>>
    /\ UNCHANGED <<env, key, lost>>

\* Mutant: the message is acknowledged when the worker receives it.
Crash_EarlyAck(w) ==
    /\ run[w].pc \notin {"idle", "send"}
    /\ Spend("crash")
    /\ run' = [run EXCEPT ![w] = Idle]
    /\ UNCHANGED <<cand, env, task, key, dead, lost, queue>>

\* acks_late: the message of a killed worker is delivered again.
Crash(w) ==
    /\ run[w].pc \notin {"idle", "send"}
    /\ Spend("crash")
    /\ queue' = queue \cup {Job(w)}
    /\ run' = [run EXCEPT ![w] = Idle]
    /\ UNCHANGED <<cand, env, task, key, dead, lost>>

\* visibility_timeout: a message held for too long is delivered to another worker as well.
Redeliver(w) ==
    /\ run[w].pc \notin {"idle", "send"}
    /\ Spend("slow")
    /\ queue' = queue \cup {Job(w)}
    /\ UNCHANGED <<cand, env, task, key, dead, lost, run>>

(***************************************************************************)
(* Enqueueing a task: test the rows, commit a row, publish.                *)
(***************************************************************************)
Enqueued(p) == run' = IF p \in Workers /\ Job(p).kind \in Keyed
                      THEN [run EXCEPT ![p] = [@ EXCEPT !.pc = "mark", !.want = "none", !.new = 0]]
                      ELSE [run EXCEPT ![p] = Idle]

\* _enqueue_ai_evaluation and _enqueue_composite_scoring
CheckUnkeyed(p) ==
    /\ run[p].pc = "check" /\ run[p].want \in {"AI", "COMP"}
    /\ IF \E i \in TaskId : task[i].kind = run[p].want /\ task[i].status \in Live
       THEN Enqueued(p) ELSE Go(p, "create")
    /\ UNCHANGED <<cand, env, task, key, dead, lost, queue, events>>

\* _enqueue_resume_embedding: any row with the key, whatever its status, is enough.
CheckEmbedding(p) ==
    /\ run[p].pc = "check" /\ run[p].want = "EMBED"
    /\ IF key["EMBED"] # 0 THEN Enqueued(p) ELSE Go(p, "create")
    /\ UNCHANGED <<cand, env, task, key, dead, lost, queue, events>>

\* Mutant: any row with the key counts, as it does for the embedding.
Settled_AnyRow == key["SEM"] # 0

\* The semantic row is on its way or done, so it is not queued again.
Settled == \E i \in {key["SEM"]} \cap TaskId : task[i].status \in Live \cup {"SUCCESS"}

\* _enqueue_semantic_scoring; without an embedding it falls back to queueing that.
CheckSemantic(p) ==
    /\ run[p].pc = "check" /\ run[p].want = "SEM"
    /\ \/ ~env.resume /\ run' = [run EXCEPT ![p].want = "EMBED"]
       \/ env.resume /\ key["SEM"] = 0 /\ Go(p, "create")
       \/ /\ env.resume /\ key["SEM"] # 0
          /\ IF Settled THEN Enqueued(p) ELSE Go(p, "reset")
    /\ UNCHANGED <<cand, env, task, key, dead, lost, queue, events>>

\* The unique index on the key decides between two creators.
Create(p) ==
    /\ run[p].pc = "create"
    /\ IF run[p].want \in Keyed /\ key[run[p].want] # 0
       THEN Go(p, "check") /\ UNCHANGED <<task, key>>
       ELSE /\ Fresh # {}
            /\ task' = [task EXCEPT ![NewId] = [kind |-> run[p].want, status |-> "QUEUED"]]
            /\ key' = IF run[p].want \in Keyed THEN [key EXCEPT ![run[p].want] = NewId] ELSE key
            /\ run' = [run EXCEPT ![p] = [@ EXCEPT !.pc = "send", !.new = NewId]]
    /\ UNCHANGED <<cand, env, dead, lost, queue, events>>

\* The row found by CheckSemantic gets a new task id: the old id has no row any more.
Reset(p) ==
    /\ run[p].pc = "reset" /\ Fresh # {}
    /\ IF key["SEM"] = 0 THEN Enqueued(p) /\ UNCHANGED <<task, key>>  \* deleted meanwhile
       ELSE /\ task' = [task EXCEPT ![key["SEM"]].status = "NONE",
                                    ![NewId] = [kind |-> "SEM", status |-> "QUEUED"]]
            /\ key' = [key EXCEPT !["SEM"] = NewId]
            /\ run' = [run EXCEPT ![p] = [@ EXCEPT !.pc = "send", !.new = NewId]]
    /\ UNCHANGED <<cand, env, dead, lost, queue, events>>

\* A failed apply_async is logged, and a crash here is never noticed: the row stays QUEUED.
Send(p) ==
    /\ run[p].pc = "send"
    /\ \/ /\ queue' = queue \cup {First(run[p].new, run[p].want)}
          /\ UNCHANGED <<lost, events>>
       \/ /\ Spend("lost")
          /\ lost' = lost \cup {run[p].new}
          /\ UNCHANGED queue
    /\ Enqueued(p)
    /\ UNCHANGED <<cand, env, task, key, dead>>

(***************************************************************************)
(* The layers.                                                             *)
(***************************************************************************)
\* generate_resume_embedding_task, then trigger_pending_semantic_scoring_for_resume
Embed(w) ==
    /\ run[w].pc = "run" /\ Job(w).kind = "EMBED"
    /\ env' = [env EXCEPT !.resume = TRUE]
    /\ Go(w, "compute")
    /\ UNCHANGED <<cand, task, key, dead, lost, queue, events>>

TriggerPending(w) ==
    /\ run[w].pc = "compute" /\ Job(w).kind = "EMBED"
    /\ Follow(w, IF cand.det = "pass" /\ cand.breakdown = "none" THEN "SEM" ELSE "none")
    /\ UNCHANGED <<cand, env, task, key, dead, lost, queue, events>>

Rejectable == {"SCREENING", "SHORTLISTED", "HOLD"}

\* transition_to_rejected and _cancel_downstream_ai_evaluation
Rejected(c) == [c EXCEPT !.stage = IF c.stage \in Rejectable THEN "REJECTED" ELSE @,
                         !.review = "SKIPPED"]

CancelAI == task' = [i \in TaskId |-> IF task[i] = [kind |-> "AI", status |-> "QUEUED"]
                                      THEN [task[i] EXCEPT !.status = "DEAD"] ELSE task[i]]

ScoreDeterministic(w) ==
    LET seen == [cand EXCEPT !.det = env.det, !.stage = IF @ = "UPLOADED" THEN "SCREENING" ELSE @]
    IN  /\ At(w, "DET")
        /\ \/ /\ env.det = "pass"
              /\ cand' = seen
              /\ Follow(w, "SEM")
              /\ UNCHANGED task
           \/ /\ env.det = "fail"
              /\ cand' = Rejected(seen)
              /\ Follow(w, IF seen.stage \in Rejectable THEN "COMP" ELSE "none")
              /\ CancelAI
        /\ UNCHANGED <<env, key, dead, lost, queue, events>>

\* What calculate_semantic_score_task asks before it scores.
SkipSemantic(w) ==
    /\ At(w, "SEM") /\ cand.det # "pass"
    /\ Go(w, "mark")
    /\ UNCHANGED <<cand, env, task, key, dead, lost, queue, events>>

MissingJd == env.resume /\ env.jd = "none"
WaitForJd(w) ==
    /\ At(w, "SEM") /\ cand.det = "pass" /\ MissingJd
    /\ Job(w).try <= MaxJdWaits /\ Row(w) # "NONE"
    /\ SetRow(Job(w).id, "RETRY") /\ Again(w)
    /\ run' = [run EXCEPT ![w] = Idle]
    /\ UNCHANGED <<cand, env, key, dead, lost, events>>

\* No resume embedding, no JD embedding in time, or embeddings of two models.
ReviewManually(w) ==
    /\ At(w, "SEM") /\ cand.det = "pass"
    /\ ~env.resume \/ env.jd = "other" \/ (MissingJd /\ Job(w).try > MaxJdWaits)
    /\ cand' = [cand EXCEPT !.review = "MANUAL_REVIEW", !.sem = ~env.resume /\ @]
    /\ Go(w, "mark")
    /\ UNCHANGED <<env, task, key, dead, lost, queue, events>>

ScoreSemantic(w) ==
    LET seen == [cand EXCEPT !.sem = TRUE, !.breakdown = env.sem]
    IN  /\ At(w, "SEM") /\ cand.det = "pass" /\ env.resume /\ env.jd = "same"
        /\ \/ /\ env.sem = "pass"
              /\ cand' = seen
              /\ Follow(w, "AI")
              /\ UNCHANGED task
           \/ /\ env.sem = "fail"
              /\ cand' = Rejected(seen)
              /\ Follow(w, IF cand.stage \in Rejectable THEN "COMP" ELSE "none")
              /\ CancelAI
        /\ UNCHANGED <<env, key, dead, lost, queue, events>>

\* Mutant: the task trusts that it was only queued after a semantic pass.
EvaluateAI_Trusting(w) ==
    /\ At(w, "AI")
    /\ IF cand.stage # "REJECTED"
       THEN run' = [run EXCEPT ![w] = [@ EXCEPT !.pc = "llm", !.stage = cand.stage, !.attempt = cand.attempt]]
       ELSE Go(w, "mark")
    /\ UNCHANGED <<cand, env, task, key, dead, lost, queue, events>>

\* calculate_ai_evaluation_task: the tests, and the LLM call it then makes.
EvaluateAI(w) ==
    /\ At(w, "AI")
    /\ IF cand.stage # "REJECTED" /\ cand.breakdown = "pass"
       THEN run' = [run EXCEPT ![w] = [@ EXCEPT !.pc = "llm", !.stage = cand.stage, !.attempt = cand.attempt]]
       ELSE Go(w, "mark")
    /\ UNCHANGED <<cand, env, task, key, dead, lost, queue, events>>

\* The verdict moves the stage the task loaded before the call.
StoreVerdict(w) ==
    /\ run[w].pc = "llm"
    /\ \E v \in Verdict :
        LET from == run[w].stage
            to == IF v = "REJECT" /\ from \in Rejectable THEN "REJECTED"
                  ELSE IF v = "SHORTLIST" /\ from = "SCREENING" THEN "SHORTLISTED"
                  ELSE IF v = "HOLD" /\ from = "SCREENING" THEN "HOLD" ELSE cand.stage
        IN  /\ cand' = [cand EXCEPT !.ai = v, !.review = "COMPLETED", !.stage = to]
            /\ Follow(w, IF v = "REJECT" /\ from \notin Rejectable THEN "none" ELSE "COMP")
    /\ UNCHANGED <<env, task, key, dead, lost, queue, events>>

\* calculate_composite_score: the scores and weights it reads, the score it writes.
ReadInputs(w) ==
    /\ At(w, "COMP")
    /\ run' = [run EXCEPT ![w] = [@ EXCEPT !.pc = "compute",
                                           !.inputs = [det |-> cand.det, sem |-> cand.sem,
                                                       ai |-> cand.ai, weights |-> env.weights]]]
    /\ UNCHANGED <<cand, env, task, key, dead, lost, queue, events>>

StoreComposite(w) ==
    /\ run[w].pc = "compute" /\ Job(w).kind = "COMP"
    /\ cand' = [cand EXCEPT !.comp = run[w].inputs]
    /\ Go(w, "mark")
    /\ UNCHANGED <<env, task, key, dead, lost, queue, events>>

(***************************************************************************)
(* What restarts the chain, and what its inputs do.                        *)
(***************************************************************************)
Ask(c, kind) == run' = [run EXCEPT ![c] = [@ EXCEPT !.pc = "check", !.want = kind]]
Pending == cand.det = "pass" /\ ~cand.sem /\ env.resume

\* recover_pending_semantic_scores; a scan that meets a row waiting for its retry resets it.
Scan(c) ==
    /\ run[c].pc = "idle" /\ Pending
    /\ ~Settled  \* otherwise the enqueue returns at once
    /\ IF \E i \in TaskId : i = key["SEM"] /\ task[i].status = "RETRY"
       THEN Spend("rescan") ELSE UNCHANGED events
    /\ Ask(c, "SEM")
    /\ UNCHANGED <<cand, env, task, key, dead, lost, queue>>

\* A recruiter's own rejection; the stages themselves are the subject of CandidateStages.
Reject(c) ==
    /\ run[c].pc = "idle" /\ cand.stage \in Rejectable
    /\ Spend("reject")
    /\ cand' = [cand EXCEPT !.stage = "REJECTED"]
    /\ UNCHANGED <<env, task, key, dead, lost, queue, run>>

\* hr_override, then _queue_post_override_evaluation
Override(c) ==
    /\ run[c].pc = "idle" /\ cand.stage = "REJECTED"
    /\ Spend("override")
    /\ cand' = [cand EXCEPT !.stage = "SCREENING"]
    /\ Ask(c, IF cand.sem THEN "AI" ELSE "SEM")
    /\ UNCHANGED <<env, task, key, dead, lost, queue>>

Weights(c) ==
    /\ run[c].pc = "idle" /\ env.open
    /\ Spend("weights")
    /\ env' = [env EXCEPT !.weights = @ + 1]
    /\ Ask(c, "COMP")
    /\ UNCHANGED <<cand, task, key, dead, lost, queue>>

\* A fresh deterministic task: the worker writes its row.
Dispatch(id) == \/ queue' = queue \cup {First(id, "DET")} /\ UNCHANGED lost
                \/ lost' = lost \cup {id} /\ events["lost"] > 0 /\ UNCHANGED queue

Stale(i) == \/ task[i].kind = "SEM" /\ task[i].status \in Live \cup {"SUCCESS"}
            \/ task[i].kind = "AI" /\ task[i].status \in Live

\* The move back to SCREENING and enqueue_manual_rescore
Rescore(c) ==
    /\ run[c].pc = "idle" /\ env.open /\ Fresh # {}
    /\ cand.stage = "REJECTED"
    /\ Spend("rescore")
    /\ cand' = [cand EXCEPT !.stage = "SCREENING", !.det = "none", !.sem = FALSE, !.breakdown = "none",
                            !.ai = "none", !.review = "PENDING", !.comp = NoInputs, !.attempt = @ + 1]
    /\ task' = [i \in TaskId |-> IF Stale(i) THEN [task[i] EXCEPT !.status = "NONE"] ELSE task[i]]
    /\ key' = IF key["SEM"] # 0 /\ Stale(key["SEM"]) THEN [key EXCEPT !["SEM"] = 0] ELSE key
    /\ Dispatch(NewId)
    /\ UNCHANGED <<env, dead, run>>

\* update_resume_for_resubmission, and the parse of the new resume that follows it;
\* the semantic breakdown and the semantic row survive.
Resubmit(c) ==
    /\ run[c].pc = "idle" /\ env.open
    /\ cand.stage \in {"SCREENING", "SHORTLISTED", "HOLD"}
    /\ Cardinality(Fresh) >= 2
    /\ Spend("resubmit")
    /\ cand' = [cand EXCEPT !.stage = "UPLOADED", !.det = "none", !.sem = FALSE,
                            !.ai = "none", !.review = "PENDING", !.comp = NoInputs,
                            !.attempt = @ + 1, !.resume = @ + 1]
    /\ \E d, s \in {"pass", "fail"} : env' = [env EXCEPT !.resume = FALSE, !.det = d, !.sem = s]
    /\ LET e == CHOOSE i \in Fresh \ {NewId} : TRUE
       IN  /\ task' = [task EXCEPT ![NewId] = [kind |-> "DET", status |-> "QUEUED"],
                                   ![e] = [kind |-> "EMBED", status |-> "QUEUED"]]
           /\ key' = [key EXCEPT !["EMBED"] = e]
           /\ queue' = queue \cup {First(NewId, "DET"), First(e, "EMBED")}
    /\ UNCHANGED <<dead, lost, run>>

Close ==
    /\ env.open /\ Spend("close")
    /\ env' = [env EXCEPT !.open = FALSE]
    /\ UNCHANGED <<cand, task, key, dead, lost, queue, run>>

JdEmbedded ==
    /\ env.jd = "none"
    /\ env' = [env EXCEPT !.jd = "same"]
    /\ UNCHANGED <<cand, task, key, dead, lost, queue, run, events>>

---------------------------------------------------------------------------
Enqueue(p) == CheckUnkeyed(p) \/ CheckEmbedding(p) \/ CheckSemantic(p) \/ Create(p) \/ Reset(p) \/ Send(p)
Layer(w) == \/ Embed(w) \/ TriggerPending(w) \/ ScoreDeterministic(w)
            \/ SkipSemantic(w) \/ WaitForJd(w) \/ ReviewManually(w) \/ ScoreSemantic(w)
            \/ EvaluateAI(w) \/ StoreVerdict(w) \/ ReadInputs(w) \/ StoreComposite(w)
Work(w) == Start(w) \/ ClosedSkip(w) \/ Mark(w) \/ Layer(w)

Next == \/ \E w \in Workers : Work(w) \/ Fail(w) \/ Crash(w) \/ Redeliver(w)
        \/ \E p \in Procs : Enqueue(p)
        \/ \E c \in Clerks : Scan(c) \/ Reject(c) \/ Override(c) \/ Weights(c) \/ Rescore(c) \/ Resubmit(c)
        \/ Close \/ JdEmbedded

\* Workers and Beat keep running; requests, faults and the JD's embedding need not happen.
Fairness == /\ \A w \in Workers : WF_vars(Work(w))
            /\ \A p \in Procs : WF_vars(Enqueue(p))
            /\ \A c \in Clerks : WF_vars(Scan(c))

Spec == Init /\ [][Next]_vars
FairSpec == Spec /\ Fairness
---------------------------------------------------------------------------
(* A row that says a task is queued, running or waiting for its retry is   *)
(* true: its message waits in the broker, a worker holds it, or its sender *)
(* is about to publish it.  The one way to an orphaned row, which blocks   *)
(* every later enqueue of its layer, is a publish that never happened.     *)
Backed(i) == \/ \E m \in queue : m.id = i
             \/ \E w \in Workers : run[w].pc # "idle" /\ run[w].msg.id = i
             \/ \E p \in Procs : run[p].pc = "send" /\ run[p].new = i
LiveRowIsBacked ==
    \A i \in TaskId : task[i].status \in Live \cup {"RETRY"} => Backed(i) \/ i \in lost

(* The LLM's verdict is stored only for a candidate whose earlier layers   *)
(* passed, whichever of the chain, an override, a redelivery or a rescore  *)
(* queued the task.  A verdict that a rescore overtook is not judged here, *)
(* nor is a resubmitted resume, whose old semantic breakdown survives.     *)
VerdictNeedsPass ==
    [][\A w \in Workers :
          run[w].pc = "llm" /\ cand'.review = "COMPLETED" /\ run'[w].pc = "mark"
              /\ run[w].attempt = cand.attempt /\ cand.resume = 1
          => cand.breakdown = "pass" /\ cand.det = "pass"]_vars

(* A candidate who passed the deterministic layer is scored semantically   *)
(* or handed to manual review, whichever of the embedding and the scoring  *)
(* came first, through crashes and failed attempts, unless the campaign    *)
(* closes or a publish is lost.  It is claimed for the first resume only:  *)
(* see ResubmittedIsScored.                                                *)
EverySemanticRuns ==
    (cand.det = "pass" /\ cand.resume = 1)
        ~> \/ cand.sem \/ cand.review = "MANUAL_REVIEW"
           \/ cand.det # "pass" \/ ~env.open \/ lost # {}

\* "clears every evaluation-derived field (scoring, fraud, decision) so the candidate is
\* scored from scratch" (campaign_candidate_repository.py, reset_for_resubmission).
ResubmittedIsScored ==
    (cand.resume > 1 /\ cand.det = "pass") ~> (cand.sem \/ cand.review = "MANUAL_REVIEW")
=============================================================================
