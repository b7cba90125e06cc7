-------------------------- MODULE BulkUpload_proofs --------------------------
(***************************************************************************)
(* For any archive, any number of workers and of cancel and replay           *)
(* requests: a file has one run, the counters count the settled files, and a *)
(* job is closed when every file is resolved, as long as runs of a file      *)
(* exclude each other.                                                       *)
(***************************************************************************)
EXTENDS BulkUpload, FiniteSetTheorems, SequenceTheorems, TLAPS

-----------------------------------------------------------------------------
(* Types.                                                                   *)

JobRow == [status : JobStatus, total : Nat, processed : Nat, failed : Int, duplicate : Nat]
FileRow == [status : FileStatus, gen : 0..MaxReplays, object : BOOLEAN]
ResumeRow == [file : Files, parse : {"PENDING", "PARSED", "FAILED"}]
Run == [pc : WorkerPC, msg : Message, held : BOOLEAN, resume : Nat,
        outcome : Outcomes, verdict : Terminal]
Extraction == [pc : ExtractPC, logged : BOOLEAN, staged : SUBSET Files, todo : SUBSET Files]
Asked == [pc : ClerkPC, msg : Message, reopen : BOOLEAN]

\* What a worker's record says of itself, of n resumes: it points at a resume from the resume commit
\* on, and only a message with attempts left is published again.
RunOf(r, n) ==
    /\ r.resume \in 0..n
    /\ r.pc \in {"stored", "parsed", "followup"} => r.resume # 0
    /\ r.outcome = "processed" => r.resume # 0
    /\ r.pc = "retry" => r.msg.try < FileAttempts

Typed ==
    /\ job \in JobRow
    /\ file \in [Files -> FileRow]
    /\ resumes \in Seq(ResumeRow)
    /\ scored \subseteq 1..Len(resumes)
    /\ dead \subseteq Files \X (0..MaxReplays)
    /\ open \in BOOLEAN
    /\ queue \in [Message -> Nat]
    /\ run \in [Workers -> Run]
    /\ \A w \in Workers : RunOf(run[w], Len(resumes))
    /\ ext \in Extraction
    /\ req \in [Clerks -> Asked]
    /\ faults \in [FaultKinds -> Nat]

-----------------------------------------------------------------------------
(* One carrier for each file: what may start, run or finish its task.       *)

\* Messages Q, files P still to be dispatched, workers W on the files `of`, clerks C
\* about to publish for the files `by`.
Lone(Q, P, W, of, C, by) ==
    /\ \A m, n \in Q : m.file = n.file => m = n
    /\ \A m \in Q : m.file \notin P
    /\ \A m \in Q, w \in W : of[w] # m.file
    /\ \A m \in Q, c \in C : by[c] # m.file
    /\ \A v, w \in W : of[v] = of[w] => v = w
    /\ \A w \in W : of[w] \notin P
    /\ \A w \in W, c \in C : by[c] # of[w]
    /\ \A b, c \in C : by[b] = by[c] => b = c
    /\ \A c \in C : by[c] \notin P

InQueue == {m \in Message : queue[m] > 0}
Pending == IF ext.pc \in {"staged", "check", "send"} THEN ext.todo ELSE {}
Of == [w \in Workers |-> Entry(w)]
Sending == {c \in Clerks : req[c].pc = "send"}
By == [c \in Clerks |-> req[c].msg.file]

\* After a crash a message comes back whatever its run had done; before one, a run that
\* settled a file as failed, or handed it to its retry, is over.
Holding == {w \in Workers : run[w].pc # "idle"}
Engaged == {w \in Workers : run[w].pc \notin {"idle", "ack"} /\ run[w].outcome # "failed"}

OneCarrier(W) == Lone(InQueue, Pending, W, Of, Sending, By)

Alive == Unresolved \cup {"CANCELLED"}
InProgress ==
    /\ \A m \in InQueue : file[m.file].status \in Alive
    /\ \A f \in Pending : file[f].status \in Alive
    /\ \A c \in Sending : file[By[c]].status \in Alive
    /\ \A w \in Engaged : file[Of[w]].status \in IF run[w].outcome = "none" THEN Alive ELSE {"PROCESSED"}

-----------------------------------------------------------------------------
(* Control states.                                                          *)

Counting == {"counted", "closing", "mark", "followup"}

WorkerInv(w) ==
    /\ run[w].pc # "idle" => run[w].held
    /\ run[w].pc = "retry" => "retry" \in Happened
    /\ run[w].pc \in {"idle", "claim"} => run[w].outcome = "none"
    /\ run[w].pc \in Counting => run[w].outcome # "none"
    /\ run[w].outcome # "none" => run[w].pc \in Counting \cup {"giveup", "fail", "ack"}
    /\ run[w].outcome = "failed" => run[w].pc \in {"counted", "closing", "mark", "ack"}
    /\ run[w].outcome # "none" /\ "db" \notin Happened => run[w].pc \in Counting \cup {"ack"}
    /\ run[w].outcome # "none" => Entry(w) \in ext.staged
    /\ Working(w) => file[Entry(w)].status = "RUNNING"

ClerkInv(c) == req[c].pc \in {"replay", "send"} => "replay" \in Happened

\* Nothing has been unpacked yet; nothing has been dispatched yet.
Unstaged == ext.pc \in {"none", "committed", "marked", "unpack"} \/ (ext.pc = "queued" /\ ~ext.logged)
Undispatched == Unstaged \/ ext.pc \in {"staged", "check"}

ExtInv ==
    /\ ext.pc \in {"marked", "unpack", "staged", "check", "send"} => ext.logged
    /\ ext.pc \in {"none", "committed"} => ~ext.logged
    /\ Unstaged => ext.staged = {}
    /\ Undispatched => /\ InQueue = {} /\ Holding = {} /\ Sending = {}
                       /\ \A f \in Files : file[f].status \in {"ABSENT", "QUEUED", "CANCELLED"}
                       /\ ext.todo = ext.staged
    /\ \A f \in Files : file[f].status # "ABSENT" => f \in ext.staged

\* No message is queued twice, and every file has one carrier: any of them as long as no
\* run is repeated, the engaged ones as long as no worker died.
TokenInv ==
    /\ \A m \in Message : queue[m] <= 1
    /\ Happened \cap {"retry", "replay"} = {} => OneCarrier(Holding)
    /\ "crash" \notin Happened => OneCarrier(Engaged) /\ InProgress

SettledFiles == {f \in Files : Settled(f)}

\* The total is that of the archive; a verdict to close is reached when all is settled.
ClosingInv ==
    /\ Resolved = Cardinality(SettledFiles)
    /\ job.total \in {0, Cardinality(ext.staged)}
    /\ Undispatched => job.status \notin {"COMPLETED", "PARTIAL_FAILURE"}
    /\ "replay" \notin Happened =>
         /\ job.status \in {"COMPLETED", "PARTIAL_FAILURE"} => ext.staged \subseteq SettledFiles
         /\ \A w \in Workers : run[w].pc = "closing" => ext.staged \subseteq SettledFiles

Inner ==
    /\ \A w \in Workers : WorkerInv(w)
    /\ \A c \in Clerks : ClerkInv(c)
    /\ ExtInv
    /\ TokenInv
    /\ "db" \notin Happened => ClosingInv

BulkInv == Typed /\ (Exclusive => Inner)

-----------------------------------------------------------------------------
(* Carriers: what stays alone when one goes, and when one takes another's place. *)

LEMMA LoneShrinks ==
    ASSUME NEW Q, NEW P, NEW W, NEW of, NEW C, NEW by, Lone(Q, P, W, of, C, by),
           NEW R \in SUBSET Q, NEW O \in SUBSET P, NEW V \in SUBSET W, NEW on, NEW B \in SUBSET C, NEW from,
           \A w \in V : on[w] = of[w], \A c \in B : from[c] = by[c]
    PROVE  Lone(R, O, V, on, B, from)
BY DEF Lone

LEMMA QueueToWorker ==
    ASSUME NEW Q, NEW P, NEW W, NEW of, NEW C, NEW by, Lone(Q, P, W, of, C, by),
           NEW m \in Q, NEW w, w \notin W, NEW on, on[w] = m.file, \A v \in W : on[v] = of[v]
    PROVE  Lone(Q \ {m}, P, W \cup {w}, on, C, by)
BY DEF Lone

LEMMA WorkerToQueue ==
    ASSUME NEW Q, NEW P, NEW W, NEW of, NEW C, NEW by, Lone(Q, P, W, of, C, by),
           NEW w \in W, NEW m, m.file = of[w], NEW on, \A v \in W \ {w} : on[v] = of[v]
    PROVE  Lone(Q \cup {m}, P, W \ {w}, on, C, by) /\ m \notin Q
BY DEF Lone

LEMMA TodoToQueue ==
    ASSUME NEW Q, NEW P, NEW W, NEW of, NEW C, NEW by, Lone(Q, P, W, of, C, by),
           NEW m, m.file \in P
    PROVE  Lone(Q \cup {m}, P \ {m.file}, W, of, C, by) /\ m \notin Q
BY DEF Lone

LEMMA ClerkToQueue ==
    ASSUME NEW Q, NEW P, NEW W, NEW of, NEW C, NEW by, Lone(Q, P, W, of, C, by),
           NEW c \in C, NEW m, m.file = by[c], NEW from, \A b \in C \ {c} : from[b] = by[b]
    PROVE  Lone(Q \cup {m}, P, W, of, C \ {c}, from) /\ m \notin Q
BY DEF Lone

\* A file without a carrier gets one.
LEMMA FreeToClerk ==
    ASSUME NEW Q, NEW P, NEW W, NEW of, NEW C, NEW by, Lone(Q, P, W, of, C, by), NEW f,
           \A m \in Q : m.file # f, f \notin P, \A w \in W : of[w] # f, \A c \in C : by[c] # f,
           NEW c, c \notin C, NEW from, from[c] = f, \A b \in C : from[b] = by[b]
    PROVE  Lone(Q, P, W, of, C \cup {c}, from)
BY DEF Lone

LEMMA NothingIsLone ==
    ASSUME NEW P, NEW of, NEW by PROVE Lone({}, P, {}, of, {}, by)
BY DEF Lone

-----------------------------------------------------------------------------
(* Types.                                                                   *)

LEMMA TypedIsTypeOK == Typed => TypeOK
BY DEF Typed, TypeOK, JobOK, FileOK, ResumesOK, SetsOK, QueueOK, RunOK, ExtOK, ReqOK, FaultsOK,
   JobRow, FileRow, ResumeRow, Run, Extraction, Asked, RunOf

\* What happened is never forgotten.
LEMMA Happens ==
    ASSUME Typed
    PROVE  /\ \A k \in FaultKinds : Spend(k) \/ Enter(k) =>
                faults' \in [FaultKinds -> Nat] /\ Happened' = Happened \cup {k}
           /\ UNCHANGED faults => faults' \in [FaultKinds -> Nat] /\ Happened' = Happened
<1>1. ASSUME NEW k \in FaultKinds, Spend(k) \/ Enter(k)
      PROVE  faults' \in [FaultKinds -> Nat] /\ Happened' = Happened \cup {k}
  <2>1. PICK n \in Nat : n > 0 /\ faults' = [faults EXCEPT ![k] = n]
    BY <1>1 DEF Spend, Enter, Typed
  <2> QED
    BY <2>1 DEF Typed, Happened
<1> QED
  BY <1>1 DEF Typed, Happened

LEMMA Kinds == {"crash", "slow", "outage", "db", "pause", "several", "retry", "cancel", "replay"} = FaultKinds
BY DEF FaultKinds

\* The record of the worker whose step it is changes.
LEMMA RunIs ==
    ASSUME Typed, NEW w \in Workers, NEW r \in Run, run' = [run EXCEPT ![w] = r],
           Len(resumes') \in Nat, Len(resumes) <= Len(resumes'), RunOf(r, Len(resumes'))
    PROVE  run' \in [Workers -> Run] /\ \A v \in Workers : RunOf(run'[v], Len(resumes'))
<1>1. run' \in [Workers -> Run] /\ run'[w] = r /\ \A v \in Workers \ {w} : run'[v] = run[v]
  BY DEF Typed
<1>2. ASSUME NEW v \in Workers \ {w} PROVE RunOf(run'[v], Len(resumes'))
  <2>1. RunOf(run[v], Len(resumes)) /\ Len(resumes) \in Nat
    BY DEF Typed
  <2> QED
    BY <1>1, <2>1 DEF RunOf
<1> QED
  BY <1>1, <1>2

\* One of the messages may be published once more.
LEMMA PublishIs ==
    ASSUME Typed, NEW m \in Message, Publish(m)
    PROVE  /\ queue' \in [Message -> Nat]
           /\ InQueue' = InQueue \cup {m}
           /\ m \notin InQueue => queue'[m] = 1
           /\ \A n \in Message \ {m} : queue'[n] = queue[n]
<1>1. PICK k \in Nat : k = queue[m] /\ queue' = [queue EXCEPT ![m] = k + 1]
  BY DEF Typed, Publish
<1>2. queue' \in [Message -> Nat] /\ queue'[m] = k + 1 /\ \A n \in Message \ {m} : queue'[n] = queue[n]
  BY <1>1 DEF Typed
<1>3. InQueue' = InQueue \cup {m}
  BY <1>1, <1>2 DEF InQueue
<1> QED
  BY <1>1, <1>2, <1>3 DEF InQueue

LEMMA Records ==
    /\ \A f \in Files : FirstTask(f) \in Message /\ FirstTask(f).file = f
    /\ AnyTask \in Message /\ IdleWorker \in Run /\ IdleWorker.pc = "idle" /\ IdleWorker.outcome = "none"
    /\ \A n \in Nat : RunOf(IdleWorker, n)
<1>1. 0 \in 0..MaxReplays /\ 1 \in 1..FileAttempts
  BY BoundsAssumption
<1>2. \A f \in Files : FirstTask(f) \in Message /\ FirstTask(f).file = f
  BY <1>1 DEF FirstTask, Message
<1>3. (CHOOSE f \in Files : TRUE) \in Files
  BY FilesAssumption
<1>4. AnyTask \in Message
  BY <1>2, <1>3 DEF AnyTask
<1>5. /\ IdleWorker \in Run /\ IdleWorker.pc = "idle" /\ IdleWorker.outcome = "none"
      /\ IdleWorker.resume = 0
  BY <1>4 DEF IdleWorker, Run, WorkerPC, Outcomes, Terminal
<1>6. \A n \in Nat : RunOf(IdleWorker, n)
  BY <1>5 DEF RunOf
<1> QED
  BY <1>2, <1>4, <1>5, <1>6

\* The worker goes on with the same message.
Moved(w, pc, outcome) ==
    /\ run' \in [Workers -> Run]
    /\ run'[w].pc = pc /\ run'[w].outcome = outcome
    /\ run'[w].msg = run[w].msg /\ run'[w].held = run[w].held
    /\ \A v \in Workers \ {w} : run'[v] = run[v]

\* A record r of the same task.
SameTask(w, r) == r \in Run /\ r.msg = run[w].msg /\ r.held = run[w].held

LEMMA RunMoves ==
    ASSUME Typed, NEW w \in Workers, NEW r, SameTask(w, r), run' = [run EXCEPT ![w] = r],
           Len(resumes') \in Nat, Len(resumes) <= Len(resumes'), RunOf(r, Len(resumes'))
    PROVE  Moved(w, r.pc, r.outcome) /\ \A v \in Workers : RunOf(run'[v], Len(resumes'))
<1>1. r \in Run
  BY DEF SameTask
<1>2. run' \in [Workers -> Run] /\ \A v \in Workers : RunOf(run'[v], Len(resumes'))
  BY <1>1, RunIs
<1>3. run'[w] = r /\ \A v \in Workers \ {w} : run'[v] = run[v]
  BY DEF Typed
<1> QED
  BY <1>2, <1>3 DEF Moved, SameTask

LEMMA GoMoves ==
    ASSUME Typed, NEW w \in Workers, NEW pc \in WorkerPC, WorkerGo(w, pc),
           Len(resumes') = Len(resumes),
           pc \in {"stored", "parsed", "followup"} => run[w].resume # 0,
           pc = "retry" => run[w].msg.try < FileAttempts
    PROVE  Moved(w, pc, run[w].outcome) /\ \A v \in Workers : RunOf(run'[v], Len(resumes'))
<1>1. run[w] \in Run /\ RunOf(run[w], Len(resumes)) /\ Len(resumes) \in Nat
  BY DEF Typed
<1> DEFINE r == [run[w] EXCEPT !.pc = pc]
<1>2. SameTask(w, r) /\ r.pc = pc /\ r.outcome = run[w].outcome /\ r.resume = run[w].resume /\ r.msg = run[w].msg
  BY <1>1 DEF SameTask, Run
<1>3. run' = [run EXCEPT ![w] = r]
  BY DEF WorkerGo
<1>4. RunOf(r, Len(resumes')) /\ Len(resumes') \in Nat /\ Len(resumes) <= Len(resumes')
  BY <1>1, <1>2 DEF RunOf
<1> HIDE DEF r
<1>5. Moved(w, r.pc, r.outcome) /\ \A v \in Workers : RunOf(run'[v], Len(resumes'))
  BY <1>2, <1>3, <1>4, RunMoves
<1> QED
  BY <1>2, <1>5

LEMMA FileIs ==
    ASSUME Typed, NEW f \in Files, NEW s \in FileStatus, FileStatusIs(f, s)
    PROVE  /\ file' \in [Files -> FileRow] /\ file'[f].status = s
           /\ \A g \in Files \ {f} : file'[g] = file[g]
<1> DEFINE r == [file[f] EXCEPT !.status = s]
<1>1. file[f] \in FileRow
  BY DEF Typed
<1>2. r \in FileRow /\ r.status = s
  BY <1>1 DEF FileRow
<1>3. file' = [file EXCEPT ![f] = r]
  BY DEF FileStatusIs
<1> HIDE DEF r
<1> QED
  BY <1>2, <1>3 DEF Typed

\* Marking the resume of a run.
LEMMA MarkIs ==
    ASSUME Typed, NEW i \in 1..Len(resumes), NEW s \in {"PENDING", "PARSED", "FAILED"},
           resumes' = [resumes EXCEPT ![i].parse = s]
    PROVE  resumes' \in Seq(ResumeRow) /\ Len(resumes') = Len(resumes)
<1> DEFINE r == [resumes[i] EXCEPT !.parse = s]
<1>1. resumes[i] \in ResumeRow
  BY DEF Typed
<1>2. r \in ResumeRow
  BY <1>1 DEF ResumeRow
<1>3. resumes' = [resumes EXCEPT ![i] = r]
  OBVIOUS
<1>4. resumes \in Seq(ResumeRow)
  BY DEF Typed
<1> HIDE DEF r
<1> QED
  BY ONLY <1>2, <1>3, <1>4, i \in 1..Len(resumes), ExceptSeq

-----------------------------------------------------------------------------
(* Steps of a run that leave the file, the broker and the requests alone.   *)

Skip(w) == Claim(w) /\ file[Entry(w)].status \notin Unresolved
Local(w) ==
    \/ Skip(w) \/ Unreadable(w) \/ LookUp(w) \/ RefuseLink(w) \/ StoreResume(w) \/ Persist(w)
    \/ StageFails(w) \/ DeadLetter(w) \/ Retry(w) \/ MarkParseFailed(w) \/ FinalizeRead(w)
    \/ FinalizeCommit(w) \/ MarkDone(w) \/ FollowUp(w) \/ DbFails(w)

\* From where to where such a step may lead, and what it knows.
Edge(w, pc) ==
    /\ run[w].pc \notin {"idle", "ack"} /\ pc \notin {"idle", "claim"}
    /\ run[w].pc = "claim" => pc = "ack"
    /\ pc \in Counting => run[w].pc \in Counting
    /\ pc = "retry" => "retry" \in Happened'
    /\ pc = "followup" => run[w].outcome = "processed"
    /\ pc = "closing" => run[w].pc = "counted" /\ job.total # 0 /\ AllResolved
    /\ run[w].pc \in Counting \cup {"giveup", "fail"} =>
         \/ pc \in Counting \cup {"ack"}
         \/ pc \in {"giveup", "fail"} /\ run[w].pc \in {"giveup", "fail"}
         \/ pc = "giveup" /\ "db" \in Happened' /\ run[w].outcome # "failed"
    /\ \/ job' = job
       \/ run[w].pc = "closing" /\ job' = [job EXCEPT !.status = run[w].verdict]

LocalEffect(w) ==
    /\ \E pc \in WorkerPC : Moved(w, pc, run[w].outcome) /\ Edge(w, pc)
    /\ UNCHANGED <<file, queue, ext, req>>
    /\ Happened \subseteq Happened'

\* How the rest of the state is typed after such a step.
LEMMA LocalIs ==
    ASSUME Typed, NEW w \in Workers, NEW pc \in WorkerPC, Moved(w, pc, run[w].outcome), Edge(w, pc),
           \A v \in Workers : RunOf(run'[v], Len(resumes')),
           resumes' \in Seq(ResumeRow), scored' \subseteq 1..Len(resumes'),
           dead' \subseteq Files \X (0..MaxReplays), UNCHANGED <<open, file, queue, ext, req>>,
           faults' \in [FaultKinds -> Nat], Happened \subseteq Happened'
    PROVE  Typed' /\ LocalEffect(w)
<1>1. job' \in JobRow
  <2>1. run[w] \in Run /\ job \in JobRow
    BY DEF Typed
  <2>2. run[w].verdict \in JobStatus
    BY <2>1 DEF Run, JobStatus
  <2> QED
    BY <2>1, <2>2 DEF Edge, JobRow
<1>2. Typed'
  BY <1>1 DEF Typed, Moved
<1> QED
  BY <1>2 DEF LocalEffect

LEMMA LocalStep == ASSUME Typed, NEW w \in Workers, Local(w) PROVE Typed' /\ LocalEffect(w)
<1>t. /\ run[w] \in Run /\ RunOf(run[w], Len(resumes)) /\ Len(resumes) \in Nat /\ Entry(w) \in Files
      /\ resumes \in Seq(ResumeRow) /\ scored \subseteq 1..Len(resumes)
      /\ dead \subseteq Files \X (0..MaxReplays) /\ faults \in [FaultKinds -> Nat]
  BY DEF Typed, Run, Message, Entry
<1>h. ASSUME UNCHANGED faults PROVE faults' \in [FaultKinds -> Nat] /\ Happened \subseteq Happened'
  BY <1>h, Happens
<1>s. ASSUME NEW k \in FaultKinds, Spend(k) \/ Enter(k)
      PROVE  faults' \in [FaultKinds -> Nat] /\ Happened \subseteq Happened' /\ k \in Happened'
  BY <1>s, Happens
\* Steps that only go on.
<1>g. ASSUME NEW pc \in WorkerPC, WorkerGo(w, pc), Edge(w, pc), job' = job \/ run[w].pc = "closing",
             pc \in {"stored", "parsed", "followup"} => run[w].resume # 0,
             pc = "retry" => run[w].msg.try < FileAttempts,
             resumes' \in Seq(ResumeRow), Len(resumes') = Len(resumes), scored' \subseteq 1..Len(resumes),
             dead' \subseteq Files \X (0..MaxReplays),
             UNCHANGED <<open, file, queue, ext, req>>,
             faults' \in [FaultKinds -> Nat], Happened \subseteq Happened'
      PROVE  Typed' /\ LocalEffect(w)
  <2>1. Moved(w, pc, run[w].outcome) /\ \A v \in Workers : RunOf(run'[v], Len(resumes'))
    BY <1>g, GoMoves
  <2> QED
    BY <1>g, <2>1, LocalIs
<1>f. ASSUME NEW pc \in WorkerPC \ {"stored", "followup", "retry"}, WorkerGo(w, pc), Edge(w, pc),
             pc = "parsed" => run[w].resume # 0,
             UNCHANGED <<resumes, scored, dead, open, file, queue, ext, req, faults>>
      PROVE  Typed' /\ LocalEffect(w)
  <2>1. faults' \in [FaultKinds -> Nat] /\ Happened \subseteq Happened'
    BY <1>f, <1>h
  <2>2. pc \in WorkerPC /\ (job' = job \/ run[w].pc = "closing")
    BY <1>f DEF Edge
  <2> QED
    BY <1>f, <1>g, <1>t, <2>1, <2>2
<1>1. CASE Skip(w)
  <2>1. Edge(w, "ack") /\ WorkerGo(w, "ack")
    BY <1>1 DEF Skip, Claim, Edge, Counting
  <2> QED
    BY <1>1, <1>f, <2>1 DEF Skip, Claim, WorkerPC
<1>2. CASE Unreadable(w)
  <2>1. Edge(w, "giveup") /\ WorkerGo(w, "giveup")
    BY <1>2 DEF Unreadable, Edge, Counting
  <2> QED
    BY <1>2, <1>f, <2>1 DEF Unreadable, WorkerPC
<1>3. CASE LookUp(w)
  <2>1. PICK pc \in {"known", "link", "stages"} : WorkerGo(w, pc)
    BY <1>3 DEF LookUp
  <2>2. Edge(w, pc) /\ pc \in WorkerPC \ {"stored", "followup", "retry", "parsed"}
    BY <1>3, <2>1 DEF LookUp, Edge, Counting, WorkerPC
  <2> QED
    BY <1>3, <1>f, <2>1, <2>2 DEF LookUp
<1>4. CASE RefuseLink(w)
  <2>1. PICK pc \in {"conflict", "refused"} : WorkerGo(w, pc)
    BY <1>4 DEF RefuseLink
  <2>2. Edge(w, pc) /\ pc \in WorkerPC \ {"stored", "followup", "retry", "parsed"}
    BY <1>4, <2>1 DEF RefuseLink, Edge, Counting, WorkerPC
  <2> QED
    BY <1>4, <1>f, <2>1, <2>2 DEF RefuseLink
<1>5. CASE StoreResume(w)
  <2>n. PICK n \in Nat : n = Len(resumes) + 1 /\ n # 0
    BY <1>t
  <2> DEFINE row == [file |-> Entry(w), parse |-> "PENDING"]
             r == [run[w] EXCEPT !.pc = "stored", !.resume = n]
  <2>1. row \in ResumeRow /\ resumes' = Append(resumes, row)
    BY <1>5, <1>t DEF StoreResume, ResumeRow
  <2>2. resumes' \in Seq(ResumeRow) /\ Len(resumes') = n
    BY <1>t, <2>1, <2>n
  <2>3. SameTask(w, r) /\ r.pc = "stored" /\ r.outcome = run[w].outcome /\ r.resume = n
    BY <1>t DEF SameTask, Run, WorkerPC
  <2>4. run' = [run EXCEPT ![w] = r]
    BY <1>5, <2>n DEF StoreResume
  <2> HIDE DEF r, row
  <2>5. RunOf(r, Len(resumes'))
    BY <2>2, <2>3, <2>n DEF RunOf
  <2>l. Len(resumes') \in Nat /\ Len(resumes) <= Len(resumes')
    BY <1>t, <2>2, <2>n
  <2>6. Moved(w, r.pc, r.outcome) /\ \A v \in Workers : RunOf(run'[v], Len(resumes'))
    BY <2>3, <2>4, <2>5, <2>l, RunMoves
  <2>7. Edge(w, "stored") /\ "stored" \in WorkerPC
    BY <1>5 DEF StoreResume, Edge, Counting, WorkerPC
  <2>8. scored' \subseteq 1..Len(resumes')
    BY <1>5, <1>t, <2>2, <2>n DEF StoreResume
  <2>9. faults' \in [FaultKinds -> Nat] /\ Happened \subseteq Happened'
    BY <1>5, <1>h DEF StoreResume
  <2> QED
    BY <1>5, <1>t, <2>2, <2>3, <2>6, <2>7, <2>8, <2>9, LocalIs DEF StoreResume
<1>6. CASE Persist(w)
  <2>0. run[w].resume # 0 /\ run[w].resume \in 1..Len(resumes)
    BY <1>6, <1>t DEF Persist, RunOf
  <2>1. resumes' \in Seq(ResumeRow) /\ Len(resumes') = Len(resumes)
    BY <1>6, <2>0, MarkIs DEF Persist
  <2>2. Edge(w, "parsed") /\ WorkerGo(w, "parsed") /\ "parsed" \in WorkerPC
    BY <1>6 DEF Persist, Edge, Counting, WorkerPC
  <2>3. faults' \in [FaultKinds -> Nat] /\ Happened \subseteq Happened'
    BY <1>6, <1>h DEF Persist
  <2> QED
    BY <1>6, <1>g, <1>t, <2>0, <2>1, <2>2, <2>3 DEF Persist
<1>7. CASE StageFails(w)
  <2>1. Edge(w, "failed") /\ WorkerGo(w, "failed")
    BY <1>7 DEF StageFails, Edge, Counting
  <2> QED
    BY <1>7, <1>f, <2>1 DEF StageFails, WorkerPC
<1>8. CASE DeadLetter(w)
  <2>1. Edge(w, "giveup") /\ WorkerGo(w, "giveup") /\ "giveup" \in WorkerPC
    BY <1>8 DEF DeadLetter, Edge, Counting, WorkerPC
  <2>2. <<Entry(w), run[w].msg.gen>> \in Files \X (0..MaxReplays)
    BY <1>t DEF Run, Message
  <2>3. faults' \in [FaultKinds -> Nat] /\ Happened \subseteq Happened'
    BY <1>8, <1>h DEF DeadLetter
  <2> QED
    BY <1>8, <1>g, <1>t, <2>1, <2>2, <2>3 DEF DeadLetter
<1>9. CASE Retry(w)
  <2>1. faults' \in [FaultKinds -> Nat] /\ Happened \subseteq Happened' /\ "retry" \in Happened'
    BY <1>9, <1>s, Kinds DEF Retry
  <2>2. Edge(w, "retry") /\ WorkerGo(w, "retry") /\ "retry" \in WorkerPC /\ run[w].msg.try < FileAttempts
    BY <1>9, <2>1 DEF Retry, Edge, Counting, WorkerPC
  <2> QED
    BY <1>9, <1>g, <1>t, <2>1, <2>2 DEF Retry
<1>10. CASE MarkParseFailed(w)
  <2>1. resumes' \in Seq(ResumeRow) /\ Len(resumes') = Len(resumes)
    <3>1. CASE resumes' = resumes
      BY <1>t, <3>1
    <3>2. CASE run[w].resume # 0 /\ resumes' = [resumes EXCEPT ![run[w].resume].parse = "FAILED"]
      <4>1. run[w].resume \in 1..Len(resumes)
        BY <1>t, <3>2 DEF RunOf
      <4> QED
        BY <3>2, <4>1, MarkIs
    <3> QED
      BY <1>10, <3>1, <3>2 DEF MarkParseFailed
  <2>2. faults' \in [FaultKinds -> Nat] /\ Happened \subseteq Happened'
    BY <1>10, <1>h, <1>s, Kinds DEF MarkParseFailed
  <2>3. Edge(w, "fail") /\ WorkerGo(w, "fail") /\ "fail" \in WorkerPC
    BY <1>10 DEF MarkParseFailed, Edge, Counting, WorkerPC
  <2> QED
    BY <1>10, <1>g, <1>t, <2>1, <2>2, <2>3 DEF MarkParseFailed
<1>11. CASE FinalizeRead(w)
  <2>u. UNCHANGED <<job, resumes, scored, dead, open, file, queue, ext, req, faults>> /\ run[w].pc = "counted"
    BY <1>11 DEF FinalizeRead
  <2>1. CASE job.status = "PROCESSING" /\ job.total # 0 /\ AllResolved
    <3>v. PICK v \in Terminal : v = Verdict
      BY DEF Verdict, Terminal
    <3> DEFINE r == [run[w] EXCEPT !.pc = "closing", !.verdict = v]
    <3>1. SameTask(w, r) /\ r.pc = "closing" /\ r.outcome = run[w].outcome /\ r.resume = run[w].resume
      BY <1>t DEF SameTask, Run, WorkerPC
    <3>2. run' = [run EXCEPT ![w] = r]
      BY <1>11, <2>1, <3>v DEF FinalizeRead
    <3>3. RunOf(r, Len(resumes'))
      BY <1>t, <2>u, <3>1 DEF RunOf
    <3> HIDE DEF r
    <3>4. Moved(w, "closing", run[w].outcome) /\ \A u \in Workers : RunOf(run'[u], Len(resumes'))
      <4>l. Len(resumes') \in Nat /\ Len(resumes) <= Len(resumes')
        BY <1>t, <2>u
      <4>1. Moved(w, r.pc, r.outcome) /\ \A u \in Workers : RunOf(run'[u], Len(resumes'))
        BY <3>1, <3>2, <3>3, <4>l, RunMoves
      <4> QED
        BY <3>1, <4>1
    <3>5. Edge(w, "closing") /\ "closing" \in WorkerPC
      BY <2>1, <2>u DEF Edge, Counting, WorkerPC
    <3>6. faults' \in [FaultKinds -> Nat] /\ Happened \subseteq Happened'
      BY <2>u, <1>h
    <3> QED
      BY <1>t, <2>u, <3>4, <3>5, <3>6, LocalIs
  <2>2. CASE ~(job.status = "PROCESSING" /\ job.total # 0 /\ AllResolved)
    <3>1. Edge(w, "mark") /\ WorkerGo(w, "mark")
      BY <1>11, <2>2, <2>u DEF FinalizeRead, Edge, Counting
    <3> QED
      BY <1>f, <2>u, <3>1 DEF WorkerPC
  <2> QED
    BY <2>1, <2>2
<1>12. CASE FinalizeCommit(w)
  <2>1. Edge(w, "mark") /\ WorkerGo(w, "mark")
    BY <1>12 DEF FinalizeCommit, Edge, Counting, JobStatusIs
  <2> QED
    BY <1>12, <1>f, <2>1 DEF FinalizeCommit, WorkerPC
<1>13. CASE MarkDone(w)
  <2>1. CASE run[w].outcome = "processed"
    <3>1. Edge(w, "followup") /\ WorkerGo(w, "followup") /\ "followup" \in WorkerPC /\ run[w].resume # 0
      BY <1>13, <1>t, <2>1 DEF MarkDone, Edge, Counting, WorkerPC, RunOf
    <3>2. faults' \in [FaultKinds -> Nat] /\ Happened \subseteq Happened'
      BY <1>13, <1>h DEF MarkDone
    <3> QED
      BY <1>13, <1>g, <1>t, <3>1, <3>2 DEF MarkDone
  <2>2. CASE run[w].outcome # "processed"
    <3>1. Edge(w, "ack") /\ WorkerGo(w, "ack")
      BY <1>13, <2>2 DEF MarkDone, Edge, Counting
    <3> QED
      BY <1>13, <1>f, <3>1 DEF MarkDone, WorkerPC
  <2> QED
    BY <2>1, <2>2
<1>14. CASE FollowUp(w)
  <2>1. Edge(w, "ack") /\ WorkerGo(w, "ack") /\ "ack" \in WorkerPC
    BY <1>14 DEF FollowUp, Edge, Counting, WorkerPC
  <2>2. faults' \in [FaultKinds -> Nat] /\ Happened \subseteq Happened'
    BY <1>14, <1>h, <1>s, Kinds DEF FollowUp
  <2>3. run[w].resume \in 1..Len(resumes)
    BY <1>14, <1>t DEF FollowUp, RunOf
  <2>4. scored' \subseteq 1..Len(resumes)
    BY <1>14, <1>t, <2>3 DEF FollowUp
  <2> QED
    BY <1>14, <1>g, <1>t, <2>1, <2>2, <2>4 DEF FollowUp
<1>15. CASE DbFails(w)
  <2>1. faults' \in [FaultKinds -> Nat] /\ Happened \subseteq Happened' /\ "db" \in Happened'
    BY <1>15, <1>s, Kinds DEF DbFails
  <2>2. PICK pc \in {"giveup", "ack"} : WorkerGo(w, pc) /\ Edge(w, pc)
    <3>1. CASE /\ run[w].pc \in {"known", "link", "parsed", "counted", "closing", "mark"}
               /\ run[w].outcome # "failed" /\ WorkerGo(w, "giveup")
      <4>1. Edge(w, "giveup")
        BY <1>15, <2>1, <3>1 DEF DbFails, Edge, Counting
      <4> QED
        BY <3>1, <4>1
    <3>2. CASE /\ \/ run[w].pc \in {"claim", "failed", "fail", "conflict", "refused"}
                  \/ run[w].pc \in {"counted", "closing", "mark"} /\ run[w].outcome = "failed"
               /\ WorkerGo(w, "ack")
      <4>1. Edge(w, "ack")
        BY <1>15, <2>1, <3>2 DEF DbFails, Edge, Counting
      <4> QED
        BY <3>2, <4>1
    <3> QED
      BY <1>15, <3>1, <3>2 DEF DbFails
  <2>3. pc \in WorkerPC
    BY DEF WorkerPC
  <2> QED
    BY <1>15, <1>g, <1>t, <2>1, <2>2, <2>3 DEF DbFails
<1> QED
  BY <1>1, <1>2, <1>3, <1>4, <1>5, <1>6, <1>7, <1>8, <1>9, <1>10, <1>11, <1>12, <1>13, <1>14, <1>15 DEF Local

-----------------------------------------------------------------------------
(* Steps that settle a file, or claim it.                                   *)

Settle(w) == KnownDuplicate(w) \/ LinkDuplicate(w) \/ CountConflict(w) \/ CountProcessed(w) \/ CountFailed(w)
Take(w) == Claim(w) /\ file[Entry(w)].status \in Unresolved

FileBecomes(f, s) == /\ file' \in [Files -> FileRow] /\ file'[f].status = s
                     /\ \A g \in Files \ {f} : file'[g] = file[g]

SettleEffect(w, s, o) ==
    /\ run[w].pc \in {"known", "link", "parsed", "conflict", "refused", "fail"}
    /\ Moved(w, "counted", o) /\ FileBecomes(Entry(w), s)
    /\ (s = "PROCESSED" /\ o \in {"processed", "duplicate"}) \/ (s = "FAILED" /\ o = "failed")
    /\ job'.total = job.total /\ job'.status = job.status /\ Resolved' = Resolved + 1
    /\ UNCHANGED <<queue, ext, req, faults>>

LEMMA SettleStep ==
    ASSUME Typed, NEW w \in Workers, Settle(w)
    PROVE  Typed' /\ \E s \in {"PROCESSED", "FAILED"}, o \in Outcomes : SettleEffect(w, s, o)
<1>t. /\ run[w] \in Run /\ RunOf(run[w], Len(resumes)) /\ Len(resumes) \in Nat /\ Entry(w) \in Files
      /\ job \in JobRow
  BY DEF Typed, Run, Message, Entry
<1>c. ASSUME NEW o \in {"processed", "duplicate", "failed"}, WorkerCounted(w, o), UNCHANGED resumes,
             o = "processed" => run[w].pc = "parsed"
      PROVE  Moved(w, "counted", o) /\ \A v \in Workers : RunOf(run'[v], Len(resumes'))
  <2> DEFINE r == [run[w] EXCEPT !.pc = "counted", !.outcome = o]
  <2>1. SameTask(w, r) /\ r.pc = "counted" /\ r.outcome = o /\ r.resume = run[w].resume
    BY <1>t DEF SameTask, Run, WorkerPC, Outcomes
  <2>2. run' = [run EXCEPT ![w] = r]
    BY <1>c DEF WorkerCounted
  <2> HIDE DEF r
  <2>3. RunOf(r, Len(resumes')) /\ Len(resumes') \in Nat /\ Len(resumes) <= Len(resumes')
    BY <1>c, <1>t, <2>1 DEF RunOf
  <2>4. Moved(w, r.pc, r.outcome) /\ \A v \in Workers : RunOf(run'[v], Len(resumes'))
    BY <2>1, <2>2, <2>3, RunMoves
  <2> QED
    BY <2>1, <2>4
<1>f. ASSUME NEW s \in {"PROCESSED", "FAILED"}, FileStatusIs(Entry(w), s) PROVE FileBecomes(Entry(w), s)
  <2>1. s \in FileStatus
    BY DEF FileStatus
  <2> QED
    BY <1>f, <1>t, <2>1, FileIs DEF FileBecomes
<1>j. ASSUME \/ job' = [job EXCEPT !.duplicate = @ + 1]
             \/ job' = [job EXCEPT !.processed = @ + 1]
             \/ job' = [job EXCEPT !.failed = @ + 1]
      PROVE  /\ job' \in JobRow
             /\ job'.total = job.total /\ job'.status = job.status /\ Resolved' = Resolved + 1
  BY <1>j, <1>t DEF JobRow, Resolved
<1>e. ASSUME NEW s \in {"PROCESSED", "FAILED"}, NEW o \in {"processed", "duplicate", "failed"},
             (s = "PROCESSED" /\ o \in {"processed", "duplicate"}) \/ (s = "FAILED" /\ o = "failed"),
             run[w].pc \in {"known", "link", "parsed", "conflict", "refused", "fail"},
             o = "processed" => run[w].pc = "parsed",
             FileStatusIs(Entry(w), s), WorkerCounted(w, o),
             \/ job' = [job EXCEPT !.duplicate = @ + 1]
             \/ job' = [job EXCEPT !.processed = @ + 1]
             \/ job' = [job EXCEPT !.failed = @ + 1],
             UNCHANGED <<resumes, scored, dead, open, queue, ext, req, faults>>
      PROVE  Typed' /\ \E s2 \in {"PROCESSED", "FAILED"}, o2 \in Outcomes : SettleEffect(w, s2, o2)
  <2>1. Moved(w, "counted", o) /\ \A v \in Workers : RunOf(run'[v], Len(resumes'))
    BY <1>c, <1>e
  <2>2. FileBecomes(Entry(w), s)
    BY <1>e, <1>f
  <2>3. job' \in JobRow /\ job'.total = job.total /\ job'.status = job.status /\ Resolved' = Resolved + 1
    BY <1>e, <1>j
  <2>4. Typed'
    BY <1>e, <2>1, <2>2, <2>3 DEF Typed, Moved, FileBecomes
  <2>5. SettleEffect(w, s, o) /\ o \in Outcomes
    BY <1>e, <2>1, <2>2, <2>3 DEF SettleEffect, Outcomes
  <2> QED
    BY <2>4, <2>5
<1>1. CASE KnownDuplicate(w)
  <2>1. /\ FileStatusIs(Entry(w), "PROCESSED") /\ WorkerCounted(w, "duplicate") /\ run[w].pc = "known"
        /\ job' = [job EXCEPT !.duplicate = @ + 1]
        /\ UNCHANGED <<resumes, scored, dead, open, queue, ext, req, faults>>
    BY <1>1 DEF KnownDuplicate, CountDuplicate
  <2> QED
    BY <1>e, <2>1
<1>2. CASE LinkDuplicate(w)
  <2>1. /\ FileStatusIs(Entry(w), "PROCESSED") /\ WorkerCounted(w, "duplicate") /\ run[w].pc = "link"
        /\ job' = [job EXCEPT !.duplicate = @ + 1]
        /\ UNCHANGED <<resumes, scored, dead, open, queue, ext, req, faults>>
    BY <1>2 DEF LinkDuplicate, CountDuplicate
  <2> QED
    BY <1>e, <2>1
<1>3. CASE CountConflict(w)
  BY <1>3, <1>e DEF CountConflict, CountDuplicate
<1>4. CASE CountProcessed(w)
  <2>1. /\ FileStatusIs(Entry(w), "PROCESSED") /\ WorkerCounted(w, "processed") /\ run[w].pc = "parsed"
        /\ job' = [job EXCEPT !.processed = @ + 1]
        /\ UNCHANGED <<resumes, scored, dead, open, queue, ext, req, faults>>
    BY <1>4 DEF CountProcessed
  <2> QED
    BY <1>e, <2>1
<1>5. CASE CountFailed(w)
  BY <1>5, <1>e DEF CountFailed
<1> QED
  BY <1>1, <1>2, <1>3, <1>4, <1>5 DEF Settle

LEMMA TakeStep ==
    ASSUME Typed, NEW w \in Workers, Take(w)
    PROVE  /\ Typed'
           /\ Moved(w, "parse", run[w].outcome) /\ FileBecomes(Entry(w), "RUNNING") /\ run[w].pc = "claim"
           /\ UNCHANGED <<job, queue, ext, req, faults>>
<1>t. Entry(w) \in Files /\ run[w] \in Run
  BY DEF Typed, Run, Message, Entry
<1>1. /\ WorkerGo(w, "parse") /\ FileStatusIs(Entry(w), "RUNNING") /\ run[w].pc = "claim"
      /\ UNCHANGED <<job, resumes, members, scored, dead, open, queue, ext, req, faults>>
  BY DEF Take, Claim
<1>2. "parse" \in WorkerPC /\ "RUNNING" \in FileStatus /\ "parse" \notin {"stored", "parsed", "followup", "retry"}
  BY DEF WorkerPC, FileStatus, Unresolved
<1>3. Moved(w, "parse", run[w].outcome) /\ \A v \in Workers : RunOf(run'[v], Len(resumes'))
  BY <1>1, <1>2, GoMoves
<1>4. FileBecomes(Entry(w), "RUNNING")
  BY <1>1, <1>2, <1>t, FileIs DEF FileBecomes
<1>5. Typed'
  BY <1>1, <1>3, <1>4 DEF Typed, Moved, FileBecomes
<1> QED
  BY <1>1, <1>3, <1>4, <1>5

-----------------------------------------------------------------------------
(* Steps between the workers and the broker.                                *)

LEMMA AckStep ==
    ASSUME Typed, NEW w \in Workers, Ack(w)
    PROVE  /\ Typed'
           /\ run' \in [Workers -> Run] /\ run'[w] = IdleWorker /\ \A v \in Workers \ {w} : run'[v] = run[v]
           /\ UNCHANGED <<job, file, queue, ext, req, faults>>
<1>1. run' = [run EXCEPT ![w] = IdleWorker]
      /\ UNCHANGED <<job, file, resumes, scored, dead, open, queue, ext, req, faults>>
  BY DEF Ack
<1>2. run' \in [Workers -> Run] /\ run'[w] = IdleWorker /\ \A v \in Workers \ {w} : run'[v] = run[v]
  BY <1>1, Records DEF Typed
<1>3. Len(resumes') \in Nat /\ Len(resumes) <= Len(resumes')
  BY <1>1 DEF Typed
<1>4. \A v \in Workers : RunOf(run'[v], Len(resumes'))
  BY <1>1, <1>3, Records, RunIs
<1>5. Typed'
  BY <1>1, <1>2, <1>4 DEF Typed
<1> QED
  BY <1>1, <1>2, <1>5

LEMMA ReceiveStep ==
    ASSUME Typed, NEW w \in Workers, Receive(w)
    PROVE  /\ Typed' /\ run[w].pc = "idle"
           /\ UNCHANGED <<job, file, ext, req, faults>>
           /\ \E m \in InQueue :
                /\ \A n \in Message : queue'[n] = IF n = m THEN queue[m] - 1 ELSE queue[n]
                /\ run' \in [Workers -> Run] /\ \A v \in Workers \ {w} : run'[v] = run[v]
                /\ run'[w].pc = "claim" /\ run'[w].msg = m /\ run'[w].held /\ run'[w].outcome = "none"
<1>1. PICK m \in Message : /\ queue[m] > 0 /\ queue' = [queue EXCEPT ![m] = @ - 1]
                           /\ run' = [run EXCEPT ![w] = [IdleWorker EXCEPT !.pc = "claim", !.msg = m, !.held = TRUE]]
  BY DEF Receive
<1>2. UNCHANGED <<job, file, resumes, scored, dead, open, ext, req, faults>> /\ run[w].pc = "idle"
  BY DEF Receive
<1>3. queue[m] \in Nat
  BY DEF Typed
<1>4. PICK k \in Nat : k = queue[m] - 1
  BY <1>1, <1>3
<1>5. queue' \in [Message -> Nat] /\ \A n \in Message : queue'[n] = IF n = m THEN queue[m] - 1 ELSE queue[n]
  <2>1. queue' = [queue EXCEPT ![m] = k]
    BY <1>1, <1>4
  <2> QED
    BY <1>4, <2>1 DEF Typed
<1> DEFINE r == [IdleWorker EXCEPT !.pc = "claim", !.msg = m, !.held = TRUE]
<1>6. r \in Run /\ r.pc = "claim" /\ r.msg = m /\ r.held /\ r.outcome = "none" /\ r.resume = 0
  BY Records DEF Run, WorkerPC, IdleWorker, Outcomes
<1>7. run' = [run EXCEPT ![w] = r]
  BY <1>1
<1> HIDE DEF r
<1>8. run' \in [Workers -> Run] /\ run'[w] = r /\ \A v \in Workers \ {w} : run'[v] = run[v]
  BY <1>6, <1>7 DEF Typed
<1>9. \A v \in Workers : RunOf(run'[v], Len(resumes'))
  <2>1. Len(resumes') \in Nat /\ Len(resumes) <= Len(resumes')
    BY <1>2 DEF Typed
  <2>2. RunOf(r, Len(resumes'))
    BY <1>6, <2>1 DEF RunOf
  <2> QED
    BY <1>6, <1>7, <2>1, <2>2, RunIs
<1>10. Typed'
  BY <1>2, <1>5, <1>8, <1>9 DEF Typed
<1>11. m \in InQueue
  BY <1>1 DEF InQueue
<1> QED
  BY <1>2, <1>5, <1>6, <1>8, <1>10, <1>11

Published(m) == /\ InQueue' = InQueue \cup {m}
                /\ m \notin InQueue => queue'[m] = 1
                /\ \A n \in Message \ {m} : queue'[n] = queue[n]

LEMMA PublishRetryStep ==
    ASSUME Typed, NEW w \in Workers, PublishRetry(w)
    PROVE  /\ Typed' /\ run[w].pc = "retry" /\ Moved(w, "ack", run[w].outcome)
           /\ UNCHANGED <<job, file, ext, req>> /\ Happened \subseteq Happened'
           /\ UNCHANGED queue \/ \E m \in Message : m.file = Entry(w) /\ Published(m)
<1>t. run[w] \in Run /\ RunOf(run[w], Len(resumes)) /\ Entry(w) \in Files
  BY DEF Typed, Run, Message, Entry
<1>1. /\ run[w].pc = "retry" /\ WorkerGo(w, "ack")
      /\ UNCHANGED <<job, file, resumes, scored, dead, open, ext, req>>
  BY DEF PublishRetry
<1>2. PICK k \in 1..FileAttempts : k = run[w].msg.try + 1
  BY <1>1, <1>t, BoundsAssumption DEF RunOf, Run, Message
<1>3. PICK m \in Message : m = [run[w].msg EXCEPT !.try = @ + 1] /\ m.file = Entry(w)
  <2>1. run[w].msg \in Message
    BY <1>t DEF Run
  <2>2. [run[w].msg EXCEPT !.try = k] \in Message /\ [run[w].msg EXCEPT !.try = k].file = run[w].msg.file
    BY <2>1 DEF Message
  <2> QED
    BY <1>2, <2>2 DEF Entry
<1>4. \/ Publish(m) /\ UNCHANGED faults
      \/ Spend("outage") /\ UNCHANGED queue
  BY <1>3 DEF PublishRetry, TryPublish
<1>5. faults' \in [FaultKinds -> Nat] /\ Happened \subseteq Happened'
  BY <1>4, Happens, Kinds
<1>6. queue' \in [Message -> Nat] /\ (UNCHANGED queue \/ Published(m))
  BY <1>4, PublishIs DEF Typed, Published
<1>7. Moved(w, "ack", run[w].outcome) /\ \A v \in Workers : RunOf(run'[v], Len(resumes'))
  <2>1. "ack" \in WorkerPC
    BY DEF WorkerPC
  <2> QED
    BY <1>1, <2>1, GoMoves
<1>8. Typed'
  BY <1>1, <1>5, <1>6, <1>7 DEF Typed, Moved
<1> QED
  BY <1>1, <1>3, <1>5, <1>6, <1>7, <1>8

LEMMA CrashStep ==
    ASSUME Typed, NEW w \in Workers, WorkerCrash(w)
    PROVE  /\ Typed' /\ run[w].pc # "idle" /\ "crash" \in Happened' /\ Happened \subseteq Happened'
           /\ UNCHANGED <<job, file, ext, req>>
           /\ run' \in [Workers -> Run] /\ run'[w] = IdleWorker /\ \A v \in Workers \ {w} : run'[v] = run[v]
           /\ run[w].held => Published(run[w].msg)
<1>t. run[w] \in Run /\ run[w].msg \in Message
  BY DEF Typed, Run
<1>1. /\ run[w].pc # "idle" /\ Spend("crash")
      /\ IF run[w].held THEN Publish(run[w].msg) ELSE UNCHANGED queue
      /\ run' = [run EXCEPT ![w] = IdleWorker]
      /\ UNCHANGED <<job, file, resumes, scored, dead, open, ext, req>>
  BY DEF WorkerCrash
<1>2. run' \in [Workers -> Run] /\ run'[w] = IdleWorker /\ \A v \in Workers \ {w} : run'[v] = run[v]
  BY <1>1, Records DEF Typed
<1>3. Len(resumes') \in Nat /\ Len(resumes) <= Len(resumes')
  BY <1>1 DEF Typed
<1>4. \A v \in Workers : RunOf(run'[v], Len(resumes'))
  BY <1>1, <1>3, Records, RunIs
<1>5. faults' \in [FaultKinds -> Nat] /\ Happened' = Happened \cup {"crash"}
  BY <1>1, Happens, Kinds
<1>6. queue' \in [Message -> Nat] /\ (run[w].held => Published(run[w].msg))
  BY <1>1, <1>t, PublishIs DEF Typed, Published
<1>7. Typed'
  BY <1>1, <1>2, <1>4, <1>5, <1>6 DEF Typed
<1> QED
  BY <1>1, <1>2, <1>5, <1>6, <1>7

LEMMA SlowStep ==
    ASSUME Typed, NEW w \in Workers, SlowRedelivery(w) PROVE Typed' /\ "slow" \in Happened'
<1>t. run[w] \in Run /\ run[w].msg \in Message /\ RunOf(run[w], Len(resumes))
  BY DEF Typed, Run
<1>1. /\ Spend("slow") /\ Publish(run[w].msg) /\ run' = [run EXCEPT ![w].held = FALSE]
      /\ UNCHANGED <<job, file, resumes, scored, dead, open, ext, req>>
  BY DEF SlowRedelivery
<1> DEFINE r == [run[w] EXCEPT !.held = FALSE]
<1>2. r \in Run /\ RunOf(r, Len(resumes')) /\ Len(resumes') \in Nat /\ Len(resumes) <= Len(resumes')
  <2>1. r \in Run /\ r.pc = run[w].pc /\ r.resume = run[w].resume /\ r.msg = run[w].msg /\ r.outcome = run[w].outcome
    BY <1>t DEF Run
  <2>2. Len(resumes') = Len(resumes) /\ Len(resumes) \in Nat
    BY <1>1 DEF Typed
  <2> QED
    BY <1>t, <2>1, <2>2 DEF RunOf
<1>3. run' = [run EXCEPT ![w] = r]
  BY <1>1
<1> HIDE DEF r
<1>4. run' \in [Workers -> Run] /\ \A v \in Workers : RunOf(run'[v], Len(resumes'))
  BY <1>2, <1>3, RunIs
<1>5. faults' \in [FaultKinds -> Nat] /\ Happened' = Happened \cup {"slow"}
  BY <1>1, Happens, Kinds
<1>6. queue' \in [Message -> Nat]
  BY <1>1, <1>t, PublishIs
<1>7. Typed'
  BY <1>1, <1>4, <1>5, <1>6 DEF Typed
<1> QED
  BY <1>5, <1>7

-----------------------------------------------------------------------------
(* Steps of the upload and the requests.                                    *)

LEMMA JobIs == ASSUME Typed, NEW s \in JobStatus, JobStatusIs(s)
               PROVE  /\ job' \in JobRow /\ job'.status = s /\ job'.total = job.total
                      /\ Resolved' = Resolved
BY DEF Typed, JobRow, JobStatusIs, Resolved

LEMMA ExtIs == ASSUME Typed, NEW pc \in ExtractPC, ExtGo(pc)
               PROVE  /\ ext' \in Extraction /\ ext'.pc = pc /\ ext'.logged = ext.logged
                      /\ ext'.staged = ext.staged /\ ext'.todo = ext.todo
BY DEF Typed, Extraction, ExtGo

Upload == UploadZip \/ ExtractStep \/ DispatchFails \/ ExtractCrash

LEMMA UploadTyped == ASSUME Typed, Upload PROVE Typed' /\ Happened \subseteq Happened'
<1>t. /\ job \in JobRow /\ file \in [Files -> FileRow] /\ ext \in Extraction /\ queue \in [Message -> Nat]
      /\ faults \in [FaultKinds -> Nat]
  BY DEF Typed
<1>p. /\ "committed" \in ExtractPC /\ "queued" \in ExtractPC /\ "marked" \in ExtractPC /\ "unpack" \in ExtractPC
      /\ "staged" \in ExtractPC /\ "check" \in ExtractPC /\ "send" \in ExtractPC /\ "done" \in ExtractPC
  BY DEF ExtractPC
<1>j. /\ "PENDING" \in JobStatus /\ "EXTRACTING" \in JobStatus /\ "FAILED" \in JobStatus
      /\ "PROCESSING" \in JobStatus /\ "QUEUED" \in FileStatus /\ "CANCELLED" \in FileStatus
  BY DEF JobStatus, Terminal, NonReplayable, FileStatus, Unresolved
<1>e. ASSUME ext' \in Extraction, job' \in JobRow, file' \in [Files -> FileRow], queue' \in [Message -> Nat],
             UNCHANGED faults \/ (\E k \in FaultKinds : Spend(k) \/ Enter(k)),
             UNCHANGED <<resumes, scored, dead, open, run, req>>
      PROVE  Typed' /\ Happened \subseteq Happened'
  <2>1. faults' \in [FaultKinds -> Nat] /\ Happened \subseteq Happened'
    BY <1>e, Happens
  <2> QED
    BY <1>e, <2>1 DEF Typed
<1>1. CASE UploadZip
  BY <1>1, <1>e, <1>j, <1>p, <1>t, JobIs, ExtIs DEF UploadZip
<1>2. CASE SendExtract
  BY <1>2, <1>e, <1>p, <1>t, ExtIs, Kinds DEF SendExtract
<1>3. CASE StartExtract
  <2>1. ext' \in Extraction
    BY <1>3, <1>p, <1>t DEF StartExtract, Extraction
  <2> QED
    BY <1>3, <1>e, <1>t, <2>1 DEF StartExtract
<1>4. CASE MarkExtracting
  BY <1>4, <1>e, <1>j, <1>p, <1>t, JobIs, ExtIs DEF MarkExtracting
<1>5. CASE RejectArchive
  BY <1>5, <1>e, <1>j, <1>p, <1>t, JobIs, ExtIs DEF RejectArchive
<1>6. CASE StageFiles
  <2>1. PICK S \in Archives :
          /\ IF Cardinality(S) > 1 THEN Enter("several") ELSE UNCHANGED faults
          /\ file' = [f \in Files |-> IF f \in S THEN [status |-> "QUEUED", gen |-> 0, object |-> TRUE] ELSE file[f]]
          /\ ext' = [ext EXCEPT !.pc = "staged", !.staged = S, !.todo = S]
    BY <1>6 DEF StageFiles
  <2>2. S \subseteq Files
    BY FilesAssumption
  <2>3. ext' \in Extraction
    BY <1>p, <1>t, <2>1, <2>2 DEF Extraction
  <2>4. [status |-> "QUEUED", gen |-> 0, object |-> TRUE] \in FileRow
    BY <1>j, BoundsAssumption DEF FileRow
  <2>5. file' \in [Files -> FileRow]
    BY <1>t, <2>1, <2>4
  <2> QED
    BY <1>6, <1>e, <1>t, <2>1, <2>3, <2>5, Kinds DEF StageFiles
<1>7. CASE OpenJob
  <2>n. PICK n \in Nat : n = Cardinality(ext.staged)
    BY <1>t, FilesAssumption, FS_Subset, FS_CardinalityType DEF Extraction
  <2>1. job' \in JobRow
    BY <1>7, <1>j, <1>t, <2>n DEF OpenJob, JobRow
  <2> QED
    BY <1>7, <1>e, <1>p, <1>t, <2>1, ExtIs DEF OpenJob
<1>8. CASE AbandonFiles
  <2>1. \A f \in Files : [file[f] EXCEPT !.status = "CANCELLED"] \in FileRow
    BY <1>j, <1>t DEF FileRow
  <2>2. file' \in [Files -> FileRow]
    BY <1>8, <1>t, <2>1 DEF AbandonFiles
  <2> QED
    BY <1>8, <1>e, <1>j, <1>p, <1>t, <2>2, JobIs, ExtIs DEF AbandonFiles
<1>9. CASE KeepFiles
  BY <1>9, <1>e, <1>p, <1>t, ExtIs DEF KeepFiles
<1>10. CASE DispatchFile
  <2>1. PICK f \in ext.todo : Publish(FirstTask(f)) /\ ext' = [ext EXCEPT !.todo = @ \ {f}]
    BY <1>10 DEF DispatchFile
  <2>2. FirstTask(f) \in Message
    BY <1>t, Records DEF Extraction
  <2>3. ext' \in Extraction
    BY <1>t, <2>1 DEF Extraction
  <2>4. queue' \in [Message -> Nat]
    BY <2>1, <2>2, PublishIs
  <2> QED
    BY <1>10, <1>e, <1>t, <2>3, <2>4 DEF DispatchFile
<1>11. CASE ExtractDone
  BY <1>11, <1>e, <1>p, <1>t, ExtIs DEF ExtractDone
<1>12. CASE DispatchFails
  <2>1. \A f \in Files : [file[f] EXCEPT !.object = FALSE] \in FileRow
    BY <1>t DEF FileRow
  <2>2. file' \in [Files -> FileRow]
    BY <1>12, <1>t, <2>1 DEF DispatchFails
  <2> QED
    BY <1>12, <1>e, <1>j, <1>p, <1>t, <2>2, JobIs, ExtIs, Kinds DEF DispatchFails
<1>13. CASE ExtractCrash
  BY <1>13, <1>e, <1>p, <1>t, ExtIs, Kinds DEF ExtractCrash
<1> QED
  BY <1>1, <1>2, <1>3, <1>4, <1>5, <1>6, <1>7, <1>8, <1>9, <1>10, <1>11, <1>12, <1>13 DEF Upload, ExtractStep

Request(c) == CancelRead(c) \/ ReplayRead(c) \/ RequestStep(c)

\* What a request does: its own record, at most one file or one message.
LEMMA RequestIs ==
    ASSUME Typed, NEW c \in Clerks, Request(c)
    PROVE  /\ Typed' /\ Happened \subseteq Happened' /\ UNCHANGED <<run, ext>>
           /\ \A d \in Clerks \ {c} : req'[d] = req[d]
           /\ CancelRead(c) => /\ req'[c].pc = "cancel" /\ UNCHANGED <<job, file, queue>>
           /\ ReplayRead(c) => /\ req'[c].pc = "replay" /\ "replay" \in Happened'
                               /\ UNCHANGED <<job, file, queue>>
                               /\ \E f \in Files : file[f].status = "FAILED"
           /\ ReplayCommit(c) => \E f \in Files :
                /\ req[c].pc = "replay" /\ file[f].status = "FAILED" /\ FileBecomes(f, "QUEUED")
                /\ req'[c].pc = "send" /\ req'[c].msg.file = f
                /\ Resolved' = Resolved - 1 /\ job'.total = job.total /\ UNCHANGED <<queue, faults>>
           /\ ReplayRefused(c) => req'[c].pc = "done" /\ UNCHANGED <<job, file, queue, faults>>
           /\ CancelCommit(c) => /\ req'[c].pc = "done" /\ UNCHANGED <<queue, faults>>
                                 /\ job'.status = "CANCELLED" /\ job'.total = job.total /\ Resolved' = Resolved
                                 /\ \A f \in Files : file'[f].status = IF file[f].status = "QUEUED"
                                                                        THEN "CANCELLED" ELSE file[f].status
           /\ ReplaySend(c) => /\ req[c].pc = "send" /\ req'[c].pc = "done" /\ UNCHANGED <<job, file>>
                               /\ UNCHANGED queue \/ Published(req[c].msg)
<1>t. /\ job \in JobRow /\ file \in [Files -> FileRow] /\ req \in [Clerks -> Asked] /\ req[c] \in Asked
      /\ req[c].msg \in Message /\ req[c].msg.file \in Files /\ queue \in [Message -> Nat]
      /\ faults \in [FaultKinds -> Nat]
  BY DEF Typed, Asked, Message
<1>h. UNCHANGED faults => faults' \in [FaultKinds -> Nat] /\ Happened \subseteq Happened'
  BY Happens
<1>d. ASSUME NEW pc \in ClerkPC, req' = [req EXCEPT ![c].pc = pc]
      PROVE  req' \in [Clerks -> Asked] /\ req'[c].pc = pc /\ \A d \in Clerks \ {c} : req'[d] = req[d]
  BY <1>d, <1>t DEF Asked
<1>p. "cancel" \in ClerkPC /\ "replay" \in ClerkPC /\ "send" \in ClerkPC /\ "done" \in ClerkPC
  BY DEF ClerkPC
<1>n. /\ CancelRead(c) => req[c].pc = "idle" /\ req' = [req EXCEPT ![c].pc = "cancel"]
      /\ ReplayRead(c) => req[c].pc = "idle" /\ req'[c].pc = "replay"
      /\ ReplayCommit(c) => req[c].pc = "replay" /\ file[req[c].msg.file].status = "FAILED"
      /\ ReplayRefused(c) => req[c].pc = "replay" /\ file[req[c].msg.file].status # "FAILED"
      /\ CancelCommit(c) => req[c].pc = "cancel"
      /\ ReplaySend(c) => req[c].pc = "send"
  <2>1. ReplayRead(c) => req'[c].pc = "replay"
    BY <1>t DEF ReplayRead
  <2> QED
    BY <2>1 DEF CancelRead, ReplayRead, ReplayCommit, ReplayRefused, CancelCommit, ReplaySend
<1>1. CASE CancelRead(c)
  <2>1. req' \in [Clerks -> Asked] /\ req'[c].pc = "cancel" /\ \A d \in Clerks \ {c} : req'[d] = req[d]
    BY <1>1, <1>d, <1>p DEF CancelRead
  <2>2. faults' \in [FaultKinds -> Nat] /\ Happened \subseteq Happened'
    BY <1>1, Happens, Kinds DEF CancelRead
  <2>3. UNCHANGED <<job, file, resumes, scored, dead, open, queue, run, ext>>
    BY <1>1 DEF CancelRead
  <2>4. Typed'
    BY <2>1, <2>2, <2>3 DEF Typed
  <2> QED
    BY <1>1, <1>n, <2>1, <2>2, <2>3, <2>4
<1>2. CASE ReplayRead(c)
  <2>1. PICK f \in Files : /\ file[f].status = "FAILED"
                           /\ req' = [req EXCEPT ![c] = [pc |-> "replay", msg |-> FirstTask(f),
                                                         reopen |-> job.status # "PROCESSING"]]
    BY <1>2 DEF ReplayRead
  <2>2. [pc |-> "replay", msg |-> FirstTask(f), reopen |-> job.status # "PROCESSING"] \in Asked
    BY <1>p, Records DEF Asked
  <2>3. req' \in [Clerks -> Asked] /\ req'[c].pc = "replay" /\ \A d \in Clerks \ {c} : req'[d] = req[d]
    BY <1>t, <2>1, <2>2
  <2>4. faults' \in [FaultKinds -> Nat] /\ Happened \subseteq Happened' /\ "replay" \in Happened'
    BY <1>2, Happens, Kinds DEF ReplayRead
  <2>5. UNCHANGED <<job, file, resumes, scored, dead, open, queue, run, ext>>
    BY <1>2 DEF ReplayRead
  <2>6. Typed'
    BY <2>3, <2>4, <2>5 DEF Typed
  <2> QED
    BY <1>2, <1>n, <2>1, <2>3, <2>4, <2>5, <2>6
<1>3. CASE ReplayCommit(c)
  <2>f. PICK f \in Files : f = req[c].msg.file
    BY <1>t
  <2>1. /\ req[c].pc = "replay" /\ file[f].status = "FAILED" /\ file[f].gen < MaxReplays
        /\ file' = [file EXCEPT ![f].status = "QUEUED", ![f].gen = @ + 1]
        /\ job' = [job EXCEPT !.failed = @ - 1, !.status = IF req[c].reopen THEN "PROCESSING" ELSE @]
        /\ req' = [req EXCEPT ![c].pc = "send", ![c].msg.gen = file[f].gen + 1]
        /\ UNCHANGED <<resumes, scored, dead, open, queue, run, ext, faults>>
    BY <1>3, <2>f DEF ReplayCommit
  <2>g. PICK g \in 0..MaxReplays : g = file[f].gen + 1
    BY <1>t, <2>1, BoundsAssumption DEF FileRow
  <2> DEFINE row == [file[f] EXCEPT !.status = "QUEUED", !.gen = g]
             m == [req[c].msg EXCEPT !.gen = g]
             r == [req[c] EXCEPT !.pc = "send", !.msg = m]
  <2>2. row \in FileRow /\ row.status = "QUEUED"
    <3>1. file[f] \in FileRow /\ "QUEUED" \in FileStatus
      BY <1>t DEF FileStatus, Unresolved
    <3> QED
      BY <3>1 DEF FileRow
  <2>3. m \in Message /\ m.file = f
    BY <1>t, <2>f DEF Message
  <2>4. r \in Asked /\ r.pc = "send" /\ r.msg = m
    BY <1>p, <1>t, <2>3 DEF Asked
  <2>5. file' = [file EXCEPT ![f] = row]
    BY <1>t, <2>1, <2>g DEF FileRow
  <2>6. req' = [req EXCEPT ![c] = r]
    BY <1>t, <2>1, <2>g DEF Asked, Message
  <2>7. /\ job' \in JobRow /\ job'.total = job.total /\ Resolved' = Resolved - 1
    <3>1. "PROCESSING" \in JobStatus
      BY DEF JobStatus
    <3>2. job.failed \in Int /\ job.processed \in Nat /\ job.duplicate \in Nat /\ job.status \in JobStatus
      BY <1>t DEF JobRow
    <3>3. PICK k \in Int, s \in JobStatus : k = job.failed - 1 /\ s = IF req[c].reopen THEN "PROCESSING" ELSE job.status
      BY <3>1, <3>2
    <3>4. job' = [job EXCEPT !.failed = k, !.status = s]
      BY <1>t, <2>1, <3>3 DEF JobRow
    <3>5. /\ job' \in JobRow /\ job'.total = job.total /\ job'.failed = k
          /\ job'.processed = job.processed /\ job'.duplicate = job.duplicate
      BY <1>t, <3>4 DEF JobRow
    <3> QED
      BY <3>2, <3>3, <3>5 DEF Resolved
  <2> HIDE DEF row, m, r
  <2>8. FileBecomes(f, "QUEUED")
    BY <1>t, <2>2, <2>5 DEF FileBecomes
  <2>9. req' \in [Clerks -> Asked] /\ req'[c] = r /\ \A d \in Clerks \ {c} : req'[d] = req[d]
    BY <1>t, <2>4, <2>6
  <2>10. Typed' /\ Happened' = Happened
    BY <2>1, <2>7, <2>8, <2>9, Happens DEF Typed, FileBecomes
  <2> QED
    BY <1>3, <1>n, <2>1, <2>3, <2>4, <2>7, <2>8, <2>9, <2>10
<1>4. CASE ReplayRefused(c)
  <2>1. req' \in [Clerks -> Asked] /\ req'[c].pc = "done" /\ \A d \in Clerks \ {c} : req'[d] = req[d]
    BY <1>4, <1>d, <1>p DEF ReplayRefused
  <2>2. UNCHANGED <<job, file, resumes, scored, dead, open, queue, run, ext, faults>>
    BY <1>4 DEF ReplayRefused
  <2>3. Typed'
    BY <2>1, <2>2 DEF Typed
  <2> QED
    BY <1>4, <1>h, <1>n, <2>1, <2>2, <2>3
<1>5. CASE CancelCommit(c)
  <2>1. req' \in [Clerks -> Asked] /\ req'[c].pc = "done" /\ \A d \in Clerks \ {c} : req'[d] = req[d]
    BY <1>5, <1>d, <1>p DEF CancelCommit
  <2>2. UNCHANGED <<resumes, scored, dead, open, queue, run, ext, faults>>
    BY <1>5 DEF CancelCommit
  <2>3. job' \in JobRow /\ job'.status = "CANCELLED" /\ job'.total = job.total /\ Resolved' = Resolved
    <3>1. "CANCELLED" \in JobStatus /\ JobStatusIs("CANCELLED")
      BY <1>5 DEF JobStatus, Terminal, CancelCommit
    <3> QED
      BY <3>1, JobIs
  <2>4. \A f \in Files : /\ [file[f] EXCEPT !.status = "CANCELLED"] \in FileRow
                         /\ [file[f] EXCEPT !.status = "CANCELLED"].status = "CANCELLED"
    <3>1. "CANCELLED" \in FileStatus
      BY DEF FileStatus
    <3> QED
      BY <1>t, <3>1 DEF FileRow
  <2>5. file' = [f \in Files |-> IF file[f].status = "QUEUED" THEN [file[f] EXCEPT !.status = "CANCELLED"] ELSE file[f]]
    BY <1>5 DEF CancelCommit
  <2>6. /\ file' \in [Files -> FileRow]
        /\ \A f \in Files : file'[f].status = IF file[f].status = "QUEUED" THEN "CANCELLED" ELSE file[f].status
    BY <1>t, <2>4, <2>5
  <2>7. Typed'
    BY <2>1, <2>2, <2>3, <2>6 DEF Typed
  <2> QED
    BY <1>5, <1>h, <1>n, <2>1, <2>2, <2>3, <2>6, <2>7
<1>6. CASE ReplaySend(c)
  <2>1. req' \in [Clerks -> Asked] /\ req'[c].pc = "done" /\ \A d \in Clerks \ {c} : req'[d] = req[d]
    BY <1>6, <1>d, <1>p DEF ReplaySend
  <2>2. UNCHANGED <<job, file, resumes, scored, dead, open, run, ext>>
    BY <1>6 DEF ReplaySend
  <2>3. \/ Publish(req[c].msg) /\ UNCHANGED faults
        \/ Spend("outage") /\ UNCHANGED queue
    BY <1>6 DEF ReplaySend, TryPublish
  <2>4. faults' \in [FaultKinds -> Nat] /\ Happened \subseteq Happened'
    BY <2>3, Happens, Kinds
  <2>5. queue' \in [Message -> Nat] /\ (UNCHANGED queue \/ Published(req[c].msg))
    BY <1>t, <2>3, PublishIs DEF Published
  <2>6. Typed'
    BY <2>1, <2>2, <2>4, <2>5 DEF Typed
  <2> QED
    BY <1>6, <1>n, <2>1, <2>2, <2>4, <2>5, <2>6
<1> QED
  BY <1>1, <1>2, <1>3, <1>4, <1>5, <1>6 DEF Request, RequestStep

-----------------------------------------------------------------------------
(* What the steps do to the carriers and to the control states.             *)

LEMMA ExclusiveBefore ==
    ASSUME Happened \subseteq Happened', Exclusive'
    PROVE  /\ Exclusive /\ "slow" \notin Happened'
           /\ Happened' \cap {"retry", "replay"} = {} \/ "crash" \notin Happened'
BY DEF Exclusive

\* Carriers go, or hand nothing over.
LEMMA TokensShrink ==
    ASSUME TokenInv, Typed, Typed', Happened \subseteq Happened', InQueue' \subseteq InQueue,
           \A m \in Message : queue'[m] <= queue[m],
           Pending' \subseteq Pending, Holding' \subseteq Holding, Engaged' \subseteq Engaged,
           Sending' \subseteq Sending,
           \A w \in Holding' : run'[w].msg = run[w].msg, \A c \in Sending' : req'[c].msg = req[c].msg,
           "crash" \notin Happened' => InProgress'
    PROVE  TokenInv'
<1>1. \A m \in Message : queue'[m] <= 1
  BY DEF TokenInv, Typed
<1>2. /\ \A w \in Holding' : w \in Workers /\ Of'[w] = Of[w]
      /\ \A c \in Sending' : By'[c] = By[c]
  BY DEF Holding, Sending, Of, By, Entry
<1>3. \A w \in Engaged' : w \in Holding'
  BY DEF Engaged, Holding
<1>4. ASSUME OneCarrier(Holding) PROVE OneCarrier(Holding)'
  BY <1>2, <1>4, LoneShrinks DEF OneCarrier
<1>5. ASSUME OneCarrier(Engaged) PROVE OneCarrier(Engaged)'
  BY <1>2, <1>3, <1>5, LoneShrinks DEF OneCarrier
<1> QED
  BY <1>1, <1>4, <1>5 DEF TokenInv

\* The others are as they were.
LEMMA OthersKept ==
    ASSUME Typed, Inner, Happened \subseteq Happened', NEW v \in Workers, run'[v] = run[v],
           ext'.staged = ext.staged \/ run[v].outcome = "none",
           Working(v) => file'[Entry(v)].status = "RUNNING"
    PROVE  WorkerInv(v)'
<1>1. WorkerInv(v)
  BY DEF Inner
<1> QED
  BY <1>1 DEF WorkerInv, Working, Entry

LEMMA LocalInner ==
    ASSUME Typed, Typed', Inner, Exclusive', NEW w \in Workers, LocalEffect(w) PROVE Inner'
<1>1. PICK pc \in WorkerPC : Moved(w, pc, run[w].outcome) /\ Edge(w, pc)
  BY DEF LocalEffect
<1>2. /\ UNCHANGED <<file, queue, ext, req>> /\ Happened \subseteq Happened'
      /\ run'[w].pc = pc /\ run'[w].outcome = run[w].outcome
      /\ run'[w].msg = run[w].msg /\ run'[w].held = run[w].held
      /\ \A v \in Workers \ {w} : run'[v] = run[v]
  BY <1>1 DEF LocalEffect, Moved
<1>3. WorkerInv(w)'
  <2>1. WorkerInv(w)
    BY DEF Inner
  <2> QED
    BY <1>1, <1>2, <2>1 DEF WorkerInv, Edge, Working, Entry, Counting
<1>4. \A v \in Workers : WorkerInv(v)'
  <2>1. ASSUME NEW v \in Workers \ {w} PROVE WorkerInv(v)'
    <3>1. Working(v) => file'[Entry(v)].status = "RUNNING"
      BY <1>2 DEF Inner, WorkerInv
    <3> QED
      BY <1>2, <3>1, OthersKept
  <2> QED
    BY <1>3, <2>1
<1>5. \A c \in Clerks : ClerkInv(c)'
  BY <1>2 DEF Inner, ClerkInv
<1>6. w \in Holding /\ Holding' \subseteq Holding /\ Engaged' \subseteq Engaged
  BY <1>1, <1>2 DEF Holding, Engaged, Edge
<1>7. InQueue' = InQueue /\ Pending' = Pending /\ Sending' = Sending
  BY <1>2 DEF InQueue, Pending, Sending
<1>8. ExtInv'
  <2>1. Undispatched' <=> Undispatched
    BY <1>2 DEF Undispatched, Unstaged
  <2>2. ~Undispatched
    BY <1>6 DEF Inner, ExtInv
  <2> QED
    BY <1>2, <2>1, <2>2 DEF Inner, ExtInv, Undispatched, Unstaged
<1>9. TokenInv'
  <2>1. "crash" \notin Happened' => InProgress'
    <3> SUFFICES ASSUME InProgress PROVE InProgress'
      BY <1>2 DEF Inner, TokenInv
    <3>1. \A v \in Engaged' : Of'[v] = Of[v] /\ run'[v].outcome = run[v].outcome
      BY <1>2 DEF Engaged, Of, Entry
    <3>2. By' = By
      BY <1>2 DEF By
    <3> QED
      BY <1>2, <1>6, <1>7, <3>1, <3>2 DEF InProgress
  <2>2. \A v \in Holding' : run'[v].msg = run[v].msg
    BY <1>2 DEF Holding
  <2>3. \A m \in Message : queue'[m] <= queue[m]
    BY <1>2 DEF Typed
  <2> QED
    BY <1>2, <1>6, <1>7, <2>1, <2>2, <2>3, TokensShrink DEF Inner
<1>10. "db" \notin Happened' => ClosingInv'
  <2> SUFFICES ASSUME "db" \notin Happened', ClosingInv PROVE ClosingInv'
    BY <1>2 DEF Inner
  <2>1. SettledFiles' = SettledFiles
    BY <1>2 DEF SettledFiles, Settled
  <2>2. job'.total = job.total /\ Resolved' = Resolved /\ (job' = job \/ run[w].pc = "closing")
    BY <1>1 DEF Edge, Resolved, Typed, JobRow
  <2>3. ASSUME pc = "closing" PROVE ext.staged \subseteq SettledFiles
    <3>1. job.total # 0 /\ Resolved >= job.total
      BY <1>1, <2>3 DEF Edge, AllResolved
    <3>2. Cardinality(SettledFiles) >= Cardinality(ext.staged)
      BY <3>1 DEF ClosingInv
    <3>3. SettledFiles \subseteq ext.staged
      BY DEF Inner, ExtInv, SettledFiles, Settled
    <3>4. IsFiniteSet(ext.staged)
      BY FilesAssumption, FS_Subset DEF Typed, Extraction
    <3>5. IsFiniteSet(SettledFiles) /\ Cardinality(SettledFiles) \in Nat /\ Cardinality(ext.staged) \in Nat
      BY <3>3, <3>4, FS_Subset, FS_CardinalityType
    <3>6. SettledFiles = ext.staged
      BY <3>2, <3>3, <3>4, <3>5, FS_Subset
    <3> QED
      BY <3>6
  <2>4. ASSUME "replay" \notin Happened' PROVE \A v \in Workers : run'[v].pc = "closing" => ext.staged \subseteq SettledFiles
    BY <1>2, <2>3, <2>4 DEF ClosingInv
  <2>5. ASSUME "replay" \notin Happened', job'.status \in {"COMPLETED", "PARTIAL_FAILURE"}
        PROVE  ext.staged \subseteq SettledFiles
    BY <1>2, <2>2, <2>5 DEF ClosingInv
  <2>6. ~Undispatched'
    BY <1>2, <1>6 DEF Inner, ExtInv, Undispatched, Unstaged
  <2> QED
    BY <1>2, <2>1, <2>2, <2>4, <2>5, <2>6 DEF ClosingInv
<1> QED
  BY <1>4, <1>5, <1>8, <1>9, <1>10 DEF Inner

LEMMA SettleInner ==
    ASSUME Typed, Typed', Inner, Exclusive', NEW w \in Workers, NEW s \in {"PROCESSED", "FAILED"}, NEW o \in Outcomes,
           SettleEffect(w, s, o)
    PROVE  Inner'
<1>1. /\ UNCHANGED <<queue, ext, req, faults>> /\ Happened' = Happened
      /\ run'[w].pc = "counted" /\ run'[w].outcome = o /\ o \in {"processed", "duplicate", "failed"}
      /\ run'[w].msg = run[w].msg /\ run'[w].held = run[w].held
      /\ \A v \in Workers \ {w} : run'[v] = run[v]
      /\ file'[Entry(w)].status = s /\ \A g \in Files \ {Entry(w)} : file'[g] = file[g]
      /\ (s = "PROCESSED" /\ o # "failed") \/ (s = "FAILED" /\ o = "failed")
  BY Happens DEF SettleEffect, Moved, FileBecomes
<1>f. Entry(w) \in Files /\ \A v \in Workers : Entry(v) \in Files
  BY DEF Typed, Run, Message, Entry
<1>i. WorkerInv(w)
  BY DEF Inner
<1>2. /\ run[w].pc \notin {"idle", "ack"} \cup Counting /\ run[w].outcome # "failed"
      /\ run[w].outcome = "none" => Working(w)
      /\ Entry(w) \in ext.staged
  <2>1. run[w].pc \in {"known", "link", "parsed", "conflict", "refused", "fail"}
    BY DEF SettleEffect
  <2>2. run[w].outcome = "none" => Working(w)
    BY <2>1 DEF Working
  <2>3. run[w].outcome # "failed"
    BY <1>i, <2>1 DEF WorkerInv
  <2>4. Entry(w) \in ext.staged
    <3>1. CASE run[w].outcome = "none"
      BY <1>f, <1>i, <2>2, <3>1 DEF WorkerInv, Inner, ExtInv
    <3>2. CASE run[w].outcome # "none"
      BY <1>i, <3>2 DEF WorkerInv
    <3> QED
      BY <3>1, <3>2
  <2> QED
    BY <2>1, <2>2, <2>3, <2>4 DEF Counting
<1>3. w \in Holding /\ w \in Engaged
  BY <1>2 DEF Holding, Engaged
<1>4. \A v \in Workers : WorkerInv(v)'
  <2>1. WorkerInv(w)'
    BY <1>1, <1>2, <1>i DEF WorkerInv, Working, Entry, Counting
  <2>2. ASSUME NEW v \in Workers \ {w} PROVE WorkerInv(v)'
    <3>1. ASSUME Working(v) PROVE Entry(v) # Entry(w)
      <4>1. v \in Holding /\ v \in Engaged
        BY <3>1 DEF Working, Holding, Engaged
      <4>2. Of[v] = Entry(v) /\ Of[w] = Entry(w)
        BY DEF Of
      <4>3. OneCarrier(Holding) \/ OneCarrier(Engaged)
        BY <1>1, ExclusiveBefore DEF Inner, TokenInv
      <4> QED
        BY <1>3, <2>2, <4>1, <4>2, <4>3 DEF OneCarrier, Lone
    <3>2. Working(v) => file'[Entry(v)].status = "RUNNING"
      BY <1>1, <1>f, <3>1 DEF Inner, WorkerInv
    <3> QED
      BY <1>1, <3>2, OthersKept
  <2> QED
    BY <2>1, <2>2
<1>5. \A c \in Clerks : ClerkInv(c)'
  BY <1>1 DEF Inner, ClerkInv
<1>6. ExtInv'
  <2>1. (Undispatched' <=> Undispatched) /\ (Unstaged' <=> Unstaged)
    BY <1>1 DEF Undispatched, Unstaged
  <2>2. ~Undispatched
    BY <1>3 DEF Inner, ExtInv
  <2>3. ~Unstaged
    BY <2>2 DEF Undispatched
  <2> QED
    BY <1>1, <1>2, <2>1, <2>2, <2>3 DEF Inner, ExtInv
<1>7. TokenInv'
  <2>1. InQueue' = InQueue /\ Pending' = Pending /\ Sending' = Sending /\ By' = By
    BY <1>1 DEF InQueue, Pending, Sending, By
  <2>2. Holding' = Holding /\ Engaged' \subseteq Engaged
    BY <1>1, <1>2 DEF Holding, Engaged
  <2>3. ASSUME "crash" \notin Happened' PROVE InProgress'
    <3>1. InProgress /\ OneCarrier(Engaged)
      BY <1>1, <2>3 DEF Inner, TokenInv
    <3>2. Of[w] = Entry(w) /\ Of' = Of
      BY <1>1 DEF Of, Entry
    <3>3. /\ \A m \in InQueue : m.file # Entry(w) /\ m.file \in Files
          /\ \A g \in Pending : g # Entry(w) /\ g \in Files
          /\ \A c \in Sending : By[c] # Entry(w) /\ By[c] \in Files
          /\ \A v \in Engaged \ {w} : Of[v] # Entry(w) /\ Of[v] \in Files
      <4>1. /\ \A m \in InQueue : m.file # Entry(w)
            /\ \A g \in Pending : g # Entry(w)
            /\ \A c \in Sending : By[c] # Entry(w)
            /\ \A v \in Engaged \ {w} : Of[v] # Entry(w)
        BY <1>3, <3>1, <3>2 DEF OneCarrier, Lone
      <4>2. /\ \A m \in InQueue : m.file \in Files
            /\ \A g \in Pending : g \in Files
            /\ \A c \in Sending : By[c] \in Files
            /\ \A v \in Engaged : Of[v] \in Files
        BY <1>f DEF InQueue, Pending, Sending, Engaged, By, Of, Typed, Extraction, Asked, Message
      <4> QED
        BY <4>1, <4>2
    <3>4. \A v \in Engaged' \ {w} : v \in Engaged /\ run'[v] = run[v]
      BY <1>1, <2>2 DEF Engaged
    <3>5. w \in Engaged' => s = "PROCESSED" /\ o # "none"
      BY <1>1 DEF Engaged
    <3>6. /\ \A m \in InQueue' : file'[m.file].status \in Alive
          /\ \A g \in Pending' : file'[g].status \in Alive
          /\ \A c \in Sending' : file'[By'[c]].status \in Alive
      BY <1>1, <2>1, <3>1, <3>3 DEF InProgress
    <3>7. ASSUME NEW v \in Engaged'
          PROVE  file'[Of'[v]].status \in IF run'[v].outcome = "none" THEN Alive ELSE {"PROCESSED"}
      <4>1. CASE v = w
        BY <1>1, <3>2, <3>5, <4>1
      <4>2. CASE v # w
        BY <1>1, <3>1, <3>2, <3>3, <3>4, <4>2 DEF InProgress
      <4> QED
        BY <4>1, <4>2
    <3> QED
      BY <3>6, <3>7 DEF InProgress
  <2>4. \A v \in Holding' : run'[v].msg = run[v].msg
    BY <1>1 DEF Holding
  <2>5. \A m \in Message : queue'[m] <= queue[m]
    BY <1>1 DEF Typed
  <2> QED
    BY <1>1, <2>1, <2>2, <2>3, <2>4, <2>5, TokensShrink DEF Inner
<1>8. "db" \notin Happened' => ClosingInv'
  <2> SUFFICES ASSUME "db" \notin Happened', ClosingInv PROVE ClosingInv'
    BY <1>1 DEF Inner
  <2>1. Working(w)
    BY <1>1, <1>2, <1>i DEF WorkerInv
  <2>2. file[Entry(w)].status = "RUNNING"
    BY <1>i, <2>1 DEF WorkerInv
  <2>3. SettledFiles' = SettledFiles \cup {Entry(w)} /\ Entry(w) \notin SettledFiles
    BY <1>1, <1>f, <2>2 DEF SettledFiles, Settled
  <2>4. Cardinality(SettledFiles') = Cardinality(SettledFiles) + 1
    <3>1. IsFiniteSet(SettledFiles)
      BY FilesAssumption, FS_Subset DEF SettledFiles
    <3> QED
      BY <2>3, <3>1, FS_AddElement
  <2>5. Resolved' = Resolved + 1 /\ job'.total = job.total /\ job'.status = job.status
    BY DEF SettleEffect
  <2>6. \A v \in Workers : run'[v].pc = "closing" => run[v].pc = "closing"
    BY <1>1
  <2>7. ~Undispatched'
    BY <1>1, <1>3 DEF Inner, ExtInv, Undispatched, Unstaged
  <2> QED
    BY <1>1, <2>3, <2>4, <2>5, <2>6, <2>7 DEF ClosingInv
<1> QED
  BY <1>4, <1>5, <1>6, <1>7, <1>8 DEF Inner

\* Steps that leave the files, the uploads and the requests alone.
LEMMA RunInner ==
    ASSUME Typed, Typed', Inner, Exclusive', Happened \subseteq Happened', NEW w \in Workers,
           UNCHANGED <<job, file, ext, req>>, \A v \in Workers \ {w} : run'[v] = run[v],
           WorkerInv(w)', run'[w].pc # "closing", ~Undispatched, TokenInv'
    PROVE  Inner'
<1>1. ASSUME NEW v \in Workers PROVE WorkerInv(v)'
  <2>1. CASE v = w
    BY <2>1
  <2>2. CASE v # w
    <3>1. Working(v) => file'[Entry(v)].status = "RUNNING"
      BY DEF Inner, WorkerInv
    <3> QED
      BY <2>2, <3>1, OthersKept
  <2> QED
    BY <2>1, <2>2
<1>2. \A c \in Clerks : ClerkInv(c)'
  BY DEF Inner, ClerkInv
<1>3. (Undispatched' <=> Undispatched) /\ (Unstaged' <=> Unstaged) /\ ~Unstaged
  BY DEF Undispatched, Unstaged
<1>4. ExtInv'
  BY <1>3 DEF Inner, ExtInv
<1>5. "db" \notin Happened' => ClosingInv'
  <2> SUFFICES ASSUME "db" \notin Happened', ClosingInv PROVE ClosingInv'
    BY DEF Inner
  <2>1. SettledFiles' = SettledFiles /\ Resolved' = Resolved
    BY DEF SettledFiles, Settled, Resolved
  <2>2. \A v \in Workers : run'[v].pc = "closing" => run[v].pc = "closing"
    OBVIOUS
  <2> QED
    BY <1>3, <2>1, <2>2 DEF ClosingInv
<1> QED
  BY <1>1, <1>2, <1>4, <1>5 DEF Inner

LEMMA AckInner == ASSUME Typed, Inner, Exclusive', NEW w \in Workers, Ack(w) PROVE Inner'
<1>1. /\ Typed' /\ run[w].pc = "ack" /\ run'[w] = IdleWorker /\ \A v \in Workers \ {w} : run'[v] = run[v]
      /\ UNCHANGED <<job, file, queue, ext, req, faults>>
  BY AckStep DEF Ack
<1>2. Happened' = Happened
  BY <1>1, Happens
<1>3. IdleWorker.pc = "idle" /\ IdleWorker.outcome = "none"
  BY Records
<1>4. WorkerInv(w)'
  BY <1>1, <1>3 DEF WorkerInv, Working, Counting
<1>5. ~Undispatched
  BY <1>1 DEF Inner, ExtInv, Holding
<1>6. /\ InQueue' = InQueue /\ Pending' = Pending /\ Sending' = Sending /\ By' = By
      /\ Holding' \subseteq Holding /\ Engaged' \subseteq Engaged
      /\ \A v \in Holding' : v # w
  BY <1>1, <1>3 DEF InQueue, Pending, Sending, By, Holding, Engaged
<1>7. TokenInv'
  <2>1. "crash" \notin Happened' => InProgress'
    <3> SUFFICES ASSUME InProgress PROVE InProgress'
      BY <1>2 DEF Inner, TokenInv
    <3>1. \A v \in Engaged' : Of'[v] = Of[v] /\ run'[v] = run[v]
      <4>1. \A v \in Engaged' : v \in Workers \ {w}
        BY <1>1, <1>3 DEF Engaged
      <4> QED
        BY <1>1, <4>1 DEF Of, Entry
    <3> QED
      BY <1>1, <1>6, <3>1 DEF InProgress
  <2>2. \A v \in Holding' : run'[v].msg = run[v].msg
    BY <1>1, <1>6 DEF Holding
  <2>3. \A m \in Message : queue'[m] <= queue[m]
    BY <1>1 DEF Typed
  <2>4. \A c \in Sending' : req'[c].msg = req[c].msg
    BY <1>1
  <2> QED
    BY <1>1, <1>2, <1>6, <2>1, <2>2, <2>3, <2>4, TokensShrink DEF Inner
<1>8. run'[w].pc # "closing"
  BY <1>1, <1>3
<1> QED
  BY <1>1, <1>2, <1>4, <1>5, <1>7, <1>8, RunInner

LEMMA ReceiveInner == ASSUME Typed, Inner, Exclusive', NEW w \in Workers, Receive(w) PROVE Inner'
<1>1. /\ Typed' /\ run[w].pc = "idle" /\ UNCHANGED <<job, file, ext, req, faults>>
  BY ReceiveStep
<1>2. PICK m \in InQueue : /\ \A n \in Message : queue'[n] = IF n = m THEN queue[m] - 1 ELSE queue[n]
                           /\ \A v \in Workers \ {w} : run'[v] = run[v]
                           /\ run'[w].pc = "claim" /\ run'[w].msg = m /\ run'[w].held /\ run'[w].outcome = "none"
  BY ReceiveStep
<1>3. Happened' = Happened
  BY <1>1, Happens
<1>4. WorkerInv(w)'
  BY <1>2 DEF WorkerInv, Working, Counting
<1>5. ~Undispatched
  BY DEF Inner, ExtInv
<1>6. /\ InQueue' = InQueue \ {m} /\ Pending' = Pending /\ Sending' = Sending /\ By' = By
      /\ Holding' = Holding \cup {w} /\ Engaged' = Engaged \cup {w} /\ w \notin Holding /\ w \notin Engaged
  <2>1. m \in Message /\ queue[m] = 1
    BY DEF Inner, TokenInv, InQueue, Typed
  <2>2. InQueue' = InQueue \ {m}
    BY <1>2, <2>1 DEF InQueue
  <2>3. Pending' = Pending /\ Sending' = Sending /\ By' = By
    BY <1>1 DEF Pending, Sending, By
  <2>4. Holding' = Holding \cup {w} /\ Engaged' = Engaged \cup {w} /\ w \notin Holding /\ w \notin Engaged
    BY <1>1, <1>2 DEF Holding, Engaged
  <2> QED
    BY <2>2, <2>3, <2>4
<1>7. Of'[w] = m.file /\ \A v \in Workers \ {w} : Of'[v] = Of[v]
  BY <1>2 DEF Of, Entry
<1>8. TokenInv'
  <2>1. \A W : OneCarrier(W) /\ W \subseteq Workers /\ w \notin W
                 => Lone(InQueue \ {m}, Pending, W \cup {w}, Of', Sending, By)
    <3> SUFFICES ASSUME NEW W, OneCarrier(W), W \subseteq Workers, w \notin W
                 PROVE  Lone(InQueue \ {m}, Pending, W \cup {w}, Of', Sending, By)
      OBVIOUS
    <3>1. \A v \in W : Of'[v] = Of[v]
      BY <1>7
    <3> QED
      BY <1>7, <3>1, QueueToWorker DEF OneCarrier
  <2>2. Holding \subseteq Workers /\ Engaged \subseteq Workers
    BY DEF Holding, Engaged
  <2>3. \A n \in Message : queue'[n] <= 1
    <3>1. \A n \in Message : queue[n] <= 1 /\ queue[n] \in Nat
      BY DEF Inner, TokenInv, Typed
    <3> QED
      BY <1>2, <3>1 DEF InQueue
  <2>4. OneCarrier(Holding) => OneCarrier(Holding)'
    BY <1>6, <2>1, <2>2 DEF OneCarrier
  <2>5. OneCarrier(Engaged) => OneCarrier(Engaged)'
    BY <1>6, <2>1, <2>2 DEF OneCarrier
  <2>6. InProgress => InProgress'
    <3> SUFFICES ASSUME InProgress PROVE InProgress'
      OBVIOUS
    <3>1. \A v \in Engaged' : \/ v = w /\ file[m.file].status \in Alive
                              \/ v \in Engaged /\ Of'[v] = Of[v] /\ run'[v] = run[v]
      BY <1>2, <1>6, <1>7, <2>2 DEF InProgress
    <3> QED
      BY <1>1, <1>2, <1>6, <1>7, <3>1 DEF InProgress
  <2> QED
    BY <1>3, <2>3, <2>4, <2>5, <2>6 DEF Inner, TokenInv
<1>9. run'[w].pc # "closing"
  BY <1>2
<1> QED
  BY <1>1, <1>2, <1>3, <1>4, <1>5, <1>8, <1>9, RunInner

LEMMA PublishRetryInner == ASSUME Typed, Inner, Exclusive', NEW w \in Workers, PublishRetry(w) PROVE Inner'
<1>1. /\ Typed' /\ run[w].pc = "retry" /\ UNCHANGED <<job, file, ext, req>> /\ Happened \subseteq Happened'
      /\ run'[w].pc = "ack" /\ run'[w].outcome = run[w].outcome /\ run'[w].msg = run[w].msg
      /\ run'[w].held = run[w].held /\ \A v \in Workers \ {w} : run'[v] = run[v]
      /\ UNCHANGED queue \/ \E m \in Message : m.file = Entry(w) /\ Published(m)
  BY PublishRetryStep DEF Moved
<1>2. /\ "retry" \in Happened' /\ "crash" \notin Happened' /\ run[w].outcome = "none" /\ WorkerInv(w)
  <2>1. WorkerInv(w)
    BY DEF Inner
  <2>2. "retry" \in Happened' /\ run[w].outcome = "none"
    BY <1>1, <2>1 DEF WorkerInv, Counting
  <2> QED
    BY <1>1, <2>1, <2>2, ExclusiveBefore
<1>4. WorkerInv(w)'
  BY <1>1, <1>2 DEF WorkerInv, Working, Counting
<1>5. ~Undispatched
  BY <1>1 DEF Inner, ExtInv, Holding
<1>6. /\ Pending' = Pending /\ Sending' = Sending /\ By' = By /\ Of' = Of
      /\ Holding' = Holding /\ Engaged' = Engaged \ {w} /\ w \in Engaged
  <2>1. Pending' = Pending /\ Sending' = Sending /\ By' = By /\ Of' = Of
    BY <1>1 DEF Pending, Sending, By, Of, Entry
  <2>2. Holding' = Holding /\ Engaged' = Engaged \ {w} /\ w \in Engaged
    BY <1>1, <1>2 DEF Holding, Engaged
  <2> QED
    BY <2>1, <2>2
<1>i. OneCarrier(Engaged) /\ InProgress
  BY <1>1, <1>2 DEF Inner, TokenInv
<1>e. \A v \in Engaged' : v \in Engaged /\ run'[v] = run[v]
  <2>1. Engaged \subseteq Workers
    BY DEF Engaged
  <2> QED
    BY <1>1, <1>6, <2>1
<1>7. CASE UNCHANGED queue
  <2>1. InQueue' = InQueue
    BY <1>7 DEF InQueue
  <2>2. InProgress'
    BY <1>1, <1>6, <1>e, <1>i, <2>1 DEF InProgress
  <2>3. \A m \in Message : queue'[m] <= queue[m]
    BY <1>7 DEF Typed
  <2>4. (\A v \in Holding' : run'[v].msg = run[v].msg) /\ (\A c \in Sending' : req'[c].msg = req[c].msg)
    BY <1>1 DEF Holding
  <2>5. TokenInv'
    BY <1>1, <1>6, <2>1, <2>2, <2>3, <2>4, TokensShrink DEF Inner
  <2> QED
    BY <1>1, <1>4, <1>5, <2>5, RunInner
<1>8. ASSUME NEW m \in Message, m.file = Entry(w), Published(m) PROVE Inner'
  <2>1. Of[w] = m.file
    BY <1>8 DEF Of
  <2>2. Lone(InQueue \cup {m}, Pending, Engaged \ {w}, Of', Sending, By) /\ m \notin InQueue
    BY <1>6, <1>i, <2>1, WorkerToQueue DEF OneCarrier
  <2>3. InQueue' = InQueue \cup {m} /\ \A n \in Message : queue'[n] <= 1
    BY <1>8, <2>2 DEF Published, Inner, TokenInv
  <2>4. InProgress'
    <3>1. file[m.file].status \in Alive
      BY <1>2, <1>6, <1>i, <2>1 DEF InProgress
    <3> QED
      BY <1>1, <1>6, <1>e, <1>i, <2>3, <3>1 DEF InProgress
  <2>5. TokenInv'
    BY <1>2, <1>6, <2>2, <2>3, <2>4 DEF TokenInv, OneCarrier
  <2> QED
    BY <1>1, <1>4, <1>5, <2>5, RunInner
<1> QED
  BY <1>1, <1>7, <1>8

LEMMA CrashInner == ASSUME Typed, Inner, Exclusive', NEW w \in Workers, WorkerCrash(w) PROVE Inner'
<1>1. /\ Typed' /\ run[w].pc # "idle" /\ "crash" \in Happened' /\ Happened \subseteq Happened'
      /\ UNCHANGED <<job, file, ext, req>>
      /\ run'[w] = IdleWorker /\ \A v \in Workers \ {w} : run'[v] = run[v]
      /\ run[w].held => Published(run[w].msg)
  BY CrashStep
<1>2. Published(run[w].msg) /\ run[w].msg \in Message
  BY <1>1 DEF Inner, WorkerInv, Typed, Run
<1>3. IdleWorker.pc = "idle" /\ IdleWorker.outcome = "none"
  BY Records
<1>4. WorkerInv(w)' /\ run'[w].pc # "closing"
  BY <1>1, <1>3 DEF WorkerInv, Working, Counting
<1>5. ~Undispatched
  BY <1>1 DEF Inner, ExtInv, Holding
<1>6. /\ Pending' = Pending /\ Sending' = Sending /\ By' = By
      /\ Holding' = Holding \ {w} /\ w \in Holding /\ Of[w] = run[w].msg.file
      /\ \A v \in Holding \ {w} : Of'[v] = Of[v]
  <2>1. Pending' = Pending /\ Sending' = Sending /\ By' = By
    BY <1>1 DEF Pending, Sending, By
  <2>2. Holding' = Holding \ {w} /\ w \in Holding
    BY <1>1, <1>3 DEF Holding
  <2>3. Of[w] = run[w].msg.file /\ \A v \in Holding \ {w} : Of'[v] = Of[v]
    BY <1>1 DEF Of, Entry, Holding
  <2> QED
    BY <2>1, <2>2, <2>3
<1>7. OneCarrier(Holding)
  BY <1>1, ExclusiveBefore DEF Inner, TokenInv
<1>m. PICK m \in Message : m = run[w].msg
  BY <1>2
<1>8. Lone(InQueue \cup {m}, Pending, Holding \ {w}, Of', Sending, By) /\ m \notin InQueue
  <2>1. Lone(InQueue, Pending, Holding, Of, Sending, By)
    BY <1>7 DEF OneCarrier
  <2>2. w \in Holding /\ m.file = Of[w] /\ \A v \in Holding \ {w} : Of'[v] = Of[v]
    BY <1>6, <1>m
  <2> QED
    BY ONLY <2>1, <2>2 DEF Lone
<1>9. InQueue' = InQueue \cup {m} /\ \A n \in Message : queue'[n] <= 1
  BY <1>2, <1>m, <1>8 DEF Published, Inner, TokenInv
<1>10. TokenInv'
  BY <1>1, <1>6, <1>8, <1>9 DEF TokenInv, OneCarrier
<1> QED
  BY <1>1, <1>4, <1>5, <1>10, RunInner

LEMMA TakeInner == ASSUME Typed, Inner, Exclusive', NEW w \in Workers, Take(w) PROVE Inner'
<1>1. /\ Typed' /\ run[w].pc = "claim" /\ UNCHANGED <<job, queue, ext, req, faults>>
      /\ run'[w].pc = "parse" /\ run'[w].outcome = run[w].outcome /\ run'[w].msg = run[w].msg
      /\ run'[w].held = run[w].held /\ \A v \in Workers \ {w} : run'[v] = run[v]
      /\ file'[Entry(w)].status = "RUNNING" /\ \A g \in Files \ {Entry(w)} : file'[g] = file[g]
      /\ file[Entry(w)].status \in Unresolved
  BY TakeStep DEF Moved, FileBecomes, Take
<1>2. Happened' = Happened
  BY <1>1, Happens
<1>f. \A v \in Workers : Entry(v) \in Files
  BY DEF Typed, Run, Message, Entry
<1>3. \A v \in Workers : WorkerInv(v)'
  <2>1. WorkerInv(w)'
    <3>1. WorkerInv(w)
      BY DEF Inner
    <3> QED
      BY <1>1, <1>2, <3>1 DEF WorkerInv, Working, Entry, Counting
  <2>2. ASSUME NEW v \in Workers \ {w} PROVE WorkerInv(v)'
    <3>1. Working(v) => file'[Entry(v)].status = "RUNNING"
      BY <1>1, <1>f DEF Inner, WorkerInv
    <3> QED
      BY <1>1, <1>2, <3>1, OthersKept
  <2> QED
    BY <2>1, <2>2
<1>4. \A c \in Clerks : ClerkInv(c)'
  BY <1>1, <1>2 DEF Inner, ClerkInv
<1>5. ~Undispatched' /\ ~Undispatched
  BY <1>1 DEF Inner, ExtInv, Holding, Undispatched, Unstaged
<1>6. ExtInv'
  <2>1. Entry(w) \in ext.staged
    BY <1>1, <1>f DEF Inner, ExtInv, Unresolved
  <2> QED
    BY <1>1, <1>5, <2>1 DEF Inner, ExtInv, Undispatched
<1>7. /\ InQueue' = InQueue /\ Pending' = Pending /\ Sending' = Sending /\ By' = By
      /\ Holding' = Holding /\ Engaged' = Engaged
  BY <1>1 DEF InQueue, Pending, Sending, By, Holding, Engaged
<1>8. TokenInv'
  <2>1. "crash" \notin Happened' => InProgress'
    <3> SUFFICES ASSUME InProgress PROVE InProgress'
      BY <1>2 DEF Inner, TokenInv
    <3>1. Of' = Of /\ \A v \in Engaged : run'[v].outcome = run[v].outcome
      BY <1>1 DEF Of, Entry, Engaged
    <3>2. /\ \A m \in InQueue : m.file \in Files
          /\ \A g \in Pending : g \in Files
          /\ \A c \in Sending : By[c] \in Files
          /\ \A v \in Engaged : Of[v] \in Files
      BY <1>f DEF InQueue, Pending, Sending, Engaged, By, Of, Typed, Extraction, Asked, Message
    <3>3. \A g \in Files : \/ file'[g].status = file[g].status
                           \/ file[g].status # "PROCESSED" /\ file'[g].status \in Alive
      BY <1>1 DEF Unresolved, Alive
    <3> QED
      BY <1>7, <3>1, <3>2, <3>3 DEF InProgress
  <2>2. (\A v \in Holding' : run'[v].msg = run[v].msg) /\ (\A c \in Sending' : req'[c].msg = req[c].msg)
    BY <1>1 DEF Holding
  <2>3. \A m \in Message : queue'[m] <= queue[m]
    BY <1>1 DEF Typed
  <2> QED
    BY <1>1, <1>2, <1>7, <2>1, <2>2, <2>3, TokensShrink DEF Inner
<1>9. "db" \notin Happened' => ClosingInv'
  <2>1. SettledFiles' = SettledFiles /\ Resolved' = Resolved
    BY <1>1 DEF SettledFiles, Settled, Resolved, Unresolved
  <2>2. \A v \in Workers : run'[v].pc = "closing" => run[v].pc = "closing"
    BY <1>1
  <2> QED
    BY <1>1, <1>2, <1>5, <2>1, <2>2 DEF Inner, ClosingInv
<1> QED
  BY <1>3, <1>4, <1>6, <1>8, <1>9 DEF Inner

-----------------------------------------------------------------------------
(* The requests.                                                            *)

LEMMA RequestInner == ASSUME Typed, Inner, Exclusive', NEW c \in Clerks, Request(c) PROVE Inner'
<1>t. /\ Typed' /\ Happened \subseteq Happened' /\ UNCHANGED <<run, ext>>
      /\ \A d \in Clerks \ {c} : req'[d] = req[d]
  BY RequestIs
<1>h. Holding' = Holding /\ Engaged' = Engaged /\ Of' = Of /\ Pending' = Pending
      /\ (Undispatched' <=> Undispatched) /\ (Unstaged' <=> Unstaged)
  BY <1>t DEF Holding, Engaged, Of, Entry, Pending, Undispatched, Unstaged
<1>f. \A v \in Workers : Entry(v) \in Files
  BY DEF Typed, Run, Message, Entry
<1>o. ASSUME NEW v \in Workers, Working(v) => file'[Entry(v)].status = "RUNNING" PROVE WorkerInv(v)'
  BY <1>o, <1>t, OthersKept
\* Requests that leave the files alone, or cancel queued ones.
<1>k. ASSUME UNCHANGED queue, req'[c].pc # "send", req'[c].pc = "replay" => "replay" \in Happened',
             \A f \in Files : file'[f].status = IF file[f].status = "QUEUED"
                                                THEN file'[f].status ELSE file[f].status,
             \A f \in Files : file'[f].status \in {file[f].status, "CANCELLED"},
             job'.total = job.total, Resolved' = Resolved,
             job'.status \in {job.status, "CANCELLED"}
      PROVE  Inner'
  <2>1. \A v \in Workers : WorkerInv(v)'
    <3>1. \A v \in Workers : Working(v) => file'[Entry(v)].status = "RUNNING"
      BY <1>f, <1>k DEF Inner, WorkerInv
    <3> QED
      BY <1>o, <3>1
  <2>2. \A d \in Clerks : ClerkInv(d)'
    BY <1>k, <1>t DEF Inner, ClerkInv
  <2>3. /\ InQueue' = InQueue /\ Sending' \subseteq Sending /\ \A d \in Sending' : req'[d] = req[d]
    BY <1>k, <1>t DEF InQueue, Sending
  <2>4. ExtInv'
    BY <1>h, <1>k, <1>t, <2>3 DEF Inner, ExtInv
  <2>5. TokenInv'
    <3>1. "crash" \notin Happened' => InProgress'
      <4> SUFFICES ASSUME InProgress PROVE InProgress'
        BY <1>t DEF Inner, TokenInv
      <4>1. \A d \in Sending' : By'[d] = By[d] /\ d \in Sending
        BY <2>3 DEF By, Sending
      <4>2. /\ \A m \in InQueue : m.file \in Files
            /\ \A g \in Pending : g \in Files
            /\ \A d \in Sending : By[d] \in Files
            /\ \A v \in Engaged : Of[v] \in Files
        BY <1>f DEF InQueue, Pending, Sending, Engaged, By, Of, Typed, Extraction, Asked, Message
      <4>3. \A g \in Files : \/ file'[g].status = file[g].status
                             \/ file[g].status # "PROCESSED" /\ file'[g].status \in Alive
        BY <1>k DEF Alive
      <4> QED
        BY <1>h, <1>t, <2>3, <4>1, <4>2, <4>3 DEF InProgress
    <3>2. (\A v \in Holding' : run'[v].msg = run[v].msg) /\ (\A d \in Sending' : req'[d].msg = req[d].msg)
      BY <1>t, <2>3
    <3>3. \A m \in Message : queue'[m] <= queue[m]
      BY <1>k DEF Typed
    <3> QED
      BY <1>h, <1>t, <2>3, <3>1, <3>2, <3>3, TokensShrink DEF Inner
  <2>6. "db" \notin Happened' => ClosingInv'
    <3> SUFFICES ASSUME ClosingInv PROVE ClosingInv'
      BY <1>t DEF Inner
    <3>1. SettledFiles' = SettledFiles
      BY <1>k DEF SettledFiles, Settled
    <3> QED
      BY <1>h, <1>k, <1>t, <3>1 DEF ClosingInv
  <2> QED
    BY <2>1, <2>2, <2>4, <2>5, <2>6 DEF Inner
<1>1. CASE CancelRead(c)
  BY <1>1, <1>k, RequestIs DEF Resolved
<1>2. CASE ReplayRead(c)
  BY <1>2, <1>k, RequestIs DEF Resolved
<1>3. CASE ReplayRefused(c)
  BY <1>3, <1>k, RequestIs DEF Resolved
<1>4. CASE CancelCommit(c)
  BY <1>4, <1>k, RequestIs
<1>5. CASE ReplayCommit(c)
  <2>1. PICK f \in Files :
          /\ req[c].pc = "replay" /\ file[f].status = "FAILED" /\ FileBecomes(f, "QUEUED")
          /\ req'[c].pc = "send" /\ req'[c].msg.file = f
          /\ Resolved' = Resolved - 1 /\ job'.total = job.total /\ UNCHANGED <<queue, faults>>
    BY <1>5, RequestIs
  <2>2. Happened' = Happened /\ "replay" \in Happened
    BY <2>1, Happens DEF Inner, ClerkInv
  <2>3. "crash" \notin Happened' /\ OneCarrier(Engaged) /\ InProgress
    BY <2>2, ExclusiveBefore, <1>t DEF Inner, TokenInv
  <2>4. \A g \in Files : file'[g].status = IF g = f THEN "QUEUED" ELSE file[g].status
    BY <2>1 DEF FileBecomes
  <2>5. \A v \in Workers : WorkerInv(v)'
    <3>1. \A v \in Workers : Working(v) => file'[Entry(v)].status = "RUNNING"
      BY <1>f, <2>1, <2>4 DEF Inner, WorkerInv
    <3> QED
      BY <1>o, <3>1
  <2>6. \A d \in Clerks : ClerkInv(d)'
    BY <1>t, <2>2 DEF Inner, ClerkInv
  <2>7. ~Undispatched /\ ~Unstaged /\ f \in ext.staged
    BY <2>1 DEF Inner, ExtInv, Undispatched
  <2>8. ExtInv'
    BY <1>h, <1>t, <2>4, <2>7 DEF Inner, ExtInv
  <2>9. /\ InQueue' = InQueue /\ Sending' = Sending \cup {c} /\ c \notin Sending
        /\ By'[c] = f /\ \A d \in Sending : By'[d] = By[d]
    BY <1>t, <2>1 DEF InQueue, Sending, By
  <2>10. "FAILED" \notin Alive /\ "FAILED" # "PROCESSED" /\ "QUEUED" \in Alive
    BY DEF Alive, Unresolved
  <2>11. /\ \A m \in InQueue : m.file # f
         /\ f \notin Pending
         /\ \A v \in Engaged : Of[v] # f
         /\ \A d \in Sending : By[d] # f
    BY <2>1, <2>3, <2>10 DEF InProgress
  <2>12. Lone(InQueue, Pending, Engaged, Of, Sending \cup {c}, By')
    BY <2>3, <2>9, <2>11, FreeToClerk DEF OneCarrier
  <2>13. InProgress'
    <3>1. /\ \A m \in InQueue : m.file \in Files
          /\ \A g \in Pending : g \in Files
          /\ \A d \in Sending : By[d] \in Files
          /\ \A v \in Engaged : Of[v] \in Files
      BY <1>f DEF InQueue, Pending, Sending, Engaged, By, Of, Typed, Extraction, Asked, Message
    <3>2. \A d \in Sending' : (d = c \/ d \in Sending)
      BY <2>9
    <3> QED
      BY <1>h, <1>t, <2>3, <2>4, <2>9, <2>10, <2>11, <3>1, <3>2 DEF InProgress
  <2>14. TokenInv'
    <3>1. OneCarrier(Engaged)'
      BY <1>h, <2>9, <2>12 DEF OneCarrier
    <3>2. \A m \in Message : queue'[m] <= 1
      BY <2>1 DEF Inner, TokenInv
    <3> QED
      BY <2>2, <2>13, <3>1, <3>2 DEF TokenInv
  <2>15. "db" \notin Happened' => ClosingInv'
    <3> SUFFICES ASSUME ClosingInv PROVE ClosingInv'
      BY <2>2 DEF Inner
    <3>1. SettledFiles' = SettledFiles \ {f} /\ f \in SettledFiles
      BY <2>1, <2>4 DEF SettledFiles, Settled
    <3>2. IsFiniteSet(SettledFiles) /\ Cardinality(SettledFiles) \in Nat
      BY FilesAssumption, FS_Subset, FS_CardinalityType DEF SettledFiles
    <3>3. Cardinality(SettledFiles') = Cardinality(SettledFiles) - 1
      BY <3>1, <3>2, FS_RemoveElement
    <3> QED
      BY <1>h, <1>t, <2>1, <2>2, <2>7, <3>3 DEF ClosingInv
  <2> QED
    BY <2>5, <2>6, <2>8, <2>14, <2>15 DEF Inner
<1>6. CASE ReplaySend(c)
  <2>1. /\ req[c].pc = "send" /\ req'[c].pc = "done" /\ UNCHANGED <<job, file>>
        /\ UNCHANGED queue \/ Published(req[c].msg)
    BY <1>6, RequestIs
  <2>2. CASE UNCHANGED queue
    BY <1>k, <2>1, <2>2 DEF Resolved
  <2>3. CASE Published(req[c].msg)
    <3>1. PICK m \in Message : m = req[c].msg
      BY DEF Typed, Asked
    <3>2. "replay" \in Happened
      BY <2>1 DEF Inner, ClerkInv
    <3>3. "crash" \notin Happened' /\ OneCarrier(Engaged) /\ InProgress
      BY <3>2, ExclusiveBefore, <1>t DEF Inner, TokenInv
    <3>4. /\ Sending' = Sending \ {c} /\ c \in Sending
          /\ m.file = By[c] /\ \A d \in Sending \ {c} : By'[d] = By[d]
      BY <1>t, <2>1, <3>1 DEF Sending, By
    <3>5. Lone(InQueue \cup {m}, Pending, Engaged, Of, Sending \ {c}, By') /\ m \notin InQueue
      BY <3>3, <3>4, ClerkToQueue DEF OneCarrier
    <3>6. InQueue' = InQueue \cup {m} /\ \A n \in Message : queue'[n] <= 1
      BY <2>3, <3>1, <3>5 DEF Published, Inner, TokenInv
    <3>7. InProgress'
      <4>1. file[m.file].status \in Alive
        BY <3>3, <3>4 DEF InProgress
      <4>2. \A d \in Sending' : d \in Sending /\ By'[d] = By[d]
        BY <3>4
      <4> QED
        BY <1>h, <1>t, <2>1, <3>3, <3>6, <4>1, <4>2 DEF InProgress
    <3>8. OneCarrier(Engaged)'
      BY <1>h, <3>4, <3>5, <3>6 DEF OneCarrier
    <3>9. TokenInv'
      BY <1>t, <3>2, <3>6, <3>7, <3>8 DEF TokenInv
    <3>10. \A v \in Workers : WorkerInv(v)'
      BY <1>o, <2>1 DEF Inner, WorkerInv
    <3>11. \A d \in Clerks : ClerkInv(d)'
      BY <1>t, <2>1 DEF Inner, ClerkInv
    <3>12. ~Undispatched /\ ~Unstaged
      BY <3>4 DEF Inner, ExtInv, Undispatched
    <3>13. ExtInv'
      BY <1>h, <1>t, <2>1, <3>12 DEF Inner, ExtInv
    <3>14. "db" \notin Happened' => ClosingInv'
      <4>1. SettledFiles' = SettledFiles /\ Resolved' = Resolved
        BY <2>1 DEF SettledFiles, Settled, Resolved
      <4> QED
        BY <1>h, <1>t, <2>1, <4>1 DEF Inner, ClosingInv
    <3> QED
      BY <3>9, <3>10, <3>11, <3>13, <3>14 DEF Inner
  <2> QED
    BY <2>1, <2>2, <2>3
<1> QED
  BY <1>1, <1>2, <1>3, <1>4, <1>5, <1>6 DEF Request, RequestStep

-----------------------------------------------------------------------------
(* The upload request and the extraction task.                              *)

\* Steps that stage no file and dispatch none.
LEMMA UploadFrame ==
    ASSUME Typed, Typed', Inner, Exclusive', Happened \subseteq Happened', UNCHANGED <<run, req, queue>>,
           \A f \in Files : file'[f].status = file[f].status,
           Pending' \subseteq Pending, ext'.staged = ext.staged, Resolved' = Resolved,
           job'.total \in {job.total, Cardinality(ext.staged)},
           job'.status = job.status \/ job'.status \notin {"COMPLETED", "PARTIAL_FAILURE"},
           ext'.pc \in {"marked", "unpack", "staged", "check", "send"} => ext'.logged,
           ext'.pc \in {"none", "committed"} => ~ext'.logged,
           Unstaged' => Unstaged, Undispatched' => Undispatched /\ ext'.todo = ext'.staged
    PROVE  Inner'
<1>1. \A v \in Workers : WorkerInv(v)'
  <2>1. ASSUME NEW v \in Workers PROVE WorkerInv(v)'
    <3>1. Entry(v) \in Files
      BY DEF Typed, Run, Message, Entry
    <3>2. Working(v) => file'[Entry(v)].status = "RUNNING"
      BY <3>1 DEF Inner, WorkerInv
    <3> QED
      BY <3>2, OthersKept
  <2> QED
    BY <2>1
<1>2. \A c \in Clerks : ClerkInv(c)'
  BY DEF Inner, ClerkInv
<1>3. InQueue' = InQueue /\ Holding' = Holding /\ Engaged' = Engaged /\ Sending' = Sending /\ Of' = Of /\ By' = By
  BY DEF InQueue, Holding, Engaged, Sending, Of, By, Entry
<1>4. ExtInv'
  BY <1>3 DEF Inner, ExtInv
<1>5. TokenInv'
  <2>1. "crash" \notin Happened' => InProgress'
    <3> SUFFICES ASSUME InProgress PROVE InProgress'
      BY DEF Inner, TokenInv
    <3>1. /\ \A m \in InQueue : m.file \in Files
          /\ \A g \in Pending : g \in Files
          /\ \A d \in Sending : By[d] \in Files
          /\ \A v \in Engaged : Of[v] \in Files
      BY DEF InQueue, Pending, Sending, Engaged, By, Of, Entry, Typed, Extraction, Asked, Run, Message
    <3> QED
      BY <1>3, <3>1 DEF InProgress
  <2>2. \A m \in Message : queue'[m] <= queue[m]
    BY DEF Typed
  <2> QED
    BY <1>3, <2>1, <2>2, TokensShrink DEF Inner
<1>6. "db" \notin Happened' => ClosingInv'
  <2> SUFFICES ASSUME ClosingInv PROVE ClosingInv'
    BY DEF Inner
  <2>1. SettledFiles' = SettledFiles
    BY DEF SettledFiles, Settled
  <2> QED
    BY <2>1 DEF ClosingInv
<1> QED
  BY <1>1, <1>2, <1>4, <1>5, <1>6 DEF Inner

LEMMA UploadInner == ASSUME Typed, Inner, Exclusive', Upload PROVE Inner'
<1>t. Typed' /\ Happened \subseteq Happened' /\ ext \in Extraction /\ job \in JobRow /\ file \in [Files -> FileRow]
  BY UploadTyped DEF Typed
<1>e. ASSUME NEW pc, ExtGo(pc)
      PROVE  ext'.pc = pc /\ ext'.logged = ext.logged /\ ext'.staged = ext.staged /\ ext'.todo = ext.todo
  BY <1>e, <1>t DEF ExtGo, Extraction
<1>j. ASSUME NEW s, JobStatusIs(s)
      PROVE  job'.status = s /\ job'.total = job.total /\ Resolved' = Resolved
  BY <1>j, <1>t DEF JobStatusIs, JobRow, Resolved
<1>x. /\ ext.pc \in {"marked", "unpack", "staged", "check", "send"} => ext.logged
      /\ ext.pc \in {"none", "committed"} => ~ext.logged
      /\ Unstaged => ext.staged = {}
      /\ Undispatched => /\ InQueue = {} /\ Holding = {} /\ Sending = {}
                         /\ \A f \in Files : file[f].status \in {"ABSENT", "QUEUED", "CANCELLED"}
                         /\ ext.todo = ext.staged
      /\ \A f \in Files : file[f].status # "ABSENT" => f \in ext.staged
  BY DEF Inner, ExtInv
<1>1. CASE UploadZip
  <2>1. ext.pc = "none" /\ JobStatusIs("PENDING") /\ ExtGo("committed") /\ UNCHANGED <<file, queue, run, req>>
    BY <1>1 DEF UploadZip
  <2> QED
    BY <1>e, <1>j, <1>t, <1>x, <2>1, UploadFrame DEF Pending, Unstaged, Undispatched
<1>2. CASE SendExtract
  <2>1. ext.pc = "committed" /\ (ExtGo("queued") \/ ExtGo("done")) /\ UNCHANGED <<job, file, queue, run, req>>
    BY <1>2 DEF SendExtract
  <2>2. ext'.pc \in {"queued", "done"} /\ ext'.logged = ext.logged /\ ext'.staged = ext.staged /\ ext'.todo = ext.todo
    BY <1>e, <2>1
  <2> QED
    BY <1>t, <1>x, <2>1, <2>2, UploadFrame DEF Pending, Unstaged, Undispatched, Resolved
<1>3. CASE StartExtract
  <2>1. /\ ext.pc = "queued" /\ UNCHANGED <<job, file, queue, run, req>>
        /\ ext'.pc = IF ext.logged THEN "done" ELSE "marked"
        /\ ext'.logged /\ ext'.staged = ext.staged /\ ext'.todo = ext.todo
    BY <1>3, <1>t DEF StartExtract, Extraction
  <2> QED
    BY <1>t, <1>x, <2>1, UploadFrame DEF Pending, Unstaged, Undispatched, Resolved
<1>4. CASE MarkExtracting
  <2>1. ext.pc = "marked" /\ JobStatusIs("EXTRACTING") /\ ExtGo("unpack") /\ UNCHANGED <<file, queue, run, req>>
    BY <1>4 DEF MarkExtracting
  <2> QED
    BY <1>e, <1>j, <1>t, <1>x, <2>1, UploadFrame DEF Pending, Unstaged, Undispatched
<1>5. CASE RejectArchive
  <2>1. ext.pc = "unpack" /\ JobStatusIs("FAILED") /\ ExtGo("done") /\ UNCHANGED <<file, queue, run, req>>
    BY <1>5 DEF RejectArchive
  <2> QED
    BY <1>e, <1>j, <1>t, <1>x, <2>1, UploadFrame DEF Pending, Unstaged, Undispatched
<1>6. CASE StageFiles
  <2>1. PICK S \in Archives :
          /\ file' = [f \in Files |-> IF f \in S THEN [status |-> "QUEUED", gen |-> 0, object |-> TRUE] ELSE file[f]]
          /\ ext' = [ext EXCEPT !.pc = "staged", !.staged = S, !.todo = S]
    BY <1>6 DEF StageFiles
  <2>2. ext.pc = "unpack" /\ UNCHANGED <<job, run, req, queue>>
    BY <1>6 DEF StageFiles
  <2>3. S \subseteq Files
    BY FilesAssumption
  <2>4. ext'.pc = "staged" /\ ext'.logged = ext.logged /\ ext'.staged = S /\ ext'.todo = S
    BY <1>t, <2>1 DEF Extraction
  <2>5. \A f \in Files : file[f].status = "ABSENT" /\ file'[f].status = IF f \in S THEN "QUEUED" ELSE "ABSENT"
    BY <1>x, <2>1, <2>2 DEF Unstaged
  <2>6. /\ InQueue' = {} /\ Holding' = {} /\ Sending' = {} /\ Engaged' = {} /\ Pending' = S
        /\ InQueue = {} /\ Holding = {}
    <3>1. InQueue = {} /\ Holding = {} /\ Sending = {}
      BY <1>x, <2>2 DEF Unstaged, Undispatched
    <3>2. Engaged = {}
      BY <3>1 DEF Engaged, Holding
    <3> QED
      BY <2>2, <2>4, <3>1, <3>2 DEF InQueue, Holding, Sending, Engaged, Pending
  <2>7. \A v \in Workers : WorkerInv(v)'
    <3>1. ASSUME NEW v \in Workers PROVE WorkerInv(v)'
      <4>1. run[v].pc = "idle" /\ WorkerInv(v)
        BY <2>6 DEF Holding, Inner
      <4>2. run[v].outcome = "none" /\ ~Working(v)
        BY <4>1 DEF WorkerInv, Working
      <4> QED
        BY <1>t, <2>2, <4>2, OthersKept
    <3> QED
      BY <3>1
  <2>8. \A c \in Clerks : ClerkInv(c)'
    BY <1>t, <2>2 DEF Inner, ClerkInv
  <2>9. ExtInv'
    BY <1>x, <2>2, <2>4, <2>5, <2>6 DEF ExtInv, Unstaged, Undispatched
  <2>10. TokenInv'
    <3>1. \A P, of, by : Lone({}, P, {}, of, {}, by)
      BY NothingIsLone
    <3>2. InProgress'
      BY <2>3, <2>5, <2>6 DEF InProgress, Alive, Unresolved
    <3>3. \A m \in Message : queue'[m] <= 1
      BY <2>2 DEF Inner, TokenInv
    <3> QED
      BY <2>6, <3>1, <3>2, <3>3 DEF TokenInv, OneCarrier
  <2>11. "db" \notin Happened' => ClosingInv'
    <3> SUFFICES ASSUME ClosingInv PROVE ClosingInv'
      BY <1>t DEF Inner
    <3>1. SettledFiles' = SettledFiles
      BY <2>5 DEF SettledFiles, Settled
    <3>2. job.total = 0
      BY <1>x, <2>2, FS_EmptySet DEF ClosingInv, Unstaged
    <3>3. \A v \in Workers : run'[v].pc # "closing"
      BY <2>6 DEF Holding
    <3>4. job.status \notin {"COMPLETED", "PARTIAL_FAILURE"}
      BY <2>2 DEF ClosingInv, Undispatched, Unstaged
    <3> QED
      BY <2>2, <3>1, <3>2, <3>3, <3>4 DEF ClosingInv, Resolved
  <2> QED
    BY <2>7, <2>8, <2>9, <2>10, <2>11 DEF Inner
<1>7. CASE OpenJob
  <2>1. /\ ext.pc = "staged" /\ ExtGo("check") /\ UNCHANGED <<file, queue, run, req>>
        /\ job'.total = Cardinality(ext.staged) /\ job'.status \in {"FAILED", "PROCESSING"}
        /\ Resolved' = Resolved
    BY <1>7, <1>t DEF OpenJob, JobRow, Resolved
  <2> QED
    BY <1>e, <1>t, <1>x, <2>1, UploadFrame DEF Pending, Unstaged, Undispatched
<1>8. CASE AbandonFiles
  <2>1. ext.pc = "check" /\ JobStatusIs("FAILED") /\ ExtGo("done") /\ UNCHANGED <<queue, run, req>>
    BY <1>8 DEF AbandonFiles
  <2>2. \A f \in Files : file'[f].status = IF f \in ext.staged THEN "CANCELLED" ELSE file[f].status
    BY <1>8, <1>t DEF AbandonFiles, FileRow
  <2>3. ext'.pc = "done" /\ ext'.logged = ext.logged /\ ext'.staged = ext.staged /\ ext'.todo = ext.todo
    BY <1>e, <2>1
  <2>4. /\ InQueue' = {} /\ Holding' = {} /\ Sending' = {} /\ Engaged' = {} /\ Pending' = {}
        /\ Holding = {}
    <3>1. InQueue = {} /\ Holding = {} /\ Sending = {}
      BY <1>x, <2>1 DEF Undispatched
    <3>2. Engaged = {}
      BY <3>1 DEF Engaged, Holding
    <3> QED
      BY <2>1, <2>3, <3>1, <3>2 DEF InQueue, Holding, Sending, Engaged, Pending
  <2>5. \A v \in Workers : WorkerInv(v)'
    <3>1. ASSUME NEW v \in Workers PROVE WorkerInv(v)'
      <4>1. run[v].pc = "idle" /\ WorkerInv(v)
        BY <2>4 DEF Holding, Inner
      <4>2. run[v].outcome = "none" /\ ~Working(v)
        BY <4>1 DEF WorkerInv, Working
      <4> QED
        BY <1>t, <2>1, <4>2, OthersKept
    <3> QED
      BY <3>1
  <2>6. \A c \in Clerks : ClerkInv(c)'
    BY <1>t, <2>1 DEF Inner, ClerkInv
  <2>7. ExtInv'
    BY <1>x, <2>2, <2>3 DEF ExtInv, Unstaged, Undispatched
  <2>8. TokenInv'
    <3>1. \A P, of, by : Lone({}, P, {}, of, {}, by)
      BY NothingIsLone
    <3>2. InProgress'
      BY <2>4 DEF InProgress
    <3>3. \A m \in Message : queue'[m] <= 1
      BY <2>1 DEF Inner, TokenInv
    <3> QED
      BY <2>4, <3>1, <3>2, <3>3 DEF TokenInv, OneCarrier
  <2>9. "db" \notin Happened' => ClosingInv'
    <3> SUFFICES ASSUME ClosingInv PROVE ClosingInv'
      BY <1>t DEF Inner
    <3>1. SettledFiles' = SettledFiles
      BY <1>x, <2>1, <2>2 DEF SettledFiles, Settled, Undispatched
    <3>2. job'.status = "FAILED" /\ job'.total = job.total /\ Resolved' = Resolved
      BY <1>j, <2>1
    <3>3. \A v \in Workers : run'[v].pc # "closing"
      BY <2>4 DEF Holding
    <3> QED
      BY <2>3, <3>1, <3>2, <3>3 DEF ClosingInv, Undispatched, Unstaged
  <2> QED
    BY <2>5, <2>6, <2>7, <2>8, <2>9 DEF Inner
<1>9. CASE KeepFiles
  <2>1. ext.pc = "check" /\ ExtGo("send") /\ UNCHANGED <<job, file, queue, run, req>>
    BY <1>9 DEF KeepFiles
  <2> QED
    BY <1>e, <1>t, <1>x, <2>1, UploadFrame DEF Pending, Unstaged, Undispatched, Resolved
<1>10. CASE DispatchFile
  <2>1. PICK f \in ext.todo : Publish(FirstTask(f)) /\ ext' = [ext EXCEPT !.todo = @ \ {f}]
    BY <1>10 DEF DispatchFile
  <2>2. ext.pc = "send" /\ UNCHANGED <<job, file, run, req, faults>>
    BY <1>10 DEF DispatchFile
  <2>m. PICK m \in Message : m = FirstTask(f) /\ m.file = f
    BY <1>t, Records DEF Extraction
  <2>3. /\ InQueue' = InQueue \cup {m} /\ (m \notin InQueue => queue'[m] = 1)
        /\ \A n \in Message \ {m} : queue'[n] = queue[n]
    BY <2>1, <2>m, PublishIs
  <2>4. ext'.pc = "send" /\ ext'.logged = ext.logged /\ ext'.staged = ext.staged /\ ext'.todo = ext.todo \ {f}
    BY <1>t, <2>1, <2>2 DEF Extraction
  <2>5. /\ Pending' = Pending \ {f} /\ f \in Pending /\ Holding' = Holding /\ Engaged' = Engaged
        /\ Of' = Of /\ Sending' = Sending /\ By' = By
    BY <2>1, <2>2, <2>4 DEF Pending, Holding, Engaged, Of, Entry, Sending, By
  <2>h. Happened' = Happened
    BY <2>2, Happens
  <2>6. OneCarrier(Holding) \/ OneCarrier(Engaged)
    BY <1>t, ExclusiveBefore DEF Inner, TokenInv
  <2>7. \A W : OneCarrier(W) => Lone(InQueue \cup {m}, Pending \ {f}, W, Of, Sending, By) /\ m \notin InQueue
    BY <2>5, <2>m, TodoToQueue DEF OneCarrier
  <2>8. \A n \in Message : queue'[n] <= 1
    BY <2>3, <2>6, <2>7 DEF Inner, TokenInv
  <2>9. InProgress => InProgress'
    BY <2>2, <2>3, <2>5, <2>m DEF InProgress
  <2>10. OneCarrier(Holding) => OneCarrier(Holding)'
    BY <2>3, <2>5, <2>7 DEF OneCarrier
  <2>11. OneCarrier(Engaged) => OneCarrier(Engaged)'
    BY <2>3, <2>5, <2>7 DEF OneCarrier
  <2>12. TokenInv'
    BY <2>8, <2>9, <2>10, <2>11, <2>h DEF Inner, TokenInv
  <2>13. \A v \in Workers : WorkerInv(v)'
    BY <1>t, <2>2, <2>4, OthersKept DEF Inner, WorkerInv
  <2>14. \A c \in Clerks : ClerkInv(c)'
    BY <1>t, <2>2 DEF Inner, ClerkInv
  <2>15. ExtInv'
    BY <1>x, <2>2, <2>4 DEF ExtInv, Unstaged, Undispatched
  <2>16. "db" \notin Happened' => ClosingInv'
    <3>1. SettledFiles' = SettledFiles /\ Resolved' = Resolved
      BY <2>2 DEF SettledFiles, Settled, Resolved
    <3>2. ~Undispatched'
      BY <2>4 DEF Undispatched, Unstaged
    <3> QED
      BY <1>t, <2>2, <2>4, <3>1, <3>2 DEF Inner, ClosingInv
  <2> QED
    BY <2>12, <2>13, <2>14, <2>15, <2>16 DEF Inner
<1>11. CASE ExtractDone
  <2>1. ext.pc = "send" /\ ext.todo = {} /\ ExtGo("done") /\ UNCHANGED <<job, file, queue, run, req>>
    BY <1>11 DEF ExtractDone
  <2> QED
    BY <1>e, <1>t, <1>x, <2>1, UploadFrame DEF Pending, Unstaged, Undispatched, Resolved
<1>12. CASE DispatchFails
  <2>1. ext.pc = "send" /\ JobStatusIs("FAILED") /\ ExtGo("done") /\ UNCHANGED <<queue, run, req>>
    BY <1>12 DEF DispatchFails
  <2>2. \A f \in Files : file'[f].status = file[f].status
    BY <1>12, <1>t DEF DispatchFails, FileRow
  <2> QED
    BY <1>e, <1>j, <1>t, <1>x, <2>1, <2>2, UploadFrame DEF Pending, Unstaged, Undispatched
<1>13. CASE ExtractCrash
  <2>1. /\ ext.pc \in {"marked", "unpack", "staged", "check", "send"} /\ ExtGo("queued")
        /\ UNCHANGED <<job, file, queue, run, req>>
    BY <1>13 DEF ExtractCrash
  <2>2. ext'.pc = "queued" /\ ext'.logged /\ ext'.staged = ext.staged /\ ext'.todo = ext.todo
    BY <1>e, <1>x, <2>1
  <2> QED
    BY <1>t, <1>x, <2>1, <2>2, UploadFrame DEF Pending, Unstaged, Undispatched, Resolved
<1> QED
  BY <1>1, <1>2, <1>3, <1>4, <1>5, <1>6, <1>7, <1>8, <1>9, <1>10, <1>11, <1>12, <1>13 DEF Upload, ExtractStep

-----------------------------------------------------------------------------
(* The invariant, and what it says.                                         *)

LEMMA PauseInner == ASSUME Typed, Inner, Exclusive', Typed', CampaignChanges PROVE Inner'
<1>1. /\ UNCHANGED <<job, file, queue, run, ext, req>> /\ Spend("pause")
  BY DEF CampaignChanges
<1>2. Happened \subseteq Happened'
  BY <1>1, Happens, Kinds
<1>3. UNCHANGED <<Pending, Resolved, Unstaged, Undispatched>>
  BY <1>1 DEF Pending, Resolved, Unstaged, Undispatched
<1>4. /\ ext.pc \in {"marked", "unpack", "staged", "check", "send"} => ext.logged
      /\ ext.pc \in {"none", "committed"} => ~ext.logged
      /\ Undispatched => ext.todo = ext.staged
  BY DEF Inner, ExtInv
<1> QED
  BY <1>1, <1>2, <1>3, <1>4, UploadFrame

LEMMA BulkStarts == Init => BulkInv
<1> SUFFICES ASSUME Init PROVE BulkInv
  OBVIOUS
<1>0. 0 \in 0..MaxReplays
  BY BoundsAssumption
<1>1. job \in JobRow
  BY DEF Init, JobRow, JobStatus, NonReplayable
<1>2. file \in [Files -> FileRow] /\ \A f \in Files : file[f].status = "ABSENT"
  BY <1>0 DEF Init, FileRow, FileStatus
<1>3. resumes \in Seq(ResumeRow) /\ Len(resumes) = 0
  BY EmptySeq DEF Init
<1>4. run \in [Workers -> Run] /\ \A w \in Workers : run[w] = IdleWorker /\ RunOf(run[w], Len(resumes))
  BY <1>3, Records DEF Init
<1>5. ext \in Extraction /\ ext.pc = "none" /\ ext.staged = {} /\ ext.todo = {} /\ ~ext.logged
  BY DEF Init, Extraction, ExtractPC
<1>6. req \in [Clerks -> Asked] /\ \A c \in Clerks : req[c].pc = "idle"
  BY Records DEF Init, Asked, ClerkPC
<1>7. faults \in [FaultKinds -> Nat] /\ Happened = {}
  BY DEF Init, Happened
<1>8. queue \in [Message -> Nat] /\ \A m \in Message : queue[m] = 0
  BY DEF Init
<1>9. Typed
  BY <1>1, <1>2, <1>3, <1>4, <1>5, <1>6, <1>7, <1>8 DEF Typed, Init
<1>10. InQueue = {} /\ Holding = {} /\ Engaged = {} /\ Sending = {} /\ Pending = {} /\ SettledFiles = {}
  BY <1>2, <1>4, <1>5, <1>6, <1>8, Records DEF InQueue, Holding, Engaged, Sending, Pending, SettledFiles, Settled
<1>11. \A w \in Workers : WorkerInv(w)
  BY <1>4, Records DEF WorkerInv, Working, Counting
<1>12. \A c \in Clerks : ClerkInv(c)
  BY <1>6 DEF ClerkInv
<1>13. ExtInv
  BY <1>2, <1>5, <1>10 DEF ExtInv, Unstaged, Undispatched
<1>14. TokenInv
  <2>1. \A m \in Message : queue[m] <= 1
    BY <1>8
  <2>2. OneCarrier(Holding) /\ OneCarrier(Engaged)
    BY <1>10, NothingIsLone DEF OneCarrier
  <2>3. InProgress
    BY <1>10 DEF InProgress
  <2> QED
    BY <2>1, <2>2, <2>3 DEF TokenInv
<1>15. ClosingInv
  <2>1. Resolved = 0 /\ job.total = 0 /\ job.status = "NONE"
    BY DEF Init, Resolved
  <2>2. \A w \in Workers : run[w].pc # "closing"
    BY <1>4, Records
  <2> QED
    BY <1>10, <2>1, <2>2, FS_EmptySet DEF ClosingInv
<1> QED
  BY <1>9, <1>11, <1>12, <1>13, <1>14, <1>15 DEF BulkInv, Inner

LEMMA BulkInductive == BulkInv /\ [Next]_vars => BulkInv'
<1> SUFFICES ASSUME BulkInv, [Next]_vars PROVE BulkInv'
  OBVIOUS
<1>t. Typed /\ (Exclusive => Inner)
  BY DEF BulkInv
<1>1. CASE UNCHANGED vars
  <2>1. UNCHANGED <<job, file, resumes, scored, dead, open, queue, run, ext, req, faults>>
    BY <1>1 DEF vars
  <2>2. Typed'
    BY <1>t, <2>1 DEF Typed
  <2>3. /\ UNCHANGED <<Happened, Pending, Resolved, Unstaged, Undispatched>>
        /\ UNCHANGED Exclusive
    BY <2>1 DEF Happened, Pending, Resolved, Unstaged, Undispatched, Exclusive
  <2>4. ASSUME Inner PROVE /\ ext.pc \in {"marked", "unpack", "staged", "check", "send"} => ext.logged
                           /\ ext.pc \in {"none", "committed"} => ~ext.logged
                           /\ Undispatched => ext.todo = ext.staged
    BY <2>4 DEF Inner, ExtInv
  <2>5. Exclusive' => Inner'
    BY <1>t, <2>1, <2>2, <2>3, <2>4, UploadFrame
  <2> QED
    BY <2>2, <2>5 DEF BulkInv
<1>2. CASE Upload
  BY <1>2, <1>t, UploadTyped, UploadInner, ExclusiveBefore DEF BulkInv
<1>3. CASE CampaignChanges
  <2>1. /\ UNCHANGED <<job, file, resumes, scored, dead, queue, run, ext, req>>
        /\ Spend("pause") /\ open' = ~open
    BY <1>3 DEF CampaignChanges
  <2>2. faults' \in [FaultKinds -> Nat] /\ Happened \subseteq Happened'
    BY <1>t, <2>1, Happens, Kinds
  <2>3. Typed'
    BY <1>t, <2>1, <2>2 DEF Typed
  <2> QED
    BY <1>3, <1>t, <2>2, <2>3, PauseInner, ExclusiveBefore DEF BulkInv
<1>4. ASSUME NEW w \in Workers, Receive(w) PROVE BulkInv'
  <2>1. Typed' /\ UNCHANGED faults
    BY <1>4, <1>t, ReceiveStep
  <2>2. Happened \subseteq Happened'
    BY <2>1 DEF Happened
  <2> QED
    BY <1>4, <1>t, <2>1, <2>2, ReceiveInner, ExclusiveBefore DEF BulkInv
<1>5. ASSUME NEW w \in Workers, Local(w) PROVE BulkInv'
  <2>1. Typed' /\ LocalEffect(w)
    BY <1>5, <1>t, LocalStep
  <2> QED
    BY <1>t, <2>1, LocalInner, ExclusiveBefore DEF BulkInv, LocalEffect
<1>6. ASSUME NEW w \in Workers, Settle(w) PROVE BulkInv'
  <2>1. Typed'
    BY <1>6, <1>t, SettleStep
  <2>2. PICK s \in {"PROCESSED", "FAILED"}, o \in Outcomes : SettleEffect(w, s, o)
    BY <1>6, <1>t, SettleStep
  <2>3. Happened \subseteq Happened'
    BY <2>2 DEF SettleEffect, Happened
  <2> QED
    BY <1>t, <2>1, <2>2, <2>3, SettleInner, ExclusiveBefore DEF BulkInv
<1>7. ASSUME NEW w \in Workers, Take(w) PROVE BulkInv'
  <2>1. Typed' /\ UNCHANGED faults
    BY <1>7, <1>t, TakeStep
  <2>2. Happened \subseteq Happened'
    BY <2>1 DEF Happened
  <2> QED
    BY <1>7, <1>t, <2>1, <2>2, TakeInner, ExclusiveBefore DEF BulkInv
<1>8. ASSUME NEW w \in Workers, PublishRetry(w) PROVE BulkInv'
  <2>1. Typed' /\ Happened \subseteq Happened'
    BY <1>8, <1>t, PublishRetryStep
  <2> QED
    BY <1>8, <1>t, <2>1, PublishRetryInner, ExclusiveBefore DEF BulkInv
<1>9. ASSUME NEW w \in Workers, Ack(w) PROVE BulkInv'
  <2>1. Typed' /\ UNCHANGED faults
    BY <1>9, <1>t, AckStep
  <2>2. Happened \subseteq Happened'
    BY <2>1 DEF Happened
  <2> QED
    BY <1>9, <1>t, <2>1, <2>2, AckInner, ExclusiveBefore DEF BulkInv
<1>10. ASSUME NEW w \in Workers, WorkerCrash(w) PROVE BulkInv'
  <2>1. Typed' /\ Happened \subseteq Happened'
    BY <1>10, <1>t, CrashStep
  <2> QED
    BY <1>10, <1>t, <2>1, CrashInner, ExclusiveBefore DEF BulkInv
<1>11. ASSUME NEW w \in Workers, SlowRedelivery(w) PROVE BulkInv'
  <2>1. Typed' /\ "slow" \in Happened'
    BY <1>11, <1>t, SlowStep
  <2> QED
    BY <2>1 DEF BulkInv, Exclusive
<1>12. ASSUME NEW c \in Clerks, Request(c) PROVE BulkInv'
  <2>1. Typed' /\ Happened \subseteq Happened'
    BY <1>12, <1>t, RequestIs
  <2> QED
    BY <1>12, <1>t, <2>1, RequestInner, ExclusiveBefore DEF BulkInv
<1>13. ASSUME NEW w \in Workers, WorkerStep(w) PROVE BulkInv'
  <2>1. Local(w) \/ Settle(w) \/ Take(w) \/ PublishRetry(w) \/ Ack(w)
    BY <1>13 DEF WorkerStep, Local, Settle, Take, Skip
  <2> QED
    BY <2>1, <1>5, <1>6, <1>7, <1>8, <1>9
<1>14. ASSUME NEW w \in Workers, DbFails(w) PROVE BulkInv'
  BY <1>5, <1>14 DEF Local
<1> QED
  BY <1>1, <1>2, <1>3, <1>4, <1>10, <1>11, <1>12, <1>13, <1>14 DEF Next, Upload, Request

(* The rows, messages and control records of an upload hold what they are  *)
(* declared to, for any archive, workers, retries, replays and faults.     *)
THEOREM BulkTyped == Spec => []TypeOK
<1>1. BulkInv => TypeOK
  BY TypedIsTypeOK DEF BulkInv
<1> QED
  BY BulkStarts, BulkInductive, <1>1, PTL DEF Spec

(* However files are retried, replayed, cancelled and redelivered after a  *)
(* crash, no two workers run the same file (try_start_processing).         *)
THEOREM FilesHaveOneRun == Spec => []OneRunPerFile
<1>1. BulkInv => OneRunPerFile
  <2> SUFFICES ASSUME BulkInv, Exclusive, NEW v \in Workers, NEW w \in Workers,
                      v # w, Working(v), Working(w)
               PROVE  Entry(v) # Entry(w)
    BY DEF OneRunPerFile
  <2>1. TokenInv
    BY DEF BulkInv, Inner
  <2>2. {v, w} \subseteq Holding /\ {v, w} \subseteq Engaged
    BY DEF Working, Holding, Engaged
  <2>3. OneCarrier(Holding) \/ OneCarrier(Engaged)
    BY <2>1 DEF TokenInv, Exclusive
  <2>4. Of[v] # Of[w]
    BY <2>2, <2>3 DEF OneCarrier, Lone
  <2> QED
    BY <2>4 DEF Of
<1> QED
  BY BulkStarts, BulkInductive, <1>1, PTL DEF Spec

(* The counters of the job row count the files that settled, whatever is   *)
(* retried, replayed or redelivered after a crash, as long as no commit    *)
(* fails (bulk_upload_tasks.py:467, :632, :692, :707).                     *)
THEOREM CountersCount == Spec => []CountersExact
<1>1. BulkInv => CountersExact
  BY DEF BulkInv, Inner, ClosingInv, CountersExact, SettledFiles
<1> QED
  BY BulkStarts, BulkInductive, <1>1, PTL DEF Spec

(* A job that was closed as COMPLETED or PARTIAL_FAILURE has no file left  *)
(* to work on (_maybe_finalize_job, whose decision and commit are steps of *)
(* their own).                                                             *)
THEOREM ClosedJobsAreResolved == Spec => []ClosedMeansResolved
<1>1. BulkInv => ClosedMeansResolved
  <2> SUFFICES ASSUME BulkInv, job.status \in {"COMPLETED", "PARTIAL_FAILURE"}, Exclusive,
                      Happened \cap {"db", "replay"} = {}, NEW f \in Files
               PROVE  file[f].status \notin Unresolved
    BY DEF ClosedMeansResolved
  <2>1. Inner /\ "db" \notin Happened /\ "replay" \notin Happened
    BY DEF BulkInv
  <2>2. ext.staged \subseteq SettledFiles
    BY <2>1 DEF Inner, ClosingInv
  <2>3. f \notin ext.staged => file[f].status = "ABSENT"
    BY <2>1 DEF Inner, ExtInv
  <2> QED
    BY <2>2, <2>3 DEF SettledFiles, Settled, Unresolved
<1> QED
  BY BulkStarts, BulkInductive, <1>1, PTL DEF Spec
=============================================================================
