-------------------------- MODULE Recruiting_proofs --------------------------
(***************************************************************************)
(* For any number of submissions, versions, workers and requests: the       *)
(* document pipeline implements the abstract store of versions, in which a   *)
(* lineage has one live version; and the resumes of a candidate have one     *)
(* active version, the latest, unless uploads overlapped.                    *)
(***************************************************************************)
EXTENDS JdPipeline, ResumeIntake, FiniteSetTheorems, SequenceTheorems, WellFoundedInduction, TLAPS

-----------------------------------------------------------------------------
(* The inductive invariant: what identifiers refer to, and the lineages.    *)

JdRow == [root : JdId, parent : 0..MaxJds, content : Contents, version : Nat,
          active : BOOLEAN, closed : BOOLEAN, file : 0..MaxTasks,
          embedded : BOOLEAN, skills : {"whole", "bare"}]
TaskRow == [status : Status, base : 0..MaxJds, version : Nat, file : BOOLEAN,
            content : Contents \cup {"none"}, made : 0..MaxJds,
            error : {"none", "stage", "duplicate"}]
Run == [pc : {"idle", "stage", "commit", "finish", "mark", "failed",
              "hopeless", "bury", "duplicate", "embed"},
        job : Job, at : Stage, resumed : BOOLEAN, new : 0..MaxJds]
Asked == [pc : {"idle", "send", "edit", "close", "attach", "purge", "reset"},
          id : Nat, old : 0..MaxTasks]

\* A submission carries a text from the moment it is accepted.
TaskInv(t) ==
    /\ tasks[t].base \in 0..Len(jds)
    /\ tasks[t].status # "NONE" => tasks[t].content \in Contents

TaskNamed(t) == t \in TaskId /\ tasks[t].status # "NONE"

JobInv(m) == IF m.kind = "PROCESS" THEN TaskNamed(m.id) ELSE m.id \in Rows

RunInv(w) ==
    /\ run[w].pc # "idle" => JobInv(run[w].job)
    /\ run[w].pc \notin {"idle", "embed"} => run[w].job.kind = "PROCESS"
    /\ run[w].pc = "embed" => run[w].job.kind = "EMBED"
    /\ run[w].pc \in {"finish", "mark"} => run[w].new \in Rows

ReqInv(c) ==
    /\ req[c].pc \in {"send", "purge", "reset"} => TaskNamed(req[c].id)
    /\ req[c].pc \in {"edit", "close", "attach"} => req[c].id \in Rows

\* A root is live only until the first version made from it.
RowInv(j) ==
    /\ jds[j].root \in Rows
    /\ jds[j].parent = 0 => jds[j].root = j
    /\ jds[j].root # j => ~jds[jds[j].root].active

LineageInv == \A j \in Rows : RowInv(j)

PipelineInv ==
    /\ TypeOK
    /\ \A t \in TaskId : TaskInv(t)
    /\ \A m \in queue : JobInv(m)
    /\ \A w \in Workers : RunInv(w)
    /\ \A c \in Clerks : ReqInv(c)
    /\ LineageInv

-----------------------------------------------------------------------------
(* Facts about the operators of the model.                                  *)

\* A nonempty set of numbers has a least element.
LEMMA LeastNumber == ASSUME NEW T \in SUBSET Nat, T # {} PROVE \E n \in T : \A m \in T : n <= m
<1> DEFINE R == {ss \in Nat \X Nat : ss[1] < ss[2]}
<1>1. IsWellFoundedOn(R, Nat)
  BY NatLessThanWellFounded DEF OpToRel
<1>2. PICK x \in T : \A y \in T : ~(<<y, x>> \in R)
  BY <1>1, WFMin
<1>3. ASSUME NEW y \in T PROVE x <= y
  <2>1. x \in Nat /\ y \in Nat /\ ~(y < x)
    BY <1>2
  <2> QED
    BY <2>1
<1> QED
  BY <1>3

LEMMA NewTaskIsUnused == ASSUME Unused # {} PROVE NewTask \in TaskId /\ tasks[NewTask].status = "NONE"
<1>1. Unused \in SUBSET (1..MaxTasks)
  BY DEF Unused, TaskId
<1>2. \E t \in Unused : \A u \in Unused : t <= u
  <2>1. Unused \in SUBSET Nat
    BY <1>1
  <2> QED
    BY <2>1, LeastNumber
<1>3. NewTask \in Unused
  BY <1>2 DEF NewTask
<1> QED
  BY <1>3 DEF Unused

LEMMA Stages ==
    /\ Len(STAGE_ORDER) = 7 /\ Stage = 1..7
    /\ STAGE_ORDER[7] = "PERSISTENCE"
BY DEF STAGE_ORDER, Stage

\* Inserting a version: the one it was made from is no longer live.
LEMMA InsertedRows ==
    ASSUME jds \in Seq(JdRow), NEW base \in 0..Len(jds), NEW row \in JdRow, jds' = Inserted(base, row)
    PROVE  /\ jds' \in Seq(JdRow) /\ Len(jds') = Len(jds) + 1
           /\ jds'[Len(jds) + 1] = row
           /\ \A j \in Rows : /\ jds'[j].root = jds[j].root /\ jds'[j].parent = jds[j].parent
                              /\ j = base => ~jds'[j].active
                              /\ j # base => jds'[j].active = jds[j].active
<1>0. Len(jds) \in Nat /\ \A j \in Rows : jds[j] \in JdRow
  BY DEF Rows
<1>1. CASE base = 0
  <2>1. jds' = Append(jds, row)
    BY <1>1 DEF Inserted
  <2>2. jds' \in Seq(JdRow) /\ Len(jds') = Len(jds) + 1 /\ jds'[Len(jds) + 1] = row
        /\ \A j \in Rows : jds'[j] = jds[j]
    BY <2>1 DEF Rows
  <2>3. \A j \in Rows : j # base
    BY <1>0, <1>1 DEF Rows
  <2> QED
    BY <2>2, <2>3
<1>2. CASE base # 0
  <2> DEFINE closed == [jds[base] EXCEPT !.active = FALSE]
             old == [jds EXCEPT ![base] = closed]
  <2>1. base \in 1..Len(jds) /\ base \in Rows
    BY <1>0, <1>2 DEF Rows
  <2>2. /\ old \in Seq(JdRow) /\ Len(old) = Len(jds)
        /\ \A j \in Rows : old[j] = IF j = base THEN closed ELSE jds[j]
        /\ closed.root = jds[base].root /\ closed.parent = jds[base].parent /\ closed.active = FALSE
    <3>1. jds[base] \in JdRow
      BY <1>0, <2>1
    <3>2. /\ closed \in JdRow
          /\ closed.root = jds[base].root /\ closed.parent = jds[base].parent /\ closed.active = FALSE
      BY <3>1 DEF JdRow
    <3> HIDE DEF closed
    <3> QED
      BY <2>1, <3>2, ExceptSeq DEF Rows
  <2>3. jds' = Append(old, row)
    <3>1. jds' = Append([jds EXCEPT ![base].active = FALSE], row)
      BY <1>2 DEF Inserted
    <3> QED
      BY <3>1
  <2> HIDE DEF old, closed
  <2>4. /\ jds' \in Seq(JdRow) /\ Len(jds') = Len(jds) + 1 /\ jds'[Len(jds) + 1] = row
        /\ \A j \in Rows : jds'[j] = old[j]
    BY <2>2, <2>3 DEF Rows
  <2> QED
    BY <2>2, <2>4
<1> QED
  BY <1>1, <1>2

-----------------------------------------------------------------------------
(* What a step has to show.                                                 *)

Typed ==
    /\ jds \in Seq(JdRow) /\ Len(jds) <= MaxJds
    /\ campaigns \subseteq Rows /\ unembedded \subseteq Rows
    /\ tasks \in [TaskId -> TaskRow]
    /\ checkpoints \in [TaskId -> 0..7]
    /\ dead \in [TaskId -> [entries : Nat, replayed : BOOLEAN]]
    /\ files \subseteq TaskId
    /\ queue \subseteq Job
    /\ run \in [Workers -> Run]
    /\ req \in [Clerks -> Asked]
    /\ events \in [EventKinds -> Nat]

LEMMA TypedIsTypeOK == /\ Typed <=> TypeOK
                       /\ Typed' <=> TypeOK'
BY Stages DEF Typed, TypeOK, JdsOK, TasksOK, ActorsOK, JdRow, TaskRow, Run, Asked, Rows

\* A submission keeps its base and its text; it never becomes unknown again.
TaskKept(t) ==
    /\ tasks'[t].base = tasks[t].base /\ tasks'[t].content = tasks[t].content
    /\ tasks[t].status # "NONE" <=> tasks'[t].status # "NONE"

NewSubmission(t) ==
    /\ tasks'[t].base \in 0..Len(jds) /\ tasks'[t].content \in Contents
    /\ tasks[t].status = "NONE" /\ tasks'[t].status # "NONE"

LEMMA Assemble ==
    ASSUME PipelineInv, Typed', LineageInv', Len(jds) \in Nat, Len(jds') \in Nat, Len(jds) <= Len(jds'),
           \A t \in TaskId : TaskKept(t) \/ NewSubmission(t),
           \A m \in queue' : m \in queue \/ JobInv(m)',
           \A w \in Workers : run'[w] = run[w] \/ RunInv(w)',
           \A c \in Clerks : req'[c] = req[c] \/ ReqInv(c)'
    PROVE  PipelineInv'
<1>1. \A t \in TaskId : TaskInv(t)'
  BY DEF PipelineInv, TaskInv, TaskKept, NewSubmission
<1>2. \A t : TaskNamed(t) => TaskNamed(t)'
  BY DEF TaskNamed, TaskKept, NewSubmission
<1>3. \A j : j \in Rows => j \in Rows'
  BY DEF Rows
<1>4. \A m : JobInv(m) => JobInv(m)'
  BY <1>2, <1>3 DEF JobInv
<1>5. \A m \in queue' : JobInv(m)'
  BY <1>4 DEF PipelineInv
<1>6. ASSUME NEW w \in Workers PROVE RunInv(w)'
  <2>1. CASE run'[w] = run[w]
    <3>1. RunInv(w)
      BY DEF PipelineInv
    <3> QED
      BY <1>3, <1>4, <2>1, <3>1 DEF RunInv
  <2> QED
    BY <2>1
<1>7. ASSUME NEW c \in Clerks PROVE ReqInv(c)'
  <2>1. CASE req'[c] = req[c]
    <3>1. ReqInv(c)
      BY DEF PipelineInv
    <3> QED
      BY <1>2, <1>3, <2>1, <3>1 DEF ReqInv
  <2> QED
    BY <2>1
<1> QED
  BY <1>1, <1>5, <1>6, <1>7, TypedIsTypeOK DEF PipelineInv

\* Steps that leave the rows alone.
LEMMA AssembleRows ==
    ASSUME PipelineInv, Typed', UNCHANGED jds,
           \A t \in TaskId : TaskKept(t) \/ NewSubmission(t),
           \A m \in queue' : m \in queue \/ JobInv(m)',
           \A w \in Workers : run'[w] = run[w] \/ RunInv(w)',
           \A c \in Clerks : req'[c] = req[c] \/ ReqInv(c)'
    PROVE  PipelineInv'
<1>1. Len(jds) \in Nat
  BY TypedIsTypeOK DEF PipelineInv, Typed
<1>2. LineageInv'
  BY DEF PipelineInv, LineageInv, RowInv, Rows
<1> QED
  BY <1>1, <1>2, Assemble

LEMMA GoIs ==
    ASSUME run \in [Workers -> Run], NEW w \in Workers,
           NEW pc \in {"idle", "stage", "commit", "finish", "mark", "failed",
                       "hopeless", "bury", "duplicate", "embed"},
           Go(w, pc)
    PROVE  /\ run' \in [Workers -> Run]
           /\ run'[w].pc = pc /\ run'[w].job = run[w].job /\ run'[w].new = run[w].new
           /\ \A v \in Workers \ {w} : run'[v] = run[v]
BY DEF Go, Run

LEMMA SpendIs ==
    ASSUME events \in [EventKinds -> Nat], NEW kind \in EventKinds, Spend(kind)
    PROVE  events' \in [EventKinds -> Nat]
<1>1. events[kind] - 1 \in Nat
  BY DEF Spend
<1> QED
  BY <1>1 DEF Spend

LEMMA Records ==
    /\ Idle \in Run /\ Idle.pc = "idle"
    /\ NoRequest \in Asked /\ NoRequest.pc = "idle"
<1>1. MaxTasks \in Nat /\ MaxJds \in Nat
  BY BoundsAssumption
<1>2. NoJob \in Job
  BY <1>1 DEF NoJob, Job
<1>3. 1 \in Stage
  BY Stages
<1> QED
  BY <1>1, <1>2, <1>3 DEF Idle, Run, NoRequest, Asked

-----------------------------------------------------------------------------
(* The routes.                                                              *)

LEMMA AcceptStep ==
    ASSUME PipelineInv, NEW c \in Clerks, NEW base \in 0..Len(jds), NEW content \in Contents,
           NEW file \in BOOLEAN, Accept(c, base, content, file), events' \in [EventKinds -> Nat]
    PROVE  PipelineInv'
<1>t. Typed
  BY TypedIsTypeOK DEF PipelineInv
<1>1. NewTask \in TaskId /\ tasks[NewTask].status = "NONE"
  BY NewTaskIsUnused DEF Accept
<1> DEFINE version == IF base = 0 THEN 1 ELSE jds[base].version + 1
           row == [NoTask EXCEPT !.status = "QUEUED", !.base = base, !.file = file, !.content = content,
                                 !.version = version]
           old == IF base = 0 THEN 0 ELSE jds[base].file
           asked == [pc |-> "send", id |-> NewTask, old |-> old]
<1>2. /\ tasks' = [tasks EXCEPT ![NewTask] = row]
      /\ files' = IF file THEN files \cup {NewTask} ELSE files
      /\ req' = [req EXCEPT ![c] = asked]
      /\ UNCHANGED <<jds, campaigns, unembedded, checkpoints, dead, queue, run>>
  BY DEF Accept
<1>3. /\ Len(jds) \in Nat /\ Len(jds) <= MaxJds /\ MaxJds \in Nat /\ MaxTasks \in Nat
      /\ \A j \in Rows : jds[j].version \in Nat /\ jds[j].file \in 0..MaxTasks
  <2>1. /\ Len(jds) \in Nat /\ Len(jds) <= MaxJds /\ MaxJds \in Nat /\ MaxTasks \in Nat
        /\ \A j \in Rows : jds[j] \in JdRow
    BY <1>t, BoundsAssumption DEF Typed, Rows
  <2> QED
    BY <2>1 DEF JdRow
<1>4. version \in Nat /\ old \in 0..MaxTasks /\ base \in 0..MaxJds
  BY <1>3 DEF Rows
<1> HIDE DEF version, old
<1>5. row \in TaskRow /\ row.base = base /\ row.content = content /\ row.status = "QUEUED"
  <2>1. 0 \in 0..MaxJds
    BY <1>3
  <2>2. NoTask \in TaskRow
    BY <2>1 DEF NoTask, TaskRow, Status
  <2> QED
    BY <1>4, <2>2 DEF TaskRow, Status
<1>6. asked \in Asked /\ asked.pc = "send" /\ asked.id = NewTask
  BY <1>1, <1>3, <1>4 DEF Asked, TaskId
<1> HIDE DEF row, asked
<1>7. tasks'[NewTask] = row /\ \A t \in TaskId \ {NewTask} : tasks'[t] = tasks[t]
  BY <1>1, <1>2, <1>t DEF Typed
<1>8. Typed'
  BY <1>1, <1>2, <1>5, <1>6, <1>t DEF Typed, Rows
<1>9. \A t \in TaskId : TaskKept(t) \/ NewSubmission(t)
  BY <1>1, <1>5, <1>7 DEF TaskKept, NewSubmission
<1>10. req'[c] = asked /\ \A d \in Clerks \ {c} : req'[d] = req[d]
  BY <1>2, <1>t DEF Typed
<1>11. ReqInv(c)'
  BY <1>1, <1>5, <1>6, <1>7, <1>10 DEF ReqInv, TaskNamed
<1> QED
  BY <1>2, <1>8, <1>9, <1>10, <1>11, AssembleRows

LEMMA TasksUnchanged == ASSUME UNCHANGED tasks PROVE \A t \in TaskId : TaskKept(t) \/ NewSubmission(t)
BY DEF TaskKept

LEMMA RequestStep == ASSUME PipelineInv, NEW c \in Clerks, Request(c) PROVE PipelineInv'
<1>t. Typed /\ Len(jds) \in Nat
  BY TypedIsTypeOK DEF PipelineInv, Typed
<1>1. CASE CreateFromText(c) \/ CreateFromFile(c)
  <2>1. PICK x \in Contents, kind \in EventKinds, file \in BOOLEAN : Spend(kind) /\ Accept(c, 0, x, file)
    BY <1>1 DEF CreateFromText, CreateFromFile, EventKinds
  <2>2. events' \in [EventKinds -> Nat]
    BY <1>t, <2>1, SpendIs DEF Typed
  <2> QED
    BY <1>t, <2>1, <2>2, AcceptStep
<1>2. CASE Rewrite(c) \/ Replace(c)
  <2>1. PICK j \in Rows, x \in Contents, kind \in EventKinds, file \in BOOLEAN : Spend(kind) /\ Accept(c, j, x, file)
    BY <1>2 DEF Rewrite, Replace, EventKinds
  <2>2. events' \in [EventKinds -> Nat]
    BY <1>t, <2>1, SpendIs DEF Typed
  <2>3. j \in 0..Len(jds)
    BY <1>t DEF Rows
  <2> QED
    BY <2>1, <2>2, <2>3, AcceptStep
<1>3. ASSUME NEW asked \in Asked, NEW kind \in EventKinds, Spend(kind),
             req' = [req EXCEPT ![c] = asked],
             asked.pc \in {"edit", "close", "attach"} => asked.id \in Rows,
             asked.pc \in {"send", "purge", "reset"} => TaskNamed(asked.id),
             UNCHANGED <<jds, campaigns, unembedded, tasks, checkpoints, dead, files, queue, run>>
      PROVE  PipelineInv'
  <2>1. events' \in [EventKinds -> Nat]
    BY <1>t, <1>3, SpendIs DEF Typed
  <2>2. Typed'
    BY <1>3, <1>t, <2>1 DEF Typed, Rows
  <2>3. req'[c] = asked /\ \A d \in Clerks \ {c} : req'[d] = req[d]
    BY <1>3, <1>t DEF Typed
  <2>4. ReqInv(c)'
    BY <1>3, <2>3 DEF ReqInv, TaskNamed, Rows
  <2> QED
    BY <1>3, <2>2, <2>3, <2>4, TasksUnchanged, AssembleRows
<1>4. ASSUME NEW op \in {"edit", "close", "attach"}, NEW j \in Rows, Load(c, op, j) PROVE PipelineInv'
  <2> DEFINE asked == [NoRequest EXCEPT !.pc = op, !.id = j]
  <2>1. asked \in Asked /\ asked.pc = op /\ asked.id = j
    <3>1. j \in Nat
      BY <1>t DEF Rows
    <3> QED
      BY <3>1, Records DEF Asked
  <2>2. /\ req' = [req EXCEPT ![c] = asked] /\ Spend(op) /\ op \in EventKinds
        /\ UNCHANGED <<jds, campaigns, unembedded, tasks, checkpoints, dead, files, queue, run>>
    BY <1>4 DEF Load, EventKinds
  <2> HIDE DEF asked
  <2> QED
    BY <1>3, <2>1, <2>2
<1>5. ASSUME NEW t \in TaskId, LoadReplayable(c, t) PROVE PipelineInv'
  <2> DEFINE asked == [pc |-> "purge", id |-> t, old |-> 0]
  <2>1. asked \in Asked /\ asked.pc = "purge" /\ asked.id = t
    BY BoundsAssumption DEF Asked, TaskId
  <2>2. /\ req' = [req EXCEPT ![c] = asked] /\ Spend("replay") /\ "replay" \in EventKinds
        /\ UNCHANGED <<jds, campaigns, unembedded, tasks, checkpoints, dead, files, queue, run>>
        /\ TaskNamed(t)
    BY <1>5 DEF LoadReplayable, EventKinds, TaskNamed
  <2> HIDE DEF asked
  <2> QED
    BY <1>3, <2>1, <2>2
<1> QED
  BY <1>1, <1>2, <1>4, <1>5 DEF Request

\* The rows after a version was inserted in place of the one it was made from.
LEMMA InsertKeepsLineages ==
    ASSUME PipelineInv, Typed, Len(jds) \in Nat, NEW base \in 0..Len(jds), NEW row \in JdRow,
           jds' = Inserted(base, row), row.parent = base,
           row.root = IF base = 0 THEN Len(jds) + 1 ELSE jds[base].root
    PROVE  LineageInv'
<1>1. /\ jds' \in Seq(JdRow) /\ Len(jds') = Len(jds) + 1
      /\ jds'[Len(jds) + 1] = row
      /\ \A j \in Rows : /\ jds'[j].root = jds[j].root /\ jds'[j].parent = jds[j].parent
                         /\ j = base => ~jds'[j].active
                         /\ j # base => jds'[j].active = jds[j].active
  BY InsertedRows DEF Typed
<1>2. Rows' = Rows \cup {Len(jds) + 1} /\ Len(jds) + 1 \notin Rows /\ 0 \notin Rows
  BY <1>1 DEF Rows
<1>3. \A j \in Rows : RowInv(j)
  BY DEF PipelineInv, LineageInv
<1>4. \A j \in Rows : ~jds[j].active => ~jds'[j].active
  BY <1>1
<1>5. ASSUME NEW j \in Rows PROVE RowInv(j)'
  <2>1. jds[j].root \in Rows
    BY <1>3 DEF RowInv
  <2> QED
    BY <1>1, <1>2, <1>3, <1>4, <2>1 DEF RowInv
<1>6. ASSUME NEW n, n = Len(jds) + 1 PROVE RowInv(n)'
  <2>1. CASE base = 0
    BY <1>1, <1>2, <1>6, <2>1 DEF RowInv
  <2>2. CASE base # 0
    <3>1. base \in Rows
      BY <2>2 DEF Rows
    <3>2. jds[base].root \in Rows /\ (jds[base].root # base => ~jds[jds[base].root].active)
      BY <1>3, <3>1 DEF RowInv
    <3>3. ~jds'[jds[base].root].active
      BY <1>1, <1>4, <3>1, <3>2
    <3> QED
      BY <1>1, <1>2, <1>6, <2>2, <3>2, <3>3 DEF RowInv
  <2> QED
    BY <2>1, <2>2
<1> QED
  BY <1>2, <1>5, <1>6 DEF LineageInv

\* The row of a metadata-only update.
LEMMA EditedRow ==
    ASSUME PipelineInv, Typed, NEW j \in Rows
    PROVE  LET row == [jds[j] EXCEPT !.parent = j, !.version = @ + 1, !.active = TRUE,
                                     !.closed = FALSE, !.embedded = FALSE]
           IN  row \in JdRow /\ row.parent = j /\ row.root = jds[j].root
<1>1. jds[j] \in JdRow /\ j \in 0..MaxJds
  BY BoundsAssumption DEF Typed, Rows
<1>2. jds[j].version + 1 \in Nat
  BY <1>1 DEF JdRow
<1> QED
  BY <1>1, <1>2 DEF JdRow

\* QueueEmbedding publishes the message, or the version stays without an embedding.
LEMMA QueueEmbeddingIs ==
    ASSUME Typed, NEW j \in Nat, QueueEmbedding(j)
    PROVE  /\ queue' \subseteq Job /\ \A m \in queue' : m \in queue \/ m = Embed(j, 1)
           /\ unembedded' \subseteq unembedded \cup {j}
           /\ events' \in [EventKinds -> Nat]
           /\ Embed(j, 1).kind = "EMBED" /\ Embed(j, 1).id = j
<1>1. Embed(j, 1) \in Job /\ Embed(j, 1).kind = "EMBED" /\ Embed(j, 1).id = j
  BY BoundsAssumption DEF Embed, Job
<1>2. CASE queue' = queue \cup {Embed(j, 1)} /\ UNCHANGED <<unembedded, events>>
  BY <1>1, <1>2 DEF Typed
<1>3. CASE Spend("lost") /\ unembedded' = unembedded \cup {j} /\ UNCHANGED queue
  <2>1. events' \in [EventKinds -> Nat]
    BY <1>3, SpendIs DEF Typed, EventKinds
  <2> QED
    BY <1>1, <1>3, <2>1 DEF Typed
<1> QED
  BY <1>2, <1>3 DEF QueueEmbedding

LEMMA EditStep == ASSUME PipelineInv, NEW c \in Clerks, Edit(c) PROVE PipelineInv'
<1>t. Typed /\ Len(jds) \in Nat
  BY TypedIsTypeOK DEF PipelineInv, Typed
<1> DEFINE j == req[c].id
           row == [jds[j] EXCEPT !.parent = j, !.version = @ + 1, !.active = TRUE,
                                 !.closed = FALSE, !.embedded = FALSE]
<1>1. j \in Rows /\ Len(jds) + 1 <= MaxJds
  <2>1. ReqInv(c) /\ req[c].pc = "edit" /\ Len(jds) < MaxJds
    BY DEF PipelineInv, Edit
  <2> QED
    BY <1>t, <2>1, BoundsAssumption DEF ReqInv
<1>2. req' = [req EXCEPT ![c] = NoRequest] /\ UNCHANGED <<campaigns, tasks, checkpoints, dead, files, run>>
  BY DEF Edit
<1>3. /\ req' \in [Clerks -> Asked] /\ req'[c] = NoRequest /\ \A d \in Clerks \ {c} : req'[d] = req[d]
  BY <1>2, <1>t, Records DEF Typed
<1>4. ReqInv(c)'
  BY <1>3, Records DEF ReqInv
<1>5. CASE IndexAllows(j)
  <2>1. jds' = Inserted(j, row) /\ QueueEmbedding(Len(jds) + 1)
    BY <1>5 DEF Edit
  <2>2. row \in JdRow /\ row.parent = j /\ row.root = jds[j].root
    BY <1>1, <1>t, EditedRow
  <2>3. j \in 0..Len(jds) /\ j # 0
    BY <1>1, <1>t DEF Rows
  <2> HIDE DEF row, j
  <2>4. jds' \in Seq(JdRow) /\ Len(jds') = Len(jds) + 1
    BY <1>t, <2>1, <2>2, <2>3, InsertedRows DEF Typed
  <2>5. LineageInv'
    BY <1>t, <2>1, <2>2, <2>3, InsertKeepsLineages
  <2>6. Len(jds) + 1 \in Nat
    BY <1>t
  <2>7. /\ queue' \subseteq Job /\ \A m \in queue' : m \in queue \/ m = Embed(Len(jds) + 1, 1)
        /\ unembedded' \subseteq unembedded \cup {Len(jds) + 1}
        /\ events' \in [EventKinds -> Nat]
        /\ Embed(Len(jds) + 1, 1).kind = "EMBED" /\ Embed(Len(jds) + 1, 1).id = Len(jds) + 1
    BY <1>t, <2>1, <2>6, QueueEmbeddingIs
  <2>8. Rows' = Rows \cup {Len(jds) + 1}
    BY <1>t, <2>4 DEF Rows
  <2>9. Typed'
    BY <1>1, <1>2, <1>3, <1>t, <2>4, <2>7, <2>8 DEF Typed
  <2>10. \A m \in queue' : m \in queue \/ JobInv(m)'
    BY <2>7, <2>8 DEF JobInv
  <2>11. Len(jds') \in Nat /\ Len(jds) <= Len(jds')
    BY <1>t, <2>4
  <2> QED
    BY <1>2, <1>3, <1>4, <1>t, <2>5, <2>9, <2>10, <2>11, TasksUnchanged, Assemble
<1>6. CASE ~IndexAllows(j)
  <2>1. UNCHANGED <<jds, unembedded, queue, events>>
    BY <1>6 DEF Edit
  <2>2. Typed'
    BY <1>2, <1>3, <1>t, <2>1 DEF Typed, Rows
  <2> QED
    BY <1>2, <1>3, <1>4, <2>1, <2>2, TasksUnchanged, AssembleRows
<1> QED
  BY <1>5, <1>6

\* A field of one row changes; a live row may be closed.
LEMMA RowChanged ==
    ASSUME PipelineInv, Typed, NEW j \in Rows, NEW row \in JdRow, jds' = [jds EXCEPT ![j] = row],
           row.root = jds[j].root, row.parent = jds[j].parent, row.active => jds[j].active
    PROVE  /\ jds' \in Seq(JdRow) /\ Len(jds') = Len(jds) /\ Rows' = Rows
           /\ LineageInv'
<1>1. /\ jds' \in Seq(JdRow) /\ Len(jds') = Len(jds)
      /\ \A i \in 1..Len(jds) : jds'[i] = IF i = j THEN row ELSE jds[i]
  BY ExceptSeq DEF Typed, Rows
<1>2. Rows' = Rows
  BY <1>1 DEF Rows
<1>3. \A i \in Rows : /\ jds'[i].root = jds[i].root /\ jds'[i].parent = jds[i].parent
                      /\ jds'[i].active => jds[i].active
  BY <1>1 DEF Rows
<1>4. \A i \in Rows : RowInv(i)
  BY DEF PipelineInv, LineageInv
<1>5. LineageInv'
  BY <1>2, <1>3, <1>4 DEF LineageInv, RowInv
<1> QED
  BY <1>1, <1>2, <1>5

LEMMA ContinueStep == ASSUME PipelineInv, NEW c \in Clerks, Continue(c) PROVE PipelineInv'
<1>t. Typed /\ Len(jds) \in Nat /\ ReqInv(c) /\ req[c] \in Asked
  BY TypedIsTypeOK DEF PipelineInv, Typed
<1>r. ASSUME req' = [req EXCEPT ![c] = NoRequest]
      PROVE  /\ req' \in [Clerks -> Asked] /\ \A d \in Clerks : req'[d] = req[d] \/ ReqInv(d)'
  <2>1. /\ req' \in [Clerks -> Asked] /\ req'[c] = NoRequest /\ \A d \in Clerks \ {c} : req'[d] = req[d]
    BY <1>r, <1>t, Records DEF Typed
  <2>2. ReqInv(c)'
    BY <2>1, Records DEF ReqInv
  <2> QED
    BY <2>1, <2>2
<1>1. CASE Send(c)
  <2>m. PICK m : m = Process(req[c].id, 1, req[c].old)
    OBVIOUS
  <2>1. /\ TaskNamed(req[c].id) /\ req' = [req EXCEPT ![c] = NoRequest]
        /\ UNCHANGED <<jds, campaigns, unembedded, tasks, checkpoints, dead, files, run>>
    BY <1>1, <1>t DEF Send, ReqInv
  <2>2. m \in Job /\ m.kind = "PROCESS" /\ m.id = req[c].id
    BY <1>t, <2>m DEF Process, Job, Asked
  <2>3. JobInv(m)'
    BY <2>1, <2>2 DEF JobInv, TaskNamed
  <2>4. queue' \subseteq queue \cup {m} /\ events' \in [EventKinds -> Nat]
    <3>1. CASE queue' = queue \cup {m} /\ UNCHANGED events
      BY <1>t, <3>1 DEF Typed
    <3>2. CASE Spend("lost") /\ UNCHANGED queue
      BY <1>t, <3>2, SpendIs DEF Typed, EventKinds
    <3> QED
      BY <1>1, <2>m, <3>1, <3>2 DEF Send
  <2>5. Typed'
    BY <1>r, <1>t, <2>1, <2>2, <2>4 DEF Typed, Rows
  <2> QED
    BY <1>r, <2>1, <2>3, <2>4, <2>5, TasksUnchanged, AssembleRows
<1>2. CASE Edit(c)
  BY <1>2, EditStep
<1>3. CASE Close(c)
  <2> DEFINE j == req[c].id
             row == [jds[j] EXCEPT !.active = FALSE, !.closed = TRUE]
  <2>1. /\ j \in Rows /\ req' = [req EXCEPT ![c] = NoRequest]
        /\ UNCHANGED <<campaigns, unembedded, tasks, checkpoints, dead, files, queue, run, events>>
    BY <1>3, <1>t DEF Close, ReqInv
  <2>2. jds[j] \in JdRow
    BY <1>t, <2>1 DEF Typed, Rows
  <2>3. row \in JdRow /\ row.root = jds[j].root /\ row.parent = jds[j].parent /\ ~row.active
    BY <2>2 DEF JdRow
  <2>4. jds' = [jds EXCEPT ![j] = row]
    <3>1. jds' = [jds EXCEPT ![j].active = FALSE, ![j].closed = TRUE]
      BY <1>3 DEF Close
    <3> QED
      BY <1>t, <2>1, <3>1 DEF Typed, Rows
  <2> HIDE DEF row, j
  <2>5. jds' \in Seq(JdRow) /\ Len(jds') = Len(jds) /\ Rows' = Rows /\ LineageInv'
    BY <1>t, <2>1, <2>3, <2>4, RowChanged
  <2>6. Typed'
    BY <1>r, <1>t, <2>1, <2>5 DEF Typed
  <2>7. \A d \in Clerks : req'[d] = req[d] \/ ReqInv(d)'
    BY <1>r, <2>1
  <2> QED
    BY <1>t, <2>1, <2>5, <2>6, <2>7, TasksUnchanged, Assemble
<1>4. CASE Attach(c)
  <2>1. /\ req[c].id \in Rows /\ req' = [req EXCEPT ![c] = NoRequest]
        /\ campaigns' = campaigns \cup {req[c].id}
        /\ UNCHANGED <<unembedded, jds, tasks, checkpoints, dead, files, queue, run, events>>
    BY <1>4, <1>t DEF Attach, ReqInv
  <2>2. Typed'
    BY <1>r, <1>t, <2>1 DEF Typed, Rows
  <2> QED
    BY <1>r, <2>1, <2>2, TasksUnchanged, AssembleRows
<1>5. ASSUME Purge(c) \/ ResetTaskLog(c) PROVE PipelineInv'
  <2> DEFINE t == req[c].id
  <2>1. TaskNamed(t) /\ UNCHANGED <<jds, campaigns, unembedded, files, queue, run, events>>
    BY <1>5, <1>t DEF Purge, ResetTaskLog, ReqInv
  <2>2. /\ req' \in [Clerks -> Asked] /\ \A d \in Clerks \ {c} : req'[d] = req[d]
        /\ req'[c].pc \in {"reset", "send"} /\ req'[c].id = req[c].id
    <3>1. CASE Purge(c)
      <4>1. req' = [req EXCEPT ![c].pc = "reset"]
        BY <3>1 DEF Purge
      <4> QED
        BY <1>t, <4>1 DEF Asked, Typed
    <3>2. CASE ResetTaskLog(c)
      <4>1. req' = [req EXCEPT ![c].pc = "send"]
        BY <3>2 DEF ResetTaskLog
      <4> QED
        BY <1>t, <4>1 DEF Asked, Typed
    <3> QED
      BY <1>5, <3>1, <3>2
  <2>3. tasks' \in [TaskId -> TaskRow] /\ \A u \in TaskId : TaskKept(u)
    <3>1. CASE Purge(c)
      BY <1>t, <3>1 DEF Purge, TaskKept, Typed
    <3>2. CASE ResetTaskLog(c)
      <4> DEFINE row == [tasks[t] EXCEPT !.status = "QUEUED", !.error = "none"]
      <4>1. tasks[t] \in TaskRow /\ t \in TaskId
        BY <1>t, <2>1 DEF TaskNamed, Typed
      <4>2. tasks' = [tasks EXCEPT ![t] = row]
        <5>1. tasks' = [tasks EXCEPT ![t].status = "QUEUED", ![t].error = "none"]
          BY <3>2 DEF ResetTaskLog
        <5> QED
          BY <1>t, <4>1, <5>1 DEF Typed
      <4>3. row \in TaskRow /\ row.base = tasks[t].base /\ row.content = tasks[t].content /\ row.status = "QUEUED"
        BY <4>1 DEF TaskRow, Status
      <4> HIDE DEF row
      <4> QED
        BY <1>t, <2>1, <4>1, <4>2, <4>3 DEF Typed, TaskKept, TaskNamed
    <3> QED
      BY <1>5, <3>1, <3>2
  <2>4. checkpoints' \in [TaskId -> 0..7] /\ dead' \in [TaskId -> [entries : Nat, replayed : BOOLEAN]]
    <3>1. CASE Purge(c)
      <4>0. checkpoints' = [checkpoints EXCEPT ![t] = 0]
        BY <3>1 DEF Purge
      <4>1. dead' = [dead EXCEPT ![t].replayed = dead[t].entries > 0]
        BY <3>1 DEF Purge
      <4>2. (dead[t].entries > 0) \in BOOLEAN
        OBVIOUS
      <4>3. PICK again \in BOOLEAN : again = (dead[t].entries > 0)
        BY <4>2
      <4>4. dead' = [dead EXCEPT ![t].replayed = again]
        BY <4>1, <4>3
      <4> HIDE DEF t
      <4>5. dead' \in [TaskId -> [entries : Nat, replayed : BOOLEAN]]
        BY <1>t, <4>4 DEF Typed
      <4>6. checkpoints' \in [TaskId -> 0..7]
        <5>1. 0 \in 0..7
          OBVIOUS
        <5>2. checkpoints \in [TaskId -> 0..7]
          BY <1>t DEF Typed
        <5> QED
          BY <4>0, <5>1, <5>2
      <4> QED
        BY <4>5, <4>6
    <3>2. CASE ResetTaskLog(c)
      BY <1>t, <3>2 DEF ResetTaskLog, Typed
    <3> QED
      BY <1>5, <3>1, <3>2
  <2>5. Typed'
    BY <1>t, <2>1, <2>2, <2>3, <2>4 DEF Typed, Rows
  <2>6. ReqInv(c)'
    BY <2>1, <2>2, <2>3 DEF ReqInv, TaskNamed, TaskKept
  <2> QED
    BY <2>1, <2>2, <2>3, <2>5, <2>6, AssembleRows
<1> QED
  BY <1>1, <1>2, <1>3, <1>4, <1>5 DEF Continue

-----------------------------------------------------------------------------
(* The worker: process_jd_document.                                         *)

\* A worker at a stage has a submission in hand.
LEMMA InHand ==
    ASSUME PipelineInv, NEW w \in Workers, run[w].pc \notin {"idle", "embed"}
    PROVE  TaskNamed(Task(w)) /\ run[w].job.kind = "PROCESS" /\ JobInv(run[w].job)
BY DEF PipelineInv, RunInv, JobInv, Task

\* Moving on with the same job.
LEMMA GoKeeps ==
    ASSUME PipelineInv, Typed, NEW w \in Workers, NEW pc \in {"stage", "commit", "mark", "failed", "hopeless", "bury", "duplicate"},
           Go(w, pc), run[w].pc \notin {"idle", "embed"}, pc = "mark" => run[w].pc = "finish",
           UNCHANGED <<jds, tasks>>
    PROVE  run' \in [Workers -> Run] /\ \A v \in Workers : run'[v] = run[v] \/ RunInv(v)'
<1>1. /\ run' \in [Workers -> Run]
      /\ run'[w].pc = pc /\ run'[w].job = run[w].job /\ run'[w].new = run[w].new
      /\ \A v \in Workers \ {w} : run'[v] = run[v]
  BY GoIs DEF Typed
<1>2. RunInv(w)
  BY DEF PipelineInv
<1>3. RunInv(w)'
  BY <1>1, <1>2 DEF RunInv, JobInv, TaskNamed, Rows
<1> QED
  BY <1>1, <1>3

LEMMA RestKeeps ==
    ASSUME Typed, NEW w \in Workers, run' = [run EXCEPT ![w] = Idle]
    PROVE  run' \in [Workers -> Run] /\ \A v \in Workers : run'[v] = run[v] \/ RunInv(v)'
<1>1. run' \in [Workers -> Run] /\ run'[w] = Idle /\ \A v \in Workers \ {w} : run'[v] = run[v]
  BY Records DEF Typed
<1>2. RunInv(w)'
  BY <1>1, Records DEF RunInv
<1> QED
  BY <1>1, <1>2

\* The log of a known submission: its status and its outcome.
LEMMA LogKeeps ==
    ASSUME Typed, NEW t, TaskNamed(t), NEW row \in TaskRow, tasks' = [tasks EXCEPT ![t] = row],
           row.base = tasks[t].base, row.content = tasks[t].content, row.status # "NONE"
    PROVE  /\ tasks' \in [TaskId -> TaskRow]
           /\ \A u \in TaskId : TaskKept(u) \/ NewSubmission(u)
           /\ \A u : TaskNamed(u) => TaskNamed(u)'
BY DEF Typed, TaskNamed, TaskKept

LEMMA StatusKeeps ==
    ASSUME Typed, NEW t, TaskNamed(t), NEW status \in Status \ {"NONE"}, tasks' = [tasks EXCEPT ![t].status = status]
    PROVE  /\ tasks' \in [TaskId -> TaskRow]
           /\ \A u \in TaskId : TaskKept(u) \/ NewSubmission(u)
           /\ \A u : TaskNamed(u) => TaskNamed(u)'
<1> DEFINE row == [tasks[t] EXCEPT !.status = status]
<1>1. tasks[t] \in TaskRow /\ t \in TaskId
  BY DEF Typed, TaskNamed
<1>2. row \in TaskRow /\ row.base = tasks[t].base /\ row.content = tasks[t].content /\ row.status # "NONE"
  BY <1>1 DEF TaskRow
<1>3. tasks' = [tasks EXCEPT ![t] = row]
  BY <1>1 DEF Typed
<1> HIDE DEF row
<1> QED
  BY <1>2, <1>3, LogKeeps

LEMMA FailureKeeps ==
    ASSUME Typed, NEW t, TaskNamed(t), NEW error \in {"stage", "duplicate"},
           tasks' = [tasks EXCEPT ![t].status = "FAILURE", ![t].error = error]
    PROVE  /\ tasks' \in [TaskId -> TaskRow]
           /\ \A u \in TaskId : TaskKept(u) \/ NewSubmission(u)
<1> DEFINE row == [tasks[t] EXCEPT !.status = "FAILURE", !.error = error]
<1>1. tasks[t] \in TaskRow /\ t \in TaskId
  BY DEF Typed, TaskNamed
<1>2. row \in TaskRow /\ row.base = tasks[t].base /\ row.content = tasks[t].content /\ row.status # "NONE"
  BY <1>1 DEF TaskRow, Status
<1>3. tasks' = [tasks EXCEPT ![t] = row]
  BY <1>1 DEF Typed
<1> HIDE DEF row
<1> QED
  BY <1>2, <1>3, LogKeeps

LEMMA StartStep == ASSUME PipelineInv, NEW w \in Workers, NEW m \in queue, Start(w, m) PROVE PipelineInv'
<1>t. Typed
  BY TypedIsTypeOK DEF PipelineInv
<1> DEFINE at == IF checkpoints[m.id] = 0 THEN 1 ELSE checkpoints[m.id]
           r == [pc |-> "stage", job |-> m, new |-> 0, at |-> at, resumed |-> SkillDetailLost(m.id)]
<1>1. /\ m.kind = "PROCESS" /\ queue' = queue \ {m} /\ tasks' = [tasks EXCEPT ![m.id].status = "RUNNING"]
      /\ run' = [run EXCEPT ![w] = r]
      /\ UNCHANGED <<jds, campaigns, unembedded, checkpoints, dead, files, req, events>>
  BY DEF Start
<1>2. TaskNamed(m.id) /\ m \in Job
  BY <1>1, <1>t DEF PipelineInv, JobInv, Typed
<1>3. at \in Stage
  BY <1>2, <1>t, Stages DEF Typed, TaskNamed
<1>4. SkillDetailLost(m.id) \in BOOLEAN
  BY DEF SkillDetailLost
<1>5. r \in Run /\ r.pc = "stage" /\ r.job = m
  BY <1>2, <1>3, <1>4, BoundsAssumption DEF Run
<1>6. /\ tasks' \in [TaskId -> TaskRow]
      /\ \A u \in TaskId : TaskKept(u) \/ NewSubmission(u)
      /\ \A u : TaskNamed(u) => TaskNamed(u)'
  BY <1>1, <1>2, <1>t, StatusKeeps DEF Status
<1> HIDE DEF r
<1>7. run' \in [Workers -> Run] /\ run'[w] = r /\ \A v \in Workers \ {w} : run'[v] = run[v]
  BY <1>1, <1>5, <1>t DEF Typed
<1>8. RunInv(w)'
  BY <1>1, <1>2, <1>5, <1>6, <1>7 DEF RunInv, JobInv
<1>9. Typed'
  BY <1>1, <1>6, <1>7, <1>t DEF Typed, Rows
<1> QED
  BY <1>1, <1>6, <1>7, <1>8, <1>9, AssembleRows

\* Steps that touch only the control state and the checkpoint of the submission in hand.
LEMMA ControlStep ==
    ASSUME PipelineInv, NEW w \in Workers, run[w].pc \notin {"idle", "embed"},
           \E pc \in {"stage", "commit", "mark", "failed", "hopeless", "bury", "duplicate"} :
               Go(w, pc) /\ (pc = "mark" => run[w].pc = "finish"),
           checkpoints' \in [TaskId -> 0..7], dead' \in [TaskId -> [entries : Nat, replayed : BOOLEAN]],
           events' \in [EventKinds -> Nat],
           UNCHANGED <<jds, campaigns, unembedded, tasks, files, queue, req>>
    PROVE  PipelineInv'
<1>t. Typed
  BY TypedIsTypeOK DEF PipelineInv
<1>1. run' \in [Workers -> Run] /\ \A v \in Workers : run'[v] = run[v] \/ RunInv(v)'
  BY <1>t, GoKeeps
<1>2. Typed'
  BY <1>1, <1>t DEF Typed, Rows
<1> QED
  BY <1>1, <1>2, TasksUnchanged, AssembleRows

LEMMA StageStep ==
    ASSUME PipelineInv, NEW w \in Workers,
           \/ RunStage(w) \/ PersistCheck(w) \/ Finish(w) \/ DeadLetter(w) \/ StageFails(w)
    PROVE  PipelineInv'
<1>t. /\ Typed /\ run[w] \in Run
      /\ run[w].at \in 0..7 /\ 0 \in 0..7
  BY TypedIsTypeOK, Stages DEF PipelineInv, Typed, Run
<1>c. /\ checkpoints \in [TaskId -> 0..7] /\ dead \in [TaskId -> [entries : Nat, replayed : BOOLEAN]]
      /\ events \in [EventKinds -> Nat]
  BY <1>t DEF Typed
<1>a. run[w].pc \notin {"idle", "embed"}
  BY DEF RunStage, PersistCheck, Finish, DeadLetter, StageFails
<1>1. CASE RunStage(w)
  <2>1. CASE Go(w, "duplicate")
    BY <1>1, <1>a, <1>c, <2>1, ControlStep DEF RunStage
  <2>2. CASE run' = [run EXCEPT ![w].at = @ + 1]
    <3>1. run[w].at # 7 /\ run[w].at \in Stage
      BY <1>1, <1>t, Stages DEF RunStage, Run
    <3>2. run[w].at + 1 \in Stage
      BY <3>1, Stages
    <3>3. /\ run' \in [Workers -> Run] /\ run'[w].pc = "stage" /\ run'[w].job = run[w].job
          /\ \A v \in Workers \ {w} : run'[v] = run[v]
      BY <1>1, <1>t, <2>2, <3>2 DEF RunStage, Typed, Run
    <3>4. JobInv(run[w].job) /\ run[w].job.kind = "PROCESS"
      BY <1>a, InHand
    <3>5. UNCHANGED <<jds, campaigns, unembedded, tasks, checkpoints, dead, files, queue, req, events>>
      BY <1>1 DEF RunStage
    <3>6. RunInv(w)'
      BY <3>3, <3>4, <3>5 DEF RunInv, JobInv, TaskNamed
    <3>7. Typed'
      BY <1>t, <3>3, <3>5 DEF Typed, Rows
    <3> QED
      BY <3>3, <3>5, <3>6, <3>7, TasksUnchanged, AssembleRows
  <2> QED
    BY <1>1, <2>1, <2>2 DEF RunStage
<1>2. CASE PersistCheck(w)
  <2>1. checkpoints' \in [TaskId -> 0..7] /\ \E pc \in {"duplicate", "failed", "commit"} : Go(w, pc)
    BY <1>2, <1>c, <1>t DEF PersistCheck
  <2> QED
    BY <1>2, <1>a, <1>c, <2>1, ControlStep DEF PersistCheck
<1>3. CASE Finish(w)
  <2>1. checkpoints' \in [TaskId -> 0..7]
    BY <1>3, <1>c, <1>t DEF Finish
  <2> QED
    BY <1>3, <1>a, <1>c, <2>1, ControlStep DEF Finish
<1>4. CASE DeadLetter(w)
  <2>1. dead' \in [TaskId -> [entries : Nat, replayed : BOOLEAN]]
    <3>1. dead' = [dead EXCEPT ![Task(w)].entries = dead[Task(w)].entries + 1] /\ Task(w) \in TaskId
      BY <1>4, <1>a, InHand DEF DeadLetter, TaskNamed
    <3>2. PICK n \in Nat : n = dead[Task(w)].entries + 1
      BY <1>c, <3>1
    <3>3. dead' = [dead EXCEPT ![Task(w)].entries = n]
      BY <3>1, <3>2
    <3> QED
      BY <1>c, <3>3
  <2> QED
    BY <1>4, <1>a, <1>c, <2>1, ControlStep DEF DeadLetter
<1>5. CASE StageFails(w)
  <2>1. checkpoints' \in [TaskId -> 0..7] /\ \E pc \in {"hopeless", "failed"} : Go(w, pc)
    BY <1>5, <1>c, <1>t DEF StageFails
  <2>2. events' \in [EventKinds -> Nat]
    BY <1>5, <1>c, SpendIs DEF StageFails, EventKinds
  <2> QED
    BY <1>5, <1>a, <1>c, <2>1, <2>2, ControlStep DEF StageFails
<1> QED
  BY <1>1, <1>2, <1>3, <1>4, <1>5

\* A worker that puts its task down: the log row, the broker and the results may change.
LEMMA PutDown ==
    ASSUME PipelineInv, NEW w \in Workers, run' = [run EXCEPT ![w] = Idle],
           tasks' \in [TaskId -> TaskRow], \A t \in TaskId : TaskKept(t) \/ NewSubmission(t),
           files' \subseteq TaskId, unembedded' \subseteq Rows, events' \in [EventKinds -> Nat],
           queue' \subseteq Job, \A m \in queue' : m \in queue \/ JobInv(m)',
           UNCHANGED <<jds, campaigns, checkpoints, dead, req>>
    PROVE  PipelineInv'
<1>t. Typed
  BY TypedIsTypeOK DEF PipelineInv
<1>1. run' \in [Workers -> Run] /\ \A v \in Workers : run'[v] = run[v] \/ RunInv(v)'
  BY <1>t, RestKeeps
<1>2. Typed'
  BY <1>1, <1>t DEF Typed, Rows
<1> QED
  BY <1>1, <1>2, AssembleRows

LEMMA MarkSuccessStep == ASSUME PipelineInv, NEW w \in Workers, MarkSuccess(w) PROVE PipelineInv'
<1>t. Typed /\ Len(jds) \in Nat
  BY TypedIsTypeOK DEF PipelineInv, Typed
<1>1. /\ TaskNamed(Task(w)) /\ run[w].new \in Rows
      /\ run' = [run EXCEPT ![w] = Idle] /\ QueueEmbedding(run[w].new)
      /\ UNCHANGED <<jds, campaigns, checkpoints, dead, req>>
  <2>1. run[w].pc = "mark" /\ RunInv(w)
    BY DEF MarkSuccess, PipelineInv
  <2> QED
    BY <2>1, InHand DEF MarkSuccess, RunInv
<1>2. /\ tasks' \in [TaskId -> TaskRow]
      /\ \A t \in TaskId : TaskKept(t) \/ NewSubmission(t)
  <2>t. PICK t : t = Task(w)
    OBVIOUS
  <2> DEFINE row == [tasks[t] EXCEPT !.status = "SUCCESS", !.made = run[w].new]
  <2>1. tasks[t] \in TaskRow /\ t \in TaskId /\ TaskNamed(t)
    BY <1>1, <1>t, <2>t DEF Typed, TaskNamed
  <2>2. run[w].new \in 0..MaxJds
    BY <1>1, <1>t, BoundsAssumption DEF Rows, Typed
  <2>3. row \in TaskRow /\ row.base = tasks[t].base /\ row.content = tasks[t].content /\ row.status # "NONE"
    BY <2>1, <2>2 DEF TaskRow, Status
  <2>4. tasks' = [tasks EXCEPT ![t] = row]
    <3>1. tasks' = [tasks EXCEPT ![t].status = "SUCCESS", ![t].made = run[w].new]
      BY <2>t DEF MarkSuccess
    <3> QED
      BY <1>t, <2>1, <3>1 DEF Typed
  <2> HIDE DEF row
  <2> QED
    BY <1>t, <2>1, <2>3, <2>4, LogKeeps
<1>3. run[w].new \in Nat
  BY <1>1, <1>t DEF Rows
<1>n. PICK n \in Nat : n = run[w].new
  BY <1>3
<1>4. /\ queue' \subseteq Job /\ \A m \in queue' : m \in queue \/ m = Embed(n, 1)
      /\ unembedded' \subseteq unembedded \cup {n}
      /\ events' \in [EventKinds -> Nat]
      /\ Embed(n, 1).kind = "EMBED" /\ Embed(n, 1).id = n
  BY <1>1, <1>n, <1>t, QueueEmbeddingIs
<1>5. unembedded' \subseteq Rows
  BY <1>1, <1>4, <1>n, <1>t DEF Typed
<1>6. \A m \in queue' : m \in queue \/ JobInv(m)'
  BY <1>1, <1>4, <1>n DEF JobInv, Rows
<1>7. files' \subseteq TaskId
  BY <1>t DEF MarkSuccess, Typed
<1> QED
  BY <1>1, <1>2, <1>4, <1>5, <1>6, <1>7, PutDown

LEMMA PutDownStep ==
    ASSUME PipelineInv, NEW w \in Workers,
           RejectDuplicate(w) \/ Retry(w) \/ MarkFailure(w) \/ Crash(w) \/ EmbeddingFails(w)
    PROVE  PipelineInv'
<1>t. Typed /\ run[w] \in Run /\ RunInv(w)
  BY TypedIsTypeOK DEF PipelineInv, Typed
<1>f. /\ files \subseteq TaskId /\ unembedded \subseteq Rows /\ events \in [EventKinds -> Nat] /\ queue \subseteq Job
      /\ tasks \in [TaskId -> TaskRow]
  BY <1>t DEF Typed
<1>j. ASSUME run[w].pc # "idle", UNCHANGED jds, \A t : TaskNamed(t) => TaskNamed(t)'
      PROVE  \A n \in Nat : \A m : m = [run[w].job EXCEPT !.try = n]
                                   => m \in Job /\ JobInv(m) /\ JobInv(m)'
  <2> SUFFICES ASSUME NEW n \in Nat, NEW m, m = [run[w].job EXCEPT !.try = n]
               PROVE  m \in Job /\ JobInv(m) /\ JobInv(m)'
    OBVIOUS
  <2>1. run[w].job \in Job /\ JobInv(run[w].job)
    BY <1>t, <1>j DEF Run, RunInv
  <2>2. m \in Job /\ m.kind = run[w].job.kind /\ m.id = run[w].job.id
    BY <2>1 DEF Job
  <2> QED
    BY <1>j, <2>1, <2>2 DEF JobInv, Rows
<1>n. run[w].job.try \in Nat /\ run[w].job.try + 1 \in Nat
  BY <1>t DEF Run, Job
<1>1. CASE RejectDuplicate(w)
  <2>1. TaskNamed(Task(w))
    BY <1>1, InHand DEF RejectDuplicate
  <2>2. tasks' = [tasks EXCEPT ![Task(w)].status = "FAILURE", ![Task(w)].error = "duplicate"]
    BY <1>1 DEF RejectDuplicate
  <2>3. tasks' \in [TaskId -> TaskRow] /\ \A u \in TaskId : TaskKept(u) \/ NewSubmission(u)
    BY <1>t, <2>1, <2>2, FailureKeeps
  <2> QED
    BY <1>1, <1>f, <2>3, PutDown DEF RejectDuplicate, Rows
<1>2. CASE MarkFailure(w)
  <2>1. TaskNamed(Task(w))
    BY <1>2, InHand DEF MarkFailure
  <2>2. tasks' = [tasks EXCEPT ![Task(w)].status = "FAILURE", ![Task(w)].error = "stage"]
    BY <1>2 DEF MarkFailure
  <2>3. tasks' \in [TaskId -> TaskRow] /\ \A u \in TaskId : TaskKept(u) \/ NewSubmission(u)
    BY <1>t, <2>1, <2>2, FailureKeeps
  <2> QED
    BY <1>2, <1>f, <2>3, PutDown DEF MarkFailure, Rows
<1>3. CASE Retry(w)
  <2>1. TaskNamed(Task(w)) /\ run[w].pc # "idle"
    BY <1>3, InHand DEF Retry
  <2>2. tasks' = [tasks EXCEPT ![Task(w)].status = "RETRY"]
    BY <1>3 DEF Retry
  <2>3. /\ tasks' \in [TaskId -> TaskRow] /\ \A u \in TaskId : TaskKept(u) \/ NewSubmission(u)
        /\ \A u : TaskNamed(u) => TaskNamed(u)'
    BY <1>t, <2>1, <2>2, StatusKeeps DEF Status
  <2>m. PICK m : m = [run[w].job EXCEPT !.try = run[w].job.try + 1]
    OBVIOUS
  <2>4. m \in Job /\ JobInv(m)' /\ queue' = queue \cup {m}
    <3>1. UNCHANGED jds /\ queue' = queue \cup {m}
      BY <1>3, <2>m DEF Retry
    <3>2. m \in Job /\ JobInv(m) /\ JobInv(m)'
      BY <1>j, <1>n, <2>1, <2>3, <2>m, <3>1
    <3> QED
      BY <3>1, <3>2
  <2>5. queue' \subseteq Job /\ \A k \in queue' : k \in queue \/ JobInv(k)'
    BY <1>f, <2>4
  <2> QED
    BY <1>3, <1>f, <2>3, <2>5, PutDown DEF Retry, Rows
<1>4. CASE Crash(w)
  <2>1. /\ run[w].pc # "idle" /\ run' = [run EXCEPT ![w] = Idle] /\ queue' = queue \cup {run[w].job}
        /\ UNCHANGED <<jds, campaigns, unembedded, tasks, checkpoints, dead, files, req>>
    BY <1>4 DEF Crash
  <2>2. events' \in [EventKinds -> Nat]
    BY <1>4, <1>f, SpendIs DEF Crash, EventKinds
  <2>m. PICK m : m = run[w].job
    OBVIOUS
  <2>3. m \in Job /\ JobInv(m)'
    BY <1>t, <2>1, <2>m DEF Run, RunInv, JobInv, TaskNamed, Rows
  <2>4. queue' \subseteq Job /\ \A k \in queue' : k \in queue \/ JobInv(k)'
    BY <1>f, <2>1, <2>m, <2>3
  <2> QED
    BY <1>f, <2>1, <2>2, <2>4, TasksUnchanged, PutDown DEF Rows
<1>5. CASE EmbeddingFails(w)
  <2>1. /\ run[w].pc = "embed" /\ run' = [run EXCEPT ![w] = Idle]
        /\ UNCHANGED <<jds, campaigns, tasks, checkpoints, dead, files, req>>
    BY <1>5 DEF EmbeddingFails
  <2>2. events' \in [EventKinds -> Nat]
    BY <1>5, <1>f, SpendIs DEF EmbeddingFails, EventKinds
  <2>3. run[w].job.id \in Rows
    BY <1>t, <2>1 DEF RunInv, JobInv
  <2>m. PICK m : m = [run[w].job EXCEPT !.try = run[w].job.try + 1]
    OBVIOUS
  <2>4. m \in Job /\ JobInv(m) /\ JobInv(m)'
    <3>1. \A t : TaskNamed(t) => TaskNamed(t)'
      BY <2>1 DEF TaskNamed
    <3> QED
      BY <1>j, <1>n, <2>1, <2>m, <3>1
  <2>5. unembedded' \subseteq Rows /\ queue' \subseteq queue \cup {m}
    <3>1. CASE run[w].job.try < Attempts[StageIndex("EMBEDDING_GENERATION")]
      BY <1>5, <1>f, <2>m, <3>1 DEF EmbeddingFails
    <3>2. CASE ~(run[w].job.try < Attempts[StageIndex("EMBEDDING_GENERATION")])
      BY <1>5, <1>f, <2>3, <3>2 DEF EmbeddingFails
    <3> QED
      BY <3>1, <3>2
  <2>6. queue' \subseteq Job /\ \A k \in queue' : k \in queue \/ JobInv(k)'
    BY <1>f, <2>4, <2>5
  <2> QED
    BY <1>f, <2>1, <2>2, <2>5, <2>6, TasksUnchanged, PutDown DEF Rows
<1> QED
  BY <1>1, <1>2, <1>3, <1>4, <1>5

-----------------------------------------------------------------------------
(* The worker: the rows.                                                    *)

\* The row persist_processed_jd inserts.
LEMMA PersistedRow ==
    ASSUME PipelineInv, Typed, Len(jds) \in Nat, Len(jds) < MaxJds, NEW t \in TaskId, TaskNamed(t), NEW resumed
    PROVE  LET base == tasks[t].base
               row == [root |-> IF base = 0 THEN Len(jds) + 1 ELSE jds[base].root,
                       parent |-> base, content |-> tasks[t].content, version |-> tasks[t].version,
                       active |-> TRUE, closed |-> FALSE, file |-> IF tasks[t].file THEN t ELSE 0,
                       embedded |-> TRUE, skills |-> IF resumed THEN "bare" ELSE "whole"]
           IN  /\ base \in 0..Len(jds) /\ row \in JdRow /\ row.parent = base
               /\ row.root = IF base = 0 THEN Len(jds) + 1 ELSE jds[base].root
<1>1. tasks[t] \in TaskRow /\ TaskInv(t)
  BY DEF Typed, PipelineInv
<1>2. tasks[t].base \in 0..Len(jds) /\ tasks[t].content \in Contents /\ tasks[t].base \in 0..MaxJds
  BY <1>1 DEF TaskInv, TaskNamed, TaskRow
<1>3. (IF tasks[t].base = 0 THEN Len(jds) + 1 ELSE jds[tasks[t].base].root) \in JdId
  <2>1. CASE tasks[t].base = 0
    BY <2>1, BoundsAssumption DEF JdId
  <2>2. CASE tasks[t].base # 0
    <3>1. tasks[t].base \in Rows
      BY <1>2, <2>2 DEF Rows
    <3>2. jds[tasks[t].base] \in JdRow
      BY <3>1 DEF Typed, Rows
    <3> QED
      BY <2>2, <3>2 DEF JdRow
  <2> QED
    BY <2>1, <2>2
<1>4. (IF tasks[t].file THEN t ELSE 0) \in 0..MaxTasks
  BY BoundsAssumption DEF TaskId
<1>5. tasks[t].version \in Nat
  BY <1>1 DEF TaskRow
<1> QED
  BY <1>2, <1>3, <1>4, <1>5 DEF JdRow

LEMMA PersistCommitStep == ASSUME PipelineInv, NEW w \in Workers, PersistCommit(w) PROVE PipelineInv'
<1>t. Typed /\ Len(jds) \in Nat /\ run[w] \in Run
  BY TypedIsTypeOK DEF PipelineInv, Typed
<1>t1. PICK t : t = Task(w)
  OBVIOUS
<1>1. /\ run[w].pc = "commit" /\ Len(jds) < MaxJds /\ TaskNamed(t) /\ t \in TaskId
      /\ run[w].job.kind = "PROCESS" /\ JobInv(run[w].job)
      /\ UNCHANGED <<campaigns, unembedded, tasks, dead, files, queue, req, events>>
  BY <1>t1, InHand DEF PersistCommit, TaskNamed
<1>2. CASE tasks[t].base # 0 /\ ~IndexAllows(tasks[t].base)
  <2>1. Go(w, "failed") /\ UNCHANGED jds /\ checkpoints' = [checkpoints EXCEPT ![t] = run[w].at]
    BY <1>2, <1>t1 DEF PersistCommit
  <2>2. checkpoints' \in [TaskId -> 0..7]
    <3>1. run[w].at \in 0..7
      BY <1>t, Stages DEF Run
    <3> QED
      BY <1>t, <2>1, <3>1 DEF Typed
  <2> QED
    BY <1>1, <1>t, <2>1, <2>2, ControlStep DEF Typed
<1>3. CASE ~(tasks[t].base # 0 /\ ~IndexAllows(tasks[t].base))
  <2> DEFINE base == tasks[t].base
             row == [root |-> IF base = 0 THEN Len(jds) + 1 ELSE jds[base].root,
                     parent |-> base, content |-> tasks[t].content, version |-> tasks[t].version,
                     active |-> TRUE, closed |-> FALSE, file |-> IF tasks[t].file THEN t ELSE 0,
                     embedded |-> TRUE, skills |-> IF run[w].resumed THEN "bare" ELSE "whole"]
  <2>1. /\ run' = [run EXCEPT ![w].pc = "finish", ![w].new = Len(jds) + 1]
        /\ UNCHANGED checkpoints /\ jds' = Inserted(base, row)
    BY <1>3, <1>t1 DEF PersistCommit
  <2>2. /\ base \in 0..Len(jds) /\ row \in JdRow /\ row.parent = base
        /\ row.root = IF base = 0 THEN Len(jds) + 1 ELSE jds[base].root
    BY <1>1, <1>t, PersistedRow
  <2> HIDE DEF row, base
  <2>3. jds' \in Seq(JdRow) /\ Len(jds') = Len(jds) + 1
    BY <1>t, <2>1, <2>2, InsertedRows DEF Typed
  <2>4. LineageInv'
    BY <1>t, <2>1, <2>2, InsertKeepsLineages
  <2>5. Rows' = Rows \cup {Len(jds) + 1} /\ Len(jds) + 1 \in 0..MaxJds
    BY <1>1, <1>t, <2>3, BoundsAssumption DEF Rows
  <2>6. /\ run' \in [Workers -> Run] /\ run'[w].pc = "finish" /\ run'[w].new = Len(jds) + 1
        /\ run'[w].job = run[w].job
        /\ \A v \in Workers \ {w} : run'[v] = run[v]
    <3>n. PICK n : n = Len(jds) + 1
      OBVIOUS
    <3> DEFINE r == [run[w] EXCEPT !.pc = "finish", !.new = n]
    <3>1. r \in Run /\ r.pc = "finish" /\ r.new = n /\ r.job = run[w].job
      BY <1>t, <2>5, <3>n DEF Run
    <3>2. run' = [run EXCEPT ![w] = r]
      BY <1>t, <2>1, <3>n DEF Run, Typed
    <3> HIDE DEF r
    <3> QED
      BY <1>t, <3>1, <3>2, <3>n DEF Typed
  <2>7. RunInv(w)'
    BY <1>1, <2>5, <2>6 DEF RunInv, JobInv, TaskNamed
  <2>8. Typed'
    BY <1>1, <1>t, <2>1, <2>3, <2>5, <2>6 DEF Typed
  <2>9. Len(jds') \in Nat /\ Len(jds) <= Len(jds')
    BY <1>t, <2>3
  <2> QED
    BY <1>1, <1>t, <2>4, <2>6, <2>7, <2>8, <2>9, TasksUnchanged, Assemble
<1> QED
  BY <1>2, <1>3

LEMMA EmbedVersionStep == ASSUME PipelineInv, NEW w \in Workers, EmbedVersion(w) PROVE PipelineInv'
<1>t. Typed /\ Len(jds) \in Nat /\ RunInv(w)
  BY TypedIsTypeOK DEF PipelineInv, Typed
<1>j. PICK j : j = run[w].job.id
  OBVIOUS
<1>1. /\ j \in Rows /\ jds' = [jds EXCEPT ![j].embedded = TRUE] /\ run' = [run EXCEPT ![w] = Idle]
      /\ UNCHANGED <<campaigns, unembedded, tasks, checkpoints, dead, files, queue, req, events>>
  BY <1>j, <1>t DEF EmbedVersion, RunInv, JobInv
<1> DEFINE row == [jds[j] EXCEPT !.embedded = TRUE]
<1>2. jds[j] \in JdRow
  BY <1>1, <1>t DEF Typed, Rows
<1>3. row \in JdRow /\ row.root = jds[j].root /\ row.parent = jds[j].parent /\ row.active = jds[j].active
  BY <1>2 DEF JdRow
<1>4. jds' = [jds EXCEPT ![j] = row]
  BY <1>1
<1> HIDE DEF row
<1>5. jds' \in Seq(JdRow) /\ Len(jds') = Len(jds) /\ Rows' = Rows /\ LineageInv'
  BY <1>1, <1>3, <1>4, <1>t, RowChanged
<1>6. run' \in [Workers -> Run] /\ \A v \in Workers : run'[v] = run[v] \/ RunInv(v)'
  BY <1>1, <1>t, RestKeeps
<1>7. Typed'
  BY <1>1, <1>5, <1>6, <1>t DEF Typed
<1> QED
  BY <1>1, <1>5, <1>6, <1>7, <1>t, TasksUnchanged, Assemble

LEMMA StartEmbeddingStep ==
    ASSUME PipelineInv, NEW w \in Workers, NEW m \in queue, StartEmbedding(w, m) PROVE PipelineInv'
<1>t. Typed /\ m \in Job /\ JobInv(m)
  BY TypedIsTypeOK DEF PipelineInv, Typed
<1>1. /\ m.kind = "EMBED" /\ queue' = queue \ {m}
      /\ UNCHANGED <<jds, campaigns, unembedded, tasks, checkpoints, dead, files, req, events>>
  BY DEF StartEmbedding
<1>2. PICK r \in {Idle, [Idle EXCEPT !.pc = "embed", !.job = m]} : run' = [run EXCEPT ![w] = r]
  BY DEF StartEmbedding
<1>3. r \in Run /\ (r.pc = "idle" \/ (r.pc = "embed" /\ r.job = m))
  BY <1>2, <1>t, Records DEF Run
<1>4. run' \in [Workers -> Run] /\ run'[w] = r /\ \A v \in Workers \ {w} : run'[v] = run[v]
  BY <1>2, <1>3, <1>t DEF Typed
<1>5. RunInv(w)'
  BY <1>1, <1>3, <1>4, <1>t DEF RunInv, JobInv, Rows
<1>6. Typed'
  BY <1>1, <1>4, <1>t DEF Typed, Rows
<1> QED
  BY <1>1, <1>4, <1>5, <1>6, TasksUnchanged, AssembleRows

-----------------------------------------------------------------------------
LEMMA PipelineStarts == Init => PipelineInv
<1> SUFFICES ASSUME Init PROVE PipelineInv
  OBVIOUS
<1>1. Len(jds) = 0 /\ jds \in Seq(JdRow) /\ Rows = {}
  BY DEF Init, Rows
<1>b. MaxJds \in Nat /\ MaxTasks \in Nat /\ 0 \in 0..MaxJds
  BY BoundsAssumption
<1>2. tasks \in [TaskId -> TaskRow] /\ \A t \in TaskId : TaskInv(t)
  <2>1. NoTask \in TaskRow /\ NoTask.base = 0 /\ NoTask.status = "NONE"
    BY <1>b DEF NoTask, TaskRow, Status
  <2> QED
    BY <1>1, <2>1 DEF Init, TaskInv
<1>3. run \in [Workers -> Run] /\ \A w \in Workers : RunInv(w)
  BY Records DEF Init, RunInv
<1>4. req \in [Clerks -> Asked] /\ \A c \in Clerks : ReqInv(c)
  BY Records DEF Init, ReqInv
<1>5. events \in [EventKinds -> Nat]
  BY ScenariosAssumption DEF Init
<1>6. Typed
  BY <1>1, <1>2, <1>3, <1>4, <1>5, <1>b DEF Init, Typed
<1> QED
  BY <1>1, <1>2, <1>3, <1>4, <1>6, TypedIsTypeOK DEF Init, PipelineInv, LineageInv

LEMMA PipelineInductive == PipelineInv /\ [Next]_vars => PipelineInv'
<1> SUFFICES ASSUME PipelineInv, [Next]_vars PROVE PipelineInv'
  OBVIOUS
<1>1. ASSUME NEW c \in Clerks, Request(c) \/ Continue(c) PROVE PipelineInv'
  BY <1>1, RequestStep, ContinueStep
<1>2. ASSUME NEW w \in Workers, Work(w) PROVE PipelineInv'
  BY <1>2, StartStep, StartEmbeddingStep, StageStep, PersistCommitStep, MarkSuccessStep, PutDownStep,
     EmbedVersionStep DEF Work
<1>3. ASSUME NEW w \in Workers, Fault(w) PROVE PipelineInv'
  BY <1>3, StageStep, PutDownStep DEF Fault
<1>4. CASE UNCHANGED vars
  <2>1. Typed' /\ LineageInv'
    BY <1>4, TypedIsTypeOK DEF vars, PipelineInv, Typed, Rows, LineageInv, RowInv
  <2> QED
    BY <1>4, <2>1, TasksUnchanged, AssembleRows DEF vars
<1> QED
  BY <1>1, <1>2, <1>3, <1>4 DEF Next

\* What tables, messages and control records hold, and what their identifiers refer to.
THEOREM PipelineTyped == Spec => []TypeOK
<1>1. PipelineInv => TypeOK
  BY DEF PipelineInv
<1> QED
  BY <1>1, PipelineStarts, PipelineInductive, PTL DEF Spec

-----------------------------------------------------------------------------
(* The abstract store of versions.                                          *)

made == [j \in Rows |-> [root |-> jds[j].root, parent |-> jds[j].parent]]
live == {j \in Rows : jds[j].active}

\* The table, as the abstract store sees it.
LEMMA MadeIs ==
    ASSUME Typed
    PROVE  /\ made \in Seq([root : JdId, parent : 0..MaxJds]) /\ Len(made) = Len(jds) /\ Len(jds) \in Nat
           /\ \A j \in Rows : made[j].root = jds[j].root /\ made[j].parent = jds[j].parent
<1>1. Len(jds) \in Nat /\ \A j \in 1..Len(jds) : jds[j] \in JdRow
  BY DEF Typed
<1>2. \A j \in 1..Len(jds) : [root |-> jds[j].root, parent |-> jds[j].parent] \in [root : JdId, parent : 0..MaxJds]
  BY <1>1 DEF JdRow
<1>3. made \in [1..Len(jds) -> [root : JdId, parent : 0..MaxJds]]
  BY <1>2 DEF made, Rows
<1> QED
  BY <1>1, <1>3 DEF made, Rows

\* Inserting a row publishes a version, or supersedes the one it was made from.
LEMMA InsertImplements ==
    ASSUME PipelineInv, Typed, NEW base \in 0..Len(jds), NEW row \in JdRow, jds' = Inserted(base, row),
           row.parent = base, row.root = IF base = 0 THEN Len(jds) + 1 ELSE jds[base].root, row.active,
           base # 0 => IndexAllows(base)
    PROVE  Versions!Next
<1>1. /\ jds' \in Seq(JdRow) /\ Len(jds') = Len(jds) + 1
      /\ jds'[Len(jds) + 1] = row
      /\ \A j \in Rows : /\ jds'[j].root = jds[j].root /\ jds'[j].parent = jds[j].parent
                         /\ j = base => ~jds'[j].active
                         /\ j # base => jds'[j].active = jds[j].active
  BY InsertedRows DEF Typed
<1>2. /\ made \in Seq([root : JdId, parent : 0..MaxJds]) /\ Len(made) = Len(jds) /\ Len(jds) \in Nat
      /\ \A j \in Rows : made[j].root = jds[j].root /\ made[j].parent = jds[j].parent
  BY MadeIs
<1> DEFINE new == Len(jds) + 1
           version == [root |-> row.root, parent |-> base]
<1>3. Rows' = Rows \cup {new} /\ new \notin Rows /\ Rows = 1..Len(jds) /\ Rows' = 1..new
  BY <1>1, <1>2 DEF Rows
<1>4. made' = [j \in Rows' |-> [root |-> jds'[j].root, parent |-> jds'[j].parent]]
  BY DEF made
<1>5. made' = Append(made, version)
  <2>1. Append(made, version) = [j \in 1..new |-> IF j = new THEN version ELSE made[j]]
    BY <1>2
  <2>2. \A j \in 1..new : [root |-> jds'[j].root, parent |-> jds'[j].parent]
                             = IF j = new THEN version ELSE made[j]
    <3> SUFFICES ASSUME NEW j \in 1..new
                 PROVE  [root |-> jds'[j].root, parent |-> jds'[j].parent]
                          = IF j = new THEN version ELSE made[j]
      OBVIOUS
    <3>1. CASE j = new
      BY <1>1, <3>1
    <3>2. CASE j # new
      <4>1. j \in Rows
        BY <1>3, <3>2
      <4> QED
        BY <1>1, <3>2, <4>1 DEF made
    <3> QED
      BY <3>1, <3>2
  <2> QED
    BY <1>3, <1>4, <2>1, <2>2
<1>6. live' = (live \ {base}) \cup {new}
  BY <1>1, <1>3 DEF live
<1>7. CASE base = 0
  <2>1. 0 \notin live
    BY <1>3 DEF live
  <2>2. made' = Append(made, [root |-> Len(made) + 1, parent |-> 0]) /\ live' = live \cup {Len(made) + 1}
    BY <1>2, <1>5, <1>6, <1>7, <2>1
  <2>3. Versions!Publish
    BY <2>2 DEF Versions!Publish, made, live
  <2> QED
    BY <2>3 DEF Versions!Next
<1>8. CASE base # 0
  <2>1. base \in Rows /\ IndexAllows(base) /\ row.root = jds[base].root /\ base \in 1..Len(made)
    BY <1>2, <1>3, <1>8
  <2>2. ASSUME NEW j \in live, j \in {v \in 1..Len(made) : made[v].root = made[base].root} PROVE j = base
    <3>1. j \in Rows /\ jds[j].active /\ jds[j].root = jds[base].root
      BY <1>2, <2>1, <2>2 DEF live
    <3>2. j = base \/ jds[j].parent = 0
      BY <2>1, <3>1 DEF IndexAllows
    <3>3. RowInv(j) /\ RowInv(base)
      BY <2>1, <3>1 DEF PipelineInv, LineageInv
    <3> QED
      BY <3>1, <3>2, <3>3 DEF RowInv
  <2>3. live \cap {v \in 1..Len(made) : made[v].root = made[base].root} \subseteq {base}
    BY <2>2
  <2>4. /\ made' = Append(made, [root |-> made[base].root, parent |-> base])
        /\ live' = (live \ {base}) \cup {Len(made) + 1}
    BY <1>2, <1>5, <1>6, <2>1
  <2>5. Versions!Supersede(base)
    BY <2>3, <2>4 DEF Versions!Supersede, Versions!Lineage, made, live
  <2>6. base \in 1..Len(made)
    BY <2>1
  <2> QED
    BY <2>5, <2>6 DEF Versions!Next, made
<1> QED
  BY <1>7, <1>8

\* One field of one row changes: nothing, or a version is closed.
LEMMA ChangeImplements ==
    ASSUME Typed, NEW j \in Rows, NEW row \in JdRow, jds' = [jds EXCEPT ![j] = row],
           row.root = jds[j].root, row.parent = jds[j].parent, row.active => jds[j].active
    PROVE  Versions!Next \/ UNCHANGED <<made, live>>
<1>1. /\ jds' \in Seq(JdRow) /\ Len(jds') = Len(jds) /\ Len(jds) \in Nat
      /\ \A i \in 1..Len(jds) : jds'[i] = IF i = j THEN row ELSE jds[i]
  BY ExceptSeq DEF Typed, Rows
<1>2. Rows' = Rows
  BY <1>1 DEF Rows
<1>3. \A i \in Rows : /\ jds'[i].root = jds[i].root /\ jds'[i].parent = jds[i].parent
                      /\ i # j => jds'[i].active = jds[i].active
                      /\ i = j => jds'[i].active = row.active
  BY <1>1 DEF Rows
<1>4. UNCHANGED made
  BY <1>2, <1>3 DEF made
<1>5. row.active \in BOOLEAN /\ jds[j].active \in BOOLEAN
  <2>1. row \in JdRow /\ jds[j] \in JdRow
    BY DEF Typed, Rows
  <2> QED
    BY <2>1 DEF JdRow
<1>6. CASE row.active = jds[j].active
  <2>1. UNCHANGED live
    BY <1>2, <1>3, <1>6 DEF live
  <2> QED
    BY <1>4, <2>1
<1>7. CASE row.active # jds[j].active
  <2>1. j \in live /\ live' = live \ {j}
    BY <1>2, <1>3, <1>5, <1>7 DEF live
  <2>2. j \in 1..Len(made)
    BY MadeIs DEF Rows
  <2>3. Versions!Close(j)
    BY <1>4, <2>1 DEF Versions!Close, made, live
  <2> QED
    BY <2>2, <2>3 DEF Versions!Next, made
<1> QED
  BY <1>6, <1>7

\* A metadata-only update publishes, supersedes, or is refused by the index.
LEMMA EditImplements ==
    ASSUME PipelineInv, NEW c \in Clerks, Edit(c) PROVE Versions!Next \/ UNCHANGED <<made, live>>
<1>t. Typed /\ Len(jds) \in Nat
  BY TypedIsTypeOK DEF PipelineInv, Typed
<1> DEFINE j == req[c].id
           row == [jds[j] EXCEPT !.parent = j, !.version = @ + 1, !.active = TRUE,
                                 !.closed = FALSE, !.embedded = FALSE]
<1>1. j \in Rows
  <2>1. ReqInv(c) /\ req[c].pc = "edit"
    BY DEF PipelineInv, Edit
  <2> QED
    BY <2>1 DEF ReqInv
<1>2. CASE IndexAllows(j)
  <2>1. jds' = Inserted(j, row)
    BY <1>2 DEF Edit
  <2>2. row \in JdRow /\ row.parent = j /\ row.root = jds[j].root
    BY <1>1, <1>t, EditedRow
  <2>3. row.active
    <3>1. jds[j] \in JdRow
      BY <1>1, <1>t DEF Typed, Rows
    <3> QED
      BY <3>1 DEF JdRow
  <2>4. j \in 0..Len(jds) /\ j # 0
    BY <1>1, <1>t DEF Rows
  <2> HIDE DEF row, j
  <2> QED
    BY <1>2, <1>t, <2>1, <2>2, <2>3, <2>4, InsertImplements
<1>3. CASE ~IndexAllows(j)
  <2>1. UNCHANGED jds
    BY <1>3 DEF Edit
  <2> QED
    BY <2>1 DEF made, live, Rows
<1> QED
  BY <1>2, <1>3

\* persist_processed_jd publishes, supersedes, or is refused by the index.
LEMMA PersistImplements ==
    ASSUME PipelineInv, NEW w \in Workers, PersistCommit(w) PROVE Versions!Next \/ UNCHANGED <<made, live>>
<1>t. Typed /\ Len(jds) \in Nat
  BY TypedIsTypeOK DEF PipelineInv, Typed
<1>t1. PICK t : t = Task(w)
  OBVIOUS
<1>1. Len(jds) < MaxJds /\ TaskNamed(t) /\ t \in TaskId
  BY <1>t1, InHand DEF PersistCommit, TaskNamed
<1>2. CASE tasks[t].base # 0 /\ ~IndexAllows(tasks[t].base)
  <2>1. UNCHANGED jds
    BY <1>2, <1>t1 DEF PersistCommit
  <2> QED
    BY <2>1 DEF made, live, Rows
<1>3. CASE ~(tasks[t].base # 0 /\ ~IndexAllows(tasks[t].base))
  <2> DEFINE base == tasks[t].base
             row == [root |-> IF base = 0 THEN Len(jds) + 1 ELSE jds[base].root,
                     parent |-> base, content |-> tasks[t].content, version |-> tasks[t].version,
                     active |-> TRUE, closed |-> FALSE, file |-> IF tasks[t].file THEN t ELSE 0,
                     embedded |-> TRUE, skills |-> IF run[w].resumed THEN "bare" ELSE "whole"]
  <2>1. jds' = Inserted(base, row)
    BY <1>3, <1>t1 DEF PersistCommit
  <2>2. /\ base \in 0..Len(jds) /\ row \in JdRow /\ row.parent = base
        /\ row.root = IF base = 0 THEN Len(jds) + 1 ELSE jds[base].root
    BY <1>1, <1>t, PersistedRow
  <2>3. row.active /\ (base # 0 => IndexAllows(base))
    BY <1>3
  <2> HIDE DEF row, base
  <2> QED
    BY <1>t, <2>1, <2>2, <2>3, InsertImplements
<1> QED
  BY <1>2, <1>3

LEMMA CloseImplements ==
    ASSUME PipelineInv, NEW c \in Clerks, Close(c) PROVE Versions!Next \/ UNCHANGED <<made, live>>
<1>t. Typed /\ Len(jds) \in Nat
  BY TypedIsTypeOK DEF PipelineInv, Typed
<1>j. PICK j : j = req[c].id
  OBVIOUS
<1>1. j \in Rows /\ jds' = [jds EXCEPT ![j].active = FALSE, ![j].closed = TRUE]
  <2>1. ReqInv(c) /\ req[c].pc = "close"
    BY DEF PipelineInv, Close
  <2> QED
    BY <1>j, <2>1 DEF ReqInv, Close
<1> DEFINE row == [jds[j] EXCEPT !.active = FALSE, !.closed = TRUE]
<1>2. jds[j] \in JdRow
  BY <1>1, <1>t DEF Typed, Rows
<1>3. row \in JdRow /\ row.root = jds[j].root /\ row.parent = jds[j].parent /\ ~row.active
  BY <1>2 DEF JdRow
<1>4. jds' = [jds EXCEPT ![j] = row]
  BY <1>1, <1>2, <1>t DEF JdRow, Typed, Rows
<1> HIDE DEF row
<1> QED
  BY <1>1, <1>3, <1>4, <1>t, ChangeImplements

LEMMA EmbedImplements ==
    ASSUME PipelineInv, NEW w \in Workers, EmbedVersion(w) PROVE Versions!Next \/ UNCHANGED <<made, live>>
<1>t. Typed /\ Len(jds) \in Nat /\ RunInv(w)
  BY TypedIsTypeOK DEF PipelineInv, Typed
<1>j. PICK j : j = run[w].job.id
  OBVIOUS
<1>1. j \in Rows /\ jds' = [jds EXCEPT ![j].embedded = TRUE]
  BY <1>j, <1>t DEF EmbedVersion, RunInv, JobInv
<1> DEFINE row == [jds[j] EXCEPT !.embedded = TRUE]
<1>2. jds[j] \in JdRow
  BY <1>1, <1>t DEF Typed, Rows
<1>3. row \in JdRow /\ row.root = jds[j].root /\ row.parent = jds[j].parent /\ row.active = jds[j].active
  BY <1>2 DEF JdRow
<1>4. jds' = [jds EXCEPT ![j] = row]
  BY <1>1
<1> HIDE DEF row
<1> QED
  BY <1>1, <1>3, <1>4, <1>t, ChangeImplements

\* Every step maps to a step of the abstract store or to a stutter.
LEMMA StepImplements ==
    ASSUME PipelineInv, [Next]_vars PROVE Versions!Next \/ UNCHANGED <<made, live>>
<1>u. ASSUME UNCHANGED jds PROVE UNCHANGED <<made, live>>
  BY <1>u DEF made, live, Rows
<1>1. ASSUME NEW c \in Clerks, Request(c) PROVE UNCHANGED jds
  BY <1>1 DEF Request, CreateFromText, CreateFromFile, Rewrite, Replace, Accept, Load, LoadReplayable
<1>2. ASSUME NEW c \in Clerks, Continue(c) PROVE Edit(c) \/ Close(c) \/ UNCHANGED jds
  BY <1>2 DEF Continue, Send, Attach, Purge, ResetTaskLog
<1>3. ASSUME NEW w \in Workers, Work(w) PROVE PersistCommit(w) \/ EmbedVersion(w) \/ UNCHANGED jds
  <2>1. ASSUME NEW m \in queue, Start(w, m) \/ StartEmbedding(w, m) PROVE UNCHANGED jds
    BY <2>1 DEF Start, StartEmbedding
  <2> QED
    BY <1>3, <2>1 DEF Work, RunStage, PersistCheck, Finish, MarkSuccess, RejectDuplicate, Retry, DeadLetter,
       MarkFailure
<1>4. ASSUME NEW w \in Workers, Fault(w) PROVE UNCHANGED jds
  BY <1>4 DEF Fault, StageFails, EmbeddingFails, Crash
<1>5. CASE UNCHANGED vars
  BY <1>5, <1>u DEF vars
<1> QED
  BY <1>u, <1>1, <1>2, <1>3, <1>4, <1>5, EditImplements, CloseImplements, PersistImplements, EmbedImplements
     DEF Next

\* Whatever order routes, reprocessing runs, redeliveries, crashes and replays take,
\* no lineage has two live versions and a new version replaces only its own parent:
\* the pipeline's table implements the abstract store of versions.
THEOREM PipelineImplementsVersions == Spec => OneLiveVersion
<1>1. Init => Versions!Init
  <2>1. ASSUME Init PROVE Rows = {} /\ jds = <<>>
    BY <2>1 DEF Init, Rows
  <2>2. ASSUME Init PROVE made = <<>> /\ live = {}
    BY <2>1, <2>2 DEF made, live
  <2> QED
    BY <2>2 DEF Versions!Init, made, live
<1>2. PipelineInv /\ [Next]_vars => [Versions!Next]_<<made, live>>
  BY StepImplements
<1> QED
  BY <1>1, <1>2, PipelineStarts, PipelineInductive, PTL DEF Spec, OneLiveVersion, Versions!Spec, made, live

\* What the abstract store promises, said of the table: of all rows of a lineage
\* (the rows with one root) at most one is active, so a campaign can be created on
\* one version only.
OneLive == \A i, j \in Rows : jds[i].active /\ jds[j].active /\ jds[i].root = jds[j].root => i = j

LEMMA OneLiveKept == ASSUME PipelineInv, OneLive, [Next]_vars PROVE OneLive'
<1>t. Typed /\ Typed' /\ PipelineInv' /\ Len(jds) \in Nat /\ Len(jds') \in Nat
  BY PipelineInductive, TypedIsTypeOK DEF PipelineInv, Typed
<1>m. /\ made \in Seq([root : JdId, parent : 0..MaxJds]) /\ Len(made) = Len(jds)
      /\ \A j \in Rows : made[j].root = jds[j].root
  BY <1>t, MadeIs
<1>n. Len(made') = Len(jds') /\ \A j \in Rows' : made'[j].root = jds'[j].root
  <2>1. made' = [j \in Rows' |-> [root |-> jds'[j].root, parent |-> jds'[j].parent]]
    BY DEF made
  <2>2. Rows' = 1..Len(jds')
    BY DEF Rows
  <2> QED
    BY <1>t, <2>1, <2>2
<1>a. (\A j : j \in live <=> j \in Rows /\ jds[j].active) /\ (\A j : j \in live' <=> j \in Rows' /\ jds'[j].active)
  BY DEF live
<1>r. Rows = 1..Len(made) /\ Rows' = 1..Len(made')
  BY <1>m, <1>n DEF Rows
<1>o. \A u, v \in live : made[u].root = made[v].root => u = v
  BY <1>a, <1>m DEF OneLive
<1> SUFFICES \A u, v \in live' : made'[u].root = made'[v].root => u = v
  <2> SUFFICES ASSUME NEW i \in Rows', NEW j \in Rows',
                      jds'[i].active, jds'[j].active, jds'[i].root = jds'[j].root
               PROVE  i = j
    BY DEF OneLive
  <2>1. i \in live' /\ j \in live'
    BY <1>a
  <2> QED
    BY <1>n, <2>1
<1>s. \A version : /\ Len(Append(made, version)) = Len(made) + 1
                   /\ Append(made, version)[Len(made) + 1] = version
                   /\ \A j \in 1..Len(made) : Append(made, version)[j] = made[j]
  BY <1>m
<1>l. live \subseteq 1..Len(made) /\ Len(made) \in Nat
  BY <1>a, <1>m, <1>r, <1>t
<1>1. CASE Versions!Publish
  <2>n. PICK n : n = Len(made) + 1
    OBVIOUS
  <2>1. made' = Append(made, [root |-> n, parent |-> 0]) /\ live' = live \cup {n}
    BY <1>1, <2>n DEF Versions!Publish, made, live
  <2>2. \A j \in live : made[j].root \in 1..Len(made)
    BY <1>a, <1>m, <1>r DEF PipelineInv, LineageInv, RowInv
  <2>3. made'[n].root = n /\ (\A j \in live : made'[j] = made[j]) /\ n \notin 1..Len(made)
    BY <1>l, <1>s, <2>1, <2>n
  <2> SUFFICES ASSUME NEW u \in live', NEW v \in live', made'[u].root = made'[v].root PROVE u = v
    OBVIOUS
  <2>4. (u \in live \/ u = n) /\ (v \in live \/ v = n)
    BY <2>1
  <2> QED
    BY <1>o, <2>2, <2>3, <2>4
<1>2. ASSUME NEW p \in 1..Len(made), Versions!Supersede(p)
      PROVE  \A u, v \in live' : made'[u].root = made'[v].root => u = v
  <2>n. PICK n : n = Len(made) + 1
    OBVIOUS
  <2>1. /\ made' = Append(made, [root |-> made[p].root, parent |-> p])
        /\ live' = (live \ {p}) \cup {n}
        /\ live \cap {v \in 1..Len(made) : made[v].root = made[p].root} \subseteq {p}
    BY <1>2, <2>n DEF Versions!Supersede, Versions!Lineage, made, live
  <2>2. /\ made'[n].root = made[p].root /\ (\A j \in live : made'[j] = made[j])
    BY <1>l, <1>s, <2>1, <2>n
  <2>3. \A j \in live \ {p} : made[j].root # made[p].root
    BY <1>l, <2>1
  <2> SUFFICES ASSUME NEW u \in live', NEW v \in live', made'[u].root = made'[v].root PROVE u = v
    OBVIOUS
  <2>4. (u \in live \ {p} \/ u = n) /\ (v \in live \ {p} \/ v = n)
    BY <2>1
  <2> QED
    BY <1>o, <2>2, <2>3, <2>4
<1>3. ASSUME NEW v \in 1..Len(made), Versions!Close(v)
      PROVE  \A u, w \in live' : made'[u].root = made'[w].root => u = w
  <2>1. live' = live \ {v} /\ UNCHANGED made
    BY <1>3 DEF Versions!Close, made, live
  <2> QED
    BY <1>o, <2>1
<1>4. CASE UNCHANGED <<made, live>>
  BY <1>4, <1>o
<1>5. Versions!Next \/ UNCHANGED <<made, live>>
  BY StepImplements
<1>6. CASE Versions!Next
  BY <1>1, <1>2, <1>3, <1>6 DEF Versions!Next, made
<1> QED
  BY <1>4, <1>5, <1>6

\* A lineage has at most one live version, for any number of submissions processed at once
\* (the partial unique index of jd_versions and the handlers that rely on it).
THEOREM LineagesHaveOneLiveVersion == Spec => []OneLive
<1>1. Init => OneLive
  <2>1. ASSUME Init PROVE Rows = {}
    BY <2>1 DEF Init, Rows
  <2> QED
    BY <2>1 DEF OneLive
<1> QED
  BY <1>1, OneLiveKept, PipelineStarts, PipelineInductive, PTL DEF Spec

-----------------------------------------------------------------------------
(* The intake of resumes.                                                   *)

IntakeStep == Waiting \cup {"linked", "picked", "reparse", "erasing", "flagged", "answered", "ended"}

ResumeRow == [of : Persons, file : Files, version : Nat, active : BOOLEAN, parsed : BOOLEAN,
              outdated : BOOLEAN, task : Ids \cup {None}]

Application == [campaign : Campaigns, person : Persons \cup {None}, resume : Ids]

IntakeSession == [at : IntakeStep, person : Persons \cup {None}, id : Ids \cup {None},
                  seen : SUBSET Ids, apps : SUBSET Application, max : Nat]

IntakeTyped ==
    /\ resumes \in [Ids -> ResumeRow \cup {NoResume}]
    /\ IsFiniteSet({i \in Ids : resumes[i].of # None})
    /\ members \subseteq Application
    /\ ask \in [Requests -> Question]
    /\ sess \in [Requests -> IntakeSession]

\* A request that has not stored its resume.
Early == {"idle", "match", "candidate", "versions", "store"}

\* An upload knows its candidate; the resumes it saw were his and cannot become another's.
UploadInv(q) ==
    /\ sess[q].at \in Early => resumes[q] = NoResume
    /\ sess[q].at \in {"versions", "store"} => sess[q].person \in Persons
    /\ sess[q].at = "store" => \A i \in sess[q].seen :
          /\ resumes[i].of \in {sess[q].person, None}
          /\ i \in Requests => sess[i].at \notin Early

\* Unless another upload of the candidate overlaps, what was read is what there is, or more.
FreshInv(q) ==
    sess[q].at = "store" /\ sess[q].person \notin raced =>
        /\ Active(sess[q].person) \subseteq sess[q].seen
        /\ \A i \in OfPerson(sess[q].person) : resumes[i].version <= sess[q].max

IntakeInv == IntakeTyped /\ (\A q \in Requests : UploadInv(q) /\ FreshInv(q)) /\ VersionsExact

-----------------------------------------------------------------------------

\* What is known of a resume that has a candidate.
LEMMA OwnedResume ==
    ASSUME IntakeTyped, NEW i \in Ids, resumes[i].of # None
    PROVE  resumes[i] \in ResumeRow
BY DEF IntakeTyped, NoResume

\* A strict order on a finite set has a maximal element.
LEMMA HasMaximal ==
    ASSUME NEW S, IsFiniteSet(S), S # {}, NEW R,
           \A x \in S : <<x, x>> \notin R,
           \A x, y, z \in S : <<x, y>> \in R /\ <<y, z>> \in R => <<x, z>> \in R
    PROVE  \E t \in S : \A u \in S : <<t, u>> \notin R
<1> DEFINE Above(t) == {u \in S : <<t, u>> \in R}
           T == {Above(t) : t \in S}
<1>1. IsWellFoundedOn(StrictSubsetOrdering(S), SUBSET S)
  BY FS_StrictSubsetOrderingWellFounded, FS_FiniteSubsetsOfFinite
<1>2. T \subseteq SUBSET S /\ T # {}
  <2>1. T \subseteq SUBSET S
    OBVIOUS
  <2>2. \A x \in S : Above(x) \in T
    OBVIOUS
  <2> HIDE DEF T
  <2> QED
    BY <2>1, <2>2
<1>3. PICK X \in T : \A Y \in T : ~(<<Y, X>> \in StrictSubsetOrdering(S))
  <2> HIDE DEF T
  <2> QED
    BY <1>1, <1>2, WFMin
<1>4. PICK t \in S : X = Above(t)
  BY <1>3
<1>5. ASSUME NEW u \in S, <<t, u>> \in R PROVE FALSE
  <2>1. Above(u) \subseteq Above(t) /\ u \in Above(t) /\ u \notin Above(u)
    BY <1>5
  <2>2. Above(u) \in T /\ Above(u) \in SUBSET S /\ Above(t) \in SUBSET S
    OBVIOUS
  <2>3. <<Above(u), Above(t)>> \in StrictSubsetOrdering(S)
    <3> HIDE DEF Above
    <3> QED
      BY <2>1, <2>2 DEF StrictSubsetOrdering
  <2> QED
    BY <1>3, <1>4, <2>2, <2>3
<1> QED
  BY <1>5

LEMMA HasGreatest ==
    ASSUME NEW S \in SUBSET Nat, IsFiniteSet(S), S # {}
    PROVE  \E v \in S : \A w \in S : w <= v
<1> DEFINE R == {ss \in Nat \X Nat : ss[1] < ss[2]}
<1>1. \A x, y \in S : <<x, y>> \in R <=> x < y
  OBVIOUS
<1>2. \A x \in S : x \in Nat
  OBVIOUS
<1> HIDE DEF R
<1>3. /\ \A x \in S : <<x, x>> \notin R
      /\ \A x, y, z \in S : <<x, y>> \in R /\ <<y, z>> \in R => <<x, z>> \in R
  BY <1>1, <1>2
<1>4. PICK v \in S : \A w \in S : <<v, w>> \notin R
  BY <1>3, HasMaximal
<1>5. ASSUME NEW w \in S PROVE w <= v
  <2>1. ~(v < w) /\ v \in Nat /\ w \in Nat
    BY <1>1, <1>2, <1>4
  <2> QED
    BY <2>1
<1> QED
  BY <1>5

\* The latest version of a candidate who has resumes.
LEMMA LatestIsGreatest ==
    ASSUME IntakeTyped, NEW p \in Persons, OfPerson(p) # {}
    PROVE  /\ LatestVersion(p) \in Nat
           /\ \A i \in OfPerson(p) : resumes[i].version <= LatestVersion(p)
<1> DEFINE versions == {resumes[i].version : i \in OfPerson(p)}
<1>1. \A i \in OfPerson(p) : i \in Ids /\ resumes[i].of # None /\ resumes[i].version \in Nat
  <2>1. ASSUME NEW i \in OfPerson(p) PROVE i \in Ids /\ resumes[i].of # None
    BY IntakeAssumption DEF OfPerson
  <2> QED
    BY <2>1, OwnedResume DEF ResumeRow
<1>2. IsFiniteSet(OfPerson(p))
  <2>1. OfPerson(p) \subseteq {i \in Ids : resumes[i].of # None}
    BY <1>1
  <2> QED
    BY <2>1, FS_Subset DEF IntakeTyped
<1>3. IsFiniteSet(versions)
  <2>1. [i \in OfPerson(p) |-> resumes[i].version] \in [OfPerson(p) -> versions]
    OBVIOUS
  <2>2. [i \in OfPerson(p) |-> resumes[i].version] \in Surjection(OfPerson(p), versions)
    BY <2>1 DEF Surjection
  <2> HIDE DEF versions
  <2> QED
    BY <1>2, <2>2, FS_Surjection
<1>4. versions \in SUBSET Nat /\ versions # {}
  BY <1>1
<1>5. \E v \in versions : \A w \in versions : w <= v
  <2> HIDE DEF versions
  <2> QED
    BY <1>3, <1>4, HasGreatest
<1>6. LatestVersion(p) = CHOOSE v \in versions : \A w \in versions : w <= v
  BY DEF LatestVersion
<1>7. LatestVersion(p) \in versions /\ \A w \in versions : w <= LatestVersion(p)
  <2> HIDE DEF versions
  <2> QED
    BY <1>5, <1>6
<1> QED
  BY <1>4, <1>7

-----------------------------------------------------------------------------
(* The steps.                                                               *)

\* A resume has the same candidate and version as before; a session q may become n.
SameResume(i) == /\ resumes'[i].of = resumes[i].of /\ resumes'[i].version = resumes[i].version
                 /\ resumes'[i].active = resumes[i].active

Allowed(q, n) ==
    /\ n \in IntakeSession /\ n.at # "store"
    /\ n.at \in Early => sess[q].at \in Early
    /\ n.at = "versions" => n.person \in Persons

\* No resume is made, and each candidate keeps his or loses all of them.
RowsKept ==
    /\ resumes' \in [Ids -> ResumeRow \cup {NoResume}]
    /\ IsFiniteSet({i \in Ids : resumes'[i].of # None})
    /\ \A i \in Ids : resumes'[i] = NoResume \/ SameResume(i)
    /\ \A p \in Persons : OfPerson(p)' = {} \/ \A i \in OfPerson(p) : SameResume(i)

\* A step that makes no version: it may erase all those of a person, and brings
\* no request to where it was not but to the reading of its candidate's versions.
MakesNone ==
    /\ IntakeTyped' /\ RowsKept /\ raced' = raced
    /\ \A q \in Requests : /\ sess'[q].at \in Early => sess[q].at \in Early
                           /\ sess'[q].at = "versions" => sess'[q].person \in Persons
                           /\ sess'[q].at = "store" => sess'[q] = sess[q]

LEMMA MakesNoneKeeps == ASSUME IntakeInv, MakesNone PROVE IntakeInv'
<1>1. ASSUME NEW i \in Ids PROVE resumes'[i].of \in {resumes[i].of, None}
  BY <1>1 DEF MakesNone, RowsKept, SameResume, NoResume
<1>2. ASSUME NEW i \in Ids, resumes[i].of = None PROVE resumes'[i] = NoResume
  <2>1. resumes'[i].of = None
    BY <1>1, <1>2
  <2>2. resumes'[i] \in ResumeRow \cup {NoResume}
    BY DEF MakesNone, RowsKept
  <2>3. \A r \in ResumeRow : r.of \in Persons
    BY DEF ResumeRow
  <2> QED
    BY <2>1, <2>2, <2>3, IntakeAssumption
<1>3. ASSUME NEW p \in Persons, NEW i \in OfPerson(p)'
      PROVE  i \in OfPerson(p) /\ SameResume(i) /\ OfPerson(p)' = OfPerson(p)
  <2>1. i \in Ids /\ resumes'[i].of = p /\ p # None
    BY <1>3, IntakeAssumption DEF OfPerson
  <2>2. resumes[i].of = p
    BY <1>1, <2>1
  <2>3. \A j \in OfPerson(p) : SameResume(j)
    BY <1>3 DEF MakesNone, RowsKept
  <2>4. \A j \in OfPerson(p)' : j \in OfPerson(p)
    <3>1. ASSUME NEW j \in OfPerson(p)' PROVE j \in OfPerson(p)
      <4>1. j \in Ids /\ resumes'[j].of = p
        BY <3>1 DEF OfPerson
      <4> QED
        BY <1>1, <2>1, <4>1 DEF OfPerson
    <3> QED
      BY <3>1
  <2>5. \A j \in OfPerson(p) : j \in OfPerson(p)'
    BY <2>3 DEF OfPerson, SameResume
  <2> QED
    BY <2>1, <2>2, <2>3, <2>4, <2>5 DEF OfPerson
<1>4. ASSUME NEW p \in Persons
      PROVE  \/ OfPerson(p)' = {} /\ Active(p)' = {}
             \/ /\ OfPerson(p)' = OfPerson(p) /\ Active(p)' = Active(p)
                /\ \A i \in OfPerson(p) : resumes'[i].version = resumes[i].version
  <2>1. CASE OfPerson(p)' = {}
    BY <2>1 DEF Active
  <2>2. CASE OfPerson(p)' # {}
    <3>1. OfPerson(p)' = OfPerson(p) /\ \A i \in OfPerson(p) : SameResume(i)
      BY <1>3, <2>2
    <3> QED
      BY <3>1 DEF Active, SameResume
  <2> QED
    BY <2>1, <2>2
<1>5. ASSUME NEW q \in Requests PROVE UploadInv(q)'
  <2>1. ASSUME sess'[q].at \in Early PROVE resumes'[q] = NoResume
    <3>1. resumes[q] = NoResume
      BY <2>1 DEF MakesNone, IntakeInv, UploadInv
    <3> QED
      <4>1. q \in Ids /\ resumes[q].of = None
        BY <3>1 DEF NoResume, Ids
      <4> QED
        BY <1>2, <4>1
  <2>2. ASSUME sess'[q].at = "store"
        PROVE  /\ sess'[q] = sess[q] /\ sess'[q].person \in Persons
               /\ \A i \in sess'[q].seen : /\ resumes'[i].of \in {sess'[q].person, None}
                                           /\ i \in Requests => sess'[i].at \notin Early
    <3>1. sess'[q] = sess[q]
      BY <2>2 DEF MakesNone
    <3>2. /\ sess[q].person \in Persons
          /\ \A i \in sess[q].seen : /\ resumes[i].of \in {sess[q].person, None}
                                     /\ i \in Requests => sess[i].at \notin Early
      BY <2>2, <3>1 DEF IntakeInv, UploadInv
    <3>3. ASSUME NEW i \in sess[q].seen
          PROVE  /\ resumes'[i].of \in {sess[q].person, None}
                 /\ i \in Requests => sess'[i].at \notin Early
      <4>1. i \in Ids
        BY <3>3 DEF IntakeInv, IntakeTyped, IntakeSession
      <4>2. i \in Requests /\ sess'[i].at \in Early => sess[i].at \in Early
        BY DEF MakesNone
      <4> QED
        BY <1>1, <3>2, <4>1, <4>2
    <3> QED
      BY <3>1, <3>2, <3>3
  <2> QED
    BY <2>1, <2>2 DEF UploadInv, MakesNone
<1>6. ASSUME NEW q \in Requests PROVE FreshInv(q)'
  <2> SUFFICES ASSUME sess'[q].at = "store", sess'[q].person \notin raced'
               PROVE  /\ (Active(sess[q].person) \subseteq sess[q].seen)'
                      /\ (\A i \in OfPerson(sess[q].person) : resumes[i].version <= sess[q].max)'
    BY DEF FreshInv
  <2>1. sess'[q] = sess[q] /\ raced' = raced
    BY DEF MakesNone
  <2>2. PICK p : p = sess[q].person
    OBVIOUS
  <2>3. /\ p \in Persons /\ Active(p) \subseteq sess[q].seen
        /\ \A i \in OfPerson(p) : resumes[i].version <= sess[q].max
    BY <2>1, <2>2 DEF IntakeInv, UploadInv, FreshInv
  <2>4. /\ Active(p)' \subseteq sess[q].seen
        /\ \A i \in OfPerson(p)' : resumes'[i].version <= sess[q].max
    BY <1>4, <2>3
  <2> QED
    BY <2>1, <2>2, <2>4 DEF Active, OfPerson
<1>7. VersionsExact'
  <2> SUFFICES ASSUME NEW p \in Persons \ raced, OfPerson(p)' # {}
               PROVE  \E i \in OfPerson(p)' :
                        /\ Active(p)' = {i}
                        /\ \A j \in OfPerson(p)' \ {i} : resumes'[j].version < resumes'[i].version
    BY DEF VersionsExact, MakesNone, Active, OfPerson
  <2>1. /\ OfPerson(p)' = OfPerson(p) /\ Active(p)' = Active(p)
        /\ \A i \in OfPerson(p) : resumes'[i].version = resumes[i].version
    BY <1>4
  <2>2. PICK i \in OfPerson(p) : /\ Active(p) = {i}
                                 /\ \A j \in OfPerson(p) \ {i} : resumes[j].version < resumes[i].version
    BY <2>1 DEF IntakeInv, VersionsExact
  <2> QED
    BY <2>1, <2>2
<1> QED
  BY <1>5, <1>6, <1>7 DEF IntakeInv, MakesNone

LEMMA RowsUnchanged == ASSUME IntakeTyped, resumes' = resumes PROVE RowsKept
BY DEF RowsKept, IntakeTyped, SameResume

\* A resume that has a candidate keeps him and its version, whatever else it gets.
LEMMA RowUpdated ==
    ASSUME IntakeTyped, NEW i \in Ids, resumes[i].of # None, NEW r \in ResumeRow,
           resumes' = [resumes EXCEPT ![i] = r],
           r.of = resumes[i].of, r.version = resumes[i].version, r.active = resumes[i].active
    PROVE  RowsKept
<1>1. resumes' \in [Ids -> ResumeRow \cup {NoResume}]
  BY DEF IntakeTyped
<1>2. \A j \in Ids : SameResume(j)
  BY DEF IntakeTyped, SameResume
<1>3. {j \in Ids : resumes'[j].of # None} = {j \in Ids : resumes[j].of # None}
  BY <1>2 DEF SameResume
<1>4. \A p : OfPerson(p) \subseteq Ids
  BY DEF OfPerson
<1> QED
  BY <1>1, <1>2, <1>3, <1>4 DEF RowsKept, IntakeTyped

LEMMA RequestMovesOn ==
    ASSUME IntakeInv, NEW q \in Requests, NEW n, Allowed(q, n), To(q, n),
           RowsKept, members' \subseteq Application, ask' = ask, raced' = raced
    PROVE  IntakeInv'
<1>1. sess' = [sess EXCEPT ![q] = n] /\ sess' \in [Requests -> IntakeSession]
  BY DEF Allowed, To, IntakeInv, IntakeTyped
<1>2. IntakeTyped'
  BY <1>1 DEF IntakeInv, IntakeTyped, RowsKept
<1>3. \A u \in Requests : sess'[u] = IF u = q THEN n ELSE sess[u]
  BY <1>1 DEF IntakeInv, IntakeTyped
<1>4. \A u \in Requests : sess[u].at = "versions" => sess[u].person \in Persons
  BY DEF IntakeInv, UploadInv
<1>5. MakesNone
  BY <1>2, <1>3, <1>4 DEF MakesNone, Allowed
<1> QED
  BY <1>5, MakesNoneKeeps

LEMMA RequestsStay ==
    ASSUME IntakeInv, sess' = sess, RowsKept, UNCHANGED <<members, ask, raced>>
    PROVE  IntakeInv'
<1>1. IntakeTyped'
  BY DEF IntakeInv, IntakeTyped, RowsKept
<1>2. \A u \in Requests : sess[u].at = "versions" => sess[u].person \in Persons
  BY DEF IntakeInv, UploadInv
<1>3. MakesNone
  BY <1>1, <1>2 DEF MakesNone
<1> QED
  BY <1>3, MakesNoneKeeps

LEMMA EndIsAllowed == ASSUME NEW q \in Requests PROVE Allowed(q, [Resting EXCEPT !.at = "ended"])
BY DEF Allowed, Resting, IntakeSession, IntakeStep, Waiting, Early

LEMMA RequestEnds ==
    ASSUME IntakeInv, NEW q \in Requests, End(q), RowsKept, members' \subseteq Application,
           ask' = ask, raced' = raced
    PROVE  IntakeInv'
BY EndIsAllowed, RequestMovesOn DEF End

\* The same, when no row changes.
LEMMA OnlySession ==
    ASSUME IntakeInv, NEW q \in Requests, NEW n, Allowed(q, n), To(q, n),
           UNCHANGED <<resumes, members, ask, raced>>
    PROVE  IntakeInv'
BY RowsUnchanged, RequestMovesOn DEF IntakeInv, IntakeTyped

LEMMA OnlyEnds ==
    ASSUME IntakeInv, NEW q \in Requests, End(q), UNCHANGED <<resumes, members, ask, raced>>
    PROVE  IntakeInv'
BY EndIsAllowed, OnlySession DEF End

LEMMA PrecheckKeeps == ASSUME IntakeInv, NEW q \in Requests, Precheck(q) PROVE IntakeInv'
<1>1. UNCHANGED <<resumes, members, ask, raced>>
  BY DEF Precheck, Tables, Rest
<1>2. CASE End(q)
  BY <1>1, <1>2, OnlyEnds
<1>3. CASE To(q, [Resting EXCEPT !.at = "match"])
  <2>1. PICK n : n = [Resting EXCEPT !.at = "match"]
    OBVIOUS
  <2>2. Allowed(q, n)
    BY <2>1 DEF Precheck, Allowed, Resting, IntakeSession, IntakeStep, Waiting, Early
  <2> QED
    BY <1>1, <1>3, <2>1, <2>2, OnlySession
<1> QED
  BY <1>2, <1>3 DEF Precheck

LEMMA MatchFileKeeps == ASSUME IntakeInv, NEW q \in Requests, MatchFile(q) PROVE IntakeInv'
<1> DEFINE Same == {i \in Ids : resumes[i].file = ask[q].file}
<1>1. UNCHANGED <<resumes, members, ask, raced>> /\ sess[q].at = "match"
  BY DEF MatchFile, Tables, Rest
<1>2. CASE End(q)
  BY <1>1, <1>2, OnlyEnds
<1>3. CASE To(q, [Resting EXCEPT !.at = "candidate"])
  <2>1. PICK n : n = [Resting EXCEPT !.at = "candidate"]
    OBVIOUS
  <2>2. Allowed(q, n)
    BY <1>1, <2>1 DEF Allowed, Resting, IntakeSession, IntakeStep, Waiting, Early
  <2> QED
    BY <1>1, <1>3, <2>1, <2>2, OnlySession
<1>4. ASSUME NEW i \in Same PROVE resumes[i].of \in Persons
  <2>1. ask[q].file \in Files
    BY DEF IntakeInv, IntakeTyped, Question
  <2>2. resumes[i] # NoResume
    BY <2>1, IntakeAssumption DEF NoResume
  <2> QED
    BY <2>2 DEF IntakeInv, IntakeTyped, ResumeRow
<1>5. ASSUME NEW i \in Same, To(q, [Resting EXCEPT !.at = "lock", !.person = resumes[i].of, !.id = i])
      PROVE  IntakeInv'
  <2>1. PICK n : n = [Resting EXCEPT !.at = "lock", !.person = resumes[i].of, !.id = i]
    OBVIOUS
  <2>2. Allowed(q, n)
    BY <1>4, <2>1 DEF Allowed, Resting, IntakeSession, IntakeStep, Waiting, Early
  <2> QED
    BY <1>1, <1>5, <2>1, <2>2, OnlySession
<1>6. ASSUME NEW i \in Same, To(q, [Resting EXCEPT !.at = "versions", !.person = resumes[i].of])
      PROVE  IntakeInv'
  <2>1. PICK n : n = [Resting EXCEPT !.at = "versions", !.person = resumes[i].of]
    OBVIOUS
  <2>2. Allowed(q, n)
    BY <1>1, <1>4, <2>1 DEF Allowed, Resting, IntakeSession, IntakeStep, Waiting, Early
  <2> QED
    BY <1>1, <1>6, <2>1, <2>2, OnlySession
<1> QED
  BY <1>2, <1>3, <1>5, <1>6 DEF MatchFile

LEMMA ResolveKeeps == ASSUME IntakeInv, NEW q \in Requests, Resolve(q) PROVE IntakeInv'
<1>1. UNCHANGED <<resumes, members, ask, raced>> /\ sess[q].at = "candidate"
  BY DEF Resolve, Rest
<1>2. CASE End(q)
  BY <1>1, <1>2, OnlyEnds
<1>3. CASE To(q, [sess[q] EXCEPT !.at = "versions", !.person = ask[q].person])
  <2>1. PICK n : n = [sess[q] EXCEPT !.at = "versions", !.person = ask[q].person]
    OBVIOUS
  <2>2. sess[q] \in IntakeSession /\ ask[q].person \in Persons
    BY DEF IntakeInv, IntakeTyped, Question
  <2>3. Allowed(q, n)
    BY <1>1, <2>1, <2>2 DEF Allowed, IntakeSession, IntakeStep, Waiting, Early
  <2> QED
    BY <1>1, <1>3, <2>1, <2>3, OnlySession
<1> QED
  BY <1>2, <1>3 DEF Resolve

\* A request may move anywhere past the storing of its version.
LEMMA MovesToLater ==
    ASSUME IntakeInv, NEW q \in Requests, NEW at \in IntakeStep \ Early,
           To(q, [sess[q] EXCEPT !.at = at]), RowsKept, members' \subseteq Application,
           ask' = ask, raced' = raced
    PROVE  IntakeInv'
<1>1. PICK n : n = [sess[q] EXCEPT !.at = at]
  OBVIOUS
<1>2. sess[q] \in IntakeSession
  BY DEF IntakeInv, IntakeTyped
<1>3. n \in IntakeSession /\ n.at = at
  BY <1>1, <1>2 DEF IntakeSession
<1>4. Allowed(q, n)
  BY <1>3 DEF Allowed, Early
<1> QED
  BY <1>1, <1>4, RequestMovesOn

LEMMA LaterSteps ==
    {"linked", "lock", "record", "log", "publish", "answered", "reparse", "picked", "erasing", "flagged"}
        \subseteq IntakeStep \ Early
BY DEF IntakeStep, Waiting, Early

LEMMA LinkKeeps == ASSUME IntakeInv, NEW q \in Requests, Link(q) PROVE IntakeInv'
<1>1. UNCHANGED <<resumes, members, ask, raced>>
  BY DEF Link, Tables, Rest
<1>2. CASE End(q)
  BY <1>1, <1>2, OnlyEnds
<1>3. CASE To(q, [sess[q] EXCEPT !.at = "linked"])
  BY <1>1, <1>3, RowsUnchanged, MovesToLater, LaterSteps DEF IntakeInv, IntakeTyped
<1> QED
  BY <1>2, <1>3 DEF Link

LEMMA MemberTyped ==
    ASSUME IntakeTyped, NEW c \in Campaigns, NEW i \in Ids PROVE Member(c, i) \in Application
<1>1. resumes[i].of \in Persons \cup {None}
  BY DEF IntakeTyped, ResumeRow, NoResume
<1> QED
  BY <1>1 DEF Member, Application

LEMMA CommitLinkKeeps == ASSUME IntakeInv, NEW q \in Requests, CommitLink(q) PROVE IntakeInv'
<1>1. UNCHANGED <<resumes, ask, raced>>
  BY DEF CommitLink
<1>2. RowsKept /\ members \subseteq Application /\ ask[q].campaign \in Campaigns /\ q \in Ids
  BY <1>1, RowsUnchanged DEF IntakeInv, IntakeTyped, Question, Ids
<1>3. members' \subseteq Application
  BY <1>2, MemberTyped DEF CommitLink, Apply, IntakeInv
<1>4. CASE To(q, [sess[q] EXCEPT !.at = "record"])
  BY <1>1, <1>2, <1>3, <1>4, MovesToLater, LaterSteps
<1>5. CASE To(q, [sess[q] EXCEPT !.at = "answered"])
  BY <1>1, <1>2, <1>3, <1>5, MovesToLater, LaterSteps
<1> QED
  BY <1>4, <1>5 DEF CommitLink

LEMMA RecordTaskKeeps == ASSUME IntakeInv, NEW q \in Requests, RecordTask(q) PROVE IntakeInv'
<1>1. UNCHANGED <<members, ask, raced>> /\ members \subseteq Application
  BY DEF RecordTask, Rest, IntakeInv, IntakeTyped
<1>2. CASE End(q) /\ UNCHANGED resumes
  BY <1>1, <1>2, OnlyEnds
<1>3. CASE /\ resumes[q].of # None /\ resumes' = [resumes EXCEPT ![q].task = q]
           /\ To(q, [sess[q] EXCEPT !.at = "log"])
  <2>1. q \in Ids
    BY DEF Ids
  <2>2. PICK r : r = [resumes[q] EXCEPT !.task = q]
    OBVIOUS
  <2>3. resumes[q] \in ResumeRow
    BY <1>3, <2>1, OwnedResume DEF IntakeInv
  <2>4. /\ r \in ResumeRow
        /\ r.of = resumes[q].of /\ r.version = resumes[q].version /\ r.active = resumes[q].active
    BY <2>1, <2>2, <2>3 DEF ResumeRow
  <2>5. resumes' = [resumes EXCEPT ![q] = r]
    BY <1>3, <2>2
  <2>6. RowsKept
    BY <1>3, <2>1, <2>4, <2>5, RowUpdated DEF IntakeInv
  <2> QED
    BY <1>1, <1>3, <2>6, MovesToLater, LaterSteps
<1> QED
  BY <1>2, <1>3 DEF RecordTask

LEMMA CreateLogKeeps == ASSUME IntakeInv, NEW q \in Requests, CreateLog(q) PROVE IntakeInv'
<1>1. UNCHANGED <<resumes, members, ask, raced>>
  BY DEF CreateLog, Rest
<1>2. CASE End(q)
  BY <1>1, <1>2, OnlyEnds
<1>3. CASE To(q, [sess[q] EXCEPT !.at = "publish"])
  BY <1>1, <1>3, RowsUnchanged, MovesToLater, LaterSteps DEF IntakeInv, IntakeTyped
<1> QED
  BY <1>2, <1>3 DEF CreateLog

LEMMA PublishKeeps == ASSUME IntakeInv, NEW q \in Requests, Publish(q) PROVE IntakeInv'
<1>1. UNCHANGED <<resumes, members, ask, raced>> /\ To(q, [sess[q] EXCEPT !.at = "answered"])
  BY DEF Publish
<1> QED
  BY <1>1, RowsUnchanged, MovesToLater, LaterSteps DEF IntakeInv, IntakeTyped

LEMMA RequestDiesKeeps == ASSUME IntakeInv, NEW q \in Requests, RequestDies(q) PROVE IntakeInv'
<1>1. UNCHANGED <<resumes, members, ask, raced>> /\ End(q)
  BY DEF RequestDies, Tables, Rest
<1> QED
  BY <1>1, OnlyEnds

\* What is read is what there is: if nothing is active, the candidate has nothing, unless
\* uploads overlapped.
LEMMA ReadVersionsKeeps == ASSUME IntakeInv, NEW q \in Requests, ReadVersions(q) PROVE IntakeInv'
<1>1. PICK p : p = sess[q].person
  OBVIOUS
<1>2. PICK n : n = [sess[q] EXCEPT !.at = "store", !.seen = Active(p),
                                   !.max = IF Active(p) = {} THEN 0 ELSE LatestVersion(p)]
  OBVIOUS
<1>3. sess[q].at = "versions" /\ sess' = [sess EXCEPT ![q] = n]
  BY <1>1, <1>2 DEF ReadVersions, To
<1>4. UNCHANGED <<resumes, members, ask, raced>>
  BY DEF ReadVersions, Tables, Rest
<1>5. p \in Persons /\ p # None /\ sess[q] \in IntakeSession
  BY <1>1, <1>3, IntakeAssumption DEF IntakeInv, IntakeTyped, UploadInv
<1>6. Active(p) \subseteq OfPerson(p) /\ OfPerson(p) \subseteq Ids
  BY DEF Active, OfPerson
<1>7. Active(p) # {} => /\ LatestVersion(p) \in Nat
                        /\ \A i \in OfPerson(p) : resumes[i].version <= LatestVersion(p)
  BY <1>5, <1>6, LatestIsGreatest DEF IntakeInv
<1>8. /\ n \in IntakeSession
      /\ n.at = "store" /\ n.person = p /\ n.seen = Active(p)
      /\ n.max = IF Active(p) = {} THEN 0 ELSE LatestVersion(p)
  BY <1>1, <1>2, <1>5, <1>6, <1>7 DEF IntakeSession, IntakeStep, Waiting
<1>9. sess' \in [Requests -> IntakeSession] /\ \A u \in Requests : sess'[u] = IF u = q THEN n ELSE sess[u]
  BY <1>3, <1>8 DEF IntakeInv, IntakeTyped
<1>10. IntakeTyped'
  BY <1>4, <1>9 DEF IntakeInv, IntakeTyped
<1>11. ASSUME NEW u \in Requests PROVE sess'[u].at \in Early => sess[u].at \in Early
  BY <1>3, <1>9 DEF Early
<1>12. ASSUME NEW i \in Active(p) PROVE resumes[i].of = p /\ (i \in Requests => sess[i].at \notin Early)
  <2>1. resumes[i].of = p
    BY DEF Active, OfPerson
  <2>2. resumes[i] # NoResume
    BY <1>5, <2>1 DEF NoResume
  <2> QED
    BY <2>1, <2>2 DEF IntakeInv, UploadInv
<1>13. ASSUME NEW u \in Requests PROVE UploadInv(u)'
  <2>1. UploadInv(u)
    BY DEF IntakeInv
  <2>2. CASE u = q
    BY <1>3, <1>4, <1>5, <1>8, <1>9, <1>11, <1>12, <2>1, <2>2 DEF UploadInv, Early
  <2>3. CASE u # q
    <3>1. sess'[u] = sess[u]
      BY <1>9, <2>3
    <3>2. \A i \in sess[u].seen : i \in Requests /\ sess'[i].at \in Early => sess[i].at \in Early
      BY <1>11
    <3> QED
      BY <1>4, <2>1, <3>1, <3>2 DEF UploadInv
  <2> QED
    BY <2>2, <2>3
<1>14. p \notin raced /\ Active(p) = {} => OfPerson(p) = {}
  BY <1>5 DEF IntakeInv, VersionsExact
<1>15. ASSUME NEW u \in Requests PROVE FreshInv(u)'
  <2>1. FreshInv(u)
    BY DEF IntakeInv
  <2>2. CASE u = q
    <3>1. sess'[u] = n /\ Active(p)' = Active(p) /\ OfPerson(p)' = OfPerson(p)
      BY <1>4, <1>9, <2>2 DEF Active, OfPerson
    <3>2. ASSUME p \notin raced
          PROVE  Active(p) \subseteq n.seen /\ \A i \in OfPerson(p) : resumes[i].version <= n.max
      BY <1>7, <1>8, <1>14, <3>2
    <3> QED
      BY <1>4, <1>8, <3>1, <3>2 DEF FreshInv, Active, OfPerson
  <2>3. CASE u # q
    BY <1>4, <1>9, <2>1, <2>3 DEF FreshInv, Active, OfPerson
  <2> QED
    BY <2>2, <2>3
<1>16. VersionsExact'
  BY <1>4 DEF IntakeInv, VersionsExact, Active, OfPerson
<1> QED
  BY <1>10, <1>13, <1>15, <1>16 DEF IntakeInv

\* Deactivating a resume, if it is among those to deactivate.
LEMMA Deactivated ==
    ASSUME NEW r \in ResumeRow \cup {NoResume}, NEW i, NEW old
    PROVE  LET n == [r EXCEPT !.active = @ /\ i \notin old] IN
           /\ n \in ResumeRow \cup {NoResume}
           /\ n.of = r.of /\ n.version = r.version
           /\ n.active <=> r.active /\ i \notin old
           /\ r = NoResume => n = NoResume
<1> DEFINE n == [r EXCEPT !.active = @ /\ i \notin old]
<1>0. NoResume.active = FALSE
  BY DEF NoResume
<1>1. r.active \in BOOLEAN
  <2>1. \A x \in ResumeRow : x.active \in BOOLEAN
    BY DEF ResumeRow
  <2> QED
    BY <1>0, <2>1
<1>2. CASE i \in old
  <2>1. (r.active /\ i \notin old) = FALSE
    BY <1>2
  <2>2. n = [r EXCEPT !.active = FALSE]
    BY <2>1
  <2>3. r \in ResumeRow => [r EXCEPT !.active = FALSE] \in ResumeRow
    BY DEF ResumeRow
  <2>4. [NoResume EXCEPT !.active = FALSE] = NoResume
    <3>1. [NoResume EXCEPT !.active = NoResume.active] = NoResume
      BY DEF NoResume
    <3> QED
      BY <1>0, <3>1
  <2>5. n.of = r.of /\ n.version = r.version /\ n.active = FALSE
    BY <2>2 DEF ResumeRow, NoResume
  <2> HIDE DEF n
  <2>6. /\ n \in ResumeRow \cup {NoResume}
        /\ r = NoResume => n = NoResume
    BY <2>2, <2>3, <2>4
  <2> QED
    BY <1>2, <2>5, <2>6 DEF n
<1>3. CASE i \notin old
  <2>1. (r.active /\ i \notin old) = r.active
    BY <1>1, <1>3
  <2>2. n = r
    <3>1. n = [r EXCEPT !.active = r.active]
      BY <2>1
    <3> QED
      BY <3>1 DEF ResumeRow, NoResume
  <2> HIDE DEF n
  <2> QED
    BY <1>3, <2>2 DEF n
<1> QED
  BY <1>2, <1>3

\* After request q stored row new for its candidate, those in old deactivated.
Stored(q, old, new, next) ==
    /\ old \in Superseded(q)
    /\ new.of = sess[q].person /\ new.active /\ new.version = sess[q].max + 1
    /\ \A i \in Ids : resumes'[i] = IF i = q THEN new ELSE [resumes[i] EXCEPT !.active = @ /\ i \notin old]
    /\ resumes' \in [Ids -> ResumeRow \cup {NoResume}]
    /\ sess' = [sess EXCEPT ![q] = next] /\ next \in IntakeSession /\ next.at = "lock"

LEMMA StoresOne ==
    ASSUME IntakeInv, NEW q \in Requests, StoreVersion(q), cand[sess[q].person] # None
    PROVE  \E old, next : \E new \in ResumeRow : Stored(q, old, new, next)
<1>1. sess[q].at = "store" /\ sess[q] \in IntakeSession /\ sess[q].person \in Persons /\ q \in Ids
  BY DEF StoreVersion, IntakeInv, IntakeTyped, UploadInv, Ids
<1>2. PICK new : new = [NoResume EXCEPT !.of = sess[q].person, !.file = ask[q].file, !.active = TRUE,
                                        !.version = sess[q].max + 1]
  OBVIOUS
<1>3. PICK old \in Superseded(q) :
        /\ resumes' = [i \in Ids |-> IF i = q THEN new ELSE [resumes[i] EXCEPT !.active = @ /\ i \notin old]]
        /\ To(q, [sess[q] EXCEPT !.at = "lock", !.id = q])
  BY <1>2 DEF StoreVersion
<1>4. PICK next : next = [sess[q] EXCEPT !.at = "lock", !.id = q]
  OBVIOUS
<1>5. sess' = [sess EXCEPT ![q] = next] /\ next \in IntakeSession /\ next.at = "lock"
  BY <1>1, <1>3, <1>4 DEF To, IntakeSession, IntakeStep, Waiting
<1>6. ask[q].file \in Files /\ sess[q].max + 1 \in Nat
  BY <1>1 DEF IntakeInv, IntakeTyped, Question, IntakeSession
<1>7. /\ new \in ResumeRow
      /\ new.of = sess[q].person /\ new.active /\ new.version = sess[q].max + 1
  BY <1>1, <1>2, <1>6 DEF NoResume, ResumeRow
<1>8. ASSUME NEW i \in Ids PROVE [resumes[i] EXCEPT !.active = @ /\ i \notin old] \in ResumeRow \cup {NoResume}
  <2>1. resumes[i] \in ResumeRow \cup {NoResume}
    BY DEF IntakeInv, IntakeTyped
  <2> QED
    BY <2>1, Deactivated
<1>9. resumes' \in [Ids -> ResumeRow \cup {NoResume}]
  BY <1>3, <1>7, <1>8
<1>10. Stored(q, old, new, next)
  BY <1>3, <1>5, <1>7, <1>9 DEF Stored
<1> QED
  BY <1>7, <1>10

LEMMA StoreVersionKeeps == ASSUME IntakeInv, NEW q \in Requests, StoreVersion(q) PROVE IntakeInv'
<1>1. /\ sess[q].at = "store" /\ UNCHANGED <<members, ask>>
      /\ q \in Ids
  BY DEF StoreVersion, Ids
<1>2. CASE cand[sess[q].person] = None
  <2>1. End(q) /\ UNCHANGED <<resumes, raced>>
    BY <1>2 DEF StoreVersion
  <2> QED
    BY <1>1, <2>1, OnlyEnds
<1>3. CASE cand[sess[q].person] # None
  <2>1. PICK p : p = sess[q].person
    OBVIOUS
  <2>2a. PICK old, next : \E new \in ResumeRow : Stored(q, old, new, next)
    BY <1>3, StoresOne
  <2>2b. PICK new \in ResumeRow : Stored(q, old, new, next)
    BY <2>2a
  <2>2. /\ old \in Superseded(q)
        /\ new.of = p /\ new.active /\ new.version = sess[q].max + 1
        /\ \A i \in Ids : resumes'[i] = IF i = q THEN new ELSE [resumes[i] EXCEPT !.active = @ /\ i \notin old]
        /\ resumes' \in [Ids -> ResumeRow \cup {NoResume}]
        /\ sess' = [sess EXCEPT ![q] = next] /\ next \in IntakeSession /\ next.at = "lock"
    BY <2>1, <2>2b DEF Stored
  <2>3. /\ p \in Persons /\ p # None /\ resumes[q] = NoResume /\ sess[q].max \in Nat
        /\ \A i \in sess[q].seen : /\ resumes[i].of \in {p, None}
                                   /\ i \in Requests => sess[i].at \notin Early
    BY <1>1, <2>1, IntakeAssumption DEF IntakeInv, IntakeTyped, UploadInv, IntakeSession, Early
  <2>4. \A u \in Requests : sess'[u] = IF u = q THEN next ELSE sess[u]
    BY <2>2 DEF IntakeInv, IntakeTyped
  <2>5. ASSUME NEW i \in Ids, i # q
        PROVE  /\ resumes'[i].of = resumes[i].of /\ resumes'[i].version = resumes[i].version
               /\ resumes'[i].active <=> resumes[i].active /\ i \notin old
    <3>1. resumes'[i] = [resumes[i] EXCEPT !.active = @ /\ i \notin old]
      BY <2>2, <2>5
    <3>2. resumes[i] \in ResumeRow \cup {NoResume}
      BY DEF IntakeInv, IntakeTyped
    <3> QED
      BY <3>1, <3>2, Deactivated
  <2>6. resumes'[q] = new
    BY <1>1, <2>2
  <2>7. /\ raced' = raced \cup {r \in {p} : \E u \in Requests \ {q} : sess[u].at = "store" /\ sess[u].person = p}
        /\ raced \subseteq raced'
    BY <1>3, <2>1 DEF StoreVersion
  <2>8. /\ OfPerson(p)' = OfPerson(p) \cup {q} /\ q \notin OfPerson(p)
        /\ \A r \in Persons \ {p} : OfPerson(r)' = OfPerson(r) /\ q \notin OfPerson(r)
    <3>1. resumes[q].of = None /\ None \notin Persons /\ resumes'[q].of = p
      BY <2>2, <2>3, <2>6, IntakeAssumption DEF NoResume
    <3>2. OfPerson(p)' = OfPerson(p) \cup {q}
      <4>1. ASSUME NEW i PROVE i \in OfPerson(p)' <=> i \in OfPerson(p) \cup {q}
        BY <1>1, <2>5, <3>1 DEF OfPerson
      <4> QED
        BY <4>1
    <3>3. ASSUME NEW r \in Persons \ {p} PROVE OfPerson(r)' = OfPerson(r)
      <4>1. ASSUME NEW i PROVE i \in OfPerson(r)' <=> i \in OfPerson(r)
        BY <1>1, <2>5, <3>1 DEF OfPerson
      <4> QED
        BY <4>1
    <3> QED
      BY <2>3, <3>1, <3>2, <3>3 DEF OfPerson
  <2>9. old \subseteq sess[q].seen \cup Active(p)
    BY <2>1, <2>2 DEF Superseded
  <2>10. ASSUME NEW r \in Persons \ {p} PROVE Active(r)' = Active(r)
    <3>1. ASSUME NEW i \in OfPerson(r) PROVE i \notin old /\ i # q /\ i \in Ids
      <4>1. i # q /\ i \in Ids /\ resumes[i].of = r /\ r # None
        BY <2>8, IntakeAssumption DEF OfPerson
      <4>2. i \notin sess[q].seen /\ i \notin Active(p)
        BY <2>3, <4>1 DEF Active, OfPerson
      <4> QED
        BY <2>9, <4>1, <4>2
    <3>2. ASSUME NEW i PROVE i \in Active(r)' <=> i \in Active(r)
      <4>1. i \in OfPerson(r)' <=> i \in OfPerson(r)
        BY <2>8
      <4>2. i \in OfPerson(r) => (resumes'[i].active <=> resumes[i].active)
        BY <2>5, <3>1
      <4> QED
        BY <4>1, <4>2 DEF Active
    <3> QED
      BY <3>2
  <2>11. IntakeTyped'
    <3>1. {i \in Ids : resumes'[i].of # None} \subseteq {i \in Ids : resumes[i].of # None} \cup {q}
      BY <2>5
    <3>2. IsFiniteSet({i \in Ids : resumes[i].of # None} \cup {q})
      BY FS_AddElement DEF IntakeInv, IntakeTyped
    <3>3. IsFiniteSet({i \in Ids : resumes'[i].of # None})
      BY <3>1, <3>2, FS_Subset
    <3>4. sess' \in [Requests -> IntakeSession]
      BY <2>2 DEF IntakeInv, IntakeTyped
    <3> QED
      BY <1>1, <2>2, <3>3, <3>4 DEF IntakeInv, IntakeTyped
  <2>12. ASSUME NEW u \in Requests PROVE UploadInv(u)'
    <3>1. UploadInv(u)
      BY DEF IntakeInv
    <3>2. CASE u = q
      BY <2>2, <2>4, <3>2 DEF UploadInv, Early
    <3>3. CASE u # q
      <4>1. sess'[u] = sess[u] /\ u \in Ids
        BY <2>4, <3>3 DEF Ids
      <4>2. resumes[u] = NoResume => resumes'[u] = NoResume
        <5>1. resumes'[u] = [resumes[u] EXCEPT !.active = @ /\ u \notin old]
          BY <2>2, <3>3, <4>1
        <5> QED
          BY <5>1, Deactivated
      <4>3. ASSUME sess[u].at = "store", NEW i \in sess[u].seen
            PROVE  resumes'[i].of \in {sess[u].person, None} /\ (i \in Requests => sess'[i].at \notin Early)
        <5>1. /\ i \in Ids /\ resumes[i].of \in {sess[u].person, None}
              /\ i \in Requests => sess[i].at \notin Early
          BY <3>1, <4>3 DEF UploadInv, IntakeInv, IntakeTyped, IntakeSession
        <5>2. i # q
          BY <1>1, <5>1 DEF Early
        <5> QED
          BY <2>4, <2>5, <5>1, <5>2
      <4> QED
        BY <3>1, <4>1, <4>2, <4>3 DEF UploadInv
    <3> QED
      BY <3>2, <3>3
  <2>13. ASSUME NEW u \in Requests PROVE FreshInv(u)'
    <3>1. CASE u = q
      BY <2>2, <2>4, <3>1 DEF FreshInv
    <3>2. CASE u # q
      <4>1. sess'[u] = sess[u]
        BY <2>4, <3>2
      <4> SUFFICES ASSUME sess[u].at = "store", sess[u].person \notin raced'
                   PROVE  /\ (Active(sess[u].person) \subseteq sess[u].seen)'
                          /\ (\A i \in OfPerson(sess[u].person) : resumes[i].version <= sess[u].max)'
        BY <4>1 DEF FreshInv
      <4>2. PICK r : r = sess[u].person
        OBVIOUS
      <4>3. r \in Persons \ {p} /\ r \notin raced
        BY <2>7, <3>2, <4>2 DEF IntakeInv, UploadInv
      <4>4. Active(r) \subseteq sess[u].seen /\ \A i \in OfPerson(r) : resumes[i].version <= sess[u].max
        BY <4>2, <4>3 DEF IntakeInv, FreshInv
      <4>5. /\ Active(r)' = Active(r) /\ OfPerson(r)' = OfPerson(r)
            /\ \A i \in OfPerson(r) : resumes'[i].version = resumes[i].version
        BY <2>5, <2>8, <2>10, <4>3 DEF OfPerson
      <4>6. /\ Active(r)' \subseteq sess[u].seen
            /\ \A i \in OfPerson(r)' : resumes'[i].version <= sess[u].max
        BY <4>4, <4>5
      <4> QED
        BY <4>1, <4>2, <4>6 DEF Active, OfPerson
    <3> QED
      BY <3>1, <3>2
  <2>14. ASSUME p \notin raced'
         PROVE  /\ Active(p)' = {q}
                /\ \A j \in OfPerson(p)' \ {q} : resumes'[j].version < resumes'[q].version
    <3>1. /\ Active(p) \subseteq sess[q].seen
          /\ \A i \in OfPerson(p) : resumes[i].version <= sess[q].max
      BY <1>1, <2>1, <2>7, <2>14 DEF IntakeInv, FreshInv
    <3>2. Active(p) \subseteq old
      BY <2>1, <2>2, <3>1 DEF Superseded
    <3>3. ASSUME NEW j \in OfPerson(p)
          PROVE  j \notin Active(p)' /\ resumes'[j].version < resumes'[q].version
      <4>1. j \in Ids /\ j # q /\ resumes[j].of # None
        BY <2>3, <2>8 DEF OfPerson
      <4>2. resumes[j].version \in Nat /\ resumes[j].version <= sess[q].max
        BY <3>1, <4>1, OwnedResume DEF IntakeInv, ResumeRow
      <4>3. resumes'[j].version = resumes[j].version /\ resumes'[q].version = sess[q].max + 1
        BY <2>2, <2>5, <2>6, <4>1
      <4>4. resumes'[j].active => FALSE
        <5>1. resumes[j].active => j \in Active(p)
          BY DEF Active
        <5> QED
          BY <2>5, <3>2, <4>1, <5>1
      <4> QED
        BY <2>3, <4>2, <4>3, <4>4 DEF Active
    <3>4. q \in Active(p)'
      BY <2>2, <2>6, <2>8 DEF Active
    <3>5. Active(p)' \subseteq OfPerson(p) \cup {q}
      BY <2>8 DEF Active
    <3> QED
      BY <2>8, <3>3, <3>4, <3>5
  <2>15. VersionsExact'
    <3> SUFFICES ASSUME NEW r \in Persons \ raced', OfPerson(r)' # {}
                 PROVE  \E i \in OfPerson(r)' :
                          /\ Active(r)' = {i}
                          /\ \A j \in OfPerson(r)' \ {i} : resumes'[j].version < resumes'[i].version
      BY DEF VersionsExact, Active, OfPerson
    <3>1. CASE r = p
      BY <2>8, <2>14, <3>1
    <3>2. CASE r # p
      <4>1. /\ Active(r)' = Active(r) /\ OfPerson(r)' = OfPerson(r) /\ r \notin raced
            /\ \A i \in OfPerson(r) : resumes'[i].version = resumes[i].version
        BY <2>5, <2>7, <2>8, <2>10, <3>2 DEF OfPerson
      <4>2. PICK i \in OfPerson(r) : /\ Active(r) = {i}
                                     /\ \A j \in OfPerson(r) \ {i} : resumes[j].version < resumes[i].version
        BY <4>1 DEF IntakeInv, VersionsExact
      <4> QED
        BY <4>1, <4>2
    <3> QED
      BY <3>1, <3>2
  <2> QED
    BY <2>11, <2>12, <2>13, <2>15 DEF IntakeInv
<1> QED
  BY <1>2, <1>3

LEMMA UploadKeeps == ASSUME IntakeInv, NEW q \in Requests, Upload(q) PROVE IntakeInv'
BY PrecheckKeeps, MatchFileKeeps, ResolveKeeps, ReadVersionsKeeps, StoreVersionKeeps, LinkKeeps,
   CommitLinkKeeps, RecordTaskKeeps, CreateLogKeeps, PublishKeeps, RequestDiesKeeps DEF Upload

LEMMA PoolLockKeeps == ASSUME IntakeInv, NEW q \in Requests, PoolLock(q) PROVE IntakeInv'
<1>1. UNCHANGED <<resumes, members, ask, raced>>
  BY DEF PoolLock, Tables, Rest
<1>2. CASE End(q)
  BY <1>1, <1>2, OnlyEnds
<1>3. ASSUME NEW pick \in [Takable(q) -> Ids],
             To(q, [sess[q] EXCEPT !.at = "picked", !.seen = {pick[p] : p \in Takable(q)}])
      PROVE  IntakeInv'
  <2>1. PICK n : n = [sess[q] EXCEPT !.at = "picked", !.seen = {pick[p] : p \in Takable(q)}]
    OBVIOUS
  <2>2. {pick[p] : p \in Takable(q)} \subseteq Ids /\ sess[q] \in IntakeSession
    BY DEF IntakeInv, IntakeTyped
  <2>3. n \in IntakeSession /\ n.at = "picked"
    BY <2>1, <2>2 DEF IntakeSession, IntakeStep
  <2>4. Allowed(q, n)
    BY <2>3 DEF Allowed, Early
  <2> QED
    BY <1>1, <1>3, <2>1, <2>4, OnlySession
<1> QED
  BY <1>2, <1>3 DEF PoolLock

LEMMA PoolCommitKeeps == ASSUME IntakeInv, NEW q \in Requests, PoolCommit(q) PROVE IntakeInv'
<1>1. UNCHANGED <<resumes, ask, raced>> /\ To(q, [sess[q] EXCEPT !.at = "reparse"])
  BY DEF PoolCommit
<1>2. /\ RowsKept /\ members \subseteq Application /\ ask[q].campaign \in Campaigns
      /\ sess[q].seen \subseteq Ids
  BY <1>1, RowsUnchanged DEF IntakeInv, IntakeTyped, Question, IntakeSession
<1>3. \A i \in sess[q].seen : Member(ask[q].campaign, i) \in Application
  BY <1>2, MemberTyped DEF IntakeInv
<1>4. members' \subseteq Application
  BY <1>2, <1>3 DEF PoolCommit, Apply
<1> QED
  BY <1>1, <1>2, <1>4, MovesToLater, LaterSteps

\* A resume keeps its version when it is parsed again or gets another task.
LEMMA ReparseKept == ASSUME IntakeTyped, NEW q \in Requests, NEW i \in Ids, resumes[i].of # None, Reparse(q, i)
                     PROVE RowsKept
<1>1. PICK r : r = [resumes[i] EXCEPT !.task = q]
  OBVIOUS
<1>2. /\ r \in ResumeRow
      /\ r.of = resumes[i].of /\ r.version = resumes[i].version /\ r.active = resumes[i].active
  BY <1>1, OwnedResume DEF ResumeRow, Ids
<1>3. resumes' = [resumes EXCEPT ![i] = r]
  BY <1>1 DEF Reparse
<1> QED
  BY <1>2, <1>3, RowUpdated

LEMMA QueueEvaluationKeeps == ASSUME IntakeInv, NEW q \in Requests, QueueEvaluation(q) PROVE IntakeInv'
<1>1. UNCHANGED <<members, raced, ask>> /\ members \subseteq Application
  BY DEF QueueEvaluation, IntakeInv, IntakeTyped
<1>2. PICK i \in sess[q].seen :
        /\ IF resumes[i].of # None /\ resumes[i].outdated THEN Reparse(q, i) ELSE UNCHANGED resumes
        /\ To(q, [sess[q] EXCEPT !.seen = @ \ {i}, !.at = IF sess[q].seen = {i} THEN "answered" ELSE "reparse"])
  BY DEF QueueEvaluation
<1>3. sess[q] \in IntakeSession /\ sess[q].seen \subseteq Ids
  BY DEF IntakeInv, IntakeTyped, IntakeSession
<1>4. PICK n : n = [sess[q] EXCEPT !.seen = @ \ {i}, !.at = IF sess[q].seen = {i} THEN "answered" ELSE "reparse"]
  OBVIOUS
<1>5. n \in IntakeSession /\ n.at \in {"answered", "reparse"}
  <2>1. sess[q].seen \ {i} \subseteq Ids
    BY <1>3
  <2>2. (IF sess[q].seen = {i} THEN "answered" ELSE "reparse") \in {"answered", "reparse"} \cap IntakeStep
    BY DEF IntakeStep
  <2> QED
    BY <1>3, <1>4, <2>1, <2>2 DEF IntakeSession
<1>6. Allowed(q, n)
  BY <1>5 DEF Allowed, Early
<1>7. RowsKept
  BY <1>2, <1>3, ReparseKept, RowsUnchanged DEF IntakeInv
<1> QED
  BY <1>1, <1>2, <1>4, <1>6, <1>7, RequestMovesOn

LEMMA EraseReadKeeps == ASSUME IntakeInv, NEW q \in Requests, EraseRead(q) PROVE IntakeInv'
<1>1. UNCHANGED <<resumes, members, ask, raced>>
  BY DEF EraseRead, Tables, Rest
<1>2. CASE End(q)
  BY <1>1, <1>2, OnlyEnds
<1>3. PICK p : p = ask[q].person
  OBVIOUS
<1>4. CASE To(q, [sess[q] EXCEPT !.at = "erasing", !.seen = OfPerson(p), !.apps = MembersOf(p)])
  <2>1. PICK n : n = [sess[q] EXCEPT !.at = "erasing", !.seen = OfPerson(p), !.apps = MembersOf(p)]
    OBVIOUS
  <2>2. OfPerson(p) \subseteq Ids /\ MembersOf(p) \subseteq Application /\ sess[q] \in IntakeSession
    BY DEF IntakeInv, IntakeTyped, OfPerson, MembersOf
  <2>3. n \in IntakeSession /\ n.at = "erasing"
    BY <2>1, <2>2 DEF IntakeSession, IntakeStep
  <2>4. Allowed(q, n)
    BY <2>3 DEF Allowed, Early
  <2> QED
    BY <1>1, <1>4, <2>1, <2>4, OnlySession
<1> QED
  BY <1>2, <1>3, <1>4 DEF EraseRead

LEMMA EraseCommitKeeps == ASSUME IntakeInv, NEW q \in Requests, EraseCommit(q) PROVE IntakeInv'
<1>1. End(q) /\ UNCHANGED <<raced, ask>>
  BY DEF EraseCommit
<1>2. PICK p : p = ask[q].person
  OBVIOUS
<1>3. members' \subseteq members /\ members' \subseteq Application
  BY <1>2 DEF EraseCommit, Tables, IntakeInv, IntakeTyped
<1>4. CASE UNCHANGED resumes
  BY <1>1, <1>3, <1>4, RowsUnchanged, RequestEnds DEF IntakeInv
<1>5. CASE resumes' = [i \in Ids |-> IF i \in OfPerson(p) THEN NoResume ELSE resumes[i]]
  <2>1. resumes' \in [Ids -> ResumeRow \cup {NoResume}]
    BY <1>5 DEF IntakeInv, IntakeTyped
  <2>2. \A i \in Ids : IF resumes[i].of = p THEN resumes'[i] = NoResume ELSE resumes'[i] = resumes[i]
    BY <1>5 DEF OfPerson
  <2>3. IsFiniteSet({i \in Ids : resumes'[i].of # None})
    <3>1. {i \in Ids : resumes'[i].of # None} \subseteq {i \in Ids : resumes[i].of # None}
      BY <2>2 DEF NoResume
    <3> QED
      BY <3>1, FS_Subset DEF IntakeInv, IntakeTyped
  <2>4. ASSUME NEW r \in Persons PROVE OfPerson(r)' = {} \/ \A i \in OfPerson(r) : SameResume(i)
    <3>1. CASE r = p
      <4>1. ASSUME NEW i \in OfPerson(r)' PROVE FALSE
        BY <2>2, <3>1, IntakeAssumption DEF OfPerson, NoResume
      <4> QED
        BY <4>1
    <3>2. CASE r # p
      BY <2>2, <3>2 DEF OfPerson, SameResume
    <3> QED
      BY <3>1, <3>2
  <2>5. RowsKept
    BY <2>1, <2>2, <2>3, <2>4 DEF RowsKept, SameResume
  <2> QED
    BY <1>1, <1>3, <2>5, RequestEnds
<1> QED
  BY <1>2, <1>4, <1>5 DEF EraseCommit, Tables

LEMMA OtherRequestsKeep ==
    ASSUME IntakeInv, NEW q \in Requests, RequestErasure(q) \/ FraudReview(q) \/ CloseCampaign(q)
    PROVE  IntakeInv'
<1>1. UNCHANGED <<resumes, members, ask, raced>>
  BY DEF RequestErasure, FraudReview, CloseCampaign, Tables, Rest
<1>2. CASE End(q)
  BY <1>1, <1>2, OnlyEnds
<1>3. CASE To(q, [Resting EXCEPT !.at = "flagged"])
  <2>1. PICK n : n = [Resting EXCEPT !.at = "flagged"]
    OBVIOUS
  <2>2. Allowed(q, n)
    BY <2>1 DEF Allowed, Resting, IntakeSession, IntakeStep, Early
  <2> QED
    BY <1>1, <1>3, <2>1, <2>2, OnlySession
<1>4. CASE To(q, [sess[q] EXCEPT !.at = "flagged"])
  BY <1>1, <1>4, RowsUnchanged, MovesToLater, LaterSteps DEF IntakeInv, IntakeTyped
<1> QED
  BY <1>2, <1>3, <1>4 DEF RequestErasure, FraudReview, CloseCampaign

LEMMA WorkersKeep ==
    ASSUME IntakeInv, NEW i \in Ids, Parse(i) \/ Recover(i) \/ EmbedResume(i) PROVE IntakeInv'
<1>1. UNCHANGED <<sess, members, ask, raced>>
  BY DEF Parse, Recover, EmbedResume
<1>2. CASE UNCHANGED resumes
  BY <1>1, <1>2, RowsUnchanged, RequestsStay DEF IntakeInv
<1>3. CASE resumes[i].of # None /\ resumes' = [resumes EXCEPT ![i].parsed = TRUE, ![i].outdated = FALSE]
  <2>1. PICK r : r = [resumes[i] EXCEPT !.parsed = TRUE, !.outdated = FALSE]
    OBVIOUS
  <2>2. /\ r \in ResumeRow
        /\ r.of = resumes[i].of /\ r.version = resumes[i].version /\ r.active = resumes[i].active
    BY <1>3, <2>1, OwnedResume DEF ResumeRow, IntakeInv
  <2>3. resumes' = [resumes EXCEPT ![i] = r]
    BY <1>3, <2>1 DEF IntakeInv, IntakeTyped
  <2>4. RowsKept
    BY <1>3, <2>2, <2>3, RowUpdated DEF IntakeInv
  <2> QED
    BY <1>1, <2>4, RequestsStay
<1> QED
  BY <1>2, <1>3 DEF Parse, Recover, EmbedResume

LEMMA ValidationKeeps ==
    ASSUME IntakeInv, NEW p \in Persons, ValidateRead(p) \/ ValidateWrite(p) PROVE IntakeInv'
<1>1. UNCHANGED <<sess, members, ask, raced, resumes>>
  BY DEF ValidateRead, ValidateWrite, Tables
<1> QED
  BY <1>1, RowsUnchanged, RequestsStay DEF IntakeInv

LEMMA IntakeStarts == IntakeInit => IntakeInv
<1> SUFFICES ASSUME IntakeInit PROVE IntakeInv
  OBVIOUS
<1>1. PICK s \in Encounters :
        /\ ask = s.ask
        /\ resumes = [i \in Ids |-> IF i = Old THEN s.old ELSE NoResume]
        /\ members = {[campaign |-> c, person |-> s.old.of, resume |-> Old] : c \in s.in}
  BY DEF IntakeInit
<1>2. raced = {} /\ sess = [q \in Requests |-> Resting]
  BY DEF IntakeInit
<1>3. /\ ask \in [Requests -> Question] /\ s.in \subseteq Campaigns
      /\ s.old = NoResume \/ s.old \in [of : Persons, file : Files, version : Nat, active : {TRUE},
                                       parsed : BOOLEAN, outdated : BOOLEAN, task : {Old}]
  BY <1>1, IntakeAssumption
<1>4. /\ s.old \in ResumeRow \cup {NoResume}
      /\ s.old # NoResume => s.old.active = TRUE
  BY <1>3 DEF ResumeRow, Ids
<1>5. resumes[Old] = s.old /\ \A i \in Ids : i # Old => resumes[i] = NoResume
  BY <1>1 DEF Ids
<1>6. Resting \in IntakeSession /\ Resting.at = "idle"
  BY DEF Resting, IntakeSession, IntakeStep, Waiting
<1>7. IntakeTyped
  <2>1. resumes \in [Ids -> ResumeRow \cup {NoResume}]
    BY <1>1, <1>4
  <2>2. IsFiniteSet({i \in Ids : resumes[i].of # None})
    <3>1. {i \in Ids : resumes[i].of # None} \subseteq {Old}
      BY <1>5 DEF NoResume
    <3> QED
      BY <3>1, FS_Singleton, FS_Subset
  <2>3. members \subseteq Application
    <3>1. s.old.of \in Persons \cup {None} /\ Old \in Ids
      BY <1>4 DEF ResumeRow, NoResume, Ids
    <3> QED
      BY <1>1, <1>3, <3>1 DEF Application
  <2> QED
    BY <1>2, <1>3, <1>6, <2>1, <2>2, <2>3 DEF IntakeTyped
<1>8. ASSUME NEW q \in Requests PROVE UploadInv(q) /\ FreshInv(q)
  <2>1. sess[q].at = "idle"
    BY <1>2, <1>6
  <2>2. resumes[q] = NoResume
    BY <1>5, IntakeAssumption DEF Ids
  <2> QED
    BY <2>1, <2>2 DEF UploadInv, FreshInv
<1>9. VersionsExact
  <2> SUFFICES ASSUME NEW p \in Persons \ raced, OfPerson(p) # {}
               PROVE  \E i \in OfPerson(p) : /\ Active(p) = {i}
                                             /\ \A j \in OfPerson(p) \ {i} : resumes[j].version < resumes[i].version
    BY DEF VersionsExact
  <2>1. OfPerson(p) = {Old} /\ s.old # NoResume
    <3>1. \A i \in OfPerson(p) : i = Old /\ s.old # NoResume
      BY <1>5, IntakeAssumption DEF OfPerson, NoResume
    <3> QED
      BY <3>1
  <2>2. Active(p) = {Old}
    BY <1>4, <1>5, <2>1 DEF Active
  <2> QED
    BY <2>1, <2>2
<1> QED
  BY <1>7, <1>8, <1>9 DEF IntakeInv

LEMMA IntakeInductive == IntakeInv /\ [IntakeNext]_intakeVars => IntakeInv'
<1> SUFFICES ASSUME IntakeInv, [IntakeNext]_intakeVars PROVE IntakeInv'
  OBVIOUS
<1>1. ASSUME NEW q \in Requests,
             \/ Upload(q) \/ Pool(q) \/ EraseRead(q) \/ EraseCommit(q)
             \/ RequestErasure(q) \/ FraudReview(q) \/ CloseCampaign(q)
      PROVE  IntakeInv'
  BY <1>1, UploadKeeps, PoolLockKeeps, PoolCommitKeeps, QueueEvaluationKeeps, EraseReadKeeps,
     EraseCommitKeeps, OtherRequestsKeep DEF Pool
<1>2. CASE UNCHANGED intakeVars
  <2>1. UNCHANGED <<sess, members, ask, raced, resumes>>
    BY <1>2 DEF intakeVars
  <2> QED
    BY <2>1, RowsUnchanged, RequestsStay DEF IntakeInv
<1> QED
  BY <1>1, <1>2, WorkersKeep, ValidationKeeps DEF IntakeNext

\* Whatever requests, jobs and crashes interleave, a candidate whose versions were not stored
\* by overlapping uploads has one active version, and it is his latest
\* (_create_next_version, deactivate_active_version, erase).
THEOREM VersionsStayExact == IntakeSpec => []VersionsExact
<1>1. IntakeInv => VersionsExact
  BY DEF IntakeInv
<1> QED
  BY <1>1, IntakeStarts, IntakeInductive, PTL DEF IntakeSpec
=============================================================================
