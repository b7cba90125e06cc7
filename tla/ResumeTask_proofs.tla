------------------------- MODULE ResumeTask_proofs -------------------------
(***************************************************************************)
(* Proofs about ResumeTask, for every set of requests, workers and sweeps, *)
(* every retry policy and every number of faults.                          *)
(***************************************************************************)
EXTENDS ResumeTask, SequenceTheorems, TLAPS

(* Publishing keeps every old message and adds one at the end.             *)
LEMMA PublishType ==
    ASSUME MsgsOK, NEW t \in Requests, NEW r \in Nat,
           NEW by \in {"DISPATCH", "RETRY", "INFLIGHT"}, Publish(t, r, by)
    PROVE  /\ MsgsOK'
           /\ Len(msgs) \in Nat
           /\ Len(msgs') = Len(msgs) + 1
           /\ \A i \in 1..Len(msgs) : msgs'[i] = msgs[i]
           /\ msgs'[Len(msgs) + 1] = [task |-> t, retries |-> r, at |-> "QUEUE", by |-> by]
  <1> DEFINE m == [task |-> t, retries |-> r, at |-> "QUEUE", by |-> by]
  <1>1. m \in Message
    BY DEF Message, Places
  <1>2. msgs \in Seq(Message) /\ msgs' = Append(msgs, m)
    BY DEF Publish, MsgsOK
  <1> HIDE DEF m
  <1>3. /\ msgs' \in Seq(Message)
        /\ Len(msgs') = Len(msgs) + 1
        /\ \A i \in 1..Len(msgs) : msgs'[i] = msgs[i]
        /\ msgs'[Len(msgs) + 1] = m
    BY <1>1, <1>2, AppendProperties
  <1> QED
    BY <1>2, <1>3, LenProperties DEF m, MsgsOK

(* Moving one message leaves the number of messages, their tasks, their    *)
(* retry counts and their origins alone.                                   *)
LEMMA MoveType ==
    ASSUME MsgsOK, NEW i \in DOMAIN msgs, NEW p \in Places \cup Workers, Move(i, p)
    PROVE  /\ MsgsOK'
           /\ i \in 1..Len(msgs)
           /\ Len(msgs') = Len(msgs)
           /\ \A j \in 1..Len(msgs) : /\ msgs'[j].task = msgs[j].task
                                      /\ msgs'[j].retries = msgs[j].retries
                                      /\ msgs'[j].by = msgs[j].by
  <1> DEFINE m == [msgs[i] EXCEPT !.at = p]
  <1>1. msgs \in Seq(Message) /\ DOMAIN msgs = 1..Len(msgs)
    BY LenProperties DEF MsgsOK
  <1>2. msgs[i] \in Message
    BY <1>1, ElementOfSeq
  <1>3. /\ m \in Message
        /\ m.task = msgs[i].task
        /\ m.retries = msgs[i].retries
        /\ m.by = msgs[i].by
    BY <1>2 DEF Message
  <1>4. msgs' = [msgs EXCEPT ![i] = m]
    BY DEF Move
  <1> HIDE DEF m
  <1>5. /\ msgs' \in Seq(Message)
        /\ Len(msgs') = Len(msgs)
        /\ \A j \in 1..Len(msgs) : msgs'[j] = IF j = i THEN m ELSE msgs[j]
    BY <1>1, <1>3, <1>4, ExceptSeq
  <1> QED
    BY <1>1, <1>3, <1>5 DEF MsgsOK

(* A part of the type invariant survives a step that leaves its variables  *)
(* alone.                                                                  *)
LEMMA Frame ==
    ASSUME TypeOK
    PROVE  /\ UNCHANGED log => LogOK'
           /\ UNCHANGED resume => ResumeOK'
           /\ UNCHANGED skills => SkillsOK'
           /\ UNCHANGED dlq => DlqOK'
           /\ UNCHANGED cand => CandOK'
           /\ UNCHANGED msgs => MsgsOK'
           /\ (UNCHANGED run /\ UNCHANGED msgs) => RunOK'
           /\ (UNCHANGED req /\ UNCHANGED dlq) => ReqOK'
           /\ UNCHANGED scan => ScanOK'
           /\ UNCHANGED faults => FaultsOK'
  BY DEF TypeOK, LogOK, ResumeOK, SkillsOK, DlqOK, CandOK, MsgsOK, RunOK, ReqOK, ScanOK, FaultsOK

(* A publication that leaves the workers alone keeps the types of both.    *)
LEMMA Published ==
    ASSUME TypeOK, NEW t \in Requests, NEW by \in {"DISPATCH", "RETRY", "INFLIGHT"},
           Publish(t, 0, by), UNCHANGED run
    PROVE  MsgsOK' /\ RunOK'
  <1>1. MsgsOK' /\ Len(msgs) \in Nat /\ Len(msgs') = Len(msgs) + 1
    BY PublishType DEF TypeOK
  <1> QED
    BY <1>1 DEF TypeOK, RunOK

(* The control records of a worker, a request and the fault counters.      *)
LEMMA WorkerMoves ==
    ASSUME TypeOK, NEW w \in Workers, NEW pc \in WorkerPC, run[w].pc # "idle",
           WorkerGo(w, pc), UNCHANGED msgs
    PROVE  RunOK'
  BY DEF TypeOK, WorkerGo, RunOK

LEMMA WorkerFailsType ==
    ASSUME TypeOK, NEW w \in Workers, NEW st \in Stages, NEW v \in Verdicts,
           run[w].pc # "idle", WorkerFails(w, st, v), UNCHANGED msgs
    PROVE  RunOK'
  BY DEF TypeOK, WorkerFails, RunOK, WorkerPC

LEMMA RequestMoves ==
    ASSUME TypeOK, NEW q \in Requests, NEW pc \in RequestPC \ {"replay"},
           RequestGo(q, pc), Len(dlq') = Len(dlq)
    PROVE  ReqOK'
  BY DEF TypeOK, RequestGo, ReqOK

LEMMA SpendType ==
    ASSUME TypeOK, NEW kind \in FaultKinds, Spend(kind)
    PROVE  FaultsOK'
  BY DEF TypeOK, Spend, FaultsOK

LEMMA EnterType ==
    ASSUME TypeOK, NEW kind \in FaultKinds, Enter(kind)
    PROVE  FaultsOK'
  BY DEF TypeOK, Enter, FaultsOK

(* A worker that finishes or dies leaves a message behind, or none.        *)
LEMMA ReleaseType ==
    ASSUME TypeOK, NEW w \in Workers, run[w].pc # "idle", NEW p \in Places,
           Release(w, p), WorkerRests(w)
    PROVE  MsgsOK' /\ RunOK' /\ Len(msgs') = Len(msgs)
           /\ \A j \in 1..Len(msgs) : /\ msgs'[j].task = msgs[j].task
                                      /\ msgs'[j].retries = msgs[j].retries
                                      /\ msgs'[j].by = msgs[j].by
  <1>1. MsgsOK /\ DOMAIN msgs = 1..Len(msgs) /\ run[w].msg \in DOMAIN msgs
    BY LenProperties DEF TypeOK, MsgsOK, RunOK
  <1>2. MsgsOK' /\ Len(msgs') = Len(msgs)
           /\ \A j \in 1..Len(msgs) : /\ msgs'[j].task = msgs[j].task
                                      /\ msgs'[j].retries = msgs[j].retries
                                      /\ msgs'[j].by = msgs[j].by
    BY <1>1, MoveType DEF Release, MsgsOK
  <1>3. RunOK'
    BY <1>2 DEF TypeOK, WorkerRests, IdleWorker, RunOK, WorkerPC, Stages, Verdicts
  <1> QED
    BY <1>2, <1>3

(* The task and the attempt of a worker that is not idle.                  *)
LEMMA RunningType ==
    ASSUME TypeOK, NEW w \in Workers, run[w].pc # "idle"
    PROVE  Running(w) \in Requests /\ Attempt(w) \in Nat
  <1>1. msgs[run[w].msg] \in Message
    BY ElementOfSeq DEF TypeOK, MsgsOK, RunOK
  <1> QED
    BY <1>1 DEF Message, Running, Attempt

(* What the workers can report as live are task ids.                       *)
LEMMA LiveType ==
    ASSUME TypeOK
    PROVE  Executing \subseteq Requests /\ Waiting \subseteq Requests
  <1>1. \A i \in DOMAIN msgs : msgs[i] \in Message
    BY ElementOfSeq, LenProperties DEF TypeOK, MsgsOK
  <1> QED
    BY <1>1, RunningType DEF Executing, Waiting, Message

(* Types: what the columns of the rows, the messages and the control       *)
(* records of the workers, requests and sweeps can hold; a busy worker     *)
(* runs a published message, a replay request holds an existing entry.     *)
LEMMA TypeInit == Init => TypeOK
  <1> SUFFICES ASSUME Init PROVE TypeOK
    OBVIOUS
  <1>1. LogOK
    BY DEF Init, LogOK, Row, NewRow
  <1>2. DlqOK /\ MsgsOK
    BY DEF Init, DlqOK, MsgsOK
  <1>3. RunOK /\ ReqOK
    BY DEF Init, IdleWorker, RunOK, ReqOK, WorkerPC, RequestPC, Stages, Verdicts
  <1>4. ScanOK /\ FaultsOK
    BY DEF Init, ScanOK, ScanPC, FaultsOK
  <1>5. ResumeOK /\ SkillsOK /\ CandOK
    BY DEF Init, ResumeOK, SkillsOK, CandOK
  <1> QED
    BY <1>1, <1>2, <1>3, <1>4, <1>5 DEF TypeOK

THEOREM TypeCorrect == Spec => []TypeOK
  <1>1. Init => TypeOK
    BY TypeInit
  <1>2. TypeOK /\ [Next]_vars => TypeOK'
    <2> SUFFICES ASSUME TypeOK, [Next]_vars PROVE TypeOK'
      OBVIOUS
    <2>1. ASSUME NEW q \in Requests, UploadStore(q) PROVE TypeOK'
      BY <2>1, RequestMoves, Frame DEF UploadStore, TypeOK, ResumeOK, RequestPC
    <2>2. ASSUME NEW q \in Requests, UploadRecordTask(q) PROVE TypeOK'
      BY <2>2, RequestMoves, Frame DEF UploadRecordTask, TypeOK, ResumeOK, RequestPC
    <2>3. ASSUME NEW q \in Requests, UploadLog(q) PROVE TypeOK'
      BY <2>3, RequestMoves, Frame DEF UploadLog, TypeOK, LogOK, Row, NewRow, RequestPC
    <2>4. ASSUME NEW q \in Requests, UploadDispatch(q) PROVE TypeOK'
      <3>1. ReqOK'
        BY <2>4, RequestMoves DEF UploadDispatch, RequestPC
      <3>2. CASE Publish(q, 0, "DISPATCH") /\ UNCHANGED <<log, faults>>
        BY <2>4, <3>1, <3>2, Published, Frame DEF UploadDispatch, TypeOK
      <3>3. CASE UNCHANGED msgs /\ log' = [log EXCEPT ![q].flag = TRUE] /\ Spend("outage")
        <4>1. LogOK'
          BY <3>3 DEF TypeOK, LogOK, Row
        <4> QED
          BY <2>4, <3>1, <3>3, <4>1, SpendType, Frame DEF UploadDispatch, TypeOK, FaultKinds
      <3> QED
        BY <2>4, <3>2, <3>3 DEF UploadDispatch
    <2>5. ASSUME NEW q \in Requests, RetryRead(q) PROVE TypeOK'
      BY <2>5, RequestMoves, SpendType, Frame DEF RetryRead, TypeOK, RequestPC, FaultKinds
    <2>6. ASSUME NEW q \in Requests, RetryCommit(q) PROVE TypeOK'
      BY <2>6, RequestMoves, Frame DEF RetryCommit, TypeOK, ResumeOK, RequestPC
    <2>7. ASSUME NEW q \in Requests, ReplayRead(q) PROVE TypeOK'
      <3>1. PICK i \in DOMAIN dlq : req' = [req EXCEPT ![q] = [pc |-> "replay", entry |-> i]]
        BY <2>7 DEF ReplayRead
      <3>2. i \in 1..Len(dlq) /\ i \in Nat
        BY LenProperties DEF TypeOK, DlqOK
      <3>3. ReqOK'
        BY <2>7, <3>1, <3>2 DEF ReplayRead, TypeOK, ReqOK, RequestPC
      <3> QED
        BY <2>7, <3>3, SpendType, Frame DEF ReplayRead, TypeOK, FaultKinds
    <2>8. ASSUME NEW q \in Requests, ReplayCommit(q) PROVE TypeOK'
      <3>1. dlq \in Seq(DeadLetterRow) /\ req[q].entry \in 1..Len(dlq)
        BY <2>8 DEF ReplayCommit, TypeOK, DlqOK, ReqOK
      <3> DEFINE e == [dlq[req[q].entry] EXCEPT !.replays = @ + 1]
      <3>2. dlq[req[q].entry] \in DeadLetterRow
        BY <3>1, ElementOfSeq
      <3>3. e \in DeadLetterRow
        BY <3>2 DEF DeadLetterRow
      <3>4. dlq' = [dlq EXCEPT ![req[q].entry] = e]
        BY <2>8 DEF ReplayCommit
      <3> HIDE DEF e
      <3>5. dlq' \in Seq(DeadLetterRow) /\ Len(dlq') = Len(dlq)
        BY <3>1, <3>3, <3>4, ExceptSeq
      <3>6. ReqOK'
        BY <2>8, <3>5, RequestMoves DEF ReplayCommit, RequestPC
      <3> QED
        BY <2>8, <3>5, <3>6, Frame DEF ReplayCommit, TypeOK, DlqOK, ResumeOK
    <2>9. ASSUME NEW q \in Requests, Redispatch(q) PROVE TypeOK'
      <3>1. ReqOK'
        BY <2>9, RequestMoves DEF Redispatch, RequestPC
      <3>2. CASE Publish(q, 0, "DISPATCH") /\ UNCHANGED faults
        BY <2>9, <3>1, <3>2, Published, Frame DEF Redispatch, TypeOK
      <3>3. CASE Spend("outage") /\ UNCHANGED msgs
        BY <2>9, <3>1, <3>3, SpendType, Frame DEF Redispatch, TypeOK, FaultKinds
      <3> QED
        BY <2>9, <3>2, <3>3 DEF Redispatch
    <2>10. ASSUME NEW q \in Requests, RequestCrash(q) PROVE TypeOK'
      BY <2>10, RequestMoves, SpendType, Frame DEF RequestCrash, TypeOK, RequestPC, FaultKinds
    <2>11. ASSUME NEW q \in Requests, GrowOld(q) PROVE TypeOK'
      BY <2>11, SpendType, Frame DEF GrowOld, TypeOK, LogOK, Row, FaultKinds
    <2>12. ASSUME NEW w \in Workers, Receive(w) PROVE TypeOK'
      <3>1. PICK i \in DOMAIN msgs : Move(i, w) /\ WorkerTakes(w, i)
        BY <2>12 DEF Receive
      <3>2. MsgsOK' /\ Len(msgs') = Len(msgs) /\ i \in 1..Len(msgs) /\ i \in Nat
        BY <3>1, MoveType, LenProperties DEF TypeOK, MsgsOK
      <3>3. RunOK'
        BY <3>1, <3>2 DEF TypeOK, WorkerTakes, RunOK, WorkerPC
      <3> QED
        BY <2>12, <3>2, <3>3, Frame DEF Receive, TypeOK
    <2>13. ASSUME NEW w \in Workers, Ack(w) PROVE TypeOK'
      <3>1. MsgsOK' /\ RunOK'
        BY <2>13, ReleaseType DEF Ack, Places
      <3> QED
        BY <2>13, <3>1, Frame DEF Ack, TypeOK
    <2>14. ASSUME NEW w \in Workers, WorkerCrash(w) PROVE TypeOK'
      <3>1. MsgsOK' /\ RunOK'
        BY <2>14, ReleaseType DEF WorkerCrash, Places
      <3> QED
        BY <2>14, <3>1, SpendType, Frame DEF WorkerCrash, TypeOK, FaultKinds
    <2>15. ASSUME NEW w \in Workers, CreateLog(w) PROVE TypeOK'
      BY <2>15, RunningType, Frame DEF CreateLog, TypeOK, LogOK, Row, NewRow
    <2>16. ASSUME NEW w \in Workers, MarkRunning(w) PROVE TypeOK'
      BY <2>16, RunningType, WorkerMoves, Frame DEF MarkRunning, TypeOK, LogOK, Row, WorkerPC
    <2>17. ASSUME NEW w \in Workers, FailOutsideStage(w) PROVE TypeOK'
      BY <2>17, WorkerMoves, Frame DEF FailOutsideStage, TypeOK, WorkerPC
    <2>18. ASSUME NEW w \in Workers, StageFails(w) PROVE TypeOK'
      BY <2>18, WorkerFailsType, Frame DEF StageFails, TypeOK
    <2>19. ASSUME NEW w \in Workers, Persist(w) PROVE TypeOK'
      BY <2>19, WorkerMoves, Frame DEF Persist, TypeOK, SkillsOK, ResumeOK, WorkerPC
    <2>20. ASSUME NEW w \in Workers, PersistConflict(w) PROVE TypeOK'
      BY <2>20, WorkerFailsType, Frame DEF PersistConflict, TypeOK, Stages, Verdicts
    <2>21. ASSUME NEW w \in Workers, LinkTask(w) PROVE TypeOK'
      <3>1. RunOK' /\ FaultsOK'
        BY <2>21, WorkerMoves, WorkerFailsType, SpendType, Frame
           DEF LinkTask, WorkerPC, Stages, Verdicts, FaultKinds
      <3>2. LogOK'
        BY <2>21, RunningType, Frame, ZenonT(40) DEF LinkTask, TypeOK, LogOK, Row
      <3> QED
        BY <2>21, <3>1, <3>2, Frame DEF LinkTask, TypeOK
    <2>22. ASSUME NEW w \in Workers, MarkSuccess(w) PROVE TypeOK'
      <3>1. dlq \in Seq(DeadLetterRow) /\ DOMAIN dlq = 1..Len(dlq) /\ Len(dlq) \in Nat
        BY LenProperties DEF TypeOK, DlqOK
      <3>2. \A i \in 1..Len(dlq) : [dlq[i] EXCEPT !.resolved = TRUE] \in DeadLetterRow
        <4>1. \A i \in 1..Len(dlq) : dlq[i] \in DeadLetterRow
          BY <3>1, ElementOfSeq
        <4> QED
          BY <4>1 DEF DeadLetterRow
      <3>3. DlqOK' /\ Len(dlq') = Len(dlq)
        <4>1. CASE dlq' = [i \in DOMAIN dlq |-> [dlq[i] EXCEPT !.resolved = TRUE]]
          <5>1. dlq' \in [1..Len(dlq) -> DeadLetterRow]
            BY <3>1, <3>2, <4>1
          <5> QED
            BY <3>1, <5>1, LenProperties DEF DlqOK
        <4>2. CASE UNCHANGED dlq
          BY <3>1, <4>2 DEF DlqOK
        <4> QED
          BY <2>22, <4>1, <4>2 DEF MarkSuccess
      <3>4. ReqOK'
        BY <2>22, <3>3 DEF MarkSuccess, TypeOK, ReqOK
      <3>5. RunOK' /\ FaultsOK'
        BY <2>22, WorkerMoves, SpendType, Frame DEF MarkSuccess, WorkerPC, FaultKinds
      <3>6. LogOK'
        BY <2>22, RunningType, Frame DEF MarkSuccess, TypeOK, LogOK, Row
      <3> QED
        BY <2>22, <3>3, <3>4, <3>5, <3>6, Frame DEF MarkSuccess, TypeOK
    <2>23. ASSUME NEW w \in Workers, MoveToScreening(w) PROVE TypeOK'
      BY <2>23, WorkerMoves, SpendType, Frame DEF MoveToScreening, TypeOK, CandOK, WorkerPC, FaultKinds
    <2>24. ASSUME NEW w \in Workers, CreateScoringRow(w) PROVE TypeOK'
      BY <2>24, WorkerMoves, Frame DEF CreateScoringRow, TypeOK, CandOK, WorkerPC
    <2>25. ASSUME NEW w \in Workers, DispatchScoring(w) PROVE TypeOK'
      BY <2>25, WorkerMoves, SpendType, Frame DEF DispatchScoring, TypeOK, CandOK, WorkerPC, FaultKinds
    <2>26. ASSUME NEW w \in Workers, DeadLetter(w) PROVE TypeOK'
      <3> DEFINE e == [task |-> Running(w), resolved |-> FALSE, replays |-> 0]
      <3>1. dlq \in Seq(DeadLetterRow) /\ e \in DeadLetterRow
        BY <2>26, RunningType DEF DeadLetter, TypeOK, DlqOK, DeadLetterRow
      <3>2. dlq' = Append(dlq, e)
        BY <2>26 DEF DeadLetter
      <3> HIDE DEF e
      <3>3. dlq' \in Seq(DeadLetterRow) /\ Len(dlq) \in Nat /\ Len(dlq') = Len(dlq) + 1
        BY <3>1, <3>2, AppendProperties, LenProperties
      <3>4. ReqOK'
        BY <2>26, <3>3 DEF DeadLetter, TypeOK, ReqOK
      <3>5. RunOK'
        BY <2>26, WorkerMoves DEF DeadLetter, WorkerPC
      <3> QED
        BY <2>26, <3>3, <3>4, <3>5, Frame DEF DeadLetter, TypeOK, DlqOK
    <2>27. ASSUME NEW w \in Workers, MarkRetry(w) PROVE TypeOK'
      BY <2>27, RunningType, WorkerMoves, Frame DEF MarkRetry, TypeOK, LogOK, Row, WorkerPC
    <2>28. ASSUME NEW w \in Workers, HandlerFails(w) PROVE TypeOK'
      BY <2>28, WorkerMoves, SpendType, Frame DEF HandlerFails, TypeOK, WorkerPC, FaultKinds
    <2>29. ASSUME NEW w \in Workers, PublishRetry(w) PROVE TypeOK'
      <3>1. CASE Publish(Running(w), Attempt(w), "RETRY") /\ UNCHANGED faults
        <4>1. MsgsOK' /\ Len(msgs) \in Nat /\ Len(msgs') = Len(msgs) + 1
          BY <2>29, <3>1, RunningType, PublishType DEF PublishRetry, TypeOK
        <4>2. RunOK'
          BY <2>29, <4>1 DEF PublishRetry, WorkerGo, TypeOK, RunOK, WorkerPC
        <4> QED
          BY <2>29, <3>1, <4>1, <4>2, Frame DEF PublishRetry, TypeOK
      <3>2. CASE Spend("outage") /\ UNCHANGED msgs
        BY <2>29, <3>2, WorkerMoves, SpendType, Frame DEF PublishRetry, TypeOK, WorkerPC, FaultKinds
      <3> QED
        BY <2>29, <3>1, <3>2 DEF PublishRetry
    <2>30. ASSUME NEW w \in Workers, MarkParseFailed(w) PROVE TypeOK'
      BY <2>30, WorkerMoves, SpendType, Frame DEF MarkParseFailed, TypeOK, ResumeOK, WorkerPC, FaultKinds
    <2>31. ASSUME NEW w \in Workers, MarkFailure(w) PROVE TypeOK'
      BY <2>31, RunningType, WorkerMoves, SpendType, Frame DEF MarkFailure, TypeOK, LogOK, Row, WorkerPC, FaultKinds
    <2>32. ASSUME NEW s \in Scanners, ScanQueued(s) PROVE TypeOK'
      BY <2>32, EnterType, Frame, ZenonT(40) DEF ScanQueued, TypeOK, ScanOK, ScanPC, FaultKinds
    <2>33. ASSUME NEW s \in Scanners, ClaimQueued(s) PROVE TypeOK'
      BY <2>33, Frame, SMTT(30) DEF ClaimQueued, TypeOK, ScanOK, ScanPC, LogOK, Row
    <2>34. ASSUME NEW s \in Scanners, SendQueued(s) PROVE TypeOK'
      <3> DEFINE t == scan[s].task
      <3>1. t \in Requests
        BY <2>34 DEF SendQueued, TypeOK, ScanOK
      <3>2. ScanOK'
        BY <2>34, ZenonT(40) DEF SendQueued, TypeOK, ScanOK, ScanPC
      <3>3. CASE Publish(t, 0, "DISPATCH") /\ UNCHANGED <<log, faults>>
        BY <2>34, <3>1, <3>2, <3>3, Published, Frame DEF SendQueued, TypeOK
      <3>4. CASE Spend("outage") /\ log' = [log EXCEPT ![t].flag = TRUE] /\ UNCHANGED msgs
        <4>1. LogOK'
          BY <3>1, <3>4 DEF TypeOK, LogOK, Row
        <4> QED
          BY <2>34, <3>2, <3>4, <4>1, SpendType, Frame DEF SendQueued, TypeOK, FaultKinds
      <3> QED
        BY <2>34, <3>3, <3>4 DEF SendQueued
    <2>35. ASSUME NEW s \in Scanners, AskLive(s) PROVE TypeOK'
      BY <2>35, LiveType, SpendType, Frame DEF AskLive, TypeOK, ScanOK, ScanPC, FaultKinds
    <2>36. ASSUME NEW s \in Scanners, ReadStalled(s) PROVE TypeOK'
      BY <2>36, Frame, ZenonT(40) DEF ReadStalled, TypeOK, ScanOK, ScanPC
    <2>37. ASSUME NEW s \in Scanners, ClaimInFlight(s) PROVE TypeOK'
      BY <2>37, Frame DEF ClaimInFlight, TypeOK, ScanOK, ScanPC, LogOK, Row
    <2>38. ASSUME NEW s \in Scanners, SendInFlight(s) PROVE TypeOK'
      <3> DEFINE t == scan[s].task
      <3>1. t \in Requests
        BY <2>38 DEF SendInFlight, TypeOK, ScanOK
      <3>2. ScanOK'
        BY <2>38, ZenonT(40) DEF SendInFlight, TypeOK, ScanOK, ScanPC
      <3>3. CASE Publish(t, 0, "INFLIGHT") /\ UNCHANGED faults
        BY <2>38, <3>1, <3>2, <3>3, Published, Frame DEF SendInFlight, TypeOK
      <3>4. CASE Spend("outage") /\ UNCHANGED msgs
        BY <2>38, <3>2, <3>4, SpendType, Frame DEF SendInFlight, TypeOK, FaultKinds
      <3> QED
        BY <2>38, <3>3, <3>4 DEF SendInFlight
    <2>39. ASSUME NEW s \in Scanners, ScanEnds(s) PROVE TypeOK'
      BY <2>39, Frame DEF ScanEnds, TypeOK, ScanOK, ScanPC
    <2>40. ASSUME NEW s \in Scanners, ScanCrash(s) PROVE TypeOK'
      BY <2>40, SpendType, Frame DEF ScanCrash, TypeOK, ScanOK, ScanPC, FaultKinds
    <2>41. CASE VisibilityTimeout \/ SlowRedelivery \/ LoseOrphan
      <3>1. MsgsOK' /\ Len(msgs') = Len(msgs)
        BY <2>41, MoveType DEF VisibilityTimeout, SlowRedelivery, LoseOrphan, TypeOK, Places
      <3>2. RunOK'
        BY <2>41, <3>1 DEF VisibilityTimeout, SlowRedelivery, LoseOrphan, TypeOK, RunOK
      <3> QED
        BY <2>41, <3>1, <3>2, SpendType, Frame
           DEF VisibilityTimeout, SlowRedelivery, LoseOrphan, TypeOK, FaultKinds
    <2>42. CASE UNCHANGED vars
      BY <2>42, Frame DEF vars, TypeOK
    <2> QED
      BY <2>1, <2>2, <2>3, <2>4, <2>5, <2>6, <2>7, <2>8, <2>9, <2>10, <2>11, <2>12,
         <2>13, <2>14, <2>15, <2>16, <2>17, <2>18, <2>19, <2>20, <2>21, <2>22, <2>23,
         <2>24, <2>25, <2>26, <2>27, <2>28, <2>29, <2>30, <2>31, <2>32, <2>33, <2>34,
         <2>35, <2>36, <2>37, <2>38, <2>39, <2>40, <2>41, <2>42
         DEF Next, RequestStep, WorkerStep, ScanStep
  <1> QED
    BY <1>1, <1>2, PTL DEF Spec

---------------------------------------------------------------------------
(***************************************************************************)
(* Dispatch: which requests and sweeps can still send a task, against what *)
(* the broker has ever been given.  FlagMeansUnsent is not inductive: it   *)
(* needs to know that a request before its publish has sent nothing, that  *)
(* a row leaves QUEUED only through a delivered message, and that a sweep  *)
(* holding a claim is the only one holding it.                             *)
(***************************************************************************)
PreDispatch == RequestPC \ {"done"}

RequestsUnsent ==
    \A q \in Requests : req[q].pc \in PreDispatch => ~Sent(q) /\ ~log[q].flag
LoggedQueued ==
    \A q \in Requests : req[q].pc = "logged" => ~Sent(q) /\ log[q].status = "QUEUED"
FlaggedUnsent ==
    \A t \in Requests : log[t].flag => log[t].status = "QUEUED" /\ ~Sent(t)
LeftQueuedSent ==
    \A t \in Requests : log[t].status \notin {"ABSENT", "QUEUED"} => Sent(t)
ClaimedUnsent ==
    \A s \in Scanners : scan[s].pc = "resend" =>
        LET t == scan[s].task IN
        ~Sent(t) /\ ~log[t].flag /\ log[t].status = "QUEUED" /\ req[t].pc \notin PreDispatch
ClaimedOnce ==
    \A s, r \in Scanners :
        (scan[s].pc = "resend" /\ scan[r].pc = "resend" /\ scan[s].task = scan[r].task) => s = r
InFlightSent ==
    \A s \in Scanners : scan[s].pc = "redispatch" => Sent(scan[s].task)

DispatchInv == /\ RequestsUnsent /\ LoggedQueued /\ FlaggedUnsent /\ LeftQueuedSent
               /\ ClaimedUnsent /\ ClaimedOnce /\ InFlightSent /\ OneFirstDispatch

\* The broker was given nothing new.
SameSent == /\ Len(msgs) \in Nat /\ Len(msgs') = Len(msgs)
            /\ \A j \in 1..Len(msgs) : /\ msgs'[j].task = msgs[j].task
                                       /\ msgs'[j].retries = msgs[j].retries
                                       /\ msgs'[j].by = msgs[j].by

LEMMA SentFrame ==
    ASSUME SameSent
    PROVE  /\ \A t : Sent(t)' <=> Sent(t)
           /\ OneFirstDispatch => OneFirstDispatch'
  BY DEF SameSent, Sent, OneFirstDispatch

LEMMA PublishSent ==
    ASSUME TypeOK, NEW t \in Requests, NEW r \in Nat,
           NEW by \in {"DISPATCH", "RETRY", "INFLIGHT"}, Publish(t, r, by)
    PROVE  /\ \A u : Sent(u)' <=> (Sent(u) \/ u = t)
           /\ (OneFirstDispatch /\ (by # "DISPATCH" \/ ~Sent(t))) => OneFirstDispatch'
  <1>1. /\ Len(msgs) \in Nat
        /\ Len(msgs') = Len(msgs) + 1
        /\ \A i \in 1..Len(msgs) : msgs'[i] = msgs[i]
        /\ msgs'[Len(msgs) + 1] = [task |-> t, retries |-> r, at |-> "QUEUE", by |-> by]
    BY PublishType DEF TypeOK
  <1>2. \A u : Sent(u)' <=> (Sent(u) \/ u = t)
    BY <1>1 DEF Sent
  <1>3. ASSUME OneFirstDispatch, by # "DISPATCH" \/ ~Sent(t)
        PROVE  OneFirstDispatch'
    <2> SUFFICES ASSUME NEW i \in 1..Len(msgs'), NEW j \in 1..Len(msgs'),
                        msgs'[i].task = msgs'[j].task,
                        msgs'[i].by = "DISPATCH", msgs'[j].by = "DISPATCH"
                 PROVE  i = j
      BY DEF OneFirstDispatch
    <2>1. CASE i \in 1..Len(msgs) /\ j \in 1..Len(msgs)
      BY <1>1, <1>3, <2>1 DEF OneFirstDispatch
    <2>2. ASSUME NEW k \in 1..Len(msgs), msgs'[k].task = t, by = "DISPATCH"
          PROVE  FALSE
      BY <1>1, <1>3, <2>2 DEF Sent
    <2>3. CASE i = Len(msgs) + 1 /\ j \in 1..Len(msgs)
      BY <1>1, <2>2, <2>3
    <2>4. CASE j = Len(msgs) + 1 /\ i \in 1..Len(msgs)
      BY <1>1, <2>2, <2>4
    <2> QED
      BY <1>1, <2>1, <2>3, <2>4
  <1> QED
    BY <1>2, <1>3

(* A busy worker runs a message the broker was given.                      *)
LEMMA RunningSent ==
    ASSUME TypeOK, NEW w \in Workers, run[w].pc # "idle"
    PROVE  Sent(Running(w))
  BY DEF TypeOK, RunOK, Sent, Running

LEMMA MovedSent ==
    ASSUME TypeOK, UNCHANGED msgs \/ \E i \in DOMAIN msgs, p \in Places \cup Workers : Move(i, p)
    PROVE  SameSent
  <1>1. Len(msgs) \in Nat
    BY LenProperties DEF TypeOK, MsgsOK
  <1> QED
    BY <1>1, MoveType DEF TypeOK, SameSent

(* Steps of the worker or the broker that touch no row, request or sweep.  *)
LEMMA QuietStep ==
    ASSUME DispatchInv, UNCHANGED log, UNCHANGED req, UNCHANGED scan, SameSent
    PROVE  DispatchInv'
  <1>1. /\ \A t : Sent(t)' <=> Sent(t)
        /\ OneFirstDispatch'
    BY SentFrame
       DEF DispatchInv, RequestsUnsent, LoggedQueued, FlaggedUnsent,
           LeftQueuedSent, ClaimedUnsent, ClaimedOnce, InFlightSent
  <1> QED
    BY <1>1
       DEF DispatchInv, RequestsUnsent, LoggedQueued, FlaggedUnsent,
           LeftQueuedSent, ClaimedUnsent, ClaimedOnce, InFlightSent

(* Steps of a worker that write the row of the task it runs.               *)
LEMMA WorkerRowStep ==
    ASSUME TypeOK, DispatchInv, NEW w \in Workers, run[w].pc # "idle",
           UNCHANGED req, UNCHANGED scan, UNCHANGED msgs,
           \A t \in Requests : t # Running(w) => log'[t] = log[t],
           ~log[Running(w)].flag => ~log'[Running(w)].flag
    PROVE  DispatchInv'
  <1>1. Sent(Running(w)) /\ Running(w) \in Requests
    BY RunningSent, RunningType
  <1>2. ~log'[Running(w)].flag
    BY <1>1
       DEF DispatchInv, RequestsUnsent, LoggedQueued, FlaggedUnsent,
           LeftQueuedSent, ClaimedUnsent, ClaimedOnce, InFlightSent
  <1>3. /\ \A t : Sent(t)' <=> Sent(t)
        /\ OneFirstDispatch'
    BY MovedSent, SentFrame
       DEF DispatchInv, RequestsUnsent, LoggedQueued, FlaggedUnsent,
           LeftQueuedSent, ClaimedUnsent, ClaimedOnce, InFlightSent
  <1>4. \A s \in Scanners : scan[s].pc = "resend" => scan[s].task \in Requests
    BY DEF TypeOK, ScanOK
  <1> QED
    BY <1>1, <1>2, <1>3, <1>4
       DEF DispatchInv, RequestsUnsent, LoggedQueued, FlaggedUnsent,
           LeftQueuedSent, ClaimedUnsent, ClaimedOnce, InFlightSent

(* Steps of a request that publish nothing and write no flag.              *)
LEMMA RequestOnly ==
    ASSUME TypeOK, DispatchInv, NEW q \in Requests, NEW pc \in RequestPC,
           UNCHANGED log, UNCHANGED scan, UNCHANGED msgs,
           req[q].pc \in PreDispatch, pc # "logged",
           \A r \in Requests : r # q => req'[r] = req[r],
           req'[q].pc = pc
    PROVE  DispatchInv'
  <1>1. /\ \A t : Sent(t)' <=> Sent(t)
        /\ OneFirstDispatch'
    BY MovedSent, SentFrame
       DEF DispatchInv, RequestsUnsent, LoggedQueued, FlaggedUnsent,
           LeftQueuedSent, ClaimedUnsent, ClaimedOnce, InFlightSent
  <1>2. \A s \in Scanners : scan[s].pc = "resend" => scan[s].task \in Requests /\ scan[s].task # q
    BY DEF TypeOK, ScanOK, DispatchInv, RequestsUnsent, LoggedQueued, FlaggedUnsent,
           LeftQueuedSent, ClaimedUnsent, ClaimedOnce, InFlightSent
  <1> QED
    BY <1>1, <1>2
       DEF DispatchInv, RequestsUnsent, LoggedQueued, FlaggedUnsent,
           LeftQueuedSent, ClaimedUnsent, ClaimedOnce, InFlightSent

(* A request that publishes its own task for the first time.               *)
LEMMA RequestPublishes ==
    ASSUME TypeOK, DispatchInv, NEW q \in Requests, req[q].pc \in PreDispatch,
           Publish(q, 0, "DISPATCH"), RequestGo(q, "done"), UNCHANGED log, UNCHANGED scan
    PROVE  DispatchInv'
  <1>1. ~Sent(q) /\ ~log[q].flag
    BY DEF DispatchInv, RequestsUnsent, LoggedQueued, FlaggedUnsent,
           LeftQueuedSent, ClaimedUnsent, ClaimedOnce, InFlightSent
  <1>2. /\ \A u : Sent(u)' <=> (Sent(u) \/ u = q)
        /\ OneFirstDispatch'
    BY <1>1, PublishSent
       DEF DispatchInv, RequestsUnsent, LoggedQueued, FlaggedUnsent,
           LeftQueuedSent, ClaimedUnsent, ClaimedOnce, InFlightSent
  <1>3. req'[q].pc = "done" /\ \A r \in Requests : r # q => req'[r] = req[r]
    BY DEF RequestGo, TypeOK, ReqOK
  <1>4. \A s \in Scanners : scan[s].pc = "resend" => scan[s].task \in Requests /\ scan[s].task # q
    BY DEF TypeOK, ScanOK, DispatchInv, RequestsUnsent, LoggedQueued, FlaggedUnsent,
           LeftQueuedSent, ClaimedUnsent, ClaimedOnce, InFlightSent
  <1> QED
    BY <1>1, <1>2, <1>3, <1>4
       DEF DispatchInv, RequestsUnsent, LoggedQueued, FlaggedUnsent,
           LeftQueuedSent, ClaimedUnsent, ClaimedOnce, InFlightSent, PreDispatch

(* Steps of a sweep that hold no claim afterwards and write nothing.       *)
LEMMA ScanOnly ==
    ASSUME TypeOK, DispatchInv, NEW s \in Scanners, UNCHANGED log, UNCHANGED req, UNCHANGED msgs,
           scan'[s].pc \notin {"resend", "redispatch"},
           \A r \in Scanners : r # s => scan'[r] = scan[r]
    PROVE  DispatchInv'
  <1>1. /\ \A t : Sent(t)' <=> Sent(t)
        /\ OneFirstDispatch'
    BY MovedSent, SentFrame
       DEF DispatchInv, RequestsUnsent, LoggedQueued, FlaggedUnsent,
           LeftQueuedSent, ClaimedUnsent, ClaimedOnce, InFlightSent
  <1> QED
    BY <1>1
       DEF DispatchInv, RequestsUnsent, LoggedQueued, FlaggedUnsent,
           LeftQueuedSent, ClaimedUnsent, ClaimedOnce, InFlightSent

LEMMA DispatchInit == Init => DispatchInv
  <1> SUFFICES ASSUME Init PROVE DispatchInv
    OBVIOUS
  <1>1. Len(msgs) = 0 /\ \A t : ~Sent(t)
    BY DEF Init, Sent
  <1>2. \A t \in Requests : /\ log[t].status = "ABSENT" /\ ~log[t].flag
                            /\ req[t].pc = "idle"
    BY DEF Init, NewRow
  <1>3. RequestsUnsent /\ LoggedQueued /\ FlaggedUnsent /\ LeftQueuedSent
    BY <1>1, <1>2 DEF RequestsUnsent, LoggedQueued, FlaggedUnsent, LeftQueuedSent
  <1>4. ClaimedUnsent /\ ClaimedOnce /\ InFlightSent
    BY DEF Init, ClaimedUnsent, ClaimedOnce, InFlightSent
  <1>5. OneFirstDispatch
    BY <1>1 DEF OneFirstDispatch
  <1> QED
    BY <1>3, <1>4, <1>5 DEF DispatchInv

LEMMA DispatchStep ==
    ASSUME TypeOK, DispatchInv, [Next]_vars
    PROVE  DispatchInv'
  <1>1. ASSUME NEW q \in Requests, UploadStore(q) PROVE DispatchInv'
    BY <1>1, RequestOnly DEF UploadStore, RequestGo, TypeOK, ReqOK, PreDispatch, RequestPC
  <1>2. ASSUME NEW q \in Requests, UploadRecordTask(q) PROVE DispatchInv'
    BY <1>2, RequestOnly DEF UploadRecordTask, RequestGo, TypeOK, ReqOK, PreDispatch, RequestPC
  <1>3. ASSUME NEW q \in Requests, RetryRead(q) PROVE DispatchInv'
    BY <1>3, RequestOnly DEF RetryRead, RequestGo, TypeOK, ReqOK, PreDispatch, RequestPC
  <1>4. ASSUME NEW q \in Requests, RetryCommit(q) PROVE DispatchInv'
    BY <1>4, RequestOnly DEF RetryCommit, RequestGo, TypeOK, ReqOK, PreDispatch, RequestPC
  <1>5. ASSUME NEW q \in Requests, UploadLog(q) PROVE DispatchInv'
    <2>1. ~Sent(q) /\ \A s \in Scanners : scan[s].pc = "resend" =>
                        scan[s].task \in Requests /\ scan[s].task # q
      BY <1>5 DEF UploadLog, DispatchInv, RequestsUnsent, ClaimedUnsent, PreDispatch, RequestPC,
               TypeOK, ScanOK
    <2>2. /\ log'[q].status = "QUEUED" /\ ~log'[q].flag
          /\ \A t \in Requests : t # q => log'[t] = log[t]
      BY <1>5 DEF UploadLog, TypeOK, LogOK, NewRow
    <2>3. req'[q].pc = "logged" /\ \A r \in Requests : r # q => req'[r] = req[r]
      BY <1>5 DEF UploadLog, RequestGo, TypeOK, ReqOK
    <2>4. /\ \A t : Sent(t)' <=> Sent(t)
          /\ OneFirstDispatch'
      BY <1>5, MovedSent, SentFrame
         DEF UploadLog, DispatchInv, RequestsUnsent, LoggedQueued, FlaggedUnsent,
             LeftQueuedSent, ClaimedUnsent, ClaimedOnce, InFlightSent
    <2>5. RequestsUnsent' /\ LoggedQueued' /\ FlaggedUnsent' /\ LeftQueuedSent'
      BY <1>5, <2>1, <2>2, <2>3, <2>4
         DEF DispatchInv, RequestsUnsent, LoggedQueued, FlaggedUnsent, LeftQueuedSent
    <2>6. ClaimedUnsent' /\ ClaimedOnce' /\ InFlightSent'
      BY <1>5, <2>1, <2>2, <2>3, <2>4, ZenonT(40)
         DEF UploadLog, DispatchInv, ClaimedUnsent, ClaimedOnce, InFlightSent
    <2> QED
      BY <2>4, <2>5, <2>6 DEF DispatchInv
  <1>6. ASSUME NEW q \in Requests, UploadDispatch(q) PROVE DispatchInv'
    <2>1. CASE Publish(q, 0, "DISPATCH") /\ UNCHANGED <<log, faults>>
      BY <1>6, <2>1, RequestPublishes DEF UploadDispatch, PreDispatch, RequestPC
    <2>2. CASE Spend("outage") /\ log' = [log EXCEPT ![q].flag = TRUE] /\ UNCHANGED msgs
      <3>1. /\ ~Sent(q) /\ log[q].status = "QUEUED"
            /\ \A s \in Scanners : scan[s].pc = "resend" =>
                        scan[s].task \in Requests /\ scan[s].task # q
        BY <1>6 DEF UploadDispatch, DispatchInv, RequestsUnsent, LoggedQueued, ClaimedUnsent,
                 PreDispatch, RequestPC, TypeOK, ScanOK
      <3>2. /\ log'[q].status = "QUEUED"
            /\ \A t \in Requests : t # q => log'[t] = log[t]
        BY <2>2, <3>1 DEF TypeOK, LogOK, Row
      <3>3. req'[q].pc = "done" /\ \A r \in Requests : r # q => req'[r] = req[r]
        BY <1>6 DEF UploadDispatch, RequestGo, TypeOK, ReqOK
      <3>4. /\ \A t : Sent(t)' <=> Sent(t)
            /\ OneFirstDispatch'
        BY <2>2, MovedSent, SentFrame
           DEF DispatchInv, RequestsUnsent, LoggedQueued, FlaggedUnsent,
               LeftQueuedSent, ClaimedUnsent, ClaimedOnce, InFlightSent
      <3>5. RequestsUnsent' /\ LoggedQueued'
        BY <3>2, <3>3, <3>4 DEF DispatchInv, RequestsUnsent, LoggedQueued, PreDispatch
      <3>6. FlaggedUnsent' /\ LeftQueuedSent'
        BY <3>1, <3>2, <3>4 DEF DispatchInv, FlaggedUnsent, LeftQueuedSent
      <3>7. ClaimedUnsent' /\ ClaimedOnce' /\ InFlightSent'
        BY <1>6, <3>1, <3>2, <3>3, <3>4
           DEF UploadDispatch, DispatchInv, ClaimedUnsent, ClaimedOnce, InFlightSent, PreDispatch
      <3> QED
        BY <3>4, <3>5, <3>6, <3>7 DEF DispatchInv
    <2> QED
      BY <1>6, <2>1, <2>2 DEF UploadDispatch
  <1>7. ASSUME NEW q \in Requests, ReplayRead(q) PROVE DispatchInv'
    BY <1>7, RequestOnly DEF ReplayRead, RequestGo, TypeOK, ReqOK, PreDispatch, RequestPC
  <1>8. ASSUME NEW q \in Requests, ReplayCommit(q) PROVE DispatchInv'
    BY <1>8, RequestOnly DEF ReplayCommit, RequestGo, TypeOK, ReqOK, PreDispatch, RequestPC
  <1>9. ASSUME NEW q \in Requests, Redispatch(q) PROVE DispatchInv'
    <2>1. CASE Publish(q, 0, "DISPATCH")
      BY <1>9, <2>1, RequestPublishes DEF Redispatch, PreDispatch, RequestPC
    <2>2. CASE UNCHANGED msgs
      BY <1>9, <2>2, RequestOnly DEF Redispatch, RequestGo, TypeOK, ReqOK, PreDispatch, RequestPC
    <2> QED
      BY <1>9, <2>1, <2>2 DEF Redispatch
  <1>10. ASSUME NEW q \in Requests, RequestCrash(q) PROVE DispatchInv'
    <2>1. req[q].pc \in RequestPC
      BY DEF TypeOK, ReqOK
    <2> QED
      BY <1>10, <2>1, RequestOnly DEF RequestCrash, RequestGo, TypeOK, ReqOK, PreDispatch, RequestPC
  <1>11. ASSUME NEW q \in Requests, GrowOld(q) PROVE DispatchInv'
    <2>1. \A t \in Requests : log'[t].flag = log[t].flag /\ log'[t].status = log[t].status
      BY <1>11 DEF GrowOld, TypeOK, LogOK, Row
    <2>2. /\ \A t : Sent(t)' <=> Sent(t)
          /\ OneFirstDispatch'
      BY <1>11, MovedSent, SentFrame
         DEF GrowOld, DispatchInv, RequestsUnsent, LoggedQueued, FlaggedUnsent,
             LeftQueuedSent, ClaimedUnsent, ClaimedOnce, InFlightSent
    <2>3. RequestsUnsent' /\ LoggedQueued' /\ FlaggedUnsent' /\ LeftQueuedSent'
      BY <1>11, <2>1, <2>2
         DEF GrowOld, DispatchInv, RequestsUnsent, LoggedQueued, FlaggedUnsent, LeftQueuedSent
    <2>4. ClaimedUnsent'
      BY <1>11, <2>1, <2>2 DEF GrowOld, DispatchInv, ClaimedUnsent, TypeOK, ScanOK
    <2>5. ClaimedOnce' /\ InFlightSent'
      BY <1>11, <2>2 DEF GrowOld, DispatchInv, ClaimedOnce, InFlightSent
    <2> QED
      BY <2>2, <2>3, <2>4, <2>5 DEF DispatchInv
  <1>12. ASSUME NEW w \in Workers, Receive(w) PROVE DispatchInv'
    BY <1>12, MovedSent, QuietStep DEF Receive
  <1>13. ASSUME NEW w \in Workers, Ack(w) PROVE DispatchInv'
    <2>1. SameSent
      BY <1>13, ReleaseType, LenProperties DEF Ack, SameSent, TypeOK, MsgsOK, Places
    <2> QED
      BY <1>13, <2>1, QuietStep DEF Ack
  <1>14. ASSUME NEW w \in Workers, WorkerCrash(w) PROVE DispatchInv'
    <2>1. SameSent
      BY <1>14, ReleaseType, LenProperties DEF WorkerCrash, SameSent, TypeOK, MsgsOK, Places
    <2> QED
      BY <1>14, <2>1, QuietStep DEF WorkerCrash
  <1>15. ASSUME NEW w \in Workers, CreateLog(w) PROVE DispatchInv'
    BY <1>15, WorkerRowStep, RunningType DEF CreateLog, TypeOK, LogOK, Row, NewRow
  <1>16. ASSUME NEW w \in Workers, MarkRunning(w) PROVE DispatchInv'
    BY <1>16, WorkerRowStep, RunningType DEF MarkRunning, TypeOK, LogOK, Row
  <1>17. ASSUME NEW w \in Workers, LinkTask(w) PROVE DispatchInv'
    BY <1>17, WorkerRowStep, RunningType DEF LinkTask, TypeOK, LogOK, Row
  <1>18. ASSUME NEW w \in Workers, MarkSuccess(w) PROVE DispatchInv'
    BY <1>18, WorkerRowStep, RunningType DEF MarkSuccess, TypeOK, LogOK, Row
  <1>19. ASSUME NEW w \in Workers, MarkRetry(w) PROVE DispatchInv'
    BY <1>19, WorkerRowStep, RunningType DEF MarkRetry, TypeOK, LogOK, Row
  <1>20. ASSUME NEW w \in Workers, MarkFailure(w) PROVE DispatchInv'
    BY <1>20, WorkerRowStep, RunningType DEF MarkFailure, TypeOK, LogOK, Row
  <1>21. ASSUME NEW w \in Workers, FailOutsideStage(w) PROVE DispatchInv'
    BY <1>21, MovedSent, QuietStep DEF FailOutsideStage
  <1>22. ASSUME NEW w \in Workers, StageFails(w) PROVE DispatchInv'
    BY <1>22, MovedSent, QuietStep DEF StageFails
  <1>23. ASSUME NEW w \in Workers, Persist(w) PROVE DispatchInv'
    BY <1>23, MovedSent, QuietStep DEF Persist
  <1>24. ASSUME NEW w \in Workers, PersistConflict(w) PROVE DispatchInv'
    BY <1>24, MovedSent, QuietStep DEF PersistConflict
  <1>25. ASSUME NEW w \in Workers, MoveToScreening(w) PROVE DispatchInv'
    BY <1>25, MovedSent, QuietStep DEF MoveToScreening
  <1>26. ASSUME NEW w \in Workers, CreateScoringRow(w) PROVE DispatchInv'
    BY <1>26, MovedSent, QuietStep DEF CreateScoringRow
  <1>27. ASSUME NEW w \in Workers, DispatchScoring(w) PROVE DispatchInv'
    BY <1>27, MovedSent, QuietStep DEF DispatchScoring
  <1>28. ASSUME NEW w \in Workers, DeadLetter(w) PROVE DispatchInv'
    BY <1>28, MovedSent, QuietStep DEF DeadLetter
  <1>29. ASSUME NEW w \in Workers, HandlerFails(w) PROVE DispatchInv'
    BY <1>29, MovedSent, QuietStep DEF HandlerFails
  <1>30. ASSUME NEW w \in Workers, MarkParseFailed(w) PROVE DispatchInv'
    BY <1>30, MovedSent, QuietStep DEF MarkParseFailed
  <1>31. ASSUME NEW w \in Workers, PublishRetry(w) PROVE DispatchInv'
    <2>1. CASE Publish(Running(w), Attempt(w), "RETRY")
      <3>1. Sent(Running(w)) /\ Running(w) \in Requests /\ Attempt(w) \in Nat
        BY <1>31, RunningSent, RunningType DEF PublishRetry
      <3>2. /\ \A u : Sent(u)' <=> Sent(u)
            /\ OneFirstDispatch'
        BY <2>1, <3>1, PublishSent
           DEF DispatchInv, RequestsUnsent, LoggedQueued, FlaggedUnsent,
               LeftQueuedSent, ClaimedUnsent, ClaimedOnce, InFlightSent
      <3> QED
        BY <1>31, <3>2
           DEF PublishRetry, DispatchInv, RequestsUnsent, LoggedQueued, FlaggedUnsent,
               LeftQueuedSent, ClaimedUnsent, ClaimedOnce, InFlightSent
    <2>2. CASE UNCHANGED msgs
      BY <1>31, <2>2, MovedSent, QuietStep DEF PublishRetry
    <2> QED
      BY <1>31, <2>1, <2>2 DEF PublishRetry
  <1>32. ASSUME NEW s \in Scanners, ScanQueued(s) PROVE DispatchInv'
    BY <1>32, ScanOnly DEF ScanQueued, TypeOK, ScanOK
  <1>33. ASSUME NEW s \in Scanners, ClaimQueued(s) PROVE DispatchInv'
    <2>1. PICK t \in scan[s].todo :
             \/ /\ log[t].flag
                /\ log' = [log EXCEPT ![t].flag = FALSE]
                /\ scan' = [scan EXCEPT ![s].pc = "resend", ![s].task = t, ![s].todo = @ \ {t}]
             \/ scan' = [scan EXCEPT ![s].todo = @ \ {t}] /\ UNCHANGED log
      BY <1>33 DEF ClaimQueued
    <2>2. t \in Requests
      BY DEF TypeOK, ScanOK
    <2>3. CASE UNCHANGED log /\ scan' = [scan EXCEPT ![s].todo = @ \ {t}]
      BY <1>33, <2>3, ScanOnly DEF ClaimQueued, TypeOK, ScanOK
    <2>4. CASE /\ log[t].flag
               /\ log' = [log EXCEPT ![t].flag = FALSE]
               /\ scan' = [scan EXCEPT ![s].pc = "resend", ![s].task = t, ![s].todo = @ \ {t}]
      <3>1. /\ ~log'[t].flag /\ log'[t].status = "QUEUED"
            /\ \A r \in Requests : r # t => log'[r] = log[r]
        BY <2>2, <2>4 DEF TypeOK, LogOK, Row, DispatchInv, FlaggedUnsent, InFlight
      <3>2. /\ scan'[s].pc = "resend" /\ scan'[s].task = t
            /\ \A r \in Scanners : r # s => scan'[r] = scan[r]
        BY <2>4 DEF TypeOK, ScanOK
      <3>3. ~Sent(t) /\ req[t].pc \notin PreDispatch
        BY <2>2, <2>4 DEF DispatchInv, RequestsUnsent, FlaggedUnsent
      <3>4. \A r \in Scanners : scan[r].pc = "resend" =>
               scan[r].task \in Requests /\ scan[r].task # t
        BY <2>2, <2>4, <3>3
           DEF TypeOK, ScanOK, DispatchInv, RequestsUnsent, LoggedQueued, FlaggedUnsent,
               LeftQueuedSent, ClaimedUnsent, ClaimedOnce, InFlightSent
      <3>5. /\ \A u : Sent(u)' <=> Sent(u)
            /\ OneFirstDispatch'
        BY <1>33, MovedSent, SentFrame
           DEF ClaimQueued, DispatchInv, RequestsUnsent, LoggedQueued, FlaggedUnsent,
               LeftQueuedSent, ClaimedUnsent, ClaimedOnce, InFlightSent
      <3> QED
        BY <1>33, <2>2, <3>1, <3>2, <3>3, <3>4, <3>5
           DEF ClaimQueued, DispatchInv, RequestsUnsent, LoggedQueued, FlaggedUnsent,
               LeftQueuedSent, ClaimedUnsent, ClaimedOnce, InFlightSent
    <2> QED
      BY <2>1, <2>3, <2>4
  <1>34. ASSUME NEW s \in Scanners, SendQueued(s) PROVE DispatchInv'
    <2> DEFINE t == scan[s].task
    <2>1. /\ t \in Requests /\ ~Sent(t) /\ ~log[t].flag /\ log[t].status = "QUEUED"
          /\ req[t].pc \notin PreDispatch
          /\ \A r \in Scanners : (r # s /\ scan[r].pc = "resend") =>
                scan[r].task \in Requests /\ scan[r].task # t
      BY <1>34 DEF SendQueued, DispatchInv, ClaimedUnsent, ClaimedOnce, TypeOK, ScanOK
    <2>2. /\ scan'[s].pc = "queued"
          /\ \A r \in Scanners : r # s => scan'[r] = scan[r]
      BY <1>34 DEF SendQueued, TypeOK, ScanOK
    <2>3. CASE Publish(t, 0, "DISPATCH") /\ UNCHANGED <<log, faults>>
      <3>1. /\ \A u : Sent(u)' <=> (Sent(u) \/ u = t)
            /\ OneFirstDispatch'
        BY <2>1, <2>3, PublishSent
           DEF DispatchInv, RequestsUnsent, LoggedQueued, FlaggedUnsent,
               LeftQueuedSent, ClaimedUnsent, ClaimedOnce, InFlightSent
      <3>2. RequestsUnsent' /\ LoggedQueued'
        BY <1>34, <2>1, <2>2, <2>3, <3>1
           DEF SendQueued, PreDispatch, RequestPC, DispatchInv, RequestsUnsent, LoggedQueued
      <3>3. FlaggedUnsent' /\ LeftQueuedSent'
        BY <1>34, <2>1, <2>2, <2>3, <3>1
           DEF SendQueued, DispatchInv, FlaggedUnsent, LeftQueuedSent
      <3>4. ClaimedUnsent'
        BY <1>34, <2>1, <2>2, <2>3, <3>1 DEF SendQueued, DispatchInv, ClaimedUnsent
      <3>5. ClaimedOnce'
        BY <2>2 DEF DispatchInv, ClaimedOnce
      <3>6. InFlightSent'
        BY <2>2, <3>1 DEF DispatchInv, InFlightSent
      <3> QED
        BY <3>1, <3>2, <3>3, <3>4, <3>5, <3>6 DEF DispatchInv
    <2>4. CASE Spend("outage") /\ log' = [log EXCEPT ![t].flag = TRUE] /\ UNCHANGED msgs
      <3>1. /\ log'[t].status = "QUEUED"
            /\ \A r \in Requests : r # t => log'[r] = log[r]
        BY <2>1, <2>4 DEF TypeOK, LogOK, Row
      <3>2. /\ \A u : Sent(u)' <=> Sent(u)
            /\ OneFirstDispatch'
        BY <2>4, MovedSent, SentFrame
           DEF DispatchInv, RequestsUnsent, LoggedQueued, FlaggedUnsent,
               LeftQueuedSent, ClaimedUnsent, ClaimedOnce, InFlightSent
      <3>3. RequestsUnsent' /\ LoggedQueued'
        BY <1>34, <2>1, <2>2, <3>1, <3>2
           DEF SendQueued, PreDispatch, RequestPC, DispatchInv, RequestsUnsent, LoggedQueued
      <3>4. FlaggedUnsent' /\ LeftQueuedSent'
        BY <1>34, <2>1, <2>2, <3>1, <3>2
           DEF SendQueued, DispatchInv, FlaggedUnsent, LeftQueuedSent
      <3>5. ClaimedUnsent'
        BY <1>34, <2>1, <2>2, <3>1, <3>2, ZenonT(40) DEF SendQueued, DispatchInv, ClaimedUnsent
      <3>6. ClaimedOnce'
        BY <2>2 DEF DispatchInv, ClaimedOnce
      <3>7. InFlightSent'
        BY <2>2, <3>2 DEF DispatchInv, InFlightSent
      <3> QED
        BY <3>2, <3>3, <3>4, <3>5, <3>6, <3>7 DEF DispatchInv
    <2> QED
      BY <1>34, <2>3, <2>4 DEF SendQueued
  <1>35. ASSUME NEW s \in Scanners, AskLive(s) PROVE DispatchInv'
    BY <1>35, ScanOnly DEF AskLive, TypeOK, ScanOK
  <1>36. ASSUME NEW s \in Scanners, ReadStalled(s) PROVE DispatchInv'
    BY <1>36, ScanOnly DEF ReadStalled, TypeOK, ScanOK
  <1>37. ASSUME NEW s \in Scanners, ClaimInFlight(s) PROVE DispatchInv'
    <2>1. PICK t \in scan[s].todo :
             \/ /\ log[t].status \in InFlight /\ ~log[t].done
                /\ log' = [log EXCEPT ![t].status = "QUEUED", ![t].age = "NONE"]
                /\ scan' = [scan EXCEPT ![s].pc = "redispatch", ![s].task = t, ![s].todo = @ \ {t}]
             \/ scan' = [scan EXCEPT ![s].todo = @ \ {t}] /\ UNCHANGED log
      BY <1>37 DEF ClaimInFlight
    <2>2. t \in Requests
      BY DEF TypeOK, ScanOK
    <2>3. CASE UNCHANGED log /\ scan' = [scan EXCEPT ![s].todo = @ \ {t}]
      BY <1>37, <2>3, ScanOnly DEF ClaimInFlight, TypeOK, ScanOK
    <2>4. CASE /\ log[t].status \in InFlight /\ ~log[t].done
               /\ log' = [log EXCEPT ![t].status = "QUEUED", ![t].age = "NONE"]
               /\ scan' = [scan EXCEPT ![s].pc = "redispatch", ![s].task = t, ![s].todo = @ \ {t}]
      <3>1. /\ ~log'[t].flag /\ log'[t].status = "QUEUED"
            /\ \A r \in Requests : r # t => log'[r] = log[r]
        BY <2>2, <2>4 DEF TypeOK, LogOK, Row, DispatchInv, FlaggedUnsent, InFlight
      <3>2. /\ scan'[s].pc = "redispatch" /\ scan'[s].task = t
            /\ \A r \in Scanners : r # s => scan'[r] = scan[r]
        BY <2>4 DEF TypeOK, ScanOK
      <3>3. Sent(t)
        BY <2>2, <2>4 DEF DispatchInv, LeftQueuedSent, InFlight
      <3>4. \A r \in Scanners : scan[r].pc = "resend" =>
               scan[r].task \in Requests /\ scan[r].task # t
        BY <2>2, <2>4, <3>3
           DEF TypeOK, ScanOK, DispatchInv, RequestsUnsent, LoggedQueued, FlaggedUnsent,
               LeftQueuedSent, ClaimedUnsent, ClaimedOnce, InFlightSent
      <3>5. /\ \A u : Sent(u)' <=> Sent(u)
            /\ OneFirstDispatch'
        BY <1>37, MovedSent, SentFrame
           DEF ClaimInFlight, DispatchInv, RequestsUnsent, LoggedQueued, FlaggedUnsent,
               LeftQueuedSent, ClaimedUnsent, ClaimedOnce, InFlightSent
      <3> QED
        BY <1>37, <2>2, <3>1, <3>2, <3>3, <3>4, <3>5
           DEF ClaimInFlight, DispatchInv, RequestsUnsent, LoggedQueued, FlaggedUnsent,
               LeftQueuedSent, ClaimedUnsent, ClaimedOnce, InFlightSent
    <2> QED
      BY <2>1, <2>3, <2>4
  <1>38. ASSUME NEW s \in Scanners, SendInFlight(s) PROVE DispatchInv'
    <2> DEFINE t == scan[s].task
    <2>1. t \in Requests /\ Sent(t)
      BY <1>38 DEF SendInFlight, DispatchInv, InFlightSent, TypeOK, ScanOK
    <2>2. /\ scan'[s].pc = "stalled"
          /\ \A r \in Scanners : r # s => scan'[r] = scan[r]
      BY <1>38 DEF SendInFlight, TypeOK, ScanOK
    <2>3. /\ \A u : Sent(u)' <=> Sent(u)
          /\ OneFirstDispatch'
      <3>1. CASE Publish(t, 0, "INFLIGHT")
        BY <2>1, <3>1, PublishSent
           DEF DispatchInv, RequestsUnsent, LoggedQueued, FlaggedUnsent,
               LeftQueuedSent, ClaimedUnsent, ClaimedOnce, InFlightSent
      <3>2. CASE UNCHANGED msgs
        BY <3>2, MovedSent, SentFrame
           DEF DispatchInv, RequestsUnsent, LoggedQueued, FlaggedUnsent,
               LeftQueuedSent, ClaimedUnsent, ClaimedOnce, InFlightSent
      <3> QED
        BY <1>38, <3>1, <3>2 DEF SendInFlight
    <2>4. RequestsUnsent' /\ LoggedQueued' /\ FlaggedUnsent' /\ LeftQueuedSent'
      BY <1>38, <2>3
         DEF SendInFlight, DispatchInv, RequestsUnsent, LoggedQueued, FlaggedUnsent, LeftQueuedSent
    <2>5. ClaimedUnsent'
      BY <1>38, <2>2, <2>3 DEF SendInFlight, DispatchInv, ClaimedUnsent
    <2>6. ClaimedOnce'
      BY <2>2 DEF DispatchInv, ClaimedOnce
    <2>7. InFlightSent'
      BY <2>2, <2>3 DEF DispatchInv, InFlightSent
    <2> QED
      BY <2>3, <2>4, <2>5, <2>6, <2>7 DEF DispatchInv
  <1>39. ASSUME NEW s \in Scanners, ScanEnds(s) PROVE DispatchInv'
    BY <1>39, ScanOnly DEF ScanEnds, TypeOK, ScanOK
  <1>40. ASSUME NEW s \in Scanners, ScanCrash(s) PROVE DispatchInv'
    BY <1>40, ScanOnly DEF ScanCrash, TypeOK, ScanOK
  <1>41. CASE VisibilityTimeout \/ SlowRedelivery \/ LoseOrphan
    <2>1. SameSent
      BY <1>41, MovedSent DEF VisibilityTimeout, SlowRedelivery, LoseOrphan, Places
    <2> QED
      BY <1>41, <2>1, QuietStep DEF VisibilityTimeout, SlowRedelivery, LoseOrphan
  <1>42. CASE UNCHANGED vars
    BY <1>42, MovedSent, QuietStep DEF vars
  <1> QED
    BY <1>1, <1>2, <1>3, <1>4, <1>5, <1>6, <1>7, <1>8, <1>9, <1>10, <1>11, <1>12,
       <1>13, <1>14, <1>15, <1>16, <1>17, <1>18, <1>19, <1>20, <1>21, <1>22, <1>23,
       <1>24, <1>25, <1>26, <1>27, <1>28, <1>29, <1>30, <1>31, <1>32, <1>33, <1>34,
       <1>35, <1>36, <1>37, <1>38, <1>39, <1>40, <1>41, <1>42
       DEF Next, RequestStep, WorkerStep, ScanStep

THEOREM DispatchInvariant == Spec => []DispatchInv
  <1>1. Init => DispatchInv
    BY DispatchInit
  <1>2. TypeOK /\ DispatchInv /\ [Next]_vars => DispatchInv'
    BY DispatchStep
  <1> QED
    BY <1>1, <1>2, TypeCorrect, PTL DEF Spec

(* A row flagged dispatch_failed was never delivered and nobody is about   *)
(* to send it: the recovery sweep may send it under the same task id.      *)
THEOREM FlagSafe == Spec => []FlagMeansUnsent
  <1>1. TypeOK /\ DispatchInv => FlagMeansUnsent
    BY DEF TypeOK, ScanOK, DispatchInv, RequestsUnsent, LoggedQueued, FlaggedUnsent,
           LeftQueuedSent, ClaimedUnsent, ClaimedOnce, InFlightSent, FlagMeansUnsent
  <1> QED
    BY <1>1, TypeCorrect, DispatchInvariant, PTL

(* However many sweeps race with each other, with the request and with     *)
(* their own failures, a task is dispatched for the first time once.       *)
THEOREM FirstDispatchUnique == Spec => []OneFirstDispatch
  <1>1. DispatchInv => OneFirstDispatch
    BY DEF DispatchInv, RequestsUnsent, LoggedQueued, FlaggedUnsent,
           LeftQueuedSent, ClaimedUnsent, ClaimedOnce, InFlightSent
  <1> QED
    BY <1>1, DispatchInvariant, PTL

---------------------------------------------------------------------------
(* Scoring: the worker that inserted the row under the idempotency key is  *)
(* the only one that may still send for it, and it has not sent yet.       *)
SentForRow == cand.sends <= 1 /\ (~cand.row => cand.sends = 0)
ScorerHoldsRow ==
    \A w \in Workers : run[w].pc = "scored" => cand.row /\ cand.sends = 0
OneScorer ==
    \A v, w \in Workers : (run[v].pc = "scored" /\ run[w].pc = "scored") => v = w
ScoringInv == SentForRow /\ ScorerHoldsRow /\ OneScorer

(* No worker reaches that point in this step, and who is there stays.      *)
NoneEnters(at) == \A v \in Workers : run'[v].pc = at => run'[v] = run[v]

(* Where a step that moves one worker to some other point leaves them all. *)
LEMMA GoesElsewhere ==
    ASSUME TypeOK, NEW w \in Workers, NEW pc \in WorkerPC, NEW at \in WorkerPC \ {pc},
           WorkerGo(w, pc)
    PROVE  NoneEnters(at)
  BY DEF WorkerGo, NoneEnters, TypeOK, RunOK

LEMMA FailsElsewhere ==
    ASSUME TypeOK, NEW w \in Workers, NEW st \in Stages, NEW v \in Verdicts,
           NEW at \in WorkerPC \ {"failed"}, WorkerFails(w, st, v)
    PROVE  NoneEnters(at)
  BY DEF WorkerFails, NoneEnters, TypeOK, RunOK

LEMMA TakesOrRests ==
    ASSUME TypeOK, NEW w \in Workers, NEW at \in WorkerPC \ {"idle", "start"}
    PROVE  /\ WorkerRests(w) => NoneEnters(at)
           /\ \A i \in DOMAIN msgs : WorkerTakes(w, i) => NoneEnters(at)
  <1>1. ASSUME WorkerRests(w) PROVE NoneEnters(at)
    BY <1>1 DEF WorkerRests, IdleWorker, NoneEnters, TypeOK, RunOK
  <1>2. ASSUME NEW i \in DOMAIN msgs, WorkerTakes(w, i) PROVE NoneEnters(at)
    <2>1. run' = [run EXCEPT ![w] = [run[w] EXCEPT !.pc = "start", !.msg = i]]
      BY <1>2 DEF WorkerTakes
    <2>2. run'[w].pc = "start" /\ \A v \in Workers : v # w => run'[v] = run[v]
      BY <2>1 DEF TypeOK, RunOK
    <2> QED
      BY <2>2 DEF NoneEnters
  <1> QED
    BY <1>1, <1>2

(* A step in which no worker becomes the scorer and the scoring row and    *)
(* its messages stay as they are.                                          *)
LEMMA NoNewScorer ==
    ASSUME ScoringInv, cand'.row = cand.row, cand'.sends = cand.sends, NoneEnters("scored")
    PROVE  ScoringInv'
  BY DEF NoneEnters, ScoringInv, SentForRow, ScorerHoldsRow, OneScorer

LEMMA ScoringStep ==
    ASSUME TypeOK, ScoringInv, [Next]_vars
    PROVE  ScoringInv'
  <1>1. CASE UNCHANGED <<run, cand>>
    BY <1>1, NoNewScorer DEF NoneEnters
  <1>2. ASSUME NEW q \in Requests, RequestStep(q) \/ RequestCrash(q) \/ GrowOld(q)
        PROVE  UNCHANGED <<run, cand>>
    BY <1>2 DEF RequestStep, UploadStore, UploadRecordTask, UploadLog, UploadDispatch,
                RetryRead, RetryCommit, ReplayRead, ReplayCommit, Redispatch,
                RequestCrash, GrowOld
  <1>3. ASSUME NEW s \in Scanners, ScanStep(s) \/ ScanCrash(s)
        PROVE  UNCHANGED <<run, cand>>
    <2>1. CASE ScanQueued(s) \/ ClaimQueued(s) \/ SendQueued(s) \/ AskLive(s)
      BY <2>1 DEF ScanQueued, ClaimQueued, SendQueued, AskLive
    <2>2. CASE ReadStalled(s) \/ ClaimInFlight(s) \/ SendInFlight(s)
      BY <2>2 DEF ReadStalled, ClaimInFlight, SendInFlight
    <2>3. CASE ScanEnds(s) \/ ScanCrash(s)
      BY <2>3 DEF ScanEnds, ScanCrash
    <2> QED
      BY <1>3, <2>1, <2>2, <2>3 DEF ScanStep
  <1>4. ASSUME VisibilityTimeout \/ SlowRedelivery \/ LoseOrphan
        PROVE  UNCHANGED <<run, cand>>
    BY <1>4 DEF VisibilityTimeout, SlowRedelivery, LoseOrphan
  <1>5. ASSUME NEW w \in Workers, WorkerStep(w) \/ WorkerCrash(w)
        PROVE  ScoringInv'
    <2>1. CASE Receive(w)
      BY <2>1, TakesOrRests, NoNewScorer DEF Receive, WorkerPC
    <2>2. CASE Ack(w)
      BY <2>2, TakesOrRests, NoNewScorer DEF Ack, WorkerPC
    <2>3. CASE WorkerCrash(w)
      BY <2>3, TakesOrRests, NoNewScorer DEF WorkerCrash, WorkerPC
    <2>4. CASE CreateLog(w)
      BY <1>1, <2>4 DEF CreateLog
    <2>5. CASE MarkRunning(w)
      BY <2>5, GoesElsewhere, NoNewScorer DEF MarkRunning, WorkerPC
    <2>6. CASE FailOutsideStage(w)
      BY <2>6, GoesElsewhere, NoNewScorer DEF FailOutsideStage, WorkerPC
    <2>7. CASE StageFails(w)
      BY <2>7, FailsElsewhere, NoNewScorer DEF StageFails, WorkerPC
    <2>8. CASE Persist(w)
      BY <2>8, GoesElsewhere, NoNewScorer DEF Persist, WorkerPC
    <2>9. CASE PersistConflict(w)
      BY <2>9, FailsElsewhere, NoNewScorer DEF PersistConflict, WorkerPC, Stages, Verdicts
    <2>10. CASE LinkTask(w)
      BY <2>10, GoesElsewhere, FailsElsewhere, NoNewScorer DEF LinkTask, WorkerPC, Stages, Verdicts
    <2>11. CASE MarkSuccess(w)
      BY <2>11, GoesElsewhere, NoNewScorer DEF MarkSuccess, WorkerPC
    <2>12. CASE DeadLetter(w)
      BY <2>12, GoesElsewhere, NoNewScorer DEF DeadLetter, WorkerPC
    <2>13. CASE MarkRetry(w)
      BY <2>13, GoesElsewhere, NoNewScorer DEF MarkRetry, WorkerPC
    <2>14. CASE HandlerFails(w)
      BY <2>14, GoesElsewhere, NoNewScorer DEF HandlerFails, WorkerPC
    <2>15. CASE PublishRetry(w)
      BY <2>15, GoesElsewhere, NoNewScorer DEF PublishRetry, WorkerPC
    <2>16. CASE MarkParseFailed(w)
      BY <2>16, GoesElsewhere, NoNewScorer DEF MarkParseFailed, WorkerPC
    <2>17. CASE MarkFailure(w)
      BY <2>17, GoesElsewhere, NoNewScorer DEF MarkFailure, WorkerPC
    <2>18. CASE MoveToScreening(w)
      <3>1. NoneEnters("scored")
        BY <2>18, GoesElsewhere DEF MoveToScreening, WorkerPC
      <3>2. cand'.row = cand.row /\ cand'.sends = cand.sends
        BY <2>18 DEF MoveToScreening, TypeOK, CandOK
      <3> QED
        BY <3>1, <3>2, NoNewScorer
    <2>19. CASE CreateScoringRow(w)
      <3>1. CASE cand.row /\ WorkerGo(w, "ack") /\ UNCHANGED cand
        BY <3>1, GoesElsewhere, NoNewScorer DEF WorkerPC
      <3>2. CASE /\ ~cand.row
                 /\ cand' = [cand EXCEPT !.row = TRUE]
                 /\ WorkerGo(w, "scored")
        <4>1. \A v \in Workers : run[v].pc # "scored"
          BY <3>2 DEF ScoringInv, ScorerHoldsRow
        <4>2. \A v \in Workers : v # w => run'[v] = run[v]
          BY <3>2 DEF WorkerGo, TypeOK, RunOK
        <4>3. cand'.row /\ cand'.sends = 0
          BY <3>2 DEF TypeOK, CandOK, ScoringInv, SentForRow
        <4> QED
          BY <4>1, <4>2, <4>3 DEF ScoringInv, SentForRow, ScorerHoldsRow, OneScorer
      <3> QED
        BY <2>19, <3>1, <3>2 DEF CreateScoringRow
    <2>20. CASE DispatchScoring(w)
      <3>1. /\ run'[w].pc = "ack"
            /\ \A v \in Workers : v # w => run'[v] = run[v]
        BY <2>20 DEF DispatchScoring, WorkerGo, TypeOK, RunOK
      <3>2. \A v \in Workers : run'[v].pc # "scored"
        BY <2>20, <3>1 DEF DispatchScoring, ScoringInv, OneScorer
      <3>3. cand'.row /\ cand'.sends \in {0, 1}
        BY <2>20 DEF DispatchScoring, TypeOK, CandOK, ScoringInv, ScorerHoldsRow
      <3> QED
        BY <3>2, <3>3 DEF ScoringInv, SentForRow, ScorerHoldsRow, OneScorer
    <2> QED
      BY <1>5, <2>1, <2>2, <2>3, <2>4, <2>5, <2>6, <2>7, <2>8, <2>9, <2>10, <2>11, <2>12,
         <2>13, <2>14, <2>15, <2>16, <2>17, <2>18, <2>19, <2>20 DEF WorkerStep
  <1> QED
    BY <1>1, <1>2, <1>3, <1>4, <1>5 DEF Next, vars

(* However often a resume is redelivered, retried or replayed, and by how  *)
(* many workers at once, deterministic scoring is queued at most once      *)
(* (_enqueue_deterministic_scoring's idempotency key).                     *)
THEOREM ScoringQueuedOnce == Spec => []ScoringOnce
  <1>1. Init => ScoringInv
    BY DEF Init, IdleWorker, ScoringInv, SentForRow, ScorerHoldsRow, OneScorer
  <1>2. TypeOK /\ ScoringInv /\ [Next]_vars => ScoringInv'
    BY ScoringStep
  <1>3. ScoringInv => ScoringOnce
    BY DEF ScoringInv, SentForRow, ScoringOnce
  <1> QED
    BY <1>1, <1>2, <1>3, TypeCorrect, PTL DEF Spec

---------------------------------------------------------------------------
(* Retries: what a message carries, and what the worker that is about to   *)
(* publish the next attempt will put on it, is below one of the limits.    *)
InBudget(n) == n < DefaultMax \/ n < AIMax
RetriersInBudget == \A w \in Workers : run[w].pc = "retrying" => InBudget(Attempt(w))
BudgetInv == RetryBudget /\ RetriersInBudget

(* Old messages keep their count, a new one is within the limits.          *)
MsgsInBudget ==
    /\ \A i \in 1..Len(msgs) : i \in 1..Len(msgs') /\ msgs'[i].retries = msgs[i].retries
    /\ \A i \in 1..Len(msgs') : i \notin 1..Len(msgs) => InBudget(msgs'[i].retries)

LEMMA SameBudget == UNCHANGED msgs => MsgsInBudget
  BY DEF MsgsInBudget

LEMMA MovedBudget ==
    ASSUME TypeOK, NEW i \in DOMAIN msgs, NEW p \in Places \cup Workers, Move(i, p)
    PROVE  MsgsInBudget
  BY MoveType DEF TypeOK, MsgsInBudget

LEMMA ReleasedBudget ==
    ASSUME TypeOK, NEW w \in Workers, run[w].pc # "idle", NEW p \in Places,
           Release(w, p), WorkerRests(w)
    PROVE  MsgsInBudget
  BY ReleaseType DEF MsgsInBudget

LEMMA PublishedBudget ==
    ASSUME TypeOK, NEW t \in Requests, NEW r \in Nat, InBudget(r),
           NEW by \in {"DISPATCH", "RETRY", "INFLIGHT"}, Publish(t, r, by)
    PROVE  MsgsInBudget
  <1>1. /\ Len(msgs) \in Nat /\ Len(msgs') = Len(msgs) + 1
        /\ \A i \in 1..Len(msgs) : msgs'[i] = msgs[i]
        /\ msgs'[Len(msgs) + 1] = [task |-> t, retries |-> r, at |-> "QUEUE", by |-> by]
    BY PublishType DEF TypeOK
  <1>2. msgs'[Len(msgs) + 1].retries = r
    BY <1>1
  <1> QED
    BY <1>1, <1>2 DEF MsgsInBudget

(* A step that keeps the messages within the limits and lets no worker     *)
(* decide to retry.                                                        *)
LEMMA BudgetKept ==
    ASSUME TypeOK, BudgetInv, MsgsInBudget, NoneEnters("retrying")
    PROVE  BudgetInv'
  <1>1. RetryBudget'
    BY DEF BudgetInv, RetryBudget, MsgsInBudget, InBudget
  <1>2. ASSUME NEW w \in Workers, run'[w].pc = "retrying" PROVE InBudget(Attempt(w)')
    <2>1. run'[w] = run[w] /\ run[w].msg \in 1..Len(msgs)
      BY <1>2 DEF NoneEnters, TypeOK, RunOK
    <2>2. Attempt(w)' = Attempt(w)
      BY <2>1 DEF MsgsInBudget, Attempt
    <2> QED
      BY <1>2, <2>1, <2>2 DEF BudgetInv, RetriersInBudget
  <1> QED
    BY <1>1, <1>2 DEF BudgetInv, RetriersInBudget

LEMMA QuietBudget ==
    ASSUME TypeOK, BudgetInv, UNCHANGED <<msgs, run>>
    PROVE  BudgetInv'
  BY SameBudget, BudgetKept DEF NoneEnters

(* A first dispatch and a redispatch start at attempt 0.                   *)
LEMMA FirstPublish ==
    ASSUME TypeOK, BudgetInv, NEW t \in Requests, NEW by \in {"DISPATCH", "INFLIGHT"},
           Publish(t, 0, by), UNCHANGED run
    PROVE  BudgetInv'
  <1>1. InBudget(0)
    BY PolicyAssumption DEF InBudget
  <1> QED
    BY <1>1, PublishedBudget, BudgetKept DEF NoneEnters

LEMMA BudgetStep ==
    ASSUME TypeOK, BudgetInv, [Next]_vars
    PROVE  BudgetInv'
  <1>1. ASSUME NEW q \in Requests, UploadStore(q) PROVE BudgetInv'
    BY <1>1, QuietBudget DEF UploadStore
  <1>2. ASSUME NEW q \in Requests, UploadRecordTask(q) PROVE BudgetInv'
    BY <1>2, QuietBudget DEF UploadRecordTask
  <1>3. ASSUME NEW q \in Requests, UploadLog(q) PROVE BudgetInv'
    BY <1>3, QuietBudget DEF UploadLog
  <1>4. ASSUME NEW q \in Requests, UploadDispatch(q) PROVE BudgetInv'
    BY <1>4, FirstPublish, QuietBudget DEF UploadDispatch
  <1>5. ASSUME NEW q \in Requests, RetryRead(q) PROVE BudgetInv'
    BY <1>5, QuietBudget DEF RetryRead
  <1>6. ASSUME NEW q \in Requests, RetryCommit(q) PROVE BudgetInv'
    BY <1>6, QuietBudget DEF RetryCommit
  <1>7. ASSUME NEW q \in Requests, ReplayRead(q) PROVE BudgetInv'
    BY <1>7, QuietBudget DEF ReplayRead
  <1>8. ASSUME NEW q \in Requests, ReplayCommit(q) PROVE BudgetInv'
    BY <1>8, QuietBudget DEF ReplayCommit
  <1>9. ASSUME NEW q \in Requests, Redispatch(q) PROVE BudgetInv'
    BY <1>9, FirstPublish, QuietBudget DEF Redispatch
  <1>10. ASSUME NEW q \in Requests, RequestCrash(q) PROVE BudgetInv'
    BY <1>10, QuietBudget DEF RequestCrash
  <1>11. ASSUME NEW q \in Requests, GrowOld(q) PROVE BudgetInv'
    BY <1>11, QuietBudget DEF GrowOld
  <1>12. ASSUME NEW w \in Workers, Receive(w) PROVE BudgetInv'
    <2>1. PICK i \in DOMAIN msgs : Move(i, w) /\ WorkerTakes(w, i)
      BY <1>12 DEF Receive
    <2>2. NoneEnters("retrying")
      BY <2>1, TakesOrRests DEF WorkerPC
    <2> QED
      BY <2>1, <2>2, MovedBudget, BudgetKept
  <1>13. ASSUME NEW w \in Workers, Ack(w) PROVE BudgetInv'
    <2>1. MsgsInBudget
      BY <1>13, ReleasedBudget DEF Ack, Places
    <2> QED
      BY <1>13, <2>1, TakesOrRests, BudgetKept DEF Ack, WorkerPC
  <1>14. ASSUME NEW w \in Workers, WorkerCrash(w) PROVE BudgetInv'
    <2>1. MsgsInBudget
      BY <1>14, ReleasedBudget DEF WorkerCrash, Places
    <2> QED
      BY <1>14, <2>1, TakesOrRests, BudgetKept DEF WorkerCrash, WorkerPC
  <1>15. ASSUME NEW w \in Workers, CreateLog(w) PROVE BudgetInv'
    BY <1>15, QuietBudget DEF CreateLog
  <1>16. ASSUME NEW w \in Workers, MarkRunning(w) PROVE BudgetInv'
    BY <1>16, GoesElsewhere, SameBudget, BudgetKept DEF MarkRunning, WorkerPC
  <1>17. ASSUME NEW w \in Workers, FailOutsideStage(w) PROVE BudgetInv'
    BY <1>17, GoesElsewhere, SameBudget, BudgetKept DEF FailOutsideStage, WorkerPC
  <1>18. ASSUME NEW w \in Workers, StageFails(w) PROVE BudgetInv'
    BY <1>18, FailsElsewhere, SameBudget, BudgetKept DEF StageFails, WorkerPC
  <1>19. ASSUME NEW w \in Workers, Persist(w) PROVE BudgetInv'
    BY <1>19, GoesElsewhere, SameBudget, BudgetKept DEF Persist, WorkerPC
  <1>20. ASSUME NEW w \in Workers, PersistConflict(w) PROVE BudgetInv'
    BY <1>20, FailsElsewhere, SameBudget, BudgetKept DEF PersistConflict, WorkerPC, Stages, Verdicts
  <1>21. ASSUME NEW w \in Workers, LinkTask(w) PROVE BudgetInv'
    BY <1>21, GoesElsewhere, FailsElsewhere, SameBudget, BudgetKept
       DEF LinkTask, WorkerPC, Stages, Verdicts
  <1>22. ASSUME NEW w \in Workers, MarkSuccess(w) PROVE BudgetInv'
    BY <1>22, GoesElsewhere, SameBudget, BudgetKept DEF MarkSuccess, WorkerPC
  <1>23. ASSUME NEW w \in Workers, MoveToScreening(w) PROVE BudgetInv'
    BY <1>23, GoesElsewhere, SameBudget, BudgetKept DEF MoveToScreening, WorkerPC
  <1>24. ASSUME NEW w \in Workers, CreateScoringRow(w) PROVE BudgetInv'
    BY <1>24, GoesElsewhere, SameBudget, BudgetKept DEF CreateScoringRow, WorkerPC
  <1>25. ASSUME NEW w \in Workers, DispatchScoring(w) PROVE BudgetInv'
    BY <1>25, GoesElsewhere, SameBudget, BudgetKept DEF DispatchScoring, WorkerPC
  <1>26. ASSUME NEW w \in Workers, DeadLetter(w) PROVE BudgetInv'
    BY <1>26, GoesElsewhere, SameBudget, BudgetKept DEF DeadLetter, WorkerPC
  <1>27. ASSUME NEW w \in Workers, MarkRetry(w) PROVE BudgetInv'
    <2>1. Attempt(w) \in Nat /\ InBudget(Attempt(w))
      BY <1>27, RunningType, PolicyAssumption DEF MarkRetry, Exhausted, MaxAttempts, InBudget
    <2>2. run'[w].msg = run[w].msg /\ \A v \in Workers : v # w => run'[v] = run[v]
      BY <1>27 DEF MarkRetry, WorkerGo, TypeOK, RunOK
    <2>3. UNCHANGED msgs
      BY <1>27 DEF MarkRetry
    <2>4. \A v \in Workers : run'[v].pc = "retrying" => InBudget(Attempt(v)')
      BY <2>1, <2>2, <2>3 DEF BudgetInv, RetriersInBudget, Attempt
    <2> QED
      BY <2>3, <2>4 DEF BudgetInv, RetriersInBudget, RetryBudget
  <1>28. ASSUME NEW w \in Workers, HandlerFails(w) PROVE BudgetInv'
    BY <1>28, GoesElsewhere, SameBudget, BudgetKept DEF HandlerFails, WorkerPC
  <1>29. ASSUME NEW w \in Workers, PublishRetry(w) PROVE BudgetInv'
    <2>1. NoneEnters("retrying")
      BY <1>29, GoesElsewhere DEF PublishRetry, WorkerPC
    <2>2. Running(w) \in Requests /\ Attempt(w) \in Nat /\ InBudget(Attempt(w))
      BY <1>29, RunningType DEF PublishRetry, BudgetInv, RetriersInBudget
    <2>3. MsgsInBudget
      BY <1>29, <2>2, PublishedBudget, SameBudget DEF PublishRetry
    <2> QED
      BY <2>1, <2>3, BudgetKept
  <1>30. ASSUME NEW w \in Workers, MarkParseFailed(w) PROVE BudgetInv'
    BY <1>30, GoesElsewhere, SameBudget, BudgetKept DEF MarkParseFailed, WorkerPC
  <1>31. ASSUME NEW w \in Workers, MarkFailure(w) PROVE BudgetInv'
    BY <1>31, GoesElsewhere, SameBudget, BudgetKept DEF MarkFailure, WorkerPC
  <1>32. ASSUME NEW s \in Scanners, ScanQueued(s) PROVE BudgetInv'
    BY <1>32, QuietBudget DEF ScanQueued
  <1>33. ASSUME NEW s \in Scanners, ClaimQueued(s) PROVE BudgetInv'
    BY <1>33, QuietBudget DEF ClaimQueued
  <1>34. ASSUME NEW s \in Scanners, SendQueued(s) PROVE BudgetInv'
    BY <1>34, FirstPublish, QuietBudget DEF SendQueued, TypeOK, ScanOK
  <1>35. ASSUME NEW s \in Scanners, AskLive(s) PROVE BudgetInv'
    BY <1>35, QuietBudget DEF AskLive
  <1>36. ASSUME NEW s \in Scanners, ReadStalled(s) PROVE BudgetInv'
    BY <1>36, QuietBudget DEF ReadStalled
  <1>37. ASSUME NEW s \in Scanners, ClaimInFlight(s) PROVE BudgetInv'
    BY <1>37, QuietBudget DEF ClaimInFlight
  <1>38. ASSUME NEW s \in Scanners, SendInFlight(s) PROVE BudgetInv'
    BY <1>38, FirstPublish, QuietBudget DEF SendInFlight, TypeOK, ScanOK
  <1>39. ASSUME NEW s \in Scanners, ScanEnds(s) PROVE BudgetInv'
    BY <1>39, QuietBudget DEF ScanEnds
  <1>40. ASSUME NEW s \in Scanners, ScanCrash(s) PROVE BudgetInv'
    BY <1>40, QuietBudget DEF ScanCrash
  <1>41. CASE VisibilityTimeout \/ SlowRedelivery \/ LoseOrphan
    <2>1. /\ \E i \in DOMAIN msgs, p \in {"QUEUE", "LOST"} : Move(i, p)
          /\ UNCHANGED run
      BY <1>41 DEF VisibilityTimeout, SlowRedelivery, LoseOrphan
    <2>2. MsgsInBudget
      BY <2>1, MovedBudget DEF Places
    <2> QED
      BY <2>1, <2>2, BudgetKept DEF NoneEnters
  <1>42. CASE UNCHANGED vars
    BY <1>42, QuietBudget DEF vars
  <1> QED
    BY <1>1, <1>2, <1>3, <1>4, <1>5, <1>6, <1>7, <1>8, <1>9, <1>10, <1>11, <1>12,
       <1>13, <1>14, <1>15, <1>16, <1>17, <1>18, <1>19, <1>20, <1>21, <1>22, <1>23,
       <1>24, <1>25, <1>26, <1>27, <1>28, <1>29, <1>30, <1>31, <1>32, <1>33, <1>34,
       <1>35, <1>36, <1>37, <1>38, <1>39, <1>40, <1>41, <1>42
       DEF Next, RequestStep, WorkerStep, ScanStep

(* No message ever carries more attempts than the largest retry policy     *)
(* allows, whoever crashes and however often it is redelivered: a lineage  *)
(* of automatic retries ends (RetryDriver.handle_failure).                 *)
THEOREM RetriesBounded == Spec => []RetryBudget
  <1>1. Init => BudgetInv
    BY DEF Init, IdleWorker, BudgetInv, RetryBudget, RetriersInBudget
  <1>2. TypeOK /\ BudgetInv /\ [Next]_vars => BudgetInv'
    BY BudgetStep
  <1>3. BudgetInv => RetryBudget
    BY DEF BudgetInv
  <1> QED
    BY <1>1, <1>2, <1>3, TypeCorrect, PTL DEF Spec

---------------------------------------------------------------------------
(***************************************************************************)
(* The fate of the resume.  NoSilentFailure needs to know that a worker    *)
(* about to close its row has marked the parse first, and that a task      *)
(* becomes the resume's before any worker has it.  CrashesNeverStrand      *)
(* needs the stronger fact that somebody is still obliged to move a        *)
(* PENDING resume: the request before its publish, the broker, or a worker *)
(* that holds the message and has not decided yet.  A worker about to ack  *)
(* carries nothing: whatever it did, the resume is decided or the next     *)
(* attempt is in the broker.                                               *)
(***************************************************************************)
Blank == resume.parse = "NONE" => /\ resume.task = NoTask
                                  /\ \A q \in Requests : req[q].pc # "stored"
Closing(t) == \E w \in Workers : run[w].pc = "closing" /\ Running(w) = t
SilentInv ==
    /\ Blank
    /\ faults["db"] = 0 =>
          \A t \in Requests : (resume.task = t /\ (log[t].status = "FAILURE" \/ Closing(t)))
                                  => resume.parse # "PENDING"

Undecided == {"start", "pipeline", "failed", "retrying", "giveup"}
Held(i) == \E w \in Workers : msgs[i].at = w /\ run[w].msg = i /\ run[w].pc \in Undecided
Delivered(t) == \E i \in 1..Len(msgs) :
                    msgs[i].task = t /\ (msgs[i].at \in {"QUEUE", "ORPHAN"} \/ Held(i))
Dispatching(t) == req[t].pc \in {"recorded", "logged", "redispatch"}

Losses == {"outage", "db", "lose", "api"}
Clean == \A k \in Losses : faults[k] = 0
CarryInv ==
    (Clean /\ resume.parse = "PENDING") =>
        \/ \E q \in Requests : req[q].pc = "stored"
        \/ resume.task \in Requests /\ (Dispatching(resume.task) \/ Delivered(resume.task))

FateInv == SilentInv /\ CarryInv

FaultsOnlyGrow == \A k \in FaultKinds : faults'[k] = 0 => faults[k] = 0

LEMMA SpendGrows ==
    ASSUME TypeOK, NEW kind \in FaultKinds, Spend(kind)
    PROVE  FaultsOnlyGrow /\ faults'[kind] # 0
  BY DEF TypeOK, FaultsOK, Spend, FaultsOnlyGrow

LEMMA EnterGrows ==
    ASSUME TypeOK, NEW kind \in FaultKinds, Enter(kind) \/ UNCHANGED faults
    PROVE  FaultsOnlyGrow
  BY DEF TypeOK, FaultsOK, Enter, FaultsOnlyGrow

(* The messages keep their tasks.                                          *)
TasksStay == \A j \in 1..Len(msgs) : j \in 1..Len(msgs') /\ msgs'[j].task = msgs[j].task

LEMMA ClosersStay ==
    ASSUME TypeOK, TasksStay, NoneEnters("closing"), NEW t, Closing(t)'
    PROVE  Closing(t)
  <1>1. PICK w \in Workers : run'[w].pc = "closing" /\ msgs'[run'[w].msg].task = t
    BY DEF Closing, Running
  <1>2. run'[w] = run[w]
    BY <1>1 DEF NoneEnters
  <1>3. run[w].msg \in 1..Len(msgs)
    BY <1>1, <1>2 DEF TypeOK, RunOK
  <1> QED
    BY <1>1, <1>2, <1>3 DEF Closing, Running, TasksStay

(* A step that does not make another task the resume's.                    *)
LEMMA FateKept ==
    ASSUME TypeOK, FateInv, FaultsOnlyGrow, TasksStay,
           resume'.task = resume.task, resume'.parse \in {resume.parse, "PARSED", "FAILED"},
           \A q \in Requests : req'[q].pc = "stored" => req[q].pc = "stored",
           \A q \in Requests : req[q].pc = "stored" => req'[q].pc = "stored" \/ ~Clean',
           \A t \in Requests : log'[t].status = "FAILURE" => log[t].status = "FAILURE" \/ Closing(t),
           NoneEnters("closing") \/ resume'.parse = "FAILED" \/ faults'["db"] # 0,
           \A t \in Requests : Dispatching(t) => Dispatching(t)' \/ Delivered(t)' \/ ~Clean',
           \A t \in Requests : Delivered(t) => Delivered(t)' \/ resume'.parse # "PENDING" \/ ~Clean'
    PROVE  FateInv'
  <1>1. Blank'
    BY DEF FateInv, SilentInv, Blank
  <1>2. ASSUME faults'["db"] = 0, NEW t \in Requests, resume'.task = t,
               log'[t].status = "FAILURE" \/ Closing(t)'
        PROVE  resume'.parse # "PENDING"
    <2>1. faults["db"] = 0
      BY <1>2 DEF FaultsOnlyGrow, FaultKinds
    <2>2. CASE NoneEnters("closing")
      <3>1. log[t].status = "FAILURE" \/ Closing(t)
        BY <1>2, <2>2, ClosersStay
      <3> QED
        BY <1>2, <2>1, <3>1 DEF FateInv, SilentInv
    <2> QED
      BY <1>2, <2>2
  <1>3. CarryInv'
    <2> SUFFICES ASSUME Clean', resume'.parse = "PENDING"
                 PROVE  \/ \E q \in Requests : req'[q].pc = "stored"
                        \/ /\ resume'.task \in Requests
                           /\ Dispatching(resume.task)' \/ Delivered(resume.task)'
      BY DEF CarryInv
    <2>1. Clean /\ resume.parse = "PENDING"
      BY DEF Clean, Losses, FaultsOnlyGrow, FaultKinds
    <2>2. CASE \E q \in Requests : req[q].pc = "stored"
      BY <2>2
    <2>3. CASE resume.task \in Requests /\ (Dispatching(resume.task) \/ Delivered(resume.task))
      <3>1. PICK t \in Requests : t = resume.task
        BY <2>3
      <3>2. Dispatching(t)' \/ Delivered(t)'
        BY <2>3, <3>1
      <3> QED
        BY <3>1, <3>2 DEF Dispatching, Delivered, Held
    <2> QED
      BY <2>1, <2>2, <2>3 DEF FateInv, CarryInv
  <1> QED
    BY <1>1, <1>2, <1>3 DEF FateInv, SilentInv

(* Messages published or unchanged: whoever holds one undecided keeps it.  *)
MsgsStay == \A j \in 1..Len(msgs) : j \in 1..Len(msgs') /\ msgs'[j] = msgs[j]

LEMMA StillDelivered ==
    ASSUME TypeOK, MsgsStay, NEW t, Delivered(t),
           \A w \in Workers : (run[w].pc \in Undecided /\ Running(w) = t)
                                  => run'[w].pc \in Undecided /\ run'[w].msg = run[w].msg
    PROVE  Delivered(t)'
  <1>1. PICK i \in 1..Len(msgs) : msgs[i].task = t /\ (msgs[i].at \in {"QUEUE", "ORPHAN"} \/ Held(i))
    BY DEF Delivered
  <1>2. i \in 1..Len(msgs') /\ msgs'[i] = msgs[i]
    BY DEF MsgsStay
  <1>3. CASE msgs[i].at \in {"QUEUE", "ORPHAN"}
    BY <1>1, <1>2, <1>3 DEF Delivered
  <1>4. CASE Held(i)
    <2>1. PICK w \in Workers : msgs[i].at = w /\ run[w].msg = i /\ run[w].pc \in Undecided
      BY <1>4 DEF Held
    <2>2. Running(w) = t
      BY <1>1, <2>1 DEF Running
    <2>3. run'[w].pc \in Undecided /\ run'[w].msg = i
      BY <2>1, <2>2
    <2>4. Held(i)'
      BY <1>2, <2>1, <2>3 DEF Held
    <2> QED
      BY <1>1, <1>2, <2>4 DEF Delivered
  <1> QED
    BY <1>1, <1>3, <1>4

(* A message that goes back to the queue, or is left behind by a dead      *)
(* worker, is still on its way.                                            *)
LEMMA MovedDelivered ==
    ASSUME TypeOK, NEW i \in DOMAIN msgs, NEW p \in Places \cup Workers, Move(i, p), NEW t, Delivered(t),
           \A w \in Workers : (run[w].pc \in Undecided /\ (run[w].msg # i \/ p = w))
                                  => run'[w].pc \in Undecided /\ run'[w].msg = run[w].msg,
           \/ p \in {"QUEUE", "ORPHAN"}
           \/ p \in Workers /\ run'[p].msg = i /\ run'[p].pc \in Undecided
           \/ msgs[i].at \notin {"QUEUE", "ORPHAN"} /\ ~Held(i)
    PROVE  Delivered(t)'
  <1>1. /\ i \in 1..Len(msgs) /\ Len(msgs') = Len(msgs)
        /\ \A j \in 1..Len(msgs) : msgs'[j].task = msgs[j].task
    BY MoveType DEF TypeOK
  <1>2. msgs'[i].at = p /\ \A j \in 1..Len(msgs) : j # i => msgs'[j] = msgs[j]
    <2>1. msgs \in Seq(Message) /\ DOMAIN msgs = 1..Len(msgs) /\ msgs[i] \in Message
      BY LenProperties, ElementOfSeq DEF TypeOK, MsgsOK
    <2>2. PICK m : m = [msgs[i] EXCEPT !.at = p]
      OBVIOUS
    <2>3. m.at = p
      BY <2>1, <2>2 DEF Message
    <2>4. msgs' = [msgs EXCEPT ![i] = m]
      BY <2>2 DEF Move
    <2> QED
      BY <2>1, <2>3, <2>4
  <1>3. PICK j \in 1..Len(msgs) : msgs[j].task = t /\ (msgs[j].at \in {"QUEUE", "ORPHAN"} \/ Held(j))
    BY DEF Delivered
  <1>4. CASE j = i
    <2>1. CASE p \in {"QUEUE", "ORPHAN"}
      BY <1>1, <1>2, <1>3, <1>4, <2>1 DEF Delivered
    <2>2. CASE p \in Workers /\ run'[p].msg = i /\ run'[p].pc \in Undecided
      <3>1. Held(i)'
        BY <1>2, <2>2 DEF Held
      <3> QED
        BY <1>1, <1>3, <1>4, <3>1 DEF Delivered
    <2> QED
      BY <1>3, <1>4, <2>1, <2>2
  <1>5. CASE j # i
    <2>1. msgs'[j] = msgs[j]
      BY <1>2, <1>5
    <2>2. CASE msgs[j].at \in {"QUEUE", "ORPHAN"}
      BY <1>1, <1>3, <2>1, <2>2 DEF Delivered
    <2>3. CASE Held(j)
      <3>1. PICK w \in Workers : msgs[j].at = w /\ run[w].msg = j /\ run[w].pc \in Undecided
        BY <2>3 DEF Held
      <3>2. run'[w].pc \in Undecided /\ run'[w].msg = j
        BY <1>5, <3>1
      <3>3. Held(j)'
        BY <2>1, <3>1, <3>2 DEF Held
      <3> QED
        BY <1>1, <1>3, <3>3 DEF Delivered
    <2> QED
      BY <1>3, <2>2, <2>3
  <1> QED
    BY <1>4, <1>5

(* A published message is on its way.                                      *)
LEMMA PublishedDelivered ==
    ASSUME TypeOK, NEW t \in Requests, NEW r \in Nat,
           NEW by \in {"DISPATCH", "RETRY", "INFLIGHT"}, Publish(t, r, by)
    PROVE  MsgsStay /\ TasksStay /\ Delivered(t)'
  <1>1. /\ Len(msgs) \in Nat
        /\ Len(msgs') = Len(msgs) + 1
        /\ \A i \in 1..Len(msgs) : msgs'[i] = msgs[i]
        /\ msgs'[Len(msgs) + 1] = [task |-> t, retries |-> r, at |-> "QUEUE", by |-> by]
    BY PublishType DEF TypeOK
  <1>2. MsgsStay /\ TasksStay
    BY <1>1 DEF MsgsStay, TasksStay
  <1>3. Delivered(t)'
    BY <1>1 DEF Delivered
  <1> QED
    BY <1>2, <1>3

LEMMA SameMsgs == ASSUME UNCHANGED msgs PROVE MsgsStay /\ TasksStay
  BY DEF MsgsStay, TasksStay

LEMMA SameWorkers ==
    ASSUME TypeOK, UNCHANGED run, MsgsStay
    PROVE  /\ \A at : NoneEnters(at)
           /\ \A t : Delivered(t) => Delivered(t)'
  <1>1. \A at : NoneEnters(at)
    BY DEF NoneEnters
  <1>2. \A t : Delivered(t) => Delivered(t)'
    BY StillDelivered
  <1> QED
    BY <1>1, <1>2

(* One worker goes on with its message, or turns to another point.         *)
Turns(w, pc) == /\ run'[w].pc = pc /\ run'[w].msg = run[w].msg
                /\ \A v \in Workers : v # w => run'[v] = run[v]

LEMMA GoTurns ==
    ASSUME TypeOK, NEW w \in Workers
    PROVE  /\ \A pc \in WorkerPC : WorkerGo(w, pc) => Turns(w, pc)
           /\ \A st \in Stages, v \in Verdicts : WorkerFails(w, st, v) => Turns(w, "failed")
  <1>1. ASSUME NEW pc \in WorkerPC, WorkerGo(w, pc) PROVE Turns(w, pc)
    BY <1>1 DEF WorkerGo, Turns, TypeOK, RunOK
  <1>2. ASSUME NEW st \in Stages, NEW v \in Verdicts, WorkerFails(w, st, v) PROVE Turns(w, "failed")
    <2>1. PICK r : r = [run[w] EXCEPT !.pc = "failed", !.stage = st, !.verdict = v]
      OBVIOUS
    <2>2. r.pc = "failed" /\ r.msg = run[w].msg
      BY <2>1 DEF TypeOK, RunOK
    <2>3. run' = [run EXCEPT ![w] = r]
      BY <1>2, <2>1 DEF WorkerFails
    <2> QED
      BY <2>2, <2>3 DEF Turns, TypeOK, RunOK
  <1> QED
    BY <1>1, <1>2

(* A worker's step between two points of its run.                          *)
LEMMA WorkerTurn ==
    ASSUME TypeOK, FateInv, NEW w \in Workers, run[w].pc # "idle", NEW pc, Turns(w, pc),
           UNCHANGED <<msgs, req>>, FaultsOnlyGrow,
           resume'.task = resume.task, resume'.parse \in {resume.parse, "PARSED", "FAILED"},
           \A t \in Requests : log'[t].status = "FAILURE" => log[t].status = "FAILURE" \/ Closing(t),
           pc = "closing" => resume'.parse = "FAILED" \/ faults'["db"] # 0,
           run[w].pc \in Undecided => pc \in Undecided \/ resume'.parse # "PENDING" \/ ~Clean'
    PROVE  FateInv'
  <1>1. MsgsStay /\ TasksStay
    BY SameMsgs
  <1>2. NoneEnters("closing") \/ resume'.parse = "FAILED" \/ faults'["db"] # 0
    BY DEF Turns, NoneEnters
  <1>3. \A t \in Requests : Delivered(t) => Delivered(t)' \/ resume'.parse # "PENDING" \/ ~Clean'
    <2> SUFFICES ASSUME NEW t \in Requests, Delivered(t), resume'.parse = "PENDING", Clean'
                 PROVE  Delivered(t)'
      OBVIOUS
    <2>1. \A v \in Workers : run[v].pc \in Undecided
                                 => run'[v].pc \in Undecided /\ run'[v].msg = run[v].msg
      BY DEF Turns
    <2> QED
      BY <1>1, <2>1, StillDelivered
  <1>4. \A t \in Requests : Dispatching(t) => Dispatching(t)'
    BY DEF Dispatching
  <1> QED
    BY <1>1, <1>2, <1>3, <1>4, FateKept

(* A task that becomes the resume's has not been given to any worker yet.  *)
LEMMA TaskTaken ==
    ASSUME TypeOK, DispatchInv, FateInv, NEW q \in Requests, req[q].pc \in PreDispatch,
           resume'.task = q, resume'.parse # "NONE", req'[q].pc \in {"recorded", "redispatch"},
           UNCHANGED <<log, msgs, run>>
    PROVE  FateInv'
  <1>1. ~Sent(q) /\ log[q].status # "FAILURE"
    BY DEF DispatchInv, RequestsUnsent, LeftQueuedSent
  <1>2. ~Closing(q)
    BY <1>1, RunningSent DEF Closing
  <1>3. ~Closing(q)'
    BY <1>2 DEF Closing, Running
  <1>4. SilentInv'
    <2>1. Blank'
      BY DEF Blank
    <2>2. ASSUME NEW t \in Requests, resume'.task = t, log'[t].status = "FAILURE" \/ Closing(t)'
          PROVE  FALSE
      BY <1>1, <1>3, <2>2
    <2> QED
      BY <2>1, <2>2 DEF SilentInv
  <1>5. CarryInv'
    BY DEF CarryInv, Dispatching
  <1> QED
    BY <1>4, <1>5 DEF FateInv

(* The steps of a request that leave the resume's row alone.               *)
LEMMA RequestTurn ==
    ASSUME TypeOK, FateInv, NEW q \in Requests, NEW pc, req'[q].pc = pc, pc # "stored",
           \A r \in Requests : r # q => req'[r] = req[r],
           UNCHANGED <<resume, run>>, MsgsStay, TasksStay, FaultsOnlyGrow,
           \A t \in Requests : log'[t].status = "FAILURE" => log[t].status = "FAILURE",
           req[q].pc = "stored" => ~Clean',
           Dispatching(q) => pc \in {"recorded", "logged", "redispatch"} \/ Delivered(q)' \/ ~Clean'
    PROVE  FateInv'
  <1>1. NoneEnters("closing") /\ \A t : Delivered(t) => Delivered(t)'
    BY SameWorkers
  <1>2. \A t \in Requests : Dispatching(t) => Dispatching(t)' \/ Delivered(t)' \/ ~Clean'
    BY DEF Dispatching
  <1> QED
    BY <1>1, <1>2, FateKept DEF TypeOK, ResumeOK

LEMMA RequestFate ==
    ASSUME TypeOK, DispatchInv, FateInv, NEW q \in Requests, RequestStep(q) \/ RequestCrash(q)
    PROVE  FateInv'
  <1>0. \A pc : RequestGo(q, pc) => req'[q].pc = pc /\ \A r \in Requests : r # q => req'[r] = req[r]
    BY DEF RequestGo, TypeOK, ReqOK
  <1>1. CASE UploadStore(q)
    <2>1. resume.parse = "NONE" /\ resume' = [resume EXCEPT !.parse = "PENDING"] /\ req'[q].pc = "stored"
      BY <1>0, <1>1 DEF UploadStore
    <2>2. resume'.parse = "PENDING" /\ resume'.task = NoTask
      BY <2>1 DEF TypeOK, ResumeOK, FateInv, SilentInv, Blank
    <2>3. SilentInv'
      BY <2>2, NamesAssumption DEF SilentInv, Blank
    <2>4. CarryInv'
      BY <2>1 DEF CarryInv
    <2> QED
      BY <2>3, <2>4 DEF FateInv
  <1>2. CASE UploadRecordTask(q)
    <2>1. /\ req[q].pc = "stored" /\ req'[q].pc = "recorded" /\ UNCHANGED <<log, msgs, run>>
          /\ resume' = [resume EXCEPT !.task = q]
      BY <1>0, <1>2 DEF UploadRecordTask
    <2>2. resume'.task = q /\ resume'.parse # "NONE"
      BY <2>1 DEF TypeOK, ResumeOK, FateInv, SilentInv, Blank
    <2> QED
      BY <2>1, <2>2, TaskTaken DEF PreDispatch, RequestPC
  <1>3. CASE RetryCommit(q)
    BY <1>0, <1>3, TaskTaken DEF RetryCommit, PreDispatch, RequestPC
  <1>4. CASE ReplayCommit(q)
    BY <1>0, <1>4, TaskTaken DEF ReplayCommit, PreDispatch, RequestPC
  <1>5. CASE UploadLog(q)
    <2>1. /\ req[q].pc = "recorded" /\ RequestGo(q, "logged") /\ UNCHANGED <<resume, run, msgs, faults>>
          /\ log' = [log EXCEPT ![q] = NewRow(TRUE)]
      BY <1>5 DEF UploadLog
    <2>2. \A t \in Requests : log'[t].status = "FAILURE" => log[t].status = "FAILURE"
      BY <2>1 DEF NewRow, TypeOK, LogOK
    <2> QED
      BY <1>0, <2>1, <2>2, SameMsgs, EnterGrows, RequestTurn DEF FaultsOnlyGrow
  <1>6. CASE UploadDispatch(q)
    <2>1. req[q].pc = "logged" /\ RequestGo(q, "done") /\ UNCHANGED <<resume, run>>
      BY <1>6 DEF UploadDispatch
    <2>2. CASE Publish(q, 0, "DISPATCH") /\ UNCHANGED <<log, faults>>
      BY <1>0, <2>1, <2>2, PublishedDelivered, RequestTurn DEF FaultsOnlyGrow
    <2>3. CASE Spend("outage") /\ log' = [log EXCEPT ![q].flag = TRUE] /\ UNCHANGED msgs
      <3>1. FaultsOnlyGrow /\ ~Clean'
        BY <2>3, SpendGrows DEF FaultKinds, Clean, Losses
      <3>2. \A t \in Requests : log'[t].status = log[t].status
        BY <2>3 DEF TypeOK, LogOK, Row
      <3> QED
        BY <1>0, <2>1, <2>3, <3>1, <3>2, SameMsgs, RequestTurn
    <2> QED
      BY <1>6, <2>2, <2>3 DEF UploadDispatch
  <1>7. CASE RetryRead(q)
    <2>1. /\ req[q].pc = "idle" /\ RequestGo(q, "retry") /\ Spend("manual")
          /\ UNCHANGED <<log, resume, msgs, run>>
      BY <1>7 DEF RetryRead
    <2>2. FaultsOnlyGrow
      BY <2>1, SpendGrows DEF FaultKinds
    <2> QED
      BY <1>0, <2>1, <2>2, SameMsgs, RequestTurn DEF Dispatching
  <1>8. CASE ReplayRead(q)
    <2>1. /\ req[q].pc = "idle" /\ Spend("manual") /\ UNCHANGED <<log, resume, msgs, run>>
          /\ req'[q].pc = "replay" /\ \A r \in Requests : r # q => req'[r] = req[r]
      BY <1>8 DEF ReplayRead, TypeOK, ReqOK
    <2>2. FaultsOnlyGrow
      BY <2>1, SpendGrows DEF FaultKinds
    <2> QED
      BY <2>1, <2>2, SameMsgs, RequestTurn DEF Dispatching
  <1>9. CASE Redispatch(q)
    <2>1. req[q].pc = "redispatch" /\ RequestGo(q, "done") /\ UNCHANGED <<log, resume, run>>
      BY <1>9 DEF Redispatch
    <2>2. CASE Publish(q, 0, "DISPATCH") /\ UNCHANGED faults
      BY <1>0, <2>1, <2>2, PublishedDelivered, RequestTurn DEF FaultsOnlyGrow
    <2>3. CASE Spend("outage") /\ UNCHANGED msgs
      <3>1. FaultsOnlyGrow /\ ~Clean'
        BY <2>3, SpendGrows DEF FaultKinds, Clean, Losses
      <3> QED
        BY <1>0, <2>1, <2>3, <3>1, SameMsgs, RequestTurn
    <2> QED
      BY <1>9, <2>2, <2>3 DEF Redispatch
  <1>10. CASE RequestCrash(q)
    <2>1. RequestGo(q, "done") /\ Spend("api") /\ UNCHANGED <<log, resume, msgs, run>>
      BY <1>10 DEF RequestCrash
    <2>2. FaultsOnlyGrow /\ ~Clean'
      BY <2>1, SpendGrows DEF FaultKinds, Clean, Losses
    <2> QED
      BY <1>0, <2>1, <2>2, SameMsgs, RequestTurn
  <1> QED
    BY <1>1, <1>2, <1>3, <1>4, <1>5, <1>6, <1>7, <1>8, <1>9, <1>10 DEF RequestStep

(* The steps of a sweep, the broker and the clock touch neither the resume *)
(* nor a worker; what they publish or move is still on its way.            *)
LEMMA OutsideTurn ==
    ASSUME TypeOK, FateInv, UNCHANGED <<resume, req, run>>, TasksStay, FaultsOnlyGrow,
           \A t \in Requests : log'[t].status = "FAILURE" => log[t].status = "FAILURE",
           \A t \in Requests : Delivered(t) => Delivered(t)' \/ ~Clean'
    PROVE  FateInv'
  <1>1. NoneEnters("closing")
    BY DEF NoneEnters
  <1>2. \A t \in Requests : Dispatching(t) => Dispatching(t)'
    BY DEF Dispatching
  <1> QED
    BY <1>1, <1>2, FateKept DEF TypeOK, ResumeOK

LEMMA ScanFate ==
    ASSUME TypeOK, FateInv, NEW s \in Scanners, ScanStep(s) \/ ScanCrash(s)
    PROVE  FateInv'
  <1>1. UNCHANGED <<resume, req, run>>
    <2>1. CASE ScanQueued(s) \/ ClaimQueued(s) \/ SendQueued(s) \/ AskLive(s)
      BY <2>1 DEF ScanQueued, ClaimQueued, SendQueued, AskLive
    <2>2. CASE ReadStalled(s) \/ ClaimInFlight(s) \/ SendInFlight(s) \/ ScanEnds(s) \/ ScanCrash(s)
      BY <2>2 DEF ReadStalled, ClaimInFlight, SendInFlight, ScanEnds, ScanCrash
    <2> QED
      BY <2>1, <2>2 DEF ScanStep
  <1>2. FaultsOnlyGrow
    <2>1. CASE ScanQueued(s)
      BY <2>1, EnterGrows DEF ScanQueued, FaultKinds
    <2>2. CASE SendQueued(s) \/ AskLive(s) \/ SendInFlight(s) \/ ScanCrash(s)
      BY <2>2, SpendGrows DEF SendQueued, AskLive, SendInFlight, ScanCrash, FaultKinds, FaultsOnlyGrow
    <2>3. CASE ClaimQueued(s) \/ ReadStalled(s) \/ ClaimInFlight(s) \/ ScanEnds(s)
      BY <2>3 DEF ClaimQueued, ReadStalled, ClaimInFlight, ScanEnds, FaultsOnlyGrow
    <2> QED
      BY <2>1, <2>2, <2>3 DEF ScanStep
  <1>3. \A t \in Requests : log'[t].status = "FAILURE" => log[t].status = "FAILURE"
    <2>1. CASE ScanQueued(s) \/ AskLive(s) \/ ReadStalled(s) \/ SendInFlight(s) \/ ScanEnds(s) \/ ScanCrash(s)
      BY <2>1 DEF ScanQueued, AskLive, ReadStalled, SendInFlight, ScanEnds, ScanCrash
    <2>2. CASE ClaimQueued(s)
      BY <2>2 DEF ClaimQueued, TypeOK, LogOK, Row
    <2>3. CASE SendQueued(s)
      BY <2>3 DEF SendQueued, TypeOK, LogOK, Row
    <2>4. CASE ClaimInFlight(s)
      BY <2>4 DEF ClaimInFlight, TypeOK, LogOK, Row
    <2> QED
      BY <2>1, <2>2, <2>3, <2>4 DEF ScanStep
  <1>4. MsgsStay /\ TasksStay
    <2>1. CASE UNCHANGED msgs
      BY <2>1, SameMsgs
    <2>2. CASE SendQueued(s) \/ SendInFlight(s)
      <3>1. scan[s].task \in Requests
        BY <2>2 DEF SendQueued, SendInFlight, TypeOK, ScanOK
      <3>2. CASE \E by \in {"DISPATCH", "INFLIGHT"} : Publish(scan[s].task, 0, by)
        BY <3>1, <3>2, PublishedDelivered
      <3> QED
        BY <2>1, <2>2, <3>2 DEF SendQueued, SendInFlight
    <2>3. CASE ScanQueued(s) \/ ClaimQueued(s) \/ AskLive(s) \/ ReadStalled(s)
      BY <2>1, <2>3 DEF ScanQueued, ClaimQueued, AskLive, ReadStalled
    <2>4. CASE ClaimInFlight(s) \/ ScanEnds(s) \/ ScanCrash(s)
      BY <2>1, <2>4 DEF ClaimInFlight, ScanEnds, ScanCrash
    <2> QED
      BY <2>2, <2>3, <2>4 DEF ScanStep
  <1>5. \A t : Delivered(t) => Delivered(t)'
    BY <1>1, <1>4, SameWorkers
  <1> QED
    BY <1>1, <1>2, <1>3, <1>4, <1>5, OutsideTurn

LEMMA BrokerFate ==
    ASSUME TypeOK, FateInv,
           \/ VisibilityTimeout \/ SlowRedelivery \/ LoseOrphan
           \/ \E q \in Requests : GrowOld(q)
    PROVE  FateInv'
  <1>1. CASE VisibilityTimeout \/ SlowRedelivery
    <2>1. UNCHANGED <<log, resume, req, run>> /\ \E i \in DOMAIN msgs : Move(i, "QUEUE")
      BY <1>1 DEF VisibilityTimeout, SlowRedelivery
    <2>2. FaultsOnlyGrow
      BY <1>1, SpendGrows DEF VisibilityTimeout, SlowRedelivery, FaultKinds, FaultsOnlyGrow
    <2>3. PICK i \in DOMAIN msgs : Move(i, "QUEUE")
      BY <2>1
    <2>4. TasksStay
      BY <2>3, MoveType DEF TypeOK, Places, TasksStay
    <2>5. \A t : Delivered(t) => Delivered(t)'
      BY <2>1, <2>3, MovedDelivered, NamesAssumption DEF Places
    <2> QED
      BY <2>1, <2>2, <2>4, <2>5, OutsideTurn
  <1>2. CASE LoseOrphan
    <2>1. UNCHANGED <<log, resume, req, run>> /\ Spend("lose") /\ \E i \in DOMAIN msgs : Move(i, "LOST")
      BY <1>2 DEF LoseOrphan
    <2>2. FaultsOnlyGrow /\ ~Clean'
      BY <2>1, SpendGrows DEF FaultKinds, Clean, Losses
    <2>3. TasksStay
      BY <2>1, MoveType DEF TypeOK, Places, TasksStay
    <2> QED
      BY <2>1, <2>2, <2>3, OutsideTurn
  <1>3. ASSUME NEW q \in Requests, GrowOld(q) PROVE FateInv'
    <2>1. UNCHANGED <<resume, req, run, msgs>> /\ log' = [log EXCEPT ![q].age = "OLD"]
      BY <1>3 DEF GrowOld
    <2>2. FaultsOnlyGrow
      BY <1>3, SpendGrows DEF GrowOld, FaultKinds, FaultsOnlyGrow
    <2>3. \A t \in Requests : log'[t].status = log[t].status
      BY <2>1 DEF TypeOK, LogOK, Row
    <2>4. \A t : Delivered(t) => Delivered(t)'
      BY <2>1, SameMsgs, SameWorkers
    <2> QED
      BY <2>1, <2>2, <2>3, <2>4, SameMsgs, OutsideTurn
  <1> QED
    BY <1>1, <1>2, <1>3

(* The ends of a delivery: taken, acknowledged, or left by a dead worker.  *)
LEMMA DeliveryFate ==
    ASSUME TypeOK, FateInv, NEW w \in Workers, Receive(w) \/ Ack(w) \/ WorkerCrash(w)
    PROVE  FateInv'
  <1>1. UNCHANGED <<log, resume, req>> /\ FaultsOnlyGrow
    BY SpendGrows DEF Receive, Ack, WorkerCrash, FaultKinds, FaultsOnlyGrow
  <1>2. NoneEnters("closing")
    BY TakesOrRests DEF Receive, Ack, WorkerCrash, WorkerPC
  <1>3. SUFFICES ASSUME TRUE PROVE TasksStay /\ \A t : Delivered(t) => Delivered(t)'
    <2>1. \A t \in Requests : Dispatching(t) => Dispatching(t)'
      BY <1>1 DEF Dispatching
    <2> QED
      BY <1>1, <1>2, <1>3, <2>1, FateKept DEF TypeOK, ResumeOK
  <1>4. CASE Receive(w)
    <2>1. PICK i \in DOMAIN msgs : Move(i, w) /\ WorkerTakes(w, i)
      BY <1>4 DEF Receive
    <2>2. /\ run'[w].pc = "start" /\ run'[w].msg = i
          /\ \A v \in Workers : v # w => run'[v] = run[v]
      <3>1. PICK r : r = [run[w] EXCEPT !.pc = "start", !.msg = i]
        OBVIOUS
      <3>2. r.pc = "start" /\ r.msg = i
        BY <3>1 DEF TypeOK, RunOK
      <3>3. run' = [run EXCEPT ![w] = r]
        BY <2>1, <3>1 DEF WorkerTakes
      <3> QED
        BY <3>2, <3>3 DEF TypeOK, RunOK
    <2>3. run[w].pc = "idle"
      BY <1>4 DEF Receive
    <2>4. TasksStay
      BY <2>1, MoveType DEF TypeOK, TasksStay
    <2>5. \A t : Delivered(t) => Delivered(t)'
      BY <2>1, <2>2, <2>3, MovedDelivered DEF Undecided
    <2> QED
      BY <2>4, <2>5
  <1>5. CASE Ack(w) \/ WorkerCrash(w)
    <2>1. PICK p \in {"DONE", "ORPHAN"} : Release(w, p) /\ (p = "DONE" => run[w].pc = "ack")
      BY <1>5 DEF Ack, WorkerCrash
    <2>2. WorkerRests(w) /\ run[w].pc # "idle"
      BY <1>5 DEF Ack, WorkerCrash
    <2>3. TasksStay
      BY <2>1, <2>2, ReleaseType DEF Places, TasksStay
    <2>4. run'[w].pc = "idle" /\ \A v \in Workers : v # w => run'[v] = run[v]
      BY <2>2 DEF WorkerRests, IdleWorker, TypeOK, RunOK
    <2>5. run[w].msg \in DOMAIN msgs
      BY <2>2, LenProperties DEF TypeOK, RunOK, MsgsOK
    <2>6. PICK i \in DOMAIN msgs : i = run[w].msg
      BY <2>5
    <2>7. w \notin {"QUEUE", "ORPHAN"}
      BY NamesAssumption
    <2>8. CASE msgs[i].at = w
      <3>1. Move(i, p)
        BY <2>1, <2>6, <2>8 DEF Release
      <3>2. p = "ORPHAN" \/ (msgs[i].at \notin {"QUEUE", "ORPHAN"} /\ ~Held(i))
        BY <2>1, <2>7, <2>8 DEF Held, Undecided
      <3>3. p \notin Workers
        BY NamesAssumption
      <3> QED
        <4>1. ASSUME NEW t, Delivered(t) PROVE Delivered(t)'
          <5>1. CASE p = "ORPHAN"
            BY <2>4, <2>6, <3>1, <3>3, <4>1, <5>1, MovedDelivered DEF Places
          <5>2. CASE p = "DONE"
            BY <2>4, <2>6, <3>1, <3>2, <3>3, <4>1, <5>2, MovedDelivered DEF Places
          <5> QED
            BY <5>1, <5>2
        <4> QED
          BY <2>3, <4>1
    <2>9. CASE msgs[i].at # w
      <3>1. UNCHANGED msgs
        BY <2>1, <2>6, <2>9 DEF Release
      <3>2. ASSUME NEW t, Delivered(t) PROVE Delivered(t)'
        <4>1. PICK j \in 1..Len(msgs) : msgs[j].task = t /\ (msgs[j].at \in {"QUEUE", "ORPHAN"} \/ Held(j))
          BY <3>2 DEF Delivered
        <4>2. Held(j) => Held(j)'
          BY <2>4, <2>6, <2>9, <3>1 DEF Held
        <4> QED
          BY <3>1, <4>1, <4>2 DEF Delivered
      <3> QED
        BY <2>3, <3>2
    <2> QED
      BY <2>8, <2>9
  <1> QED
    BY <1>4, <1>5

(* The handlers: what leaves the resume undecided keeps the message.       *)
LEMMA HandlerFate ==
    ASSUME TypeOK, FateInv, NEW w \in Workers,
           \/ DeadLetter(w) \/ MarkRetry(w) \/ HandlerFails(w) \/ PublishRetry(w)
           \/ MarkParseFailed(w) \/ MarkFailure(w)
    PROVE  FateInv'
  <1>0. UNCHANGED req /\ run[w].pc # "idle" /\ Running(w) \in Requests
    BY RunningType DEF DeadLetter, MarkRetry, HandlerFails, PublishRetry, MarkParseFailed, MarkFailure
  <1>1. CASE DeadLetter(w)
    <2>1. Turns(w, "giveup") /\ UNCHANGED <<log, resume, msgs, faults>>
      BY <1>1, GoTurns DEF DeadLetter, WorkerPC
    <2> QED
      BY <1>0, <2>1, WorkerTurn DEF Undecided, FaultsOnlyGrow
  <1>2. CASE MarkRetry(w)
    <2>1. Turns(w, "retrying") /\ UNCHANGED <<resume, msgs, faults>>
      BY <1>2, GoTurns DEF MarkRetry, WorkerPC
    <2>2. \A t \in Requests : log'[t].status = "FAILURE" => log[t].status = "FAILURE"
      BY <1>0, <1>2 DEF MarkRetry, TypeOK, LogOK, Row
    <2> QED
      BY <1>0, <2>1, <2>2, WorkerTurn DEF Undecided, FaultsOnlyGrow
  <1>3. CASE HandlerFails(w)
    <2>1. Turns(w, "ack") /\ UNCHANGED <<log, resume, msgs>> /\ Spend("db")
      BY <1>3, GoTurns DEF HandlerFails, WorkerPC
    <2>2. FaultsOnlyGrow /\ ~Clean'
      BY <2>1, SpendGrows DEF FaultKinds, Clean, Losses
    <2> QED
      BY <1>0, <2>1, <2>2, WorkerTurn
  <1>4. CASE PublishRetry(w)
    <2>1. Turns(w, "ack") /\ UNCHANGED <<log, resume>> /\ run[w].pc = "retrying"
      BY <1>4, GoTurns DEF PublishRetry, WorkerPC
    <2>2. CASE Spend("outage") /\ UNCHANGED msgs
      <3>1. FaultsOnlyGrow /\ ~Clean'
        BY <2>2, SpendGrows DEF FaultKinds, Clean, Losses
      <3> QED
        BY <1>0, <2>1, <2>2, <3>1, WorkerTurn
    <2>3. CASE Publish(Running(w), Attempt(w), "RETRY") /\ UNCHANGED faults
      <3>1. Attempt(w) \in Nat
        BY <1>0, RunningType
      <3>2. PICK u \in Requests, n \in Nat : u = Running(w) /\ n = Attempt(w)
        BY <1>0, <3>1
      <3>3. MsgsStay /\ TasksStay /\ Delivered(u)'
        BY <2>3, <3>2, PublishedDelivered
      <3>4. ASSUME NEW t \in Requests, Delivered(t) PROVE Delivered(t)'
        <4>1. CASE t = u
          BY <3>3, <4>1
        <4>2. CASE t # u
          <5>1. \A v \in Workers : (run[v].pc \in Undecided /\ Running(v) = t)
                                       => run'[v].pc \in Undecided /\ run'[v].msg = run[v].msg
            BY <2>1, <3>2, <4>2 DEF Turns
          <5> QED
            BY <3>3, <3>4, <5>1, StillDelivered
        <4> QED
          BY <4>1, <4>2
      <3>5. NoneEnters("closing")
        BY <2>1 DEF Turns, NoneEnters
      <3>6. \A t \in Requests : Dispatching(t) => Dispatching(t)'
        BY <1>0 DEF Dispatching
      <3> QED
        BY <1>0, <2>1, <2>3, <3>3, <3>4, <3>5, <3>6, FateKept DEF TypeOK, ResumeOK, FaultsOnlyGrow
    <2> QED
      BY <1>4, <2>2, <2>3 DEF PublishRetry
  <1>5. CASE MarkParseFailed(w)
    <2>1. Turns(w, "closing") /\ UNCHANGED <<log, msgs>>
      BY <1>5, GoTurns DEF MarkParseFailed, WorkerPC
    <2>2. CASE resume' = [resume EXCEPT !.parse = "FAILED"] /\ UNCHANGED faults
      <3>1. resume'.task = resume.task /\ resume'.parse = "FAILED"
        BY <2>2 DEF TypeOK, ResumeOK
      <3> QED
        BY <1>0, <2>1, <2>2, <3>1, WorkerTurn DEF FaultsOnlyGrow
    <2>3. CASE Spend("db") /\ UNCHANGED resume
      <3>1. FaultsOnlyGrow /\ ~Clean' /\ faults'["db"] # 0
        BY <2>3, SpendGrows DEF FaultKinds, Clean, Losses
      <3> QED
        BY <1>0, <2>1, <2>3, <3>1, WorkerTurn
    <2> QED
      BY <1>5, <2>2, <2>3 DEF MarkParseFailed
  <1>6. CASE MarkFailure(w)
    <2>1. Turns(w, "ack") /\ UNCHANGED <<resume, msgs>> /\ run[w].pc = "closing"
      BY <1>6, GoTurns DEF MarkFailure, WorkerPC
    <2>2. FaultsOnlyGrow
      BY <1>6, SpendGrows DEF MarkFailure, FaultKinds, FaultsOnlyGrow
    <2>3. \A t \in Requests : log'[t].status = "FAILURE" => log[t].status = "FAILURE" \/ Closing(t)
      <3>1. Closing(Running(w))
        BY <2>1 DEF Closing
      <3>2. \A t \in Requests : t # Running(w) => log'[t] = log[t]
        BY <1>6 DEF MarkFailure, TypeOK, LogOK
      <3> QED
        BY <3>1, <3>2
    <2> QED
      BY <1>0, <2>1, <2>2, <2>3, WorkerTurn DEF Undecided
  <1> QED
    BY <1>1, <1>2, <1>3, <1>4, <1>5, <1>6

(* The pipeline: a worker leaves it by deciding the resume or by failing.  *)
LEMMA PipelineFate ==
    ASSUME TypeOK, FateInv, NEW w \in Workers,
           \/ CreateLog(w) \/ MarkRunning(w) \/ FailOutsideStage(w) \/ StageFails(w)
           \/ Persist(w) \/ PersistConflict(w) \/ LinkTask(w) \/ MarkSuccess(w)
           \/ MoveToScreening(w) \/ CreateScoringRow(w) \/ DispatchScoring(w)
    PROVE  FateInv'
  <1>0. UNCHANGED <<req, msgs>> /\ run[w].pc # "idle" /\ Running(w) \in Requests
    BY RunningType DEF CreateLog, MarkRunning, FailOutsideStage, StageFails, Persist, PersistConflict,
                       LinkTask, MarkSuccess, MoveToScreening, CreateScoringRow, DispatchScoring
  <1>1. FaultsOnlyGrow
    <2>1. CASE CreateLog(w) \/ MarkRunning(w) \/ FailOutsideStage(w) \/ StageFails(w) \/ Persist(w) \/ PersistConflict(w)
      BY <2>1 DEF CreateLog, MarkRunning, FailOutsideStage, StageFails, Persist, PersistConflict, FaultsOnlyGrow
    <2>2. CASE LinkTask(w) \/ MarkSuccess(w) \/ MoveToScreening(w) \/ CreateScoringRow(w) \/ DispatchScoring(w)
      BY <2>2, SpendGrows DEF LinkTask, MarkSuccess, MoveToScreening, CreateScoringRow, DispatchScoring,
                              FaultKinds, FaultsOnlyGrow
    <2> QED
      BY <2>1, <2>2
  <1>2. \A t \in Requests : log'[t].status = "FAILURE" => log[t].status = "FAILURE"
    <2>1. CASE CreateLog(w) \/ MarkRunning(w) \/ LinkTask(w) \/ MarkSuccess(w)
      BY <1>0, <2>1 DEF CreateLog, NewRow, MarkRunning, LinkTask, MarkSuccess, TypeOK, LogOK, Row
    <2>2. CASE UNCHANGED log
      BY <2>2
    <2> QED
      BY <2>1, <2>2 DEF FailOutsideStage, StageFails, Persist, PersistConflict,
                        MoveToScreening, CreateScoringRow, DispatchScoring
  <1>3. CASE CreateLog(w)
    <2>1. UNCHANGED <<run, resume>>
      BY <1>3 DEF CreateLog
    <2>2. \A t : Delivered(t) => Delivered(t)'
      BY <1>0, <2>1, SameMsgs, SameWorkers
    <2> QED
      BY <1>0, <1>1, <1>2, <2>1, <2>2, SameMsgs, OutsideTurn
  <1>4. CASE MarkRunning(w) \/ FailOutsideStage(w) \/ StageFails(w) \/ PersistConflict(w)
    <2>1. UNCHANGED resume
      BY <1>4 DEF MarkRunning, FailOutsideStage, StageFails, PersistConflict
    <2>2. PICK pc \in {"pipeline", "giveup", "failed"} : Turns(w, pc)
      BY <1>4, GoTurns DEF MarkRunning, FailOutsideStage, StageFails, PersistConflict, WorkerPC, Stages, Verdicts
    <2> QED
      BY <1>0, <1>1, <1>2, <2>1, <2>2, WorkerTurn DEF Undecided
  <1>5. CASE Persist(w)
    <2>1. Turns(w, "persisted") /\ resume' = [resume EXCEPT !.parse = "PARSED"]
      BY <1>5, GoTurns DEF Persist, WorkerPC
    <2>2. resume'.task = resume.task /\ resume'.parse = "PARSED"
      BY <2>1 DEF TypeOK, ResumeOK
    <2> QED
      BY <1>0, <1>1, <1>2, <2>1, <2>2, WorkerTurn
  <1>6. CASE LinkTask(w) \/ MarkSuccess(w) \/ MoveToScreening(w) \/ CreateScoringRow(w) \/ DispatchScoring(w)
    <2>1. UNCHANGED resume /\ run[w].pc \notin Undecided
      BY <1>6 DEF LinkTask, MarkSuccess, MoveToScreening, CreateScoringRow, DispatchScoring, Undecided
    <2>2. PICK pc \in WorkerPC \ {"closing"} : Turns(w, pc)
      <3>1. CASE LinkTask(w) \/ MarkSuccess(w)
        BY <3>1, GoTurns DEF LinkTask, MarkSuccess, WorkerPC, Stages, Verdicts
      <3>2. CASE MoveToScreening(w) \/ CreateScoringRow(w) \/ DispatchScoring(w)
        BY <3>2, GoTurns DEF MoveToScreening, CreateScoringRow, DispatchScoring, WorkerPC
      <3> QED
        BY <1>6, <3>1, <3>2
    <2> QED
      BY <1>0, <1>1, <1>2, <2>1, <2>2, WorkerTurn
  <1> QED
    BY <1>3, <1>4, <1>5, <1>6

LEMMA FateStep ==
    ASSUME TypeOK, DispatchInv, FateInv, [Next]_vars
    PROVE  FateInv'
  <1>1. ASSUME NEW w \in Workers, WorkerStep(w) \/ WorkerCrash(w) PROVE FateInv'
    BY <1>1, DeliveryFate, HandlerFate, PipelineFate DEF WorkerStep
  <1>2. CASE UNCHANGED vars
    <2>1. UNCHANGED <<log, resume, msgs, run, req, faults>>
      BY <1>2 DEF vars
    <2>2. \A t : Delivered(t) => Delivered(t)'
      BY <2>1, SameMsgs, SameWorkers
    <2> QED
      BY <2>1, <2>2, SameMsgs, OutsideTurn DEF FaultsOnlyGrow
  <1> QED
    BY <1>1, <1>2, RequestFate, ScanFate, BrokerFate DEF Next

LEMMA FateInvariant == Spec => []FateInv
  <1>1. Init => FateInv
    BY DEF Init, IdleWorker, NewRow, FateInv, SilentInv, Blank, Closing, CarryInv
  <1>2. TypeOK /\ DispatchInv /\ FateInv /\ [Next]_vars => FateInv'
    BY FateStep
  <1> QED
    BY <1>1, <1>2, TypeCorrect, DispatchInvariant, PTL DEF Spec

(* A task that ended in FAILURE leaves no PENDING resume behind it, unless *)
(* the database failed under the error handler: both except branches of    *)
(* process_resume_document mark the parse before they close the row.       *)
THEOREM FailuresAreSeen == Spec => []NoSilentFailure
  <1>1. FateInv => NoSilentFailure
    BY DEF FateInv, SilentInv, NoSilentFailure
  <1> QED
    BY <1>1, FateInvariant, PTL

(* Crashes of workers and sweeps, slow runs, redeliveries and retries by   *)
(* hand alone never strand a resume at PENDING: task_acks_late and the     *)
(* order of the commits leave somebody obliged to move it.                 *)
THEOREM CrashesStrandNobody == Spec => []CrashesNeverStrand
  <1>1. TypeOK /\ FateInv => CrashesNeverStrand
    <2> SUFFICES ASSUME TypeOK, FateInv, Stranded, Clean PROVE FALSE
      BY DEF CrashesNeverStrand, Clean, Losses, TypeOK, FaultsOK, FaultKinds
    <2>1. resume.parse = "PENDING" /\ \A t \in Requests : ~Carried(t)
      BY DEF Stranded
    <2>2. CASE \E q \in Requests : req[q].pc = "stored"
      BY <2>1, <2>2 DEF Carried
    <2>3. CASE resume.task \in Requests /\ Dispatching(resume.task)
      BY <2>1, <2>3 DEF Carried, Dispatching
    <2>4. CASE resume.task \in Requests /\ Delivered(resume.task)
      <3>1. PICK i \in 1..Len(msgs) : /\ msgs[i].task = resume.task
                                      /\ msgs[i].at \in {"QUEUE", "ORPHAN"} \/ Held(i)
        BY <2>4 DEF Delivered
      <3>2. msgs[i].at \notin {"DONE", "LOST"}
        BY <3>1, NamesAssumption DEF Held
      <3>3. i \in DOMAIN msgs
        BY LenProperties DEF TypeOK, MsgsOK
      <3> QED
        BY <2>1, <2>4, <3>1, <3>2, <3>3 DEF Carried
    <2> QED
      BY <2>1, <2>2, <2>3, <2>4 DEF FateInv, CarryInv
  <1> QED
    BY <1>1, TypeCorrect, FateInvariant, PTL
============================================================================
