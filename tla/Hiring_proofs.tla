---------------------------- MODULE Hiring_proofs ---------------------------
(***************************************************************************)
(* Proofs about the campaign's weights and openings under concurrent       *)
(* administrators, about the interview rounds and their mail, and about    *)
(* the cached lists, for any number of administrators, clerks, rounds,     *)
(* notices, managers and views.                                            *)
(***************************************************************************)
EXTENDS CampaignLifecycle, InterviewRounds, CampaignLists, FiniteSetTheorems, TLAPS

---------------------------------------------------------------------------
(* The campaign.                                                           *)

Session == [op : Edits \cup {"reset", "close", "reopen", "replay", None},
            at : {"idle", "read", "held", "sent", "marked"},
            seen : Camp \cup {<<>>}, filled : Nat, task : Tasks \cup {None},
            todo : SUBSET (Tasks \cup Nat)]

CampaignTyped ==
    /\ camp \in Camp /\ history \in Seq(Change)
    /\ selected \subseteq Candidates /\ IsFiniteSet(selected)
    /\ sess \in [Admins -> Session]

DlqTyped == dlq \in [Tasks -> Seq(Entry)]

\* The holder of the row lock is alone; unless it is a reset, which loaded the row before,
\* it has read the weights and counted the selected candidates as they are.
LockInv ==
    \A s \in Admins :
        /\ Locked(s) \/ sess[s].op = "reset" => sess[s].seen \in Camp
        /\ Locked(s) => RowFree(s)
        /\ Locked(s) /\ sess[s].op # "reset" =>
              sess[s].seen.weights = camp.weights /\ sess[s].filled = Filled

\* The last change left the weights the campaign has.
LastChange == history # <<>> => history[Len(history)].new = camp.weights

CampaignInv == CampaignTyped /\ LockInv /\ LastChange /\ WeightHistoryIsChain

---------------------------------------------------------------------------

\* An idle session holds nothing.
LEMMA IdleTyped == Idle \in Session /\ Idle.at = "idle" /\ Idle.op = None
BY DEF Idle, Session, None

\* Ending a request keeps the sessions typed and frees its lock.
LEMMA EndFrees ==
    ASSUME CampaignTyped, NEW s \in Admins, End(s)
    PROVE  /\ sess' \in [Admins -> Session]
           /\ sess'[s] = Idle
           /\ \A t \in Admins \ {s} : sess'[t] = sess[t]
BY IdleTyped DEF CampaignTyped, End

\* Steps that leave the row, the history, the selection and the sessions alone.
LEMMA CampaignUntouched ==
    ASSUME CampaignInv, UNCHANGED <<camp, history, selected, sess>>
    PROVE  CampaignInv'
BY DEF CampaignInv, CampaignTyped, LockInv, LastChange, WeightHistoryIsChain, Locked, RowFree, Filled

\* A request that ends, or whose session goes on with the same lock and the same reading.
LEMMA RequestEnds ==
    ASSUME CampaignInv, NEW s \in Admins, End(s), UNCHANGED <<camp, history, selected>>
    PROVE  CampaignInv'
<1> USE DEF CampaignInv
<1>1. CampaignTyped'
  BY EndFrees DEF CampaignTyped
<1>2. LockInv'
  BY EndFrees, IdleTyped DEF LockInv, Locked, RowFree, Filled, None
<1> QED
  BY <1>1, <1>2 DEF LastChange, WeightHistoryIsChain

\* A request writes other columns than the weights while nobody else holds the row, and ends.
LEMMA RowWritten ==
    ASSUME CampaignInv, NEW s \in Admins, RowFree(s), End(s), UNCHANGED <<history, selected>>,
           camp' \in Camp, camp'.weights = camp.weights
    PROVE  CampaignInv'
<1> USE DEF CampaignInv
<1>1. CampaignTyped'
  BY EndFrees DEF CampaignTyped
<1>2. LockInv'
  BY EndFrees, IdleTyped DEF LockInv, Locked, RowFree, Filled, None
<1> QED
  BY <1>1, <1>2 DEF LastChange, WeightHistoryIsChain

\* The status, the deadline or the openings change under nobody's eyes or without a lock.
LEMMA OtherColumns ==
    ASSUME CampaignInv, UNCHANGED <<history, sess>>, camp' \in Camp, camp'.weights = camp.weights,
           selected' \subseteq Candidates, IsFiniteSet(selected'),
           \/ UNCHANGED selected
           \/ \A s \in Admins : ~Locked(s)
    PROVE  CampaignInv'
<1> USE DEF CampaignInv
<1>1. CampaignTyped'
  BY DEF CampaignTyped
<1>2. LockInv'
  BY DEF LockInv, Locked, RowFree, Filled
<1> QED
  BY <1>1, <1>2 DEF LastChange, WeightHistoryIsChain

\* A session opens or moves on without touching the row.
LEMMA SessionMoves ==
    ASSUME CampaignInv, NEW s \in Admins, NEW new \in Session, sess' = [sess EXCEPT ![s] = new],
           UNCHANGED <<camp, history, selected>>,
           new.op = "reset" \/ new.at \in {"held", "sent"} => new.seen \in Camp,
           new.at \in {"held", "sent"} => RowFree(s),
           new.at \in {"held", "sent"} /\ new.op # "reset" =>
              new.seen.weights = camp.weights /\ new.filled = Filled
    PROVE  CampaignInv'
<1> USE DEF CampaignInv
<1>1. CampaignTyped'
  BY DEF CampaignTyped
<1>2. /\ sess'[s] = new
      /\ \A t \in Admins \ {s} : sess'[t] = sess[t]
  BY DEF CampaignTyped
<1>3. LockInv'
  BY <1>2 DEF LockInv, Locked, RowFree, Filled
<1> QED
  BY <1>1, <1>3 DEF LastChange, WeightHistoryIsChain

\* A change of the weights by the holder of the lock extends the chain.
LEMMA ChangeRecorded ==
    ASSUME CampaignInv, NEW s \in Admins, sess[s].at = "held",
           sess[s].op \in {"patch", "scoring", "reset"},
           NEW w \in Weights, RecordChange(s, w), End(s), UNCHANGED selected
    PROVE  CampaignInv'
<1> USE DEF CampaignInv
<1> DEFINE old == sess[s].seen.weights
           new == [by |-> sess[s].op, old |-> old, new |-> w]
<1>1. Locked(s) /\ RowFree(s)
  BY DEF LockInv, Locked
<1>2. CASE w = old
  <2>1. UNCHANGED <<camp, history>>
    BY <1>2 DEF RecordChange
  <2> QED
    BY <2>1, RequestEnds
<1>3. CASE w # old
  <2>1. old \in Weights
    BY <1>1 DEF LockInv, Camp
  <2>2. new \in Change
    BY <2>1 DEF Change
  <2>3. /\ camp' = [camp EXCEPT !.weights = w]
        /\ history' = Append(history, new)
    BY <1>3 DEF RecordChange
  <2>4. camp' \in Camp /\ camp'.weights = w
    BY <2>3 DEF CampaignTyped, Camp
  <2> HIDE DEF new
  <2>5. /\ history' \in Seq(Change) /\ Len(history') = Len(history) + 1
        /\ history'[Len(history')] = new
        /\ \A i \in 1..Len(history) : history'[i] = history[i]
    BY <2>2, <2>3 DEF CampaignTyped
  <2>6. CampaignTyped'
    BY <2>4, <2>5, EndFrees DEF CampaignTyped
  <2>7. LockInv'
    BY <1>1, EndFrees, IdleTyped DEF LockInv, Locked, RowFree, Filled, None
  <2>8. LastChange'
    BY <2>4, <2>5 DEF new, LastChange
  <2>9. WeightHistoryIsChain'
    <3>1. SUFFICES ASSUME NEW i \in 1..(Len(history') - 1), history'[i + 1].by # "reset"
                   PROVE  history'[i + 1].old = history'[i].new
      BY DEF WeightHistoryIsChain
    <3>2. Len(history) \in Nat
      BY DEF CampaignTyped
    <3>3. CASE i < Len(history)
      <4>1. history'[i] = history[i] /\ history'[i + 1] = history[i + 1] /\ i \in 1..(Len(history) - 1)
        BY <2>5, <3>2, <3>3
      <4> QED
        BY <3>1, <4>1 DEF WeightHistoryIsChain
    <3>4. CASE i = Len(history)
      <4>1. history'[i + 1] = new /\ history'[i] = history[Len(history)] /\ history # <<>>
        BY <2>5, <3>2, <3>4
      <4>2. sess[s].op # "reset" /\ history'[i + 1].old = old
        BY <3>1, <4>1 DEF new
      <4>3. old = camp.weights
        BY <1>1, <4>2 DEF LockInv
      <4> QED
        BY <4>1, <4>2, <4>3 DEF LastChange
    <3> QED
      BY <2>5, <3>2, <3>3, <3>4
  <2> QED
    BY <2>6, <2>7, <2>8, <2>9
<1> QED
  BY <1>2, <1>3

---------------------------------------------------------------------------

\* Requests begin: a lock is taken, or the row or the dead letters are read without one.
LEMMA RequestBegins ==
    ASSUME CampaignInv, DlqTyped, NEW s \in Admins, Begin(s)
    PROVE  CampaignInv'
<1> USE DEF CampaignInv
<1>1. Filled \in Nat
  BY FS_CardinalityType DEF CampaignTyped, Filled
<1>2. ASSUME NEW op \in Edits, LockForUpdate(s, op) PROVE CampaignInv'
  <2> DEFINE new == [Idle EXCEPT !.op = op, !.at = "held", !.seen = camp, !.filled = Filled]
  <2>1. new \in Session /\ new.op = op /\ new.at = "held" /\ new.seen = camp /\ new.filled = Filled
    BY <1>1 DEF Session, Idle, CampaignTyped
  <2>2. sess' = [sess EXCEPT ![s] = new] /\ RowFree(s) /\ UNCHANGED <<camp, history, selected>>
    BY <1>2 DEF LockForUpdate
  <2> HIDE DEF new
  <2> QED
    BY <2>1, <2>2, SessionMoves DEF CampaignTyped
<1>3. ASSUME NEW op \in {"reset", "close", "reopen"}, UNCHANGED <<camp, history, selected>>,
             sess' = [sess EXCEPT ![s] = [Idle EXCEPT !.op = op, !.at = "read", !.seen = camp]]
      PROVE  CampaignInv'
  <2> DEFINE new == [Idle EXCEPT !.op = op, !.at = "read", !.seen = camp]
  <2>1. new \in Session /\ new.at = "read" /\ new.seen = camp
    BY DEF Session, Idle, CampaignTyped
  <2>2. sess' = [sess EXCEPT ![s] = new]
    BY <1>3
  <2> HIDE DEF new
  <2> QED
    BY <1>3, <2>1, <2>2, SessionMoves DEF CampaignTyped
<1>4. ASSUME NEW t \in Tasks, BeginReplay(s, t) PROVE CampaignInv'
  <2>1. PICK es \in SUBSET Open(t) :
           sess' = [sess EXCEPT ![s] = [Idle EXCEPT !.op = "replay", !.at = "read",
                                                     !.task = t, !.todo = es]]
    BY <1>4 DEF BeginReplay
  <2> DEFINE new == [Idle EXCEPT !.op = "replay", !.at = "read", !.task = t, !.todo = es]
  <2>2. es \subseteq DOMAIN dlq[t]
    BY DEF Open
  <2>3. DOMAIN dlq[t] \subseteq Nat
    BY DEF DlqTyped
  <2>4. new \in Session /\ new.at = "read" /\ new.op = "replay"
    BY <2>2, <2>3 DEF Session, Idle
  <2>5. sess' = [sess EXCEPT ![s] = new] /\ UNCHANGED <<camp, history, selected>>
    BY <1>4, <2>1 DEF BeginReplay
  <2> HIDE DEF new
  <2> QED
    BY <2>4, <2>5, SessionMoves
<1> QED
  BY <1>2, <1>3, <1>4 DEF Begin, BeginReset, BeginClose, BeginReopen

\* Requests go on: what they write leaves the weights alone, or is a recorded change.
LEMMA RequestProceeds ==
    ASSUME CampaignInv, NEW s \in Admins, Proceed(s)
    PROVE  CampaignInv'
<1> USE DEF CampaignInv
<1>h. sess[s].at \in {"held", "sent"} => Locked(s) /\ RowFree(s)
  BY DEF LockInv, Locked
<1>c. camp \in Camp
  BY DEF CampaignTyped
<1>s. sess[s] \in Session
  BY DEF CampaignTyped
<1>1. CASE LockReset(s)
  <2> DEFINE new == [sess[s] EXCEPT !.at = "held"]
  <2>1. new \in Session /\ new.op = "reset" /\ new.seen = sess[s].seen
    BY <1>1, <1>s DEF LockReset, Session
  <2>2. /\ sess' = [sess EXCEPT ![s] = new] /\ UNCHANGED <<camp, history, selected>>
        /\ RowFree(s) /\ sess[s].seen \in Camp
    BY <1>1 DEF LockReset, LockInv
  <2> HIDE DEF new
  <2> QED
    BY <2>1, <2>2, SessionMoves
<1>2. CASE Refuse(s) \/ ResetRejected(s) \/ ResumeFails(s) \/ SendReplay(s)
  BY <1>2, RequestEnds DEF Refuse, ResetRejected, ResumeFails, SendReplay
<1>3. CASE PatchWeights(s)
  BY <1>3, ChangeRecorded DEF PatchWeights
<1>4. CASE SetWeights(s)
  <2>1. PICK w \in Weights : RecordChange(s, w)
    BY <1>4, CampaignAssumption DEF SetWeights
  <2> QED
    BY <1>4, <2>1, ChangeRecorded DEF SetWeights
<1>5. CASE SetOpenings(s)
  <2>1. camp' \in Camp /\ camp'.weights = camp.weights
    BY <1>5, <1>c DEF SetOpenings, Camp
  <2> QED
    BY <1>5, <1>h, <2>1, RowWritten DEF SetOpenings
<1>6. CASE SetDeadline(s)
  <2>1. camp' \in Camp /\ camp'.weights = camp.weights
    BY <1>6, <1>c DEF SetDeadline, Camp
  <2> QED
    BY <1>6, <1>h, <2>1, RowWritten DEF SetDeadline
<1>7. CASE Pause(s)
  <2>1. camp' \in Camp /\ camp'.weights = camp.weights
    BY <1>7, <1>c DEF Pause, Camp
  <2> QED
    BY <1>7, <1>h, <2>1, RowWritten DEF Pause
<1>8. CASE ResubmitPaused(s)
  <2> DEFINE paused == {t \in Tasks : Kind[t] = "det" /\ row[t] = "PAUSED"}
             new == [sess[s] EXCEPT !.at = "sent", !.todo = paused]
  <2>1. /\ new \in Session /\ new.op = sess[s].op /\ new.seen = sess[s].seen
        /\ new.filled = sess[s].filled /\ new.at = "sent"
    BY <1>s DEF Session
  <2>2. sess' = [sess EXCEPT ![s] = new] /\ UNCHANGED <<camp, history, selected>>
    BY <1>8 DEF ResubmitPaused, CampaignTyped
  <2>3. Locked(s) /\ RowFree(s)
    BY <1>8, <1>h DEF ResubmitPaused
  <2> HIDE DEF new
  <2>4. sess[s].seen \in Camp
    BY <2>3 DEF LockInv
  <2>5. new.op # "reset" => new.seen.weights = camp.weights /\ new.filled = Filled
    BY <2>1, <2>3 DEF LockInv
  <2> QED
    BY <2>1, <2>2, <2>3, <2>4, <2>5, SessionMoves
<1>9. CASE Resume(s)
  <2>1. camp' \in Camp /\ camp'.weights = camp.weights
    BY <1>9, <1>c DEF Resume, Camp
  <2> QED
    BY <1>9, <1>h, <2>1, RowWritten DEF Resume
<1>10. CASE Close(s)
  <2>1. camp' \in Camp /\ camp'.weights = camp.weights
    BY <1>10, <1>c DEF Close, Camp
  <2> QED
    BY <1>10, <2>1, RowWritten DEF Close
<1>11. CASE Reopen(s)
  <2>1. camp' \in Camp /\ camp'.weights = camp.weights
    BY <1>11, <1>c DEF Reopen, Camp, None
  <2> QED
    BY <1>11, <2>1, RowWritten DEF Reopen
<1>12. CASE MarkReplayed(s)
  <2> DEFINE new == [sess[s] EXCEPT !.at = "marked"]
  <2>1. new \in Session /\ new.op = "replay" /\ new.at = "marked"
    BY <1>12, <1>s DEF MarkReplayed, Session
  <2>2. sess' = [sess EXCEPT ![s] = new] /\ UNCHANGED <<camp, history, selected>>
    BY <1>12 DEF MarkReplayed
  <2> HIDE DEF new
  <2> QED
    BY <2>1, <2>2, SessionMoves
<1> QED
  BY <1>1, <1>2, <1>3, <1>4, <1>5, <1>6, <1>7, <1>8, <1>9, <1>10, <1>11, <1>12 DEF Proceed

\* The sweep, the clock, the JD, a selection and the extraction worker.
LEMMA OutsideKeeps ==
    ASSUME CampaignInv, Outside
    PROVE  CampaignInv'
<1> USE DEF CampaignInv
<1>c. camp \in Camp /\ selected \subseteq Candidates /\ IsFiniteSet(selected)
  BY DEF CampaignTyped
<1>1. CASE FindExpired \/ JdCloses \/ Extract
  BY <1>1, CampaignUntouched DEF FindExpired, JdCloses, Extract
<1>2. CASE CloseExpired
  <2>1. camp' \in Camp /\ camp'.weights = camp.weights
    BY <1>2, <1>c DEF CloseExpired, Camp
  <2> QED
    BY <1>2, <1>c, <2>1, OtherColumns DEF CloseExpired
<1>3. CASE DeadlinePasses
  <2>1. camp' \in Camp /\ camp'.weights = camp.weights
    BY <1>3, <1>c DEF DeadlinePasses, Camp
  <2> QED
    BY <1>3, <1>c, <2>1, OtherColumns DEF DeadlinePasses
<1>4. ASSUME NEW c \in Candidates, Select(c) PROVE CampaignInv'
  <2>1. camp' \in Camp /\ camp'.weights = camp.weights
    BY <1>4, <1>c DEF Select, CloseIfFilled, Camp
  <2>2. selected' \subseteq Candidates /\ IsFiniteSet(selected')
    BY <1>4, <1>c, FS_AddElement DEF Select
  <2> QED
    BY <1>4, <2>1, <2>2, OtherColumns DEF Select
<1> QED
  BY <1>1, <1>2, <1>3, <1>4 DEF Outside

\* A function on a sequence's domain is a sequence of the same length.
LEMMA SameLength ==
    ASSUME NEW S, NEW T, NEW q \in Seq(S), NEW f, f \in [DOMAIN q -> T]
    PROVE  f \in Seq(T) /\ Len(f) = Len(q)
<1>1. Len(q) \in Nat /\ DOMAIN q = 1..Len(q)
  OBVIOUS
<1>2. f \in [1..Len(q) -> T]
  BY <1>1
<1> QED
  BY <1>1, <1>2

\* The dead letters of a task stay a list of entries.
LEMMA DlqStep ==
    ASSUME DlqTyped, Next
    PROVE  DlqTyped'
<1> USE DEF DlqTyped
<1>1. ASSUME NEW t \in Tasks, Finish(t) PROVE DlqTyped'
  <2> DEFINE new == [i \in DOMAIN dlq[t] |-> [dlq[t][i] EXCEPT !.resolved = TRUE]]
  <2>1. \A i \in DOMAIN dlq[t] : dlq[t][i] \in Entry
    OBVIOUS
  <2>2. new \in [DOMAIN dlq[t] -> Entry]
    BY <2>1 DEF Entry
  <2>3. dlq' = [dlq EXCEPT ![t] = new]
    BY <1>1 DEF Finish
  <2> HIDE DEF new
  <2>4. new \in Seq(Entry)
    BY <2>2, SameLength
  <2> QED
    BY <2>3, <2>4
<1>2. ASSUME NEW t \in Tasks, Fail(t) PROVE DlqTyped'
  <2>1. [replayed |-> FALSE, resolved |-> FALSE] \in Entry
    BY DEF Entry
  <2> QED
    BY <1>2, <2>1 DEF Fail
<1>3. ASSUME NEW s \in Admins, MarkReplayed(s) PROVE DlqTyped'
  <2> DEFINE t == sess[s].task
             new == [i \in DOMAIN dlq[t] |->
                       IF i \in sess[s].todo THEN [dlq[t][i] EXCEPT !.replayed = TRUE] ELSE dlq[t][i]]
  <2>1. dlq' = [dlq EXCEPT ![t] = new]
    BY <1>3 DEF MarkReplayed
  <2>2. t \in Tasks => \A i \in DOMAIN dlq[t] : dlq[t][i] \in Entry
    OBVIOUS
  <2>3. t \in Tasks => new \in [DOMAIN dlq[t] -> Entry]
    BY <2>2 DEF Entry
  <2> HIDE DEF new, t
  <2>4. t \in Tasks => new \in Seq(Entry)
    BY <2>3, SameLength
  <2> QED
    BY <2>1, <2>4
<1>4. ASSUME UNCHANGED dlq PROVE DlqTyped'
  BY <1>4
<1>5. ASSUME NEW s \in Admins, Begin(s) PROVE UNCHANGED dlq
  BY <1>5 DEF Begin, LockForUpdate, BeginReset, BeginClose, BeginReopen, BeginReplay
<1>6. ASSUME NEW s \in Admins, Proceed(s) PROVE MarkReplayed(s) \/ UNCHANGED dlq
  BY <1>6 DEF Proceed, LockReset, Refuse, PatchWeights, SetWeights, ResetRejected, SetOpenings,
              SetDeadline, Pause, ResubmitPaused, ResumeFails, Resume, Close, Reopen, SendReplay
<1>7. ASSUME Outside PROVE UNCHANGED dlq
  BY <1>7 DEF Outside, FindExpired, CloseExpired, DeadlinePasses, JdCloses, Extract, Select
<1>8. ASSUME NEW t \in Tasks, Start(t) PROVE UNCHANGED dlq
  BY <1>8 DEF Start
<1> QED
  BY <1>1, <1>2, <1>3, <1>4, <1>5, <1>6, <1>7, <1>8 DEF Next, Work

LEMMA CampaignInit ==
    ASSUME Init
    PROVE  CampaignInv /\ DlqTyped
<1> USE DEF Init
<1>1. camp \in Camp
  <2>1. PICK d \in {None, "future"}, n \in {0, 1} :
           camp = [status |-> "ACTIVE", deadline |-> d, openings |-> n, weights |-> Defaults]
    OBVIOUS
  <2> QED
    BY <2>1, CampaignAssumption DEF Camp
<1>2. CampaignTyped
  BY <1>1, IdleTyped, FS_EmptySet DEF CampaignTyped
<1>3. \A s \in Admins : sess[s] = Idle
  OBVIOUS
<1>4. LockInv
  BY <1>3, IdleTyped DEF LockInv, Locked, None
<1>5. LastChange /\ WeightHistoryIsChain
  BY DEF LastChange, WeightHistoryIsChain
<1>6. DlqTyped
  BY DEF DlqTyped
<1> QED
  BY <1>2, <1>4, <1>5, <1>6 DEF CampaignInv

LEMMA CampaignStep ==
    ASSUME CampaignInv, DlqTyped, [Next]_vars
    PROVE  CampaignInv'
<1>1. ASSUME NEW t \in Tasks, Work(t) PROVE CampaignInv'
  BY <1>1, CampaignUntouched DEF Work, Start, Finish, Fail
<1>2. CASE UNCHANGED vars
  BY <1>2, CampaignUntouched DEF vars
<1> QED
  BY <1>1, <1>2, RequestBegins, RequestProceeds, OutsideKeeps DEF Next

\* Every change of the scoring weights made under the row lock starts from the weights the
\* change before it left, with any number of administrators editing, resetting, pausing,
\* closing and selecting (update_campaign, update_scoring_configuration: SELECT FOR UPDATE).
THEOREM HistoryIsChain == Spec => []WeightHistoryIsChain
<1>1. Init => CampaignInv /\ DlqTyped
  BY CampaignInit
<1>2. CampaignInv /\ DlqTyped /\ [Next]_vars => (CampaignInv /\ DlqTyped)'
  <2>1. DlqTyped /\ UNCHANGED vars => DlqTyped'
    BY DEF DlqTyped, vars
  <2> QED
    BY <2>1, CampaignStep, DlqStep
<1>3. CampaignInv => WeightHistoryIsChain
  BY DEF CampaignInv
<1> QED
  BY <1>1, <1>2, <1>3, PTL DEF Spec

\* The openings are never set below the candidates selected by then: the count is taken under
\* the lock a selection waits for (update_campaign's positions check, _apply_selection).
THEOREM OpeningsKeepCover == Spec => OpeningsCoverFilled
<1>1. ASSUME CampaignInv, Next, camp'.openings # camp.openings, camp'.openings # 0
      PROVE  camp'.openings >= Cardinality(selected')
  <2> USE DEF CampaignInv
  <2>1. camp \in Camp
    BY <1>1 DEF CampaignTyped
  <2>2. ASSUME NEW s \in Admins, SetOpenings(s) PROVE camp'.openings >= Cardinality(selected')
    <3>1. PICK n \in 0..MaxOpenings : /\ n # 0 => n >= sess[s].filled
                                      /\ camp' = [camp EXCEPT !.openings = n]
      BY <2>2 DEF SetOpenings
    <3>2. camp'.openings = n
      BY <2>1, <3>1 DEF Camp
    <3>3. sess[s].filled = Cardinality(selected) /\ selected' = selected
      BY <1>1, <2>2 DEF SetOpenings, Accepted, LockInv, Locked, Filled
    <3> QED
      BY <1>1, <3>1, <3>2, <3>3
  <2>3. ASSUME NEW s \in Admins, Begin(s) PROVE UNCHANGED camp
    BY <2>3 DEF Begin, LockForUpdate, BeginReset, BeginClose, BeginReopen, BeginReplay
  <2>4. ASSUME NEW s \in Admins, Proceed(s) PROVE SetOpenings(s) \/ camp'.openings = camp.openings
    <3>1. CASE LockReset(s) \/ Refuse(s) \/ ResetRejected(s) \/ ResubmitPaused(s) \/ ResumeFails(s)
               \/ MarkReplayed(s) \/ SendReplay(s)
      BY <3>1 DEF LockReset, Refuse, ResetRejected, ResubmitPaused, ResumeFails, MarkReplayed, SendReplay
    <3>2. CASE PatchWeights(s) \/ SetWeights(s)
      BY <2>1, <3>2 DEF PatchWeights, SetWeights, RecordChange, Camp
    <3>3. CASE SetDeadline(s) \/ Pause(s) \/ Resume(s) \/ Close(s) \/ Reopen(s)
      BY <2>1, <3>3 DEF SetDeadline, Pause, Resume, Close, Reopen, Camp
    <3> QED
      BY <2>4, <3>1, <3>2, <3>3 DEF Proceed
  <2>5. ASSUME Outside PROVE camp'.openings = camp.openings
    BY <2>1, <2>5 DEF Outside, FindExpired, CloseExpired, DeadlinePasses, JdCloses, Extract, Select,
                      CloseIfFilled, Camp
  <2>6. ASSUME NEW t \in Tasks, Work(t) PROVE UNCHANGED camp
    BY <2>6 DEF Work, Start, Finish, Fail
  <2> QED
    BY <1>1, <2>2, <2>3, <2>4, <2>5, <2>6 DEF Next
<1>2. CampaignInv /\ [Next]_vars =>
        [camp'.openings # camp.openings /\ camp'.openings # 0
           => camp'.openings >= Cardinality(selected')]_vars
  BY <1>1
<1>3. Init => CampaignInv /\ DlqTyped
  BY CampaignInit
<1>4. CampaignInv /\ DlqTyped /\ [Next]_vars => (CampaignInv /\ DlqTyped)'
  <2>1. DlqTyped /\ UNCHANGED vars => DlqTyped'
    BY DEF DlqTyped, vars
  <2> QED
    BY <2>1, CampaignStep, DlqStep
<1> QED
  BY <1>2, <1>3, <1>4, PTL DEF Spec, OpeningsCoverFilled

---------------------------------------------------------------------------
(* The interview rounds and their mail.                                    *)

RoundRow == [status : Status, start : Times \cup {0}, filled : Nat]

\* Whoever may sit on a panel.
People == UNION {UNION a.panels : a \in Agendas}

PanelRow == [round : Nat, who : People, active : BOOLEAN]

MailRow == [kind : Notices, round : Nat, to : Nat, start : Times \cup {0},
            status : {"QUEUED", "SENT", "FAILED"}, tries : Nat, sent : Nat]

Asked == [op : Operations, at : {"save", "check"}, round : Nat, read : RoundRow, start : Times,
          panel : SUBSET People, event : BOOLEAN, removed : SUBSET Nat]

Notifying == [op : {"notify"}, at : {"enqueue"}, round : Nat, notices : SUBSET (Notices \X Nat)]

BudgetTyped ==
    /\ {"panels", "times"} \subseteq DOMAIN budget /\ budget.times \subseteq Times
    /\ \A p \in budget.panels : IsFiniteSet(p) /\ p \subseteq People

TablesTyped ==
    /\ rounds \in Seq(RoundRow) /\ rounds # <<>>
    /\ panel \in Seq(PanelRow)
    /\ outbox \in Seq(MailRow)

\* A request is about a round there is; what it will queue is finite.
RequestTyped(q) ==
    \/ q = NoRequest
    \/ q \in Asked /\ q.round \in DOMAIN rounds /\ IsFiniteSet(q.panel) /\ IsFiniteSet(q.removed)
    \/ q \in Notifying /\ q.round \in DOMAIN rounds /\ IsFiniteSet(q.notices)

RequestsTyped ==
    /\ DOMAIN req = Clerks \cup {Beat}
    /\ \A c \in Clerks \cup {Beat} : RequestTyped(req[c])

RoundsTyped == BudgetTyped /\ TablesTyped /\ RequestsTyped

\* Only the first round waits for its booking, and who has read a PENDING round read that one.
OnlyFirstBlank ==
    /\ \A r \in DOMAIN rounds : r > 1 => rounds[r].status # "PENDING"
    /\ \A c \in Clerks \cup {Beat} : req[c] \in Asked /\ req[c].read.status = "PENDING" => req[c].round = 1

---------------------------------------------------------------------------

\* The members of a round are finitely many panel rows.
LEMMA ActiveFinite ==
    ASSUME TablesTyped, NEW r
    PROVE  IsFiniteSet(Active(r)) /\ Active(r) \subseteq Nat
<1>1. Len(panel) \in Nat /\ DOMAIN panel = 1..Len(panel)
  BY DEF TablesTyped
<1>2. IsFiniteSet(1..Len(panel))
  BY <1>1, FS_Interval
<1>3. Active(r) \subseteq 1..Len(panel)
  BY <1>1 DEF Active
<1> QED
  BY <1>2, <1>3, FS_Subset

\* One notice of a kind to each of finitely many addressees.
LEMMA NoticesTo ==
    ASSUME NEW kind \in Notices, NEW I, IsFiniteSet(I), I \subseteq Nat
    PROVE  IsFiniteSet({<<kind, i>> : i \in I}) /\ {<<kind, i>> : i \in I} \subseteq Notices \X Nat
<1> DEFINE S == {<<kind, i>> : i \in I}
           f == [i \in I |-> <<kind, i>>]
<1>1. f \in Surjection(I, S)
  BY DEF Surjection
<1>2. IsFiniteSet(S)
  BY <1>1, FS_Surjection
<1> QED
  BY <1>2

LEMMA CandidateNotice ==
    ASSUME NEW kind \in Notices, NEW r
    PROVE  IsFiniteSet(ToCandidate(kind, r)) /\ ToCandidate(kind, r) \subseteq Notices \X Nat
<1>1. CASE Notified(kind, r, Candidate)
  BY <1>1, FS_EmptySet DEF ToCandidate
<1>2. CASE ~Notified(kind, r, Candidate)
  <2>1. ToCandidate(kind, r) = {<<kind, 0>>}
    BY <1>2 DEF ToCandidate, Candidate
  <2>2. IsFiniteSet({<<kind, 0>>})
    BY FS_Singleton
  <2>3. {<<kind, 0>>} \subseteq Notices \X Nat
    OBVIOUS
  <2> QED
    BY <2>1, <2>2, <2>3
<1> QED
  BY <1>1, <1>2

LEMMA PanelNotices ==
    ASSUME TablesTyped, NEW r, NEW moved \in BOOLEAN
    PROVE  IsFiniteSet(ToPanel(r, moved)) /\ ToPanel(r, moved) \subseteq Notices \X Nat
<1> DEFINE invited == {i \in Active(r) : Notified("invitation", r, i)}
           again == {j \in invited : ~Notified("moved", r, j)}
<1>1. /\ IsFiniteSet(Active(r) \ invited) /\ Active(r) \ invited \subseteq Nat
      /\ IsFiniteSet(again) /\ again \subseteq Nat
  BY ActiveFinite, FS_Subset
<1> HIDE DEF again
<1>2. LET A == {<<"invitation", i>> : i \in Active(r) \ invited}
      IN IsFiniteSet(A) /\ A \subseteq Notices \X Nat
  BY <1>1, NoticesTo DEF Notices
<1>3. LET B == {<<"moved", i>> : i \in again}
      IN IsFiniteSet(B) /\ B \subseteq Notices \X Nat
  BY <1>1, NoticesTo DEF Notices
<1> USE DEF again
<1>4. ToPanel(r, moved) = {<<"invitation", i>> : i \in Active(r) \ invited}
                          \cup (IF moved THEN {<<"moved", i>> : i \in again} ELSE {})
  BY DEF ToPanel
<1> DEFINE A == {<<"invitation", i>> : i \in Active(r) \ invited}
           B == IF moved THEN {<<"moved", i>> : i \in again} ELSE {}
<1>5. IsFiniteSet(B) /\ B \subseteq Notices \X Nat
  BY <1>3, FS_EmptySet
<1>6. IsFiniteSet(A) /\ A \subseteq Notices \X Nat /\ ToPanel(r, moved) = A \cup B
  BY <1>2, <1>4
<1> HIDE DEF A, B
<1> QED
  BY <1>5, <1>6, FS_Union

LEMMA AskNotices ==
    ASSUME TablesTyped, NEW r
    PROVE  IsFiniteSet(ToAsk(r)) /\ ToAsk(r) \subseteq Notices \X Nat
<1> DEFINE I == {j \in Active(r) \ feedback : ~Notified("feedback_requested", r, j)}
<1>1. IsFiniteSet(I) /\ I \subseteq Nat
  BY ActiveFinite, FS_Subset
<1>2. ToAsk(r) = {<<"feedback_requested", i>> : i \in I}
  BY DEF ToAsk
<1> HIDE DEF I
<1> QED
  BY <1>1, <1>2, NoticesTo DEF Notices

LEMMA RemovedNotices ==
    ASSUME NEW r, NEW removed, IsFiniteSet(removed), removed \subseteq Nat
    PROVE  IsFiniteSet(ToRemoved(r, removed)) /\ ToRemoved(r, removed) \subseteq Notices \X Nat
<1> DEFINE I == {j \in removed : ~Notified("removed", r, j)}
<1>1. IsFiniteSet(I) /\ I \subseteq Nat
  BY FS_Subset
<1>2. ToRemoved(r, removed) = {<<"removed", i>> : i \in I}
  BY DEF ToRemoved
<1> HIDE DEF I
<1> QED
  BY <1>1, <1>2, NoticesTo DEF Notices

\* What a request finds due is a finite set of notices.
LEMMA DueTyped ==
    ASSUME TablesTyped, NEW q \in Asked, IsFiniteSet(q.removed)
    PROVE  IsFiniteSet(Due(q)) /\ Due(q) \subseteq Notices \X Nat
<1> DEFINE r == q.round
           off == {j \in Active(r) : ~Notified("called_off", r, j)}
<1>1. q.removed \subseteq Nat /\ q.event \in BOOLEAN /\ q.op \in Operations
  BY DEF Asked
<1>2. IsFiniteSet(off) /\ off \subseteq Nat
  BY ActiveFinite, FS_Subset
<1> HIDE DEF off
<1>3. LET C == {<<"called_off", i>> : i \in off}
      IN IsFiniteSet(C) /\ C \subseteq Notices \X Nat
  BY <1>2, NoticesTo DEF Notices
<1> HIDE DEF r
<1>4. \A k \in Notices : IsFiniteSet(ToCandidate(k, r)) /\ ToCandidate(k, r) \subseteq Notices \X Nat
  BY CandidateNotice
<1>5. \A m \in BOOLEAN : IsFiniteSet(ToPanel(r, m)) /\ ToPanel(r, m) \subseteq Notices \X Nat
  BY PanelNotices
<1>6. IsFiniteSet(ToRemoved(r, q.removed)) /\ ToRemoved(r, q.removed) \subseteq Notices \X Nat
  BY <1>1, RemovedNotices
<1>7. CASE q.op = "schedule"
  <2>1. Due(q) = ToCandidate("scheduled", r) \cup ToPanel(r, FALSE) \cup ToRemoved(r, q.removed)
    BY <1>7 DEF Due, r
  <2>2. "scheduled" \in Notices
    BY DEF Notices
  <2>3. IsFiniteSet(ToCandidate("scheduled", r) \cup ToPanel(r, FALSE))
    BY <1>4, <1>5, <2>2, FS_Union
  <2> QED
    BY <1>4, <1>5, <1>6, <2>1, <2>2, <2>3, FS_Union
<1>8. CASE q.op = "reschedule"
  <2> DEFINE first == IF q.event THEN ToCandidate("rescheduled", r) ELSE {}
  <2>1. Due(q) = first \cup ToPanel(r, q.event) \cup ToRemoved(r, q.removed)
    BY <1>8 DEF Due, r
  <2>2. IsFiniteSet(first) /\ first \subseteq Notices \X Nat
    <3>1. "rescheduled" \in Notices
      BY DEF Notices
    <3> QED
      BY <1>4, <3>1, FS_EmptySet
  <2> HIDE DEF first
  <2>3. IsFiniteSet(first \cup ToPanel(r, q.event))
    BY <1>1, <1>5, <2>2, FS_Union
  <2> QED
    BY <1>1, <1>5, <1>6, <2>1, <2>2, <2>3, FS_Union
<1>9. CASE q.op = "cancel"
  <2>1. Due(q) = ToCandidate("cancelled", r) \cup {<<"called_off", i>> : i \in off}
    BY <1>9 DEF Due, r, off
  <2>2. "cancelled" \in Notices
    BY DEF Notices
  <2> QED
    BY <1>3, <1>4, <2>1, <2>2, FS_Union
<1>10. CASE q.op \notin {"schedule", "reschedule", "cancel"}
  <2>1. Due(q) = ToAsk(r)
    BY <1>10 DEF Due, r
  <2> QED
    BY <2>1, AskNotices
<1> QED
  BY <1>7, <1>8, <1>9, <1>10

---------------------------------------------------------------------------

\* SetToSeq lists a finite set: each of its members, and nothing else.
LEMMA ListsTheSet ==
    ASSUME NEW S, IsFiniteSet(S)
    PROVE  /\ Cardinality(S) \in Nat
           /\ SetToSeq(S) \in [1..Cardinality(S) -> S]
<1>1. PICK n \in Nat : ExistsBijection(1..n, S)
  BY FS_NatBijection
<1>2. n = Cardinality(S)
  BY <1>1, FS_CountingElements
<1>3. PICK f \in [1..n -> S] : IsInjective(f)
  <2>1. PICK f : f \in Bijection(1..n, S)
    BY <1>1 DEF ExistsBijection
  <2>2. f \in [1..n -> S] /\ IsInjective(f)
    BY <2>1 DEF Bijection, Injection, IsInjective
  <2> QED
    BY <2>2
<1> QED
  BY <1>1, <1>2, <1>3 DEF SetToSeq

\* Queueing appends rows to the outbox, which are new and waiting.
LEMMA Queued ==
    ASSUME TablesTyped, NEW r \in DOMAIN rounds, NEW notices, IsFiniteSet(notices),
           notices \subseteq Notices \X Nat, NEW sent, Enqueued(r, notices, sent)
    PROVE  /\ outbox' \in Seq(MailRow)
           /\ \A m \in DOMAIN outbox : m \in DOMAIN outbox' /\ outbox'[m] = outbox[m]
<1> DEFINE new == [k \in 1..Cardinality(notices) |->
                LET n == SetToSeq(notices)[k]
                IN [kind |-> n[1], round |-> r, to |-> n[2], start |-> rounds[r].start,
                    status |-> "QUEUED", tries |-> 0, sent |-> 0]]
<1>1. outbox' = outbox \o new
  BY DEF Enqueued
<1>2. rounds[r].start \in Times \cup {0} /\ r \in Nat
  <2>1. rounds[r] \in RoundRow /\ r \in Nat
    BY DEF TablesTyped
  <2> QED
    BY <2>1 DEF RoundRow
<1>3. new \in Seq(MailRow)
  <2>1. ASSUME NEW k \in 1..Cardinality(notices) PROVE new[k] \in MailRow
    <3>1. SetToSeq(notices)[k] \in Notices \X Nat
      BY ListsTheSet
    <3> QED
      BY <1>2, <3>1 DEF MailRow
  <2>2. new \in [1..Cardinality(notices) -> MailRow]
    BY <2>1
  <2> QED
    BY <2>2, ListsTheSet
<1> HIDE DEF new
<1> QED
  BY <1>1, <1>3 DEF TablesTyped

\* Seating keeps the rows there are, switched on or off, and gives newcomers rows of their own.
LEMMA SeatTyped ==
    ASSUME TablesTyped, NEW r \in Nat, NEW p \in SUBSET People, IsFiniteSet(p)
    PROVE  Seat(r, p) \in Seq(PanelRow)
<1> DEFINE kept == {i \in Active(r) : panel[i].who \in p}
           old == [i \in DOMAIN panel |-> [panel[i] EXCEPT !.active =
                                IF i \in Active(r) THEN i \in kept ELSE @]]
           missing == p \ {panel[i].who : i \in kept}
           fresh == SetToSeq(missing)
           new == [k \in DOMAIN fresh |-> [round |-> r, who |-> fresh[k], active |-> TRUE]]
<1>1. Seat(r, p) = old \o new
  BY DEF Seat
<1>2. old \in Seq(PanelRow)
  <2>1. ASSUME NEW i \in DOMAIN panel
        PROVE  [panel[i] EXCEPT !.active = IF i \in Active(r) THEN i \in kept ELSE @] \in PanelRow
    <3>1. panel[i] \in PanelRow
      BY DEF TablesTyped
    <3>2. (IF i \in Active(r) THEN i \in kept ELSE panel[i].active) \in BOOLEAN
      <4>1. panel[i].active \in BOOLEAN
        BY <3>1 DEF PanelRow
      <4>2. (i \in kept) \in BOOLEAN
        OBVIOUS
      <4> QED
        BY <4>1, <4>2, Zenon
    <3> QED
      BY <3>1, <3>2 DEF PanelRow
  <2>2. old \in [DOMAIN panel -> PanelRow]
    BY <2>1
  <2> HIDE DEF old
  <2> QED
    BY <2>2, SameLength DEF TablesTyped
<1>3. new \in Seq(PanelRow)
  <2>1. IsFiniteSet(missing) /\ missing \subseteq People
    BY FS_Subset
  <2> HIDE DEF missing
  <2>2. Cardinality(missing) \in Nat /\ fresh \in [1..Cardinality(missing) -> missing]
    BY <2>1, ListsTheSet
  <2> HIDE DEF fresh
  <2>3. new \in [1..Cardinality(missing) -> PanelRow]
    BY <2>1, <2>2 DEF PanelRow
  <2> HIDE DEF new
  <2> QED
    BY <2>2, <2>3
<1> HIDE DEF old, new
<1> QED
  BY <1>1, <1>2, <1>3

\* Spending leaves the panels and the times of the agenda.
LEMMA Spent ==
    ASSUME BudgetTyped, NEW kind, Use(kind), kind \notin {"panels", "times"}
    PROVE  BudgetTyped'
BY DEF BudgetTyped, Use

\* The requests stay typed when the rounds keep their number or grow.
LEMMA RequestsStay ==
    ASSUME RequestsTyped, DOMAIN rounds \subseteq DOMAIN rounds', UNCHANGED req
    PROVE  RequestsTyped'
BY DEF RequestsTyped, RequestTyped

LEMMA RequestMoves ==
    ASSUME RequestsTyped, NEW c \in Clerks \cup {Beat}, NEW q, req' = [req EXCEPT ![c] = q],
           DOMAIN rounds \subseteq DOMAIN rounds', RequestTyped(q)'
    PROVE  /\ RequestsTyped'
           /\ req'[c] = q
           /\ \A d \in (Clerks \cup {Beat}) \ {c} : req'[d] = req[d]
BY DEF RequestsTyped, RequestTyped

RoundsInv == RoundsTyped /\ OnlyFirstBlank /\ NextRoundFilledOnce

\* What a request's fields tell of its kind.
LEMMA RequestKinds ==
    ASSUME RequestsTyped, NEW c \in Clerks \cup {Beat}
    PROVE  /\ req[c].op \in Operations \/ (req[c] # NoRequest /\ req[c].at = "check") =>
                 /\ req[c] \in Asked /\ req[c].round \in DOMAIN rounds
                 /\ IsFiniteSet(req[c].panel) /\ IsFiniteSet(req[c].removed)
           /\ req[c] # NoRequest /\ req[c].at = "enqueue" =>
                 req[c] \in Notifying /\ req[c].round \in DOMAIN rounds /\ IsFiniteSet(req[c].notices)
BY DEF RequestsTyped, RequestTyped, NoRequest, Asked, Notifying, Operations

\* Rounds that are written in place keep their number and their count of bookings.
LEMMA RoundsInPlace ==
    ASSUME RoundsInv, TablesTyped', DOMAIN rounds' = DOMAIN rounds, RequestsTyped', BudgetTyped',
           \A r \in DOMAIN rounds : /\ r > 1 => rounds'[r].filled = rounds[r].filled
                                    /\ r > 1 /\ rounds'[r].status = "PENDING" => rounds[r].status = "PENDING",
           \A c \in Clerks \cup {Beat} :
              req'[c] \in Asked /\ req'[c].read.status = "PENDING" => req'[c].round = 1
    PROVE  RoundsInv'
BY DEF RoundsInv, RoundsTyped, OnlyFirstBlank, NextRoundFilledOnce

\* The mail, the clock and the feedback leave rounds and requests alone.
LEMMA RoundsUntouched ==
    ASSUME RoundsInv, UNCHANGED <<rounds, req, panel>>, outbox' \in Seq(MailRow), BudgetTyped'
    PROVE  RoundsInv'
BY DEF RoundsInv, RoundsTyped, OnlyFirstBlank, NextRoundFilledOnce, TablesTyped, RequestsTyped, RequestTyped

\* A mail row that is marked stays a mail row.
LEMMA MailMarked ==
    ASSUME outbox \in Seq(MailRow), NEW m,
           \/ outbox' = [outbox EXCEPT ![m].sent = @ + 1]
           \/ outbox' = [outbox EXCEPT ![m].status = "SENT"]
           \/ outbox' = [outbox EXCEPT ![m].tries = @ + 1]
           \/ outbox' = [outbox EXCEPT ![m].tries = @ + 1, ![m].status = "FAILED"]
           \/ outbox' = [outbox EXCEPT ![m].tries = @ + 1, ![m].status = "SENT"]
    PROVE  outbox' \in Seq(MailRow)
<1>1. DOMAIN outbox' = DOMAIN outbox
  OBVIOUS
<1>2. ASSUME NEW i \in DOMAIN outbox PROVE outbox'[i] \in MailRow
  <2>1. outbox[i] \in MailRow
    OBVIOUS
  <2>2. \/ outbox'[i] = outbox[i]
        \/ outbox'[i] = [outbox[i] EXCEPT !.sent = @ + 1]
        \/ outbox'[i] = [outbox[i] EXCEPT !.status = "SENT"]
        \/ outbox'[i] = [outbox[i] EXCEPT !.tries = @ + 1]
        \/ outbox'[i] = [[outbox[i] EXCEPT !.tries = @ + 1] EXCEPT !.status = "FAILED"]
        \/ outbox'[i] = [[outbox[i] EXCEPT !.tries = @ + 1] EXCEPT !.status = "SENT"]
    <3>1. CASE outbox' = [outbox EXCEPT ![m].sent = @ + 1]
      BY <3>1
    <3>2. CASE outbox' = [outbox EXCEPT ![m].status = "SENT"]
      BY <3>2
    <3>3. CASE outbox' = [outbox EXCEPT ![m].tries = @ + 1]
      BY <3>3
    <3>4. CASE outbox' = [outbox EXCEPT ![m].tries = @ + 1, ![m].status = "FAILED"]
      BY <3>4
    <3>5. CASE outbox' = [outbox EXCEPT ![m].tries = @ + 1, ![m].status = "SENT"]
      BY <3>5
    <3> QED
      BY <3>1, <3>2, <3>3, <3>4, <3>5
  <2>3. outbox[i].sent + 1 \in Nat /\ outbox[i].tries + 1 \in Nat
    <3>1. outbox[i].sent \in Nat /\ outbox[i].tries \in Nat
      BY ONLY <2>1 DEF MailRow
    <3> QED
      BY ONLY <3>1
  <2>4. \A n \in Nat : /\ [outbox[i] EXCEPT !.sent = n] \in MailRow
                       /\ [outbox[i] EXCEPT !.tries = n] \in MailRow
                       /\ [[outbox[i] EXCEPT !.tries = n] EXCEPT !.status = "FAILED"] \in MailRow
                       /\ [[outbox[i] EXCEPT !.tries = n] EXCEPT !.status = "SENT"] \in MailRow
    BY <2>1 DEF MailRow
  <2>5. [outbox[i] EXCEPT !.status = "SENT"] \in MailRow
    BY <2>1 DEF MailRow
  <2> QED
    BY <2>1, <2>2, <2>3, <2>4, <2>5
<1>3. outbox' \in [DOMAIN outbox -> MailRow]
  <2>1. outbox' = [i \in DOMAIN outbox |-> outbox'[i]]
    OBVIOUS
  <2> QED
    BY <1>2, <2>1
<1> QED
  BY <1>3, SameLength

\* Mail, feedback and the clock.
LEMMA MailStep ==
    ASSUME RoundsInv, Mail \/ SendUnlogged \/ MailerCrashes \/ SendFails \/ SubmitFeedback \/ Tick
    PROVE  RoundsInv'
<1> USE DEF RoundsInv, RoundsTyped
<1>o. outbox \in Seq(MailRow)
  BY DEF TablesTyped
<1>b. UNCHANGED budget => BudgetTyped'
  BY DEF BudgetTyped
<1>1. CASE SendBegins
  <2>1. outbox' \in Seq(MailRow)
    BY <1>1, <1>o, MailMarked DEF SendBegins
  <2> QED
    BY <1>1, <1>b, <2>1, RoundsUntouched DEF SendBegins
<1>2. CASE SendRecorded
  <2>1. outbox' \in Seq(MailRow)
    BY <1>2, <1>o, MailMarked DEF SendRecorded
  <2>2. BudgetTyped'
    BY <1>2, <1>b, Spent DEF SendRecorded
  <2> QED
    BY <1>2, <2>1, <2>2, RoundsUntouched DEF SendRecorded
<1>3. CASE MailerCrashes
  BY <1>3, <1>o, Spent, RoundsUntouched DEF MailerCrashes
<1>4. CASE SendFails
  <2>1. outbox' \in Seq(MailRow)
    BY <1>4, <1>o, MailMarked DEF SendFails
  <2>2. BudgetTyped'
    BY <1>4, Spent DEF SendFails
  <2> QED
    BY <1>4, <2>1, <2>2, RoundsUntouched DEF SendFails
<1>5. CASE SubmitFeedback
  BY <1>5, <1>o, Spent, RoundsUntouched DEF SubmitFeedback
<1>6. CASE Tick
  BY <1>6, <1>o, <1>b, RoundsUntouched DEF Tick
<1>7. CASE SendUnlogged
  <2>1. outbox' \in Seq(MailRow)
    BY <1>7, <1>o, MailMarked DEF SendUnlogged
  <2>2. BudgetTyped'
    BY <1>7, Spent DEF SendUnlogged
  <2> QED
    BY <1>7, <2>1, <2>2, RoundsUntouched DEF SendUnlogged
<1> QED
  BY <1>1, <1>2, <1>3, <1>4, <1>5, <1>6, <1>7 DEF Mail

\* A request is loaded: it reads the round it is about.
LEMMA LoadStep ==
    ASSUME RoundsInv, NEW c \in Clerks, Load(c)
    PROVE  RoundsInv'
<1> USE DEF RoundsInv, RoundsTyped
<1>1. PICK op \in Operations : Use(op) /\ \E r \in Target(op), t \in budget.times, p \in budget.panels :
       req' = [req EXCEPT ![c] =
            [op |-> op, at |-> IF op = "request_feedback" THEN "check" ELSE "save",
             round |-> r, read |-> rounds[r], start |-> t, panel |-> p,
             event |-> FALSE, removed |-> {}]]
  BY DEF Load
<1>2. PICK r \in Target(op), t \in budget.times, p \in budget.panels :
       req' = [req EXCEPT ![c] =
            [op |-> op, at |-> IF op = "request_feedback" THEN "check" ELSE "save",
             round |-> r, read |-> rounds[r], start |-> t, panel |-> p,
             event |-> FALSE, removed |-> {}]]
  BY <1>1
<1>q. PICK q : q = [op |-> op, at |-> IF op = "request_feedback" THEN "check" ELSE "save",
             round |-> r, read |-> rounds[r], start |-> t, panel |-> p,
             event |-> FALSE, removed |-> {}]
  OBVIOUS
<1>3. UNCHANGED <<rounds, panel, outbox>>
  BY DEF Load
<1>4. r \in DOMAIN rounds /\ r \in Nat \ {0} /\ rounds[r] \in RoundRow
  <2>1. Len(rounds) \in DOMAIN rounds
    BY DEF TablesTyped
  <2>2. r \in DOMAIN rounds
    BY <2>1 DEF Target
  <2> QED
    BY <2>2 DEF TablesTyped
<1>5. /\ q \in Asked /\ q.round = r /\ q.read = rounds[r]
      /\ IsFiniteSet(q.panel) /\ IsFiniteSet(q.removed)
  BY <1>4, <1>q, FS_EmptySet DEF Asked, BudgetTyped
<1>6. req' = [req EXCEPT ![c] = q]
  BY <1>2, <1>q
<1>7. BudgetTyped'
  BY <1>1, Spent DEF Operations
<1>8. TablesTyped'
  BY <1>3 DEF TablesTyped
<1>9. RequestTyped(q)'
  BY <1>3, <1>4, <1>5 DEF RequestTyped
<1>10. /\ RequestsTyped' /\ req'[c] = q
       /\ \A d \in (Clerks \cup {Beat}) \ {c} : req'[d] = req[d]
  BY <1>3, <1>6, <1>9, RequestMoves
<1>11. q.read.status = "PENDING" => q.round = 1
  BY <1>4, <1>5 DEF OnlyFirstBlank
<1> QED
  BY <1>3, <1>7, <1>8, <1>10, <1>11, RoundsInPlace DEF OnlyFirstBlank

\* A request commits a write to the round it is about, in place, and goes on to its notices.
LEMMA WrittenInPlace ==
    ASSUME RoundsInv, NEW c \in Clerks, req[c] \in Asked, req[c].round \in DOMAIN rounds,
           IsFiniteSet(req[c].panel),
           NEW event \in BOOLEAN, NEW removed \in SUBSET Nat, IsFiniteSet(removed),
           Committed(c, req[c].round, event, removed),
           rounds' \in Seq(RoundRow), panel' \in Seq(PanelRow), UNCHANGED <<outbox, budget>>,
           DOMAIN rounds' = DOMAIN rounds,
           \A r \in DOMAIN rounds : /\ r > 1 => rounds'[r].filled = rounds[r].filled
                                    /\ r > 1 /\ rounds'[r].status = "PENDING" => rounds[r].status = "PENDING"
    PROVE  RoundsInv'
<1> USE DEF RoundsInv, RoundsTyped
<1>q. PICK q : q = [req[c] EXCEPT !.at = "check", !.round = req[c].round, !.event = event, !.removed = removed]
  OBVIOUS
<1>1. req' = [req EXCEPT ![c] = q]
  BY <1>q DEF Committed, RequestsTyped
<1>2. /\ q \in Asked /\ q.round = req[c].round /\ q.read = req[c].read
      /\ q.panel = req[c].panel /\ q.removed = removed
  BY <1>q DEF Asked
<1>3. TablesTyped'
  <2>1. rounds # <<>> => rounds' # <<>>
    OBVIOUS
  <2> QED
    BY <2>1 DEF TablesTyped
<1>4. RequestTyped(q)'
  BY <1>2 DEF RequestTyped
<1>5. /\ RequestsTyped' /\ req'[c] = q
      /\ \A d \in (Clerks \cup {Beat}) \ {c} : req'[d] = req[d]
  BY <1>1, <1>4, RequestMoves
<1>6. BudgetTyped'
  BY DEF BudgetTyped
<1>7. \A d \in Clerks \cup {Beat} :
         req'[d] \in Asked /\ req'[d].read.status = "PENDING" => req'[d].round = 1
  BY <1>2, <1>5 DEF OnlyFirstBlank
<1> QED
  BY <1>3, <1>5, <1>6, <1>7, RoundsInPlace

LEMMA CancelStep ==
    ASSUME RoundsInv, NEW c \in Clerks, SaveCancel(c) \/ SaveComplete(c)
    PROVE  RoundsInv'
<1> USE DEF RoundsInv, RoundsTyped
<1>1. PICK new \in {"CANCELLED", "COMPLETED"} :
        /\ rounds' = [rounds EXCEPT ![req[c].round].status = new]
        /\ Committed(c, req[c].round, FALSE, {})
        /\ UNCHANGED <<panel, outbox, budget>>
        /\ req[c].op \in Operations
  BY DEF SaveCancel, SaveComplete, Operations
<1>2. req[c] \in Asked /\ req[c].round \in DOMAIN rounds /\ IsFiniteSet(req[c].panel)
  BY <1>1, RequestKinds
<1> DEFINE r == req[c].round
<1>r. r \in DOMAIN rounds
  BY <1>2
<1>3. rounds[r] \in RoundRow
  BY <1>2 DEF TablesTyped
<1>4. /\ [rounds[r] EXCEPT !.status = new] \in RoundRow
      /\ [rounds[r] EXCEPT !.status = new].status = new
      /\ [rounds[r] EXCEPT !.status = new].filled = rounds[r].filled
  BY <1>3 DEF RoundRow, Status
<1>5. rounds' = [rounds EXCEPT ![r] = [rounds[r] EXCEPT !.status = new]]
  BY <1>1
<1> HIDE DEF r
<1>6. rounds' \in Seq(RoundRow) /\ DOMAIN rounds' = DOMAIN rounds
  BY <1>4, <1>5, <1>r DEF TablesTyped
<1>7. \A i \in DOMAIN rounds : /\ i > 1 => rounds'[i].filled = rounds[i].filled
                               /\ i > 1 /\ rounds'[i].status = "PENDING" => rounds[i].status = "PENDING"
  BY <1>4, <1>5
<1> USE DEF r
<1>8. panel' \in Seq(PanelRow)
  BY <1>1 DEF TablesTyped
<1> QED
  BY <1>1, <1>2, <1>6, <1>7, <1>8, FS_EmptySet, WrittenInPlace

LEMMA RescheduleStep ==
    ASSUME RoundsInv, NEW c \in Clerks, SaveReschedule(c)
    PROVE  RoundsInv'
<1> USE DEF RoundsInv, RoundsTyped
<1> DEFINE q == req[c]
           r == q.round
           event == q.read.status = "CANCELLED" \/ q.start # q.read.start
           status == IF event THEN "RESCHEDULED" ELSE q.read.status
           status2 == Write(q.read.status, status, rounds[r].status)
           start2 == Write(q.read.start, q.start, rounds[r].start)
<1>1. /\ rounds' = [rounds EXCEPT ![r].status = status2, ![r].start = start2]
      /\ panel' = Seat(r, q.panel)
      /\ Committed(c, r, event, Dropped(r, q.panel))
      /\ UNCHANGED <<outbox, budget>> /\ q.op \in Operations
  <2>1. rounds' = [rounds EXCEPT ![r].status = status2, ![r].start = start2]
    BY DEF SaveReschedule
  <2> QED
    BY <2>1, Zenon DEF SaveReschedule, Operations
<1>2. q \in Asked /\ r \in DOMAIN rounds /\ IsFiniteSet(q.panel)
  BY <1>1, RequestKinds
<1>3. rounds[r] \in RoundRow /\ r \in Nat
  BY <1>2 DEF TablesTyped
<1>4. q.read \in RoundRow /\ q.start \in Times /\ q.panel \in SUBSET People
  BY <1>2 DEF Asked
<1>5. status2 \in {rounds[r].status, "RESCHEDULED"} /\ start2 \in Times \cup {0}
  BY <1>3, <1>4 DEF Write, RoundRow
<1>6. event \in BOOLEAN
  OBVIOUS
<1> HIDE DEF event, status, status2, start2
<1>7. rounds' \in Seq(RoundRow) /\ DOMAIN rounds' = DOMAIN rounds
  <2>1. \A s \in Status, t \in Times \cup {0} :
           [[rounds[r] EXCEPT !.status = s] EXCEPT !.start = t] \in RoundRow
    BY <1>3 DEF RoundRow
  <2>2. status2 \in Status
    BY <1>3, <1>5 DEF RoundRow, Status
  <2>3. rounds' = [rounds EXCEPT ![r] = [[rounds[r] EXCEPT !.status = status2] EXCEPT !.start = start2]]
    BY <1>1, <1>2
  <2>4. PICK x \in RoundRow : x = [[rounds[r] EXCEPT !.status = status2] EXCEPT !.start = start2]
    BY <1>5, <2>1, <2>2
  <2>5. rounds' = [rounds EXCEPT ![r] = x]
    BY <2>3, <2>4
  <2> QED
    BY <1>2, <2>5 DEF TablesTyped
<1>8. \A i \in DOMAIN rounds : /\ i > 1 => rounds'[i].filled = rounds[i].filled
                               /\ i > 1 /\ rounds'[i].status = "PENDING" => rounds[i].status = "PENDING"
  <2>1. /\ rounds'[r].filled = rounds[r].filled
        /\ rounds'[r].status = status2
    BY <1>1, <1>2, <1>3 DEF RoundRow
  <2>2. \A i \in DOMAIN rounds : i # r => rounds'[i] = rounds[i]
    BY <1>1, <1>2
  <2> QED
    BY <1>5, <2>1, <2>2
<1>9. panel' \in Seq(PanelRow)
  BY <1>1, <1>2, <1>3, <1>4, SeatTyped
<1>10. IsFiniteSet(Dropped(r, q.panel)) /\ Dropped(r, q.panel) \in SUBSET Nat
  BY ActiveFinite, FS_Subset DEF Dropped
<1> QED
  BY <1>1, <1>2, <1>6, <1>7, <1>8, <1>9, <1>10, WrittenInPlace

\* A round is booked: the PENDING first one in place, or the next one if nobody has inserted it.
LEMMA ScheduleStep ==
    ASSUME RoundsInv, NEW c \in Clerks, SaveSchedule(c)
    PROVE  RoundsInv'
<1> USE DEF RoundsInv, RoundsTyped
<1> DEFINE q == req[c]
           r == IF q.read.status = "PENDING" THEN q.round ELSE q.round + 1
<1>1. q.op = "schedule" /\ UNCHANGED <<outbox, budget>>
  BY DEF SaveSchedule
<1>2. q \in Asked /\ q.round \in DOMAIN rounds /\ IsFiniteSet(q.panel)
  BY <1>1, RequestKinds DEF Operations
<1>3. /\ q.round \in 1..Len(rounds) /\ Len(rounds) \in Nat
      /\ q.start \in Times /\ q.panel \in SUBSET People
  BY <1>2 DEF TablesTyped, Asked
<1>4. q.read.status = "PENDING" => r = 1 /\ q.round = 1
  BY <1>2 DEF OnlyFirstBlank
<1>5. r \in 1..(Len(rounds) + 1) /\ (q.read.status # "PENDING" => r = q.round + 1 /\ r > 1)
  BY <1>3, <1>4
<1>6. BudgetTyped'
  BY <1>1 DEF BudgetTyped
<1>7. CASE r > q.round /\ r <= Len(rounds)
  <2>1. req' = [req EXCEPT ![c] = NoRequest] /\ UNCHANGED <<rounds, panel, outbox>>
    BY <1>1, <1>7 DEF SaveSchedule
  <2>2. TablesTyped'
    BY <2>1 DEF TablesTyped
  <2>3. /\ RequestsTyped' /\ req'[c] = NoRequest
        /\ \A d \in (Clerks \cup {Beat}) \ {c} : req'[d] = req[d]
    BY <2>1, RequestMoves DEF RequestTyped
  <2>4. NoRequest \notin Asked
    BY DEF NoRequest, Asked, Operations
  <2> QED
    BY <1>6, <2>1, <2>2, <2>3, <2>4, RoundsInPlace DEF OnlyFirstBlank
<1>8. CASE ~(r > q.round /\ r <= Len(rounds))
  <2>1. /\ rounds' = IF r > Len(rounds) THEN Append(rounds, Booking(q, 1))
                     ELSE [rounds EXCEPT ![r] = Booking(q, @.filled + 1)]
        /\ panel' = Seat(r, q.panel)
        /\ Committed(c, r, FALSE, Dropped(r, q.panel))
    BY <1>8 DEF SaveSchedule
  <2>2. \A n \in Nat : Booking(q, n) \in RoundRow
    BY <1>3 DEF Booking, RoundRow, Status
  <2>3. \/ r = Len(rounds) + 1 /\ r > 1 /\ rounds' = Append(rounds, Booking(q, 1))
        \/ r = 1 /\ rounds' = [rounds EXCEPT ![1] = Booking(q, rounds[1].filled + 1)]
    <3>1. CASE r > Len(rounds)
      <4>1. rounds' = Append(rounds, Booking(q, 1))
        BY <2>1, <3>1
      <4>2. r = Len(rounds) + 1 /\ (q.read.status = "PENDING" => r <= Len(rounds))
        BY <1>3, <1>4, <1>5, <3>1
      <4>3. r > 1
        BY <1>5, <3>1, <4>2
      <4> HIDE DEF r
      <4> QED
        BY <4>1, <4>2, <4>3
    <3>2. CASE ~(r > Len(rounds))
      <4>1. r = 1
        BY <1>3, <1>4, <1>5, <1>8, <3>2
      <4>2. rounds' = [rounds EXCEPT ![r] = Booking(q, @.filled + 1)]
        BY <2>1, <3>2
      <4> HIDE DEF r
      <4> QED
        BY <4>1, <4>2
    <3> QED
      BY <3>1, <3>2
  <2>4. 1 \in DOMAIN rounds /\ rounds[1].filled + 1 \in Nat
    <3>1. 1 \in DOMAIN rounds /\ rounds[1] \in RoundRow
      BY <1>3 DEF TablesTyped
    <3> QED
      BY <3>1 DEF RoundRow
  <2>b. PICK b \in RoundRow, o \in RoundRow : b = Booking(q, 1) /\ o = Booking(q, rounds[1].filled + 1)
    BY <2>2, <2>4
  <2>5. /\ b = Booking(q, 1) /\ b.filled = 1 /\ b.status = "SCHEDULED"
        /\ o = Booking(q, rounds[1].filled + 1)
    BY <2>b DEF Booking
  <2>6. /\ rounds' \in Seq(RoundRow) /\ rounds' # <<>> /\ DOMAIN rounds \subseteq DOMAIN rounds'
        /\ r \in DOMAIN rounds'
        /\ \A i \in DOMAIN rounds' : i > 1 => \/ i \in DOMAIN rounds /\ rounds'[i] = rounds[i]
                                              \/ rounds'[i] = b
    <3>1. CASE rounds' = Append(rounds, b) /\ r = Len(rounds) + 1
      BY <1>3, <3>1 DEF TablesTyped
    <3>2. CASE rounds' = [rounds EXCEPT ![1] = o] /\ r = 1
      BY <1>3, <2>4, <3>2 DEF TablesTyped
    <3> QED
      BY <2>3, <2>5, <3>1, <3>2
  <2>7. panel' \in Seq(PanelRow)
    <3>1. r \in Nat /\ panel' = Seat(r, q.panel)
      BY <1>3, <1>5, <2>1
    <3> HIDE DEF r
    <3> QED
      BY <1>2, <1>3, <3>1, SeatTyped
  <2>8. TablesTyped'
    BY <1>1, <2>6, <2>7 DEF TablesTyped
  <2>9. IsFiniteSet(Dropped(r, q.panel)) /\ Dropped(r, q.panel) \in SUBSET Nat
    BY ActiveFinite, FS_Subset DEF Dropped
  <2>10. PICK n : n = [req[c] EXCEPT !.at = "check", !.round = r, !.event = FALSE,
                                     !.removed = Dropped(r, q.panel)]
    OBVIOUS
  <2>11. req' = [req EXCEPT ![c] = n]
    BY <2>1, <2>10 DEF Committed
  <2>12. /\ n \in Asked /\ n.round = r /\ n.read = q.read /\ n.panel = q.panel
         /\ n.removed = Dropped(r, q.panel)
    <3>1. r \in Nat
      BY <1>3, <1>5
    <3> HIDE DEF r
    <3> QED
      BY <1>2, <2>9, <2>10, <3>1 DEF Asked
  <2>13. RequestTyped(n)'
    BY <1>2, <2>6, <2>9, <2>12 DEF RequestTyped
  <2>14. /\ RequestsTyped' /\ req'[c] = n
         /\ \A d \in (Clerks \cup {Beat}) \ {c} : req'[d] = req[d]
    BY <2>6, <2>11, <2>13, RequestMoves
  <2>15. OnlyFirstBlank'
    BY <1>4, <2>5, <2>6, <2>12, <2>14 DEF OnlyFirstBlank
  <2>16. NextRoundFilledOnce'
    BY <2>5, <2>6 DEF NextRoundFilledOnce
  <2> QED
    BY <1>6, <2>8, <2>14, <2>15, <2>16
<1> QED
  BY <1>7, <1>8

\* What a request or the sweep found due is queued, and the request is over.
LEMMA NoticeSteps ==
    ASSUME RoundsInv, NEW c \in Clerks \cup {Beat},
           Check(c) \/ Enqueue(c)
    PROVE  RoundsInv'
<1> USE DEF RoundsInv, RoundsTyped
<1>1. CASE Check(c)
  <2>1. req[c] \in Asked /\ req[c].round \in DOMAIN rounds /\ IsFiniteSet(req[c].removed)
    BY <1>1, RequestKinds DEF Check
  <2>2. PICK n : n = [op |-> "notify", at |-> "enqueue", round |-> req[c].round, notices |-> Due(req[c])]
    OBVIOUS
  <2>3. req' = [req EXCEPT ![c] = n] /\ UNCHANGED <<rounds, panel, outbox, budget>>
    BY <1>1, <2>2 DEF Check
  <2>4. n \in Notifying /\ n.round = req[c].round /\ IsFiniteSet(n.notices)
    BY <2>1, <2>2, DueTyped DEF Notifying, Asked
  <2>5. TablesTyped' /\ BudgetTyped' /\ RequestTyped(n)'
    BY <2>1, <2>3, <2>4 DEF TablesTyped, BudgetTyped, RequestTyped
  <2>6. /\ RequestsTyped' /\ req'[c] = n
        /\ \A d \in (Clerks \cup {Beat}) \ {c} : req'[d] = req[d]
    BY <2>3, <2>5, RequestMoves
  <2>7. n \notin Asked
    BY <2>4 DEF Notifying, Asked, Operations
  <2> QED
    BY <2>3, <2>5, <2>6, <2>7, RoundsInPlace DEF OnlyFirstBlank
<1>2. CASE Enqueue(c)
  <2>1. req[c] \in Notifying /\ req[c].round \in DOMAIN rounds /\ IsFiniteSet(req[c].notices)
    BY <1>2, RequestKinds DEF Enqueue
  <2>2. PICK sent \in 0..Cardinality(req[c].notices) :
           /\ Enqueued(req[c].round, req[c].notices, sent)
           /\ UNCHANGED budget \/ Use("unsent")
    BY <1>2 DEF Enqueue
  <2>7. req' = [req EXCEPT ![c] = NoRequest] /\ UNCHANGED <<rounds, panel>>
    BY <1>2 DEF Enqueue
  <2>3. outbox' \in Seq(MailRow)
    BY <2>1, <2>2, Queued DEF Notifying
  <2>8. BudgetTyped'
    BY <2>2, Spent DEF BudgetTyped
  <2>4. TablesTyped' /\ RequestTyped(NoRequest)'
    BY <2>3, <2>7 DEF TablesTyped, RequestTyped
  <2>5. /\ RequestsTyped' /\ req'[c] = NoRequest
        /\ \A d \in (Clerks \cup {Beat}) \ {c} : req'[d] = req[d]
    BY <2>7, <2>4, RequestMoves DEF RequestTyped
  <2>6. NoRequest \notin Asked
    BY DEF NoRequest, Asked, Operations
  <2> QED
    BY <2>7, <2>8, <2>4, <2>5, <2>6, RoundsInPlace DEF OnlyFirstBlank
<1> QED
  BY <1>1, <1>2

LEMMA SweepStep ==
    ASSUME RoundsInv, Sweep
    PROVE  RoundsInv'
<1> USE DEF RoundsInv, RoundsTyped
<1>1. PICK r \in DOMAIN rounds :
        req' = [req EXCEPT ![Beat] = [op |-> "notify", at |-> "enqueue", round |-> r, notices |-> ToAsk(r)]]
  BY DEF Sweep
<1>2. UNCHANGED <<rounds, panel, outbox, budget>>
  BY DEF Sweep
<1>3. PICK n : n = [op |-> "notify", at |-> "enqueue", round |-> r, notices |-> ToAsk(r)]
  OBVIOUS
<1>4. n \in Notifying /\ n.round = r /\ IsFiniteSet(n.notices)
  BY <1>3, AskNotices DEF Notifying, TablesTyped
<1>5. TablesTyped' /\ BudgetTyped' /\ RequestTyped(n)'
  BY <1>2, <1>4 DEF TablesTyped, BudgetTyped, RequestTyped
<1>6. /\ RequestsTyped' /\ req'[Beat] = n
      /\ \A d \in (Clerks \cup {Beat}) \ {Beat} : req'[d] = req[d]
  BY <1>1, <1>2, <1>3, <1>5, RequestMoves
<1>7. n \notin Asked
  BY <1>4 DEF Notifying, Asked, Operations
<1> QED
  BY <1>2, <1>5, <1>6, <1>7, RoundsInPlace DEF OnlyFirstBlank

\* A candidate who leaves takes the active rounds along: each is written in place.
LEMMA LeaveStep ==
    ASSUME RoundsInv, Leave
    PROVE  RoundsInv'
<1> USE DEF RoundsInv, RoundsTyped
<1>1. rounds' = [r \in DOMAIN rounds |->
                  IF rounds[r].status \in ActiveStatuses
                  THEN [rounds[r] EXCEPT !.status = "CANCELLED"] ELSE rounds[r]]
  BY DEF Leave
<1>2. \A r \in DOMAIN rounds : rounds[r] \in RoundRow
  BY DEF TablesTyped
<1>3. DOMAIN rounds' = DOMAIN rounds
  BY <1>1
<1>4. \A r \in DOMAIN rounds :
        /\ rounds'[r] \in RoundRow /\ rounds'[r].filled = rounds[r].filled
        /\ rounds'[r].status = "PENDING" => rounds[r].status = "PENDING"
  BY <1>1, <1>2 DEF RoundRow, Status
<1>5. rounds' \in [DOMAIN rounds -> RoundRow]
  <2>1. rounds' = [r \in DOMAIN rounds |-> rounds'[r]]
    BY <1>1
  <2> QED
    BY <1>4, <2>1
<1>6. rounds' \in Seq(RoundRow) /\ rounds' # <<>>
  <2>1. rounds' \in Seq(RoundRow) /\ Len(rounds') = Len(rounds)
    BY <1>5, SameLength DEF TablesTyped
  <2> QED
    BY <2>1 DEF TablesTyped
<1>7. UNCHANGED <<panel, outbox, req>> /\ BudgetTyped'
  BY Spent DEF Leave
<1>8. TablesTyped' /\ RequestsTyped'
  BY <1>3, <1>6, <1>7, RequestsStay DEF TablesTyped
<1> QED
  BY <1>3, <1>4, <1>7, <1>8, RoundsInPlace DEF OnlyFirstBlank

LEMMA RoundsFirst ==
    ASSUME RoundsInit
    PROVE  RoundsInv
<1> USE DEF RoundsInit
<1>1. BudgetTyped
  BY RoundsAssumption DEF BudgetTyped, People
<1>2. TablesTyped
  BY DEF TablesTyped, RoundRow, Status
<1>3. RequestsTyped
  BY DEF RequestsTyped, RequestTyped
<1>4. NoRequest \notin Asked
  BY DEF NoRequest, Asked, Operations
<1>5. OnlyFirstBlank /\ NextRoundFilledOnce
  BY <1>4 DEF OnlyFirstBlank, NextRoundFilledOnce
<1> QED
  BY <1>1, <1>2, <1>3, <1>5 DEF RoundsInv, RoundsTyped

LEMMA RoundsStep ==
    ASSUME RoundsInv, [RoundsNext]_roundsVars
    PROVE  RoundsInv'
<1>1. CASE UNCHANGED roundsVars
  BY <1>1, RoundsUntouched DEF roundsVars, RoundsInv, RoundsTyped, TablesTyped, BudgetTyped
<1>2. ASSUME NEW c \in Clerks, Load(c) \/ Save(c) \/ Check(c) PROVE RoundsInv'
  BY <1>2, LoadStep, ScheduleStep, RescheduleStep, CancelStep, NoticeSteps DEF Save
<1> QED
  BY <1>1, <1>2, NoticeSteps, SweepStep, LeaveStep, MailStep DEF RoundsNext

\* However many "Schedule Next Round" calls race, every round after the first was booked by
\* exactly one of them (create_next_round's SAVEPOINT on the UNIQUE round number).
THEOREM EachRoundFilledOnce == RoundsSpec => []NextRoundFilledOnce
<1>1. RoundsInit => RoundsInv
  BY RoundsFirst
<1>2. RoundsInv /\ [RoundsNext]_roundsVars => RoundsInv'
  BY RoundsStep
<1>3. RoundsInv => NextRoundFilledOnce
  BY DEF RoundsInv
<1> QED
  BY <1>1, <1>2, <1>3, PTL DEF RoundsSpec

\* A notification recorded as SENT is never handed to SES again, whatever is redelivered,
\* refused or crashes (send_candidate_email_task's status check).
THEOREM NeverSentAgain == RoundsSpec => RecordedNeverResent
<1>1. ASSUME RoundsInv, RoundsNext, NEW m \in DOMAIN outbox, outbox[m].status = "SENT"
      PROVE  outbox'[m].sent = outbox[m].sent
  <2>1. outbox \in Seq(MailRow) /\ outbox[m] \in MailRow /\ TablesTyped
    BY <1>1 DEF RoundsInv, RoundsTyped, TablesTyped
  <2>2. CASE UNCHANGED outbox
    BY <2>2
  <2>3. ASSUME NEW c \in Clerks \cup {Beat}, Enqueue(c) PROVE outbox'[m] = outbox[m]
    <3>1. req[c] \in Notifying /\ req[c].round \in DOMAIN rounds /\ IsFiniteSet(req[c].notices)
      BY <1>1, <2>3, RequestKinds DEF Enqueue, RoundsInv, RoundsTyped
    <3>2. PICK sent : Enqueued(req[c].round, req[c].notices, sent)
      BY <2>3 DEF Enqueue
    <3> QED
      BY <2>1, <3>1, <3>2, Queued DEF Notifying
  <2>4. CASE SendBegins
    BY <1>1, <2>1, <2>4 DEF SendBegins
  <2>5. CASE SendRecorded
    BY <2>1, <2>5 DEF SendRecorded, MailRow
  <2>6. CASE SendFails
    BY <1>1, <2>1, <2>6 DEF SendFails
  <2>9. CASE SendUnlogged
    <3>1. ASSUME NEW x, outbox' = [outbox EXCEPT ![mailer].tries = @ + 1, ![mailer].status = x]
          PROVE  outbox'[m].sent = outbox[m].sent
      <4>1. \/ outbox'[m] = outbox[m]
            \/ outbox'[m] = [[outbox[m] EXCEPT !.tries = @ + 1] EXCEPT !.status = x]
        BY <2>1, <3>1
      <4> QED
        BY <2>1, <4>1 DEF MailRow
    <3> QED
      BY <2>9, <3>1 DEF SendUnlogged
  <2>7. ASSUME NEW c \in Clerks, Load(c) \/ Save(c) \/ Check(c) PROVE UNCHANGED outbox
    BY <2>7 DEF Load, Save, SaveSchedule, SaveReschedule, SaveCancel, SaveComplete, Check
  <2>8. Sweep \/ SubmitFeedback \/ Leave \/ Tick \/ MailerCrashes => UNCHANGED outbox
    BY DEF Sweep, SubmitFeedback, Leave, Tick, MailerCrashes
  <2> QED
    BY <1>1, <2>2, <2>3, <2>4, <2>5, <2>6, <2>7, <2>8, <2>9 DEF RoundsNext, Mail
<1>2. RoundsInv /\ [RoundsNext]_roundsVars =>
        [\A m \in DOMAIN outbox :
           outbox[m].status = "SENT" => outbox'[m].sent = outbox[m].sent]_roundsVars
  BY <1>1
<1>3. RoundsInit => RoundsInv
  BY RoundsFirst
<1>4. RoundsInv /\ [RoundsNext]_roundsVars => RoundsInv'
  BY RoundsStep
<1> QED
  BY <1>2, <1>3, <1>4, PTL DEF RoundsSpec, RecordedNeverResent
---------------------------------------------------------------------------
(* The campaign lists.                                                     *)

Reading == [at : {"idle", "read", "committed", "done"}, read : Preset \cup WeightSplit \cup {Null}]
AuditRow == [id : Presets, what : {"created", "updated", "deleted"}, name : Names]

ListsTyped ==
    /\ campaigns \in [Campaigns -> CampaignRow \cup {Null}]
    /\ had \in [Campaigns -> SUBSET Managers]
    /\ defaults \in WeightSplit /\ presets \in [Presets -> Preset \cup {Null}]
    /\ audit \in Seq(AuditRow)
    /\ request \in [HRAdmins -> Reading]
    /\ DOMAIN cache \subseteq views

\* What the requests of the behaviour are, and what its clients ask for.
SceneTyped ==
    /\ \A a \in HRAdmins : Sendable(asks[a])
    /\ \A a \in HRAdmins : \A b \in HRAdmins \ {a} :
          {asks[a].op, asks[b].op} = {"create_campaign"} => asks[a].id # asks[b].id
    /\ \A v \in views : v.kind \in ViewKinds /\ (v.kind = "search" => v.filter \in Filters)

\* What a request that goes on has found.
ReadInv ==
    \A a \in {x \in HRAdmins : request[x].at = "read"} :
        /\ asks[a].op \in {"update_preset", "delete_preset"} =>
              asks[a].id \in Presets /\ request[a].read \in Preset
        /\ asks[a].op \in {"defaults", "reset", "create_campaign"} => request[a].read \in WeightSplit
        /\ asks[a].op \in {"reassign", "close", "reset"} => asks[a].id \in Rows
        /\ asks[a].op = "create_campaign" => asks[a].id \notin Rows

\* A search that was loaded for a manager holds campaigns that were theirs.
OwnedInv ==
    /\ \A k \in Rows : campaigns[k].manager \in had[k]
    /\ \A v \in DOMAIN cache :
          v.kind = "search" /\ v.filter.manager \in Managers =>
              \A shown \in cache[v] : shown.id \in Rows /\ v.filter.manager \in had[shown.id]

\* A cached view that no longer shows what the rows say is about to be dropped.
Doomed(v) == \E a \in HRAdmins : request[a].at = "committed" /\ Invalidates(asks[a], v)
Faithful(v) == Comparable(v, cache[v]) = Comparable(v, Content(v))
CurrentInv ==
    /\ \A v \in DOMAIN cache : v.kind = "scoring" => v.id \in Rows
    /\ stale \/ \A v \in DOMAIN cache : Faithful(v) \/ Doomed(v)

\* The newest entry of a preset is what became of it.
Tells(e, line) == IF line = Null THEN e.what = "deleted" ELSE e.what # "deleted" /\ e.name = line.name
Latest(i, p) == i \in DOMAIN audit /\ audit[i].id = p /\ \A j \in DOMAIN audit : audit[j].id = p => j <= i
AuditInv ==
    \A p \in Presets :
        (\E i \in DOMAIN audit : audit[i].id = p) => \E i \in DOMAIN audit : Latest(i, p) /\ Tells(audit[i], presets[p])

ListsInv == ListsTyped /\ SceneTyped /\ ReadInv /\ OwnedInv /\ CurrentInv /\ AuditInv

---------------------------------------------------------------------------

\* A row of the table is one.
LEMMA RowsAreTyped ==
    ASSUME ListsTyped
    PROVE  Rows \subseteq Campaigns /\ \A k \in Rows : campaigns[k] \in CampaignRow
BY DEF ListsTyped, Rows

\* A view's content is a function of the rows it is made from.
LEMMA ContentFollowsRows ==
    ASSUME NEW v, v.kind \in ViewKinds,
           v.kind \in ListKinds => campaigns' = campaigns,
           v.kind = "scoring" => campaigns'[v.id].w = campaigns[v.id].w,
           v.kind = "defaults" => defaults' = defaults,
           v.kind = "presets" => presets' = presets
    PROVE  Comparable(v, Content(v)') = Comparable(v, Content(v))
<1>1. CASE v.kind \in ListKinds
  <2>1. campaigns' = campaigns /\ v.kind \in {"all", "manager", "search", "own"}
    BY <1>1 DEF ListKinds
  <2>2. Rows' = Rows
    BY <2>1 DEF Rows
  <2>3. \A too : AllCampaigns(too)' = AllCampaigns(too)
    BY <2>1, <2>2 DEF AllCampaigns, Shown, NotClosed
  <2>4. \A m, too : ManagersCampaigns(m, too)' = ManagersCampaigns(m, too)
    BY <2>1, <2>2 DEF ManagersCampaigns, Shown, NotClosed
  <2>5. \A f : Matching(f)' = Matching(f)
    BY <2>1, <2>2 DEF Matching, Shown, NotClosed
  <2>6. \A a, too, page : OwnPage(a, too, page)' = OwnPage(a, too, page)
    BY <2>1, <2>2 DEF OwnPage, Shown, NotClosed
  <2> QED
    BY <2>1, <2>3, <2>4, <2>5, <2>6 DEF Content, Comparable
<1>2. CASE v.kind = "scoring"
  BY <1>2 DEF Content, Comparable, ScoringPage
<1>3. CASE v.kind = "defaults"
  BY <1>3 DEF Content, Comparable
<1>4. CASE v.kind = "presets"
  <2>1. PresetList' = PresetList
    BY <1>4 DEF PresetList
  <2> QED
    BY <1>4, <2>1 DEF Content, Comparable
<1> QED
  BY <1>1, <1>2, <1>3, <1>4 DEF ViewKinds, ListKinds

\* Only the columns that were changed are written.
LEMMA UpdatedIsTyped ==
    /\ \A x, y, z \in WeightSplit : Updated(x, y, z) \in WeightSplit
    /\ \A x, y, z \in Preset : Updated(x, y, z) \in Preset
<1>1. \A x, y, z \in WeightSplit : Updated(x, y, z) \in WeightSplit
  BY DEF WeightSplit, Updated
<1>2. \A x, y, z \in Preset : Updated(x, y, z) \in Preset
  BY DEF Preset, Updated
<1> QED
  BY <1>1, <1>2

---------------------------------------------------------------------------
(* The start.                                                              *)

LEMMA ListsStart == ListsInit => ListsInv
<1> SUFFICES ASSUME ListsInit PROVE ListsInv
  OBVIOUS
<1> DEFINE line == [status |-> "ACTIVE", by |-> CHOOSE a \in HRAdmins : TRUE,
                   manager |-> CHOOSE m \in Managers : TRUE, w |-> FirstWeights, created |-> 0]
<1>1. line \in CampaignRow /\ line.manager \in Managers
  BY ListsAssumption DEF CampaignRow
<1>2. campaigns = [k \in Campaigns |-> IF k \in First THEN line ELSE Null]
  BY DEF ListsInit
<1> HIDE DEF line
<1>3. had = [k \in Campaigns |-> IF k \in First THEN {line.manager} ELSE {}]
  BY <1>2, ListsAssumption DEF ListsInit
<1>4. Rows = First /\ \A k \in Rows : campaigns[k] = line
  BY <1>1, <1>2, ListsAssumption DEF Rows
<1>5. ListsTyped
  <2>1. campaigns \in [Campaigns -> CampaignRow \cup {Null}]
    BY <1>1, <1>2
  <2>2. had \in [Campaigns -> SUBSET Managers]
    BY <1>1, <1>3
  <2>3. request \in [HRAdmins -> Reading]
    BY DEF ListsInit, Reading
  <2>4. audit \in Seq(AuditRow) /\ DOMAIN cache = {}
    BY DEF ListsInit
  <2>5. defaults \in WeightSplit /\ presets \in [Presets -> Preset \cup {Null}]
    BY ListsAssumption DEF ListsInit
  <2> QED
    BY <2>1, <2>2, <2>3, <2>4, <2>5 DEF ListsTyped
<1>6. SceneTyped
  <2>1. PICK scene \in Scenes : asks = scene.plan /\ views = scene.views
    BY DEF ListsInit
  <2>2. \A b \in HRAdmins : Sendable(scene.plan[b])
    BY ListsAssumption
  <2>3. \A b \in HRAdmins : \A c \in HRAdmins \ {b} :
           {scene.plan[b].op, scene.plan[c].op} = {"create_campaign"} => scene.plan[b].id # scene.plan[c].id
    BY ListsAssumption
  <2>4. \A v \in scene.views : v.kind \in ViewKinds /\ (v.kind = "search" => v.filter \in Filters)
    BY ListsAssumption
  <2> QED
    BY <2>1, <2>2, <2>3, <2>4 DEF SceneTyped
<1>7. ReadInv
  BY DEF ListsInit, ReadInv
<1>8. DOMAIN cache = {}
  BY DEF ListsInit
<1>9. OwnedInv
  BY <1>1, <1>3, <1>4, <1>8, ListsAssumption DEF OwnedInv
<1>10. CurrentInv
  BY <1>8 DEF CurrentInv
<1>11. AuditInv
  BY DEF ListsInit, AuditInv
<1> QED
  BY <1>5, <1>6, <1>7, <1>9, <1>10, <1>11 DEF ListsInv

---------------------------------------------------------------------------
(* Clients.                                                                *)

\* What asks and what is asked for stays.
LEMMA SceneStays ==
    ASSUME SceneTyped, UNCHANGED <<asks, views>>
    PROVE  SceneTyped'
BY DEF SceneTyped

\* Steps that write no row leave what every view would show.
LEMMA ContentStays ==
    ASSUME UNCHANGED <<campaigns, defaults, presets>>, NEW v, v.kind \in ViewKinds
    PROVE  Comparable(v, Content(v)') = Comparable(v, Content(v))
BY ContentFollowsRows

\* A search for a manager finds campaigns of theirs.
LEMMA SearchFindsOwn ==
    ASSUME ListsTyped, OwnedInv, NEW f, f.manager \in Managers
    PROVE  \A shown \in Matching(f) : shown.id \in Rows /\ f.manager \in had[shown.id]
<1> SUFFICES ASSUME NEW shown \in Matching(f)
             PROVE  shown.id \in Rows /\ f.manager \in had[shown.id]
  OBVIOUS
<1>1. PICK k \in Rows : shown = Shown(k) /\ (f.manager = Null \/ campaigns[k].manager = f.manager)
  BY DEF Matching
<1>2. campaigns[k].manager = f.manager /\ shown.id = k
  BY <1>1, ListsAssumption DEF Shown
<1> QED
  BY <1>2, RowsAreTyped DEF OwnedInv

LEMMA AskKeepsLists ==
    ASSUME ListsInv, NEW v \in views, Ask(v)
    PROVE  ListsInv'
<1>1. /\ ListsTyped /\ SceneTyped /\ ReadInv /\ OwnedInv /\ CurrentInv /\ AuditInv
      /\ v.kind \in ViewKinds /\ v \notin DOMAIN cache
      /\ UNCHANGED <<campaigns, had, defaults, presets, audit, request, asks, views, stale>>
  BY DEF ListsInv, Ask, SceneTyped
<1>2. /\ DOMAIN cache' = DOMAIN cache \cup {v}
      /\ cache'[v] = Content(v) /\ \A x \in DOMAIN cache : cache'[x] = cache[x]
  BY <1>1 DEF Ask
<1>3. Rows' = Rows
  BY <1>1 DEF Rows
<1>4. ListsTyped'
  BY <1>1, <1>2 DEF ListsTyped
<1>5. SceneTyped'
  BY <1>1, SceneStays
<1>6. ReadInv'
  BY <1>1, <1>3 DEF ReadInv
<1>7. OwnedInv'
  <2>1. \A k \in Rows' : campaigns'[k].manager \in had'[k]
    BY <1>1, <1>3 DEF OwnedInv
  <2>2. ASSUME v.kind = "search", v.filter.manager \in Managers
        PROVE  \A shown \in cache'[v] : shown.id \in Rows /\ v.filter.manager \in had'[shown.id]
    <3>1. cache'[v] = Matching(v.filter)
      BY <1>2, <2>2 DEF Content
    <3> QED
      BY <1>1, <2>2, <3>1, SearchFindsOwn
  <2> QED
    BY <1>1, <1>2, <1>3, <2>1, <2>2 DEF OwnedInv
<1>8. CurrentInv'
  <2>1. \A x \in DOMAIN cache' : x.kind = "scoring" => x.id \in Rows'
    BY <1>1, <1>2, <1>3 DEF CurrentInv, Ask
  <2>2. Faithful(v)'
    BY <1>1, <1>2, ContentStays DEF Faithful
  <2>3. ASSUME NEW x \in DOMAIN cache PROVE (Faithful(x) => Faithful(x)') /\ (Doomed(x) => Doomed(x)')
    <3>1. x.kind \in ViewKinds
      BY <1>1 DEF ListsTyped, SceneTyped
    <3>2. Faithful(x) => Faithful(x)'
      BY <1>1, <1>2, <3>1, ContentStays DEF Faithful
    <3>3. Doomed(x) => Doomed(x)'
      BY <1>1 DEF Doomed
    <3> QED
      BY <3>2, <3>3
  <2> QED
    BY <1>1, <1>2, <2>1, <2>2, <2>3 DEF CurrentInv
<1>9. AuditInv'
  BY <1>1 DEF AuditInv, Latest
<1> QED
  BY <1>4, <1>5, <1>6, <1>7, <1>8, <1>9 DEF ListsInv

\* Dropping cached views takes nothing away from those that stay.
LEMMA DroppingKeepsLists ==
    ASSUME ListsInv, UNCHANGED <<campaigns, had, defaults, presets, audit, asks, views>>,
           DOMAIN cache' \subseteq DOMAIN cache, \A v \in DOMAIN cache' : cache'[v] = cache[v],
           request' \in [HRAdmins -> Reading],
           \A a \in HRAdmins : request'[a].at = "read" => request'[a] = request[a],
           stale' \/ (~stale /\ \A v \in DOMAIN cache' : Doomed(v) => Doomed(v)')
    PROVE  ListsInv'
<1>1. ListsTyped /\ SceneTyped /\ ReadInv /\ OwnedInv /\ CurrentInv /\ AuditInv
  BY DEF ListsInv
<1>2. Rows' = Rows
  BY DEF Rows
<1>3. ListsTyped'
  BY <1>1 DEF ListsTyped
<1>4. SceneTyped'
  BY <1>1, SceneStays
<1>5. ReadInv'
  BY <1>1, <1>2 DEF ReadInv
<1>6. OwnedInv'
  BY <1>1, <1>2 DEF OwnedInv
<1>7. CurrentInv'
  <2>1. \A v \in DOMAIN cache' : v.kind = "scoring" => v.id \in Rows'
    BY <1>1, <1>2 DEF CurrentInv
  <2>2. ASSUME NEW v \in DOMAIN cache', Faithful(v) PROVE Faithful(v)'
    <3>1. v.kind \in ViewKinds /\ cache'[v] = cache[v]
      BY <1>1 DEF ListsTyped, SceneTyped
    <3> QED
      BY <2>2, <3>1, ContentStays DEF Faithful
  <2> QED
    BY <1>1, <2>1, <2>2 DEF CurrentInv
<1>8. AuditInv'
  BY <1>1 DEF AuditInv, Latest
<1> QED
  BY <1>3, <1>4, <1>5, <1>6, <1>7, <1>8 DEF ListsInv

LEMMA ExpireKeepsLists ==
    ASSUME ListsInv, NEW v, Expire(v)
    PROVE  ListsInv'
<1>1. UNCHANGED <<campaigns, had, defaults, presets, audit, request, asks, views, stale>>
  BY DEF Expire
<1>2. DOMAIN cache' \subseteq DOMAIN cache /\ \A x \in DOMAIN cache' : cache'[x] = cache[x]
  BY DEF Expire
<1>3. \A x : Doomed(x) => Doomed(x)'
  BY <1>1 DEF Doomed
<1>4. request' \in [HRAdmins -> Reading]
  BY <1>1 DEF ListsInv, ListsTyped
<1> QED
  BY <1>1, <1>2, <1>3, <1>4, DroppingKeepsLists

---------------------------------------------------------------------------
(* Administrators.                                                         *)

\* The bound name of a request: how far it is.
LEMMA MovesOn ==
    ASSUME ListsTyped, NEW a \in HRAdmins, NEW to \in {"committed", "done"},
           request' = [request EXCEPT ![a].at = to]
    PROVE  /\ request' \in [HRAdmins -> Reading]
           /\ request'[a].at = to
           /\ \A b \in HRAdmins \ {a} : request'[b] = request[b]
           /\ \A b \in HRAdmins : request'[b].at = "read" => b # a /\ request'[b] = request[b]
BY DEF ListsTyped, Reading

LEMMA InvalidateKeepsLists ==
    ASSUME ListsInv, NEW a \in HRAdmins, Invalidate(a)
    PROVE  ListsInv'
<1>1. ListsTyped /\ request' = [request EXCEPT ![a].at = "done"]
  BY DEF ListsInv, Invalidate
<1>2. /\ request' \in [HRAdmins -> Reading]
      /\ \A b \in HRAdmins \ {a} : request'[b] = request[b]
      /\ \A b \in HRAdmins : request'[b].at = "read" => request'[b] = request[b]
  BY <1>1, MovesOn
<1>3. UNCHANGED <<campaigns, had, defaults, presets, audit, asks, views, stale>>
  BY DEF Invalidate
<1>4. /\ DOMAIN cache' \subseteq DOMAIN cache /\ \A x \in DOMAIN cache' : cache'[x] = cache[x]
      /\ \A x \in DOMAIN cache' : ~Invalidates(asks[a], x)
  BY DEF Invalidate
<1>5. \A x \in DOMAIN cache' : Doomed(x) => Doomed(x)'
  BY <1>2, <1>3, <1>4 DEF Doomed
<1> QED
  BY <1>2, <1>3, <1>4, <1>5, DroppingKeepsLists

LEMMA DieKeepsLists ==
    ASSUME ListsInv, NEW a \in HRAdmins, Die(a)
    PROVE  ListsInv'
<1>1. ListsTyped /\ request' = [request EXCEPT ![a].at = "done"]
  BY DEF ListsInv, Die
<1>2. /\ request' \in [HRAdmins -> Reading]
      /\ \A b \in HRAdmins : request'[b].at = "read" => request'[b] = request[b]
  BY <1>1, MovesOn
<1>3. UNCHANGED <<campaigns, had, defaults, presets, audit, cache, asks, views>> /\ stale'
  BY DEF Die
<1> QED
  BY <1>2, <1>3, DroppingKeepsLists

LEMMA FailsKeepsLists ==
    ASSUME ListsInv, NEW a \in HRAdmins, Fails(a)
    PROVE  ListsInv'
<1>1. ListsTyped /\ request[a].at = "read" /\ request' = [request EXCEPT ![a].at = "done"]
  BY DEF ListsInv, Fails
<1>2. /\ request' \in [HRAdmins -> Reading]
      /\ \A b \in HRAdmins \ {a} : request'[b] = request[b]
      /\ \A b \in HRAdmins : request'[b].at = "read" => request'[b] = request[b]
  BY <1>1, MovesOn
<1>3. UNCHANGED <<campaigns, had, defaults, presets, audit, cache, asks, views, stale>>
  BY DEF Fails
<1>4. \A x : Doomed(x) => Doomed(x)'
  BY <1>1, <1>2, <1>3 DEF Doomed
<1> QED
  BY <1>2, <1>3, <1>4, DroppingKeepsLists

LEMMA ReviewKeepsLists ==
    ASSUME ListsInv, NEW a \in HRAdmins, Review(a)
    PROVE  ListsInv'
<1>1. /\ ListsTyped /\ SceneTyped /\ ReadInv /\ OwnedInv /\ CurrentInv /\ AuditInv
      /\ request[a].at = "idle"
      /\ UNCHANGED <<campaigns, had, defaults, presets, audit, cache, asks, views, stale>>
  BY DEF ListsInv, Review
<1>2. Rows' = Rows
  BY <1>1 DEF Rows
<1>3. ASSUME ~Refused(asks[a])
      PROVE  /\ Loaded(asks[a]) \in Preset \cup WeightSplit \cup {Null}
             /\ asks[a].op \in {"update_preset", "delete_preset"} =>
                   asks[a].id \in Presets /\ Loaded(asks[a]) \in Preset
             /\ asks[a].op \in {"defaults", "reset", "create_campaign"} => Loaded(asks[a]) \in WeightSplit
             /\ asks[a].op \in {"reassign", "close", "reset"} => asks[a].id \in Rows
             /\ asks[a].op = "create_campaign" => asks[a].id \notin Rows
  <2> DEFINE asked == asks[a]
  <2>1. Sendable(asked)
    BY <1>1 DEF SceneTyped
  <2>2. CASE asked.op \in {"update_preset", "delete_preset"}
    <3>1. asked.id \in Presets \cup Systems
      BY <2>1, <2>2 DEF Sendable
    <3>2. asked.id \notin Systems /\ presets[asked.id] # Null
      BY <1>3, <2>2 DEF Refused
    <3>3. Loaded(asked) = presets[asked.id]
      BY <2>2 DEF Loaded
    <3> QED
      BY <1>1, <2>2, <3>1, <3>2, <3>3 DEF ListsTyped
  <2>3. CASE asked.op \in {"defaults", "reset", "create_campaign"}
    <3>1. Loaded(asked) \in WeightSplit
      BY <1>1, <2>3 DEF Loaded, ListsTyped
    <3>2. asked.op = "reset" => asked.id \in Rows
      BY <1>3 DEF Refused
    <3>3. asked.op = "create_campaign" => asked.id \notin Rows
      BY <1>3 DEF Refused, Rows
    <3> QED
      BY <2>3, <3>1, <3>2, <3>3
  <2>4. CASE asked.op \in {"reassign", "close", "create_preset"}
    <3>1. Loaded(asked) = Null
      BY <2>4 DEF Loaded
    <3>2. asked.op \in {"reassign", "close"} => asked.id \in Rows
      BY <1>3, <2>4 DEF Refused
    <3> QED
      BY <2>4, <3>1, <3>2
  <2> QED
    BY <2>1, <2>2, <2>3, <2>4 DEF Sendable
<1>4. /\ request' \in [HRAdmins -> Reading]
      /\ \A b \in HRAdmins \ {a} : request'[b] = request[b]
      /\ request'[a].at = "read" => ~Refused(asks[a]) /\ request'[a].read = Loaded(asks[a])
      /\ request'[a].at # "committed"
  <2>1. CASE Refused(asks[a])
    BY <1>1, <2>1 DEF Review, ListsTyped, Reading
  <2>2. CASE ~Refused(asks[a])
    <3>1. request' = [request EXCEPT ![a] = [at |-> "read", read |-> Loaded(asks[a])]]
      BY <2>2 DEF Review
    <3>2. [at |-> "read", read |-> Loaded(asks[a])] \in Reading
      BY <1>3, <2>2 DEF Reading
    <3> QED
      BY <1>1, <2>2, <3>1, <3>2 DEF ListsTyped
  <2> QED
    BY <2>1, <2>2
<1>5. ListsTyped'
  BY <1>1, <1>4 DEF ListsTyped
<1>6. SceneTyped'
  BY <1>1, SceneStays
<1>7. ReadInv'
  <2> SUFFICES ASSUME NEW b \in HRAdmins, request'[b].at = "read"
               PROVE  /\ asks[b].op \in {"update_preset", "delete_preset"} =>
                            asks[b].id \in Presets /\ request'[b].read \in Preset
                      /\ asks[b].op \in {"defaults", "reset", "create_campaign"} => request'[b].read \in WeightSplit
                      /\ asks[b].op \in {"reassign", "close", "reset"} => asks[b].id \in Rows
                      /\ asks[b].op = "create_campaign" => asks[b].id \notin Rows
    BY <1>1, <1>2 DEF ReadInv
  <2>1. CASE b = a
    BY <1>3, <1>4, <2>1
  <2>2. CASE b # a
    BY <1>1, <1>4, <2>2 DEF ReadInv
  <2> QED
    BY <2>1, <2>2
<1>8. OwnedInv'
  BY <1>1, <1>2 DEF OwnedInv
<1>9. CurrentInv'
  <2>1. ASSUME NEW v \in DOMAIN cache PROVE (Faithful(v) => Faithful(v)') /\ (Doomed(v) => Doomed(v)')
    <3>1. v.kind \in ViewKinds
      BY <1>1 DEF ListsTyped, SceneTyped
    <3>2. Faithful(v) => Faithful(v)'
      BY <1>1, <3>1, ContentStays DEF Faithful
    <3>3. Doomed(v) => Doomed(v)'
      BY <1>1, <1>4 DEF Doomed
    <3> QED
      BY <3>2, <3>3
  <2> QED
    BY <1>1, <1>2, <2>1 DEF CurrentInv
<1>10. AuditInv'
  BY <1>1 DEF AuditInv, Latest
<1> QED
  BY <1>5, <1>6, <1>7, <1>8, <1>9, <1>10 DEF ListsInv

\* An edit commits: what it changed is in the views that it is about to drop.
LEMMA CommitDooms ==
    ASSUME ListsInv, NEW a \in HRAdmins, Commits(a), UNCHANGED <<cache, asks, views, stale>>,
           Rows \subseteq Rows',
           \A v \in DOMAIN cache :
               Invalidates(asks[a], v) \/ Comparable(v, Content(v)') = Comparable(v, Content(v))
    PROVE  CurrentInv'
<1>1. ListsTyped /\ CurrentInv /\ request' = [request EXCEPT ![a].at = "committed"] /\ request[a].at = "read"
  BY DEF ListsInv, Commits
<1>2. request'[a].at = "committed" /\ \A b \in HRAdmins \ {a} : request'[b] = request[b]
  BY <1>1, MovesOn
<1>3. \A v \in DOMAIN cache' : v.kind = "scoring" => v.id \in Rows'
  BY <1>1 DEF CurrentInv
<1>4. ASSUME NEW v \in DOMAIN cache, Faithful(v) \/ Doomed(v)
      PROVE  Faithful(v)' \/ Doomed(v)'
  <2>1. Doomed(v) => Doomed(v)'
    BY <1>1, <1>2 DEF Doomed
  <2>2. Invalidates(asks[a], v) => Doomed(v)'
    BY <1>2 DEF Doomed
  <2>3. Comparable(v, Content(v)') = Comparable(v, Content(v)) /\ Faithful(v) => Faithful(v)'
    BY DEF Faithful
  <2> QED
    BY <1>4, <2>1, <2>2, <2>3
<1> QED
  BY <1>1, <1>3, <1>4 DEF CurrentInv

LEMMA WriteCampaignKeepsLists ==
    ASSUME ListsInv, NEW a \in HRAdmins, WriteCampaign(a)
    PROVE  ListsInv'
<1> DEFINE asked == asks[a]
           creates == asked.op = "create_campaign"
           changes == asked.op \in {"reassign", "close", "reset"}
<1>1. /\ ListsTyped /\ SceneTyped /\ ReadInv /\ OwnedInv /\ CurrentInv /\ AuditInv
      /\ request[a].at = "read" /\ Commits(a) /\ Sendable(asked)
      /\ UNCHANGED <<defaults, presets, audit, cache, asks, views, stale>>
  BY DEF ListsInv, WriteCampaign, Commits, SceneTyped
<1>2. /\ request' \in [HRAdmins -> Reading]
      /\ \A b \in HRAdmins : request'[b].at = "read" => b # a /\ request'[b] = request[b]
  <2>1. request' = [request EXCEPT ![a].at = "committed"]
    BY <1>1 DEF Commits
  <2> QED
    BY <1>1, <2>1, MovesOn
<1>3. /\ creates => asked.id \in Campaigns /\ asked.id \notin Rows /\ request[a].read \in WeightSplit
      /\ changes => asked.id \in Rows
      /\ asked.op = "reset" => request[a].read \in WeightSplit
      /\ creates \/ changes
  BY <1>1 DEF ReadInv, WriteCampaign, Sendable
<1>4. asked.id \in Campaigns
  BY <1>1, <1>3, RowsAreTyped
<1>5. \E line \in CampaignRow :
         /\ campaigns' = [campaigns EXCEPT ![asked.id] = line]
         /\ \/ had' = [had EXCEPT ![asked.id] = @ \cup {line.manager}]
            \/ had' = [had EXCEPT ![asked.id] = {line.manager}] /\ creates
            \/ had' = had /\ changes /\ line.manager = campaigns[asked.id].manager
  <2>1. CASE creates
    <3> DEFINE line == [status |-> "ACTIVE", by |-> a, manager |-> asked.manager, w |-> request[a].read,
                       created |-> Newest]
    <3>1. IsFiniteSet(Rows)
      BY <1>1, RowsAreTyped, ListsAssumption, FS_Subset
    <3>2. Newest \in Nat
      BY <3>1, FS_CardinalityType DEF Newest
    <3>3. asked.manager \in Managers
      BY <1>1, <2>1 DEF Sendable
    <3>4. line \in CampaignRow /\ line.manager = asked.manager
      BY <1>3, <2>1, <3>2, <3>3 DEF CampaignRow
    <3>5. campaigns' = [campaigns EXCEPT ![asked.id] = line] /\ had' = [had EXCEPT ![asked.id] = {asked.manager}]
      BY <2>1 DEF WriteCampaign
    <3> QED
      BY <2>1, <3>4, <3>5
  <2>2. CASE changes
    <3> DEFINE old == campaigns[asked.id]
    <3>1. old \in CampaignRow
      BY <1>1, <1>3, <2>2, RowsAreTyped
    <3>2. CASE asked.op = "reassign"
      <4>1. /\ campaigns' = [campaigns EXCEPT ![asked.id] = [old EXCEPT !.manager = asked.manager]]
            /\ had' = [had EXCEPT ![asked.id] = @ \cup {asked.manager}]
        BY <3>2 DEF WriteCampaign
      <4>2. asked.manager \in Managers
        BY <1>1, <3>2 DEF Sendable
      <4>3. [old EXCEPT !.manager = asked.manager] \in CampaignRow
            /\ [old EXCEPT !.manager = asked.manager].manager = asked.manager
        BY <3>1, <4>2 DEF CampaignRow
      <4> QED
        BY <4>1, <4>3
    <3>3. CASE asked.op = "close"
      <4>1. campaigns' = [campaigns EXCEPT ![asked.id] = [old EXCEPT !.status = "CLOSED"]] /\ had' = had
        BY <3>3 DEF WriteCampaign
      <4>2. [old EXCEPT !.status = "CLOSED"] \in CampaignRow
            /\ [old EXCEPT !.status = "CLOSED"].manager = old.manager
        BY <3>1 DEF CampaignRow
      <4> QED
        BY <2>2, <4>1, <4>2
    <3>4. CASE asked.op = "reset"
      <4>1. campaigns' = [campaigns EXCEPT ![asked.id] = [old EXCEPT !.w = request[a].read]] /\ had' = had
        BY <3>4 DEF WriteCampaign
      <4>2. [old EXCEPT !.w = request[a].read] \in CampaignRow
            /\ [old EXCEPT !.w = request[a].read].manager = old.manager
        BY <1>3, <3>1, <3>4 DEF CampaignRow
      <4> QED
        BY <2>2, <4>1, <4>2
    <3> QED
      BY <2>2, <3>2, <3>3, <3>4
  <2> QED
    BY <1>3, <2>1, <2>2
<1>6. PICK line \in CampaignRow :
         /\ campaigns' = [campaigns EXCEPT ![asked.id] = line]
         /\ \/ had' = [had EXCEPT ![asked.id] = @ \cup {line.manager}]
            \/ had' = [had EXCEPT ![asked.id] = {line.manager}] /\ creates
            \/ had' = had /\ changes /\ line.manager = campaigns[asked.id].manager
  BY <1>5
<1>7. line # Null /\ line.manager \in Managers
  BY ListsAssumption DEF CampaignRow
<1>8. /\ campaigns' \in [Campaigns -> CampaignRow \cup {Null}]
      /\ campaigns'[asked.id] = line /\ \A k \in Campaigns \ {asked.id} : campaigns'[k] = campaigns[k]
  BY <1>1, <1>4, <1>6 DEF ListsTyped
<1>9. Rows' = Rows \cup {asked.id}
  BY <1>4, <1>7, <1>8 DEF Rows
<1>10. /\ had' \in [Campaigns -> SUBSET Managers]
       /\ line.manager \in had'[asked.id]
       /\ \A k \in Rows : had[k] \subseteq had'[k]
       /\ \A k \in Campaigns \ {asked.id} : had'[k] = had[k]
  <2>1. had \in [Campaigns -> SUBSET Managers]
    BY <1>1 DEF ListsTyped
  <2>2. changes => campaigns[asked.id].manager \in had[asked.id]
    BY <1>1, <1>3 DEF OwnedInv
  <2>3. Rows \subseteq Campaigns /\ (creates => asked.id \notin Rows)
    BY <1>1, <1>3, RowsAreTyped
  <2> QED
    BY <1>4, <1>6, <1>7, <2>1, <2>2, <2>3
<1>11. ListsTyped'
  BY <1>1, <1>2, <1>8, <1>10 DEF ListsTyped
<1>12. SceneTyped'
  BY <1>1, SceneStays
<1>13. ReadInv'
  <2> SUFFICES ASSUME NEW b \in HRAdmins, request'[b].at = "read"
               PROVE  /\ asks[b].op \in {"update_preset", "delete_preset"} =>
                            asks[b].id \in Presets /\ request'[b].read \in Preset
                      /\ asks[b].op \in {"defaults", "reset", "create_campaign"} => request'[b].read \in WeightSplit
                      /\ asks[b].op \in {"reassign", "close", "reset"} => asks[b].id \in Rows'
                      /\ asks[b].op = "create_campaign" => asks[b].id \notin Rows'
    BY <1>1 DEF ReadInv
  <2>1. b # a /\ request'[b] = request[b]
    BY <1>2
  <2>2. asks[b].op = "create_campaign" => asks[b].id # asked.id
    <3>1. creates /\ asks[b].op = "create_campaign" => asks[b].id # asked.id
      BY <1>1, <2>1 DEF SceneTyped
    <3>2. changes /\ asks[b].op = "create_campaign" => asks[b].id # asked.id
      BY <1>1, <1>3, <2>1 DEF ReadInv
    <3> QED
      BY <1>3, <3>1, <3>2
  <2> QED
    BY <1>1, <1>9, <2>1, <2>2 DEF ReadInv
<1>14. OwnedInv'
  <2>1. \A k \in Rows' : campaigns'[k].manager \in had'[k]
    BY <1>1, <1>8, <1>9, <1>10, RowsAreTyped DEF OwnedInv
  <2>2. ASSUME NEW v \in DOMAIN cache, v.kind = "search", v.filter.manager \in Managers, NEW shown \in cache[v]
        PROVE  shown.id \in Rows' /\ v.filter.manager \in had'[shown.id]
    <3>1. shown.id \in Rows /\ v.filter.manager \in had[shown.id]
      BY <1>1, <2>2 DEF OwnedInv
    <3> QED
      BY <1>9, <1>10, <3>1
  <2> QED
    BY <1>1, <2>1, <2>2 DEF OwnedInv
<1>15. CurrentInv'
  <2>1. ASSUME NEW v \in DOMAIN cache, ~Invalidates(asked, v)
        PROVE  Comparable(v, Content(v)') = Comparable(v, Content(v))
    <3>1. v.kind \in ViewKinds /\ v.kind \notin ListKinds /\ ~(changes /\ v.kind = "scoring" /\ v.id = asked.id)
      BY <1>1, <1>3, <2>1 DEF Invalidates, ListsTyped, SceneTyped
    <3>2. v.kind = "scoring" => v.id \in Rows /\ v.id # asked.id
      BY <1>1, <1>3, <3>1 DEF CurrentInv
    <3>3. v.kind = "scoring" => campaigns'[v.id] = campaigns[v.id]
      BY <1>1, <1>8, <3>2, RowsAreTyped
    <3> QED
      BY <1>1, <3>1, <3>3, ContentFollowsRows
  <2> QED
    BY <1>1, <1>9, <2>1, CommitDooms
<1>16. AuditInv'
  BY <1>1 DEF AuditInv, Latest
<1> QED
  BY <1>11, <1>12, <1>13, <1>14, <1>15, <1>16 DEF ListsInv

\* A commit that writes no campaign, but defaults or presets.
LEMMA OtherWriteKeeps ==
    ASSUME ListsInv, NEW a \in HRAdmins, Commits(a), UNCHANGED <<campaigns, had, cache, asks, views, stale>>,
           defaults' \in WeightSplit, presets' \in [Presets -> Preset \cup {Null}], audit' \in Seq(AuditRow),
           \/ asks[a].op = "defaults" /\ presets' = presets
           \/ asks[a].op \in {"create_preset", "update_preset", "delete_preset"} /\ defaults' = defaults,
           AuditInv'
    PROVE  ListsInv'
<1>1. /\ ListsTyped /\ SceneTyped /\ ReadInv /\ OwnedInv /\ CurrentInv
      /\ request' = [request EXCEPT ![a].at = "committed"]
  BY DEF ListsInv, Commits
<1>2. /\ request' \in [HRAdmins -> Reading]
      /\ \A b \in HRAdmins : request'[b].at = "read" => request'[b] = request[b]
  BY <1>1, MovesOn
<1>3. Rows' = Rows
  BY DEF Rows
<1>4. ListsTyped'
  BY <1>1, <1>2 DEF ListsTyped
<1>5. SceneTyped'
  BY <1>1, SceneStays
<1>6. ReadInv'
  BY <1>1, <1>2, <1>3 DEF ReadInv
<1>7. OwnedInv'
  BY <1>1, <1>3 DEF OwnedInv
<1>8. CurrentInv'
  <2>1. ASSUME NEW v \in DOMAIN cache, ~Invalidates(asks[a], v)
        PROVE  Comparable(v, Content(v)') = Comparable(v, Content(v))
    <3>1. v.kind \in ViewKinds
      BY <1>1 DEF ListsTyped, SceneTyped
    <3>2. v.kind = "defaults" => defaults' = defaults
      BY <2>1 DEF Invalidates
    <3>3. v.kind = "presets" => presets' = presets
      BY <2>1 DEF Invalidates
    <3> QED
      BY <3>1, <3>2, <3>3, ContentFollowsRows
  <2> QED
    BY <1>3, <2>1, CommitDooms
<1> QED
  BY <1>4, <1>5, <1>6, <1>7, <1>8 DEF ListsInv

LEMMA WriteDefaultsKeepsLists ==
    ASSUME ListsInv, NEW a \in HRAdmins, WriteDefaults(a)
    PROVE  ListsInv'
<1>1. /\ ListsTyped /\ SceneTyped /\ ReadInv /\ AuditInv /\ Commits(a) /\ request[a].at = "read"
      /\ asks[a].op = "defaults" /\ UNCHANGED <<campaigns, had, presets, audit, cache, asks, views, stale>>
  BY DEF ListsInv, WriteDefaults, Commits
<1>2. request[a].read \in WeightSplit /\ asks[a].row \in WeightSplit /\ defaults \in WeightSplit
  BY <1>1 DEF ReadInv, SceneTyped, Sendable, ListsTyped
<1>3. defaults' \in WeightSplit
  BY <1>2, UpdatedIsTyped DEF WriteDefaults
<1>4. AuditInv'
  BY <1>1 DEF AuditInv, Latest
<1>5. presets' \in [Presets -> Preset \cup {Null}] /\ audit' \in Seq(AuditRow)
  BY <1>1 DEF ListsTyped
<1> QED
  BY <1>1, <1>3, <1>4, <1>5, OtherWriteKeeps

\* The entry that is appended is the newest one of its preset, and tells what became of it.
LEMMA EntryTells ==
    ASSUME ListsTyped, AuditInv, NEW e \in AuditRow, NEW line \in Preset \cup {Null}, Tells(e, line),
           audit' = Append(audit, e), presets' = [presets EXCEPT ![e.id] = line]
    PROVE  audit' \in Seq(AuditRow) /\ presets' \in [Presets -> Preset \cup {Null}] /\ AuditInv'
<1>1. audit \in Seq(AuditRow) /\ presets \in [Presets -> Preset \cup {Null}] /\ e.id \in Presets
  BY DEF ListsTyped, AuditRow
<1>2. audit' \in Seq(AuditRow) /\ presets' \in [Presets -> Preset \cup {Null}]
  BY <1>1
<1>3. /\ DOMAIN audit = 1..Len(audit) /\ Len(audit) \in Nat
      /\ DOMAIN audit' = 1..(Len(audit) + 1)
      /\ audit'[Len(audit) + 1] = e /\ \A i \in DOMAIN audit : audit'[i] = audit[i]
  BY <1>1
<1>4. ASSUME NEW p \in Presets, \E i \in DOMAIN audit' : audit'[i].id = p
      PROVE  \E i \in DOMAIN audit' : Latest(i, p)' /\ Tells(audit'[i], presets'[p])
  <2>1. CASE p = e.id
    <3>1. presets'[p] = line
      BY <1>1, <2>1
    <3> PICK n : n = Len(audit) + 1
      OBVIOUS
    <3>2. Latest(n, p)'
      BY <1>3, <2>1 DEF Latest
    <3>3. Tells(audit'[n], presets'[p]) /\ n \in DOMAIN audit'
      BY <1>3, <3>1
    <3> QED
      BY <3>2, <3>3
  <2>2. CASE p # e.id
    <3>1. presets'[p] = presets[p]
      BY <1>1, <2>2
    <3>2. \E i \in DOMAIN audit : audit[i].id = p
      BY <1>3, <1>4, <2>2
    <3>3. PICK i \in DOMAIN audit : Latest(i, p) /\ Tells(audit[i], presets[p])
      BY <3>2 DEF AuditInv
    <3>4. Latest(i, p)'
      <4>1. i \in DOMAIN audit' /\ audit'[i].id = p
        BY <1>3, <3>3 DEF Latest
      <4>2. ASSUME NEW j \in DOMAIN audit', audit'[j].id = p PROVE j <= i
        <5>1. j # Len(audit) + 1
          BY <1>3, <2>2, <4>2
        <5>2. j \in DOMAIN audit
          BY <1>3, <5>1
        <5> QED
          BY <1>3, <3>3, <4>2, <5>2 DEF Latest
      <4> QED
        BY <4>1, <4>2 DEF Latest
    <3>5. Tells(audit'[i], presets'[p]) /\ i \in DOMAIN audit'
      BY <1>3, <3>1, <3>3
    <3> QED
      BY <3>4, <3>5
  <2> QED
    BY <2>1, <2>2
<1>5. AuditInv'
  BY <1>4 DEF AuditInv
<1> QED
  BY <1>2, <1>5

\* A preset's row is written, and an entry of it.
Writes(a, what, from, line) ==
    /\ Commits(a) /\ asks[a].op \in {"create_preset", "update_preset", "delete_preset"}
    /\ presets' = [presets EXCEPT ![asks[a].id] = line]
    /\ audit' = Append(audit, AuditEntry(a, what, from))
    /\ UNCHANGED <<campaigns, had, defaults, cache, asks, views, stale>>

LEMMA PresetWriteKeepsLists ==
    ASSUME ListsInv, NEW a \in HRAdmins, CreatePreset(a) \/ UpdatePreset(a) \/ DeletePreset(a)
    PROVE  ListsInv'
<1> DEFINE p == asks[a].id
<1>1. ListsTyped /\ SceneTyped /\ ReadInv /\ AuditInv /\ Sendable(asks[a])
  BY DEF ListsInv, SceneTyped
<1>2. ASSUME NEW what \in {"created", "updated", "deleted"}, NEW from \in Preset, NEW line \in Preset \cup {Null}, p \in Presets,
             Writes(a, what, from, line), Tells(AuditEntry(a, what, from), line)
      PROVE  ListsInv'
  <2>1. AuditEntry(a, what, from) \in AuditRow /\ AuditEntry(a, what, from).id = p
    BY <1>2 DEF AuditEntry, AuditRow, Preset
  <2>2. audit' \in Seq(AuditRow) /\ presets' \in [Presets -> Preset \cup {Null}] /\ AuditInv'
    BY <1>1, <1>2, <2>1, EntryTells DEF Writes
  <2>3. defaults' \in WeightSplit
    BY <1>1, <1>2 DEF ListsTyped, Writes
  <2> QED
    BY <1>2, <2>2, <2>3, OtherWriteKeeps DEF Writes
<1>3. CASE CreatePreset(a)
  <2> DEFINE line == asks[a].row
  <2>1. CASE Collides(p, line)
    BY <1>3, <2>1, FailsKeepsLists DEF CreatePreset
  <2>2. CASE ~Collides(p, line)
    <3>1. Writes(a, "created", line, line)
      BY <1>3, <2>2 DEF CreatePreset, Writes
    <3>2. asks[a].op = "create_preset"
      BY <1>3 DEF CreatePreset
    <3>3. p \in Presets /\ line \in Preset
      BY <1>1, <3>2 DEF Sendable
    <3>4. Tells(AuditEntry(a, "created", line), line)
      BY <3>3, ListsAssumption DEF Tells, AuditEntry
    <3>5. PICK r \in Preset : r = line
      BY <3>3
    <3> QED
      BY <1>2, <3>1, <3>3, <3>4, <3>5
  <2> QED
    BY <2>1, <2>2
<1>4. CASE UpdatePreset(a)
  <2> DEFINE line == Updated(presets[p], request[a].read, asks[a].row)
  <2>1. asks[a].op = "update_preset" /\ request[a].at = "read"
    BY <1>4 DEF UpdatePreset
  <2>2. CASE presets[p] = Null \/ Collides(p, line)
    BY <1>4, <2>2, FailsKeepsLists DEF UpdatePreset
  <2>3. CASE presets[p] # Null /\ ~Collides(p, line)
    <3>1. Writes(a, "updated", line, line)
      BY <1>4, <2>3 DEF UpdatePreset, Writes
    <3>2. p \in Presets /\ request[a].read \in Preset /\ asks[a].row \in Preset
      BY <1>1, <2>1 DEF ReadInv, Sendable
    <3>3. presets[p] \in Preset
      BY <1>1, <2>3, <3>2 DEF ListsTyped
    <3>4. line \in Preset
      BY <3>2, <3>3, UpdatedIsTyped
    <3> HIDE DEF line
    <3>5. Tells(AuditEntry(a, "updated", line), line)
      BY <3>4, ListsAssumption DEF Tells, AuditEntry
    <3>6. PICK r \in Preset : r = line
      BY <3>4
    <3> QED
      BY <1>2, <3>1, <3>2, <3>5, <3>6
  <2> QED
    BY <2>2, <2>3
<1>5. CASE DeletePreset(a)
  <2>1. /\ asks[a].op = "delete_preset" /\ request[a].at = "read"
        /\ Writes(a, "deleted", request[a].read, Null)
    BY <1>5 DEF DeletePreset, Commits, Writes
  <2>2. p \in Presets /\ request[a].read \in Preset
    BY <1>1, <2>1 DEF ReadInv
  <2>3. Tells(AuditEntry(a, "deleted", request[a].read), Null)
    BY DEF Tells, AuditEntry
  <2>4. PICK r \in Preset : r = request[a].read
    BY <2>2
  <2> QED
    BY <1>2, <2>1, <2>2, <2>3, <2>4
<1> QED
  BY <1>3, <1>4, <1>5

---------------------------------------------------------------------------
(* The theorem.                                                            *)

LEMMA ListsStep ==
    ASSUME ListsInv, [ListsNext]_listVars
    PROVE  ListsInv'
<1>1. ASSUME NEW a \in HRAdmins,
             \/ Review(a) \/ Invalidate(a) \/ Die(a) \/ WriteCampaign(a) \/ WriteDefaults(a)
             \/ CreatePreset(a) \/ UpdatePreset(a) \/ DeletePreset(a)
      PROVE  ListsInv'
  BY <1>1, ReviewKeepsLists, InvalidateKeepsLists, DieKeepsLists, WriteCampaignKeepsLists,
     WriteDefaultsKeepsLists, PresetWriteKeepsLists
<1>2. ASSUME NEW v \in views, Ask(v) \/ Expire(v) PROVE ListsInv'
  BY <1>2, AskKeepsLists, ExpireKeepsLists
<1>3. CASE UNCHANGED listVars
  <2>1. UNCHANGED <<campaigns, had, defaults, presets, audit, request, asks, views, stale, cache>>
    BY <1>3 DEF listVars
  <2>2. \A x : Doomed(x) => Doomed(x)'
    BY <2>1 DEF Doomed
  <2>3. request' \in [HRAdmins -> Reading]
    BY <2>1 DEF ListsInv, ListsTyped
  <2> QED
    BY <2>1, <2>2, <2>3, DroppingKeepsLists
<1> QED
  BY <1>1, <1>2, <1>3 DEF ListsNext

\* What is asked of the lists follows from the invariant.
LEMMA ListsShowRows == ListsInv => ListsAreCurrent
<1> SUFFICES ASSUME ListsInv PROVE ListsAreCurrent
  OBVIOUS
<1>1. ListsTyped /\ SceneTyped /\ OwnedInv /\ CurrentInv /\ AuditInv
  BY DEF ListsInv
<1>2. ManagersSeeTheirOwn
  <2> SUFFICES ASSUME NEW m \in Managers, NEW v \in views, v.kind = "search", NEW shown \in Answer(m, v.filter)
               PROVE  m \in had[shown.id]
    BY DEF ManagersSeeTheirOwn
  <2> DEFINE f == Scoped(m, v.filter)
             w == SearchView(m, v.filter)
  <2>1. f.manager = m
    BY <1>1 DEF SceneTyped, Scoped, Filters
  <2>2. w.kind = "search" /\ w.filter = f
    BY DEF SearchView
  <2>3. Answer(m, v.filter) = IF w \in DOMAIN cache THEN cache[w] ELSE Matching(f)
    BY DEF Answer
  <2> HIDE DEF f, w
  <2>4. CASE w \in DOMAIN cache
    BY <1>1, <2>1, <2>2, <2>3, <2>4 DEF OwnedInv
  <2>5. CASE w \notin DOMAIN cache
    BY <1>1, <2>1, <2>3, <2>5, SearchFindsOwn
  <2> QED
    BY <2>4, <2>5
<1>3. ViewsAreCurrent
  BY <1>1 DEF ViewsAreCurrent, CurrentInv, Faithful, Doomed
<1>4. AuditNamesTheRow
  <2> SUFFICES ASSUME NEW p \in Presets
               PROVE  LET mine == {i \in DOMAIN audit : audit[i].id = p}
                          last == audit[Max(mine)]
                      IN  mine # {} => IF presets[p] = Null THEN last.what = "deleted"
                                       ELSE last.what # "deleted" /\ last.name = presets[p].name
    BY DEF AuditNamesTheRow
  <2> DEFINE mine == {i \in DOMAIN audit : audit[i].id = p}
  <2>1. SUFFICES ASSUME mine # {} PROVE Tells(audit[Max(mine)], presets[p])
    BY DEF Tells
  <2>2. PICK i \in DOMAIN audit : Latest(i, p) /\ Tells(audit[i], presets[p])
    BY <1>1, <2>1 DEF AuditInv
  <2>3. DOMAIN audit \in SUBSET Nat
    BY <1>1 DEF ListsTyped
  <2>4. i \in mine /\ \A j \in mine : j <= i /\ i \in Nat /\ j \in Nat
    BY <2>2, <2>3 DEF Latest
  <2> HIDE DEF mine
  <2>5. i \in mine /\ \A j \in mine : i >= j
    BY <2>4
  <2>6. Max(mine) \in mine /\ \A j \in mine : Max(mine) >= j
    BY <2>5 DEF Max
  <2>7. Max(mine) = i
    BY <2>4, <2>6
  <2> QED
    BY <2>2, <2>7
<1> QED
  BY <1>2, <1>3, <1>4 DEF ListsAreCurrent

(* Whoever edits at once and whatever is cached: a hiring manager is served no campaign that
   was never theirs, every cached view is what the rows say once the edits have dropped the
   views they know of, and the last audit entry of a preset names what became of it
   (search_campaigns, CacheInvalidator, the preset edits' audit entries). *)
THEOREM ListsStayCurrent == ListsSpec => []ListsAreCurrent
<1>1. ListsInit => ListsInv
  BY ListsStart
<1>2. ListsInv /\ [ListsNext]_listVars => ListsInv'
  BY ListsStep
<1>3. ListsInv => ListsAreCurrent
  BY ListsShowRows
<1> QED
  BY <1>1, <1>2, <1>3, PTL DEF ListsSpec
=============================================================================
