------------------------- MODULE ScoringChain_proofs -------------------------
(***************************************************************************)
(* For any workers, requests, verdicts and mixes of events: a row of          *)
(* celery_task_log that says its task is under way is right, and the LLM's    *)
(* verdict is stored for candidates that passed the layers before.  For any   *)
(* JDs, ontology and resumes: what a resume gains never costs the candidate.  *)
(* For any candidates, campaigns and limits: the figures agree.                *)
(***************************************************************************)
EXTENDS ScoringChain, ScreeningRules, CampaignFigures, FiniteSetTheorems, WellFoundedInduction,
        TLAPS

-----------------------------------------------------------------------------
(* The inductive invariant.                                                 *)

\* Whoever checks or creates a row knows its kind, and who sends has created one.
Fit(r) ==
    /\ r.pc \in {"check", "create", "reset", "send"} => r.want # "none"
    /\ r.pc = "reset" => r.want = "SEM"
    /\ r.pc = "send" => r.new # 0
    /\ r.new \in 0..MaxTasks

Typed == TypeOK /\ \A p \in Procs : Fit(run[p])

\* A task that is enqueued behind the follow-up it publishes is done when it gets there: its
\* row is marked before (Mark) for the kinds without a key, after for the others.
Holds(r, i) ==
    /\ r.msg.id = i
    /\ \/ r.pc \in {"run", "llm", "compute", "mark"}
       \/ r.pc \in {"check", "create", "reset", "send"} /\ r.msg.kind \in Keyed
Sends(r, i) == r.pc = "send" /\ r.new = i

Waiting(i) == task[i].status \in Live \cup {"RETRY"}
InBroker(i) == \E m \in queue : m.id = i
Carried(i) == \/ InBroker(i)
              \/ \E w \in Workers : Holds(run[w], i)
              \/ \E p \in Procs : Sends(run[p], i)

RowsInv == \A i \in TaskId : Waiting(i) => Carried(i) \/ i \in lost

\* For the first resume the verdicts do not change: what a layer found it finds again.
ResultsInv ==
    /\ cand.resume >= 1
    /\ cand.resume = 1 =>
         /\ cand.det \in {"none", env.det}
         /\ cand.breakdown \in {"none", env.sem}
         /\ cand.breakdown # "none" => cand.det = "pass"

\* Who calls the LLM for the present attempt has seen the candidate pass.
CallInv(r) ==
    /\ r.attempt <= cand.attempt
    /\ r.pc = "llm" /\ r.attempt = cand.attempt /\ cand.resume = 1 => cand.breakdown = "pass"

ChainInv ==
    /\ Typed
    /\ RowsInv
    /\ ResultsInv
    /\ \A p \in Procs : CallInv(run[p])

-----------------------------------------------------------------------------
(* The operators of the model.                                              *)

\* A nonempty set of numbers up to a bound has a least element.
LEMMA HasLeast ==
    ASSUME NEW n \in Nat, NEW S \in SUBSET (1..n), S # {}
    PROVE  \E t \in S : \A u \in S : t <= u
<1> DEFINE Below(t) == {u \in S : u < t}
           T == {Below(t) : t \in S}
<1>1. IsFiniteSet(S)
  <2>1. 1 \in Int /\ n \in Int
    OBVIOUS
  <2>2. IsFiniteSet(1..n)
    BY <2>1, FS_Interval
  <2> QED
    BY <2>2, FS_Subset
<1>2. IsWellFoundedOn(StrictSubsetOrdering(S), SUBSET S)
  BY <1>1, FS_StrictSubsetOrderingWellFounded, FS_FiniteSubsetsOfFinite
<1>3. T \subseteq SUBSET S /\ T # {}
  OBVIOUS
<1>4. PICK X \in T : \A Y \in T : ~(<<Y, X>> \in StrictSubsetOrdering(S))
  <2> HIDE DEF T
  <2> QED
    BY <1>2, <1>3, WFMin
<1>5. PICK t \in S : X = Below(t)
  BY <1>4
<1>6. ASSUME NEW u \in S, u < t PROVE FALSE
  <2>1. Below(u) \subseteq Below(t) /\ u \in Below(t) /\ u \notin Below(u)
    <3>1. \A v \in S : v \in Int
      OBVIOUS
    <3>2. u < t /\ ~(u < u)
      BY <1>6, <3>1
    <3>3. \A v \in S : v < u => v < t
      BY <3>1, <3>2
    <3> QED
      BY <3>2, <3>3
  <2>2. Below(u) \in T
    OBVIOUS
  <2>3. <<Below(u), Below(t)>> \in StrictSubsetOrdering(S)
    <3>1. Below(u) \in SUBSET S /\ Below(t) \in SUBSET S
      OBVIOUS
    <3> HIDE DEF Below
    <3> QED
      BY <2>1, <3>1 DEF StrictSubsetOrdering
  <2> QED
    BY <1>4, <1>5, <2>2, <2>3
<1> QED
  BY <1>6

\* A new task id is one of the unused ones.
LEMMA NewIdIsFresh == ASSUME Fresh # {} PROVE NewId \in Fresh /\ NewId \in TaskId
<1>1. Fresh \in SUBSET TaskId
  BY DEF Fresh
<1>2. \E i \in Fresh : \A j \in Fresh : i <= j
  BY <1>1, BoundsAssumption, HasLeast DEF TaskId
<1> QED
  BY <1>1, <1>2 DEF NewId

LEMMA Tries ==
    /\ 1 \in 1..MaxTry
    /\ \A t \in 1..MaxTry : t < MaxAttempts \/ t <= MaxJdWaits => t + 1 \in 1..MaxTry
<1>1. MaxTry \in Nat /\ MaxTry >= MaxAttempts /\ MaxTry >= 1 /\ MaxTry >= MaxJdWaits + 1
  BY BoundsAssumption DEF MaxTry
<1>2. MaxAttempts \in Nat /\ MaxJdWaits \in Nat
  BY BoundsAssumption
<1> QED
  BY <1>1, <1>2

LEMMA Firsts == \A i \in TaskId, k \in Kind : First(i, k) \in Message /\ First(i, k).id = i
BY Tries DEF First, Message

LEMMA IdleIs ==
    /\ Idle \in Control /\ Fit(Idle)
    /\ Idle.pc = "idle" /\ Idle.attempt = 0
    /\ \A i : ~Holds(Idle, i) /\ ~Sends(Idle, i)
<1>1. 1 \in TaskId /\ "DET" \in Kind /\ 0 \in 0..MaxTasks
  BY BoundsAssumption DEF TaskId, Kind
<1>2. First(1, "DET") \in Message
  BY <1>1, Firsts
<1>3. Idle \in Control /\ Idle.pc = "idle" /\ Idle.attempt = 0 /\ Idle.new = 0
  BY <1>1, <1>2 DEF Idle, Control, Stage, Inputs, NoInputs
<1> QED
  BY <1>1, <1>3 DEF Fit, Holds, Sends

LEMMA Spends == ASSUME TypeOK, NEW k \in EventKinds, Spend(k) PROVE events' \in [EventKinds -> Nat]
<1>1. PICK n \in Nat : n = events[k] - 1
  BY DEF Spend, TypeOK
<1>2. events' = [events EXCEPT ![k] = n]
  BY <1>1 DEF Spend
<1> QED
  BY <1>1, <1>2 DEF TypeOK

-----------------------------------------------------------------------------
(* What a step that changes one process preserves.                          *)

\* The process goes on as r, the others as they were.
Becomes(p, r) ==
    /\ r \in Control /\ Fit(r)
    /\ run' \in [Procs -> Control] /\ run'[p] = r
    /\ \A q \in Procs \ {p} : run'[q] = run[q]

LEMMA RunBecomes ==
    ASSUME TypeOK, NEW p \in Procs, NEW r \in Control, Fit(r), run' = [run EXCEPT ![p] = r]
    PROVE  Becomes(p, r)
BY DEF TypeOK, Becomes

\* Nobody's task is dropped: rows come to wait with a carrier, and what the process or a
\* message carried is carried on, done or known as lost.
Passed(p, r, i) ==
    \/ task'[i].status \notin Live \cup {"RETRY"}
    \/ InBroker(i)'
    \/ p \in Workers /\ Holds(r, i)
    \/ Sends(r, i)
    \/ i \in lost'

LEMMA RowsKept ==
    ASSUME Typed, RowsInv, NEW p \in Procs, NEW r, Becomes(p, r), lost \subseteq lost',
           \A i \in TaskId : Waiting(i)' => Waiting(i) \/ Passed(p, r, i),
           \A m \in queue : m \in queue' \/ Passed(p, r, m.id),
           \A i \in TaskId : (p \in Workers /\ Holds(run[p], i)) \/ Sends(run[p], i) => Passed(p, r, i)
    PROVE  RowsInv'
<1> SUFFICES ASSUME NEW i \in TaskId, Waiting(i)' PROVE Carried(i)' \/ i \in lost'
  BY DEF RowsInv
<1>0. Workers \subseteq Procs
  BY DEF Procs
<1>1. Passed(p, r, i) => Carried(i)' \/ i \in lost'
  BY DEF Passed, Carried, Becomes, Waiting
<1>2. CASE ~Passed(p, r, i)
  <2>1. Waiting(i)
    BY <1>2
  <2>2. Carried(i) \/ i \in lost
    BY <2>1 DEF RowsInv
  <2>3. CASE InBroker(i)
    BY <1>2, <2>3 DEF InBroker, Carried
  <2>4. CASE \E w \in Workers : Holds(run[w], i)
    <3>1. PICK w \in Workers : Holds(run[w], i)
      BY <2>4
    <3>2. w # p
      BY <1>2, <3>1
    <3>3. run'[w] = run[w]
      BY <1>0, <3>2 DEF Becomes
    <3> QED
      BY <3>1, <3>3 DEF Carried
  <2>5. CASE \E q \in Procs : Sends(run[q], i)
    <3>1. PICK q \in Procs : Sends(run[q], i)
      BY <2>5
    <3>2. q # p
      BY <1>2, <3>1
    <3>3. run'[q] = run[q]
      BY <3>2 DEF Becomes
    <3> QED
      BY <3>1, <3>3 DEF Carried
  <2> QED
    BY <2>2, <2>3, <2>4, <2>5 DEF Carried
<1> QED
  BY <1>1, <1>2

\* The verdicts and the attempt stay.
SameResults ==
    /\ cand'.resume = cand.resume /\ cand'.attempt = cand.attempt
    /\ cand'.det = cand.det /\ cand'.breakdown = cand.breakdown
    /\ env'.det = env.det /\ env'.sem = env.sem

LEMMA CallsKept ==
    ASSUME Typed, \A q \in Procs : CallInv(run[q]), NEW p \in Procs, NEW r, Becomes(p, r), CallInv(r)',
           cand'.attempt = cand.attempt, cand'.resume = cand.resume,
           cand.breakdown = "pass" /\ cand.resume = 1 => cand'.breakdown = "pass"
    PROVE  \A q \in Procs : CallInv(run[q])'
<1> SUFFICES ASSUME NEW q \in Procs PROVE CallInv(run[q])'
  OBVIOUS
<1>1. CASE q = p
  BY <1>1 DEF Becomes, CallInv
<1>2. CASE q # p
  BY <1>2 DEF Becomes, CallInv
<1> QED
  BY <1>1, <1>2

LEMMA ResultsKept ==
    ASSUME ChainInv, SameResults, NEW p \in Procs, NEW r, Becomes(p, r), CallInv(r)
    PROVE  ResultsInv' /\ \A q \in Procs : CallInv(run[q])'
<1>1. ResultsInv'
  BY DEF ChainInv, ResultsInv, SameResults
<1>2. CallInv(r)'
  BY DEF CallInv, SameResults
<1> QED
  BY <1>1, <1>2, CallsKept DEF ChainInv, SameResults

LEMMA TypedKept ==
    ASSUME Typed, NEW p \in Procs, NEW r, Becomes(p, r), cand' \in CandRow, env' \in Surroundings,
           task' \in [TaskId -> TaskRow], key' \in [Keyed -> 0..MaxTasks], dead' \subseteq TaskId,
           lost' \subseteq TaskId, queue' \subseteq Message, events' \in [EventKinds -> Nat]
    PROVE  Typed'
<1>1. \A q \in Procs : Fit(run'[q])
  <2> SUFFICES ASSUME NEW q \in Procs PROVE Fit(run'[q])
    OBVIOUS
  <2>1. Fit(run[q])
    BY DEF Typed
  <2> QED
    BY <2>1 DEF Becomes
<1> QED
  BY <1>1 DEF Typed, TypeOK, Becomes

\* Steps that touch neither the rows nor the broker.
LEMMA QuietStep ==
    ASSUME ChainInv, NEW p \in Procs, NEW r, Becomes(p, r), UNCHANGED <<task, key, dead, lost, queue>>,
           cand' \in CandRow, env' \in Surroundings, events' \in [EventKinds -> Nat],
           run[p].pc # "send", p \in Workers => \A i \in TaskId : Holds(run[p], i) => Holds(r, i),
           SameResults, CallInv(r)
    PROVE  ChainInv'
<1>1. Typed'
  BY TypedKept DEF ChainInv, Typed, TypeOK
<1>2. RowsInv'
  <2>1. \A i \in TaskId : Waiting(i)' => Waiting(i) \/ Passed(p, r, i)
    BY DEF Waiting
  <2>2. \A i \in TaskId : (p \in Workers /\ Holds(run[p], i)) \/ Sends(run[p], i) => Passed(p, r, i)
    BY DEF Passed, Sends
  <2>3. \A m \in queue : m \in queue' \/ Passed(p, r, m.id)
    OBVIOUS
  <2> QED
    BY <2>1, <2>2, <2>3, RowsKept DEF ChainInv
<1> QED
  BY <1>1, <1>2, ResultsKept DEF ChainInv

-----------------------------------------------------------------------------
(* How a process's record changes.                                          *)

LEMMA RecordOf == ASSUME Typed, NEW p \in Procs
                  PROVE  /\ run[p] \in Control /\ Fit(run[p]) /\ Job(p) = run[p].msg
                         /\ Job(p) \in Message /\ Job(p).id \in TaskId /\ Job(p).kind \in Kind
                         /\ run[p].attempt \in Nat /\ cand.attempt \in Nat
BY DEF Typed, TypeOK, Control, Job, Message, CandRow

LEMMA GoIs ==
    ASSUME Typed, NEW p \in Procs, Go(p, "mark") \/ Go(p, "compute")
    PROVE  \E r : Becomes(p, r) /\ r.pc \in {"mark", "compute"} /\ r.msg = run[p].msg /\ r.attempt = run[p].attempt
<1>1. PICK pc \in {"mark", "compute"} : Go(p, pc)
  OBVIOUS
<1>2. run[p] \in Control /\ Fit(run[p])
  BY RecordOf
<1>3. PICK r : r = [run[p] EXCEPT !.pc = pc]
  OBVIOUS
<1>4. r \in Control /\ r.pc = pc /\ r.msg = run[p].msg /\ r.attempt = run[p].attempt /\ r.want = run[p].want /\ r.new = run[p].new
  BY <1>2, <1>3 DEF Control
<1>5. Fit(r)
  BY <1>2, <1>4 DEF Fit
<1>6. run' = [run EXCEPT ![p] = r]
  BY <1>1, <1>3 DEF Go
<1> QED
  BY <1>1, <1>4, <1>5, <1>6, RunBecomes DEF Typed

LEMMA EnqueueGoIs ==
    ASSUME Typed, NEW p \in Procs, NEW pc \in {"check", "create", "reset"}, Go(p, pc), run[p].want # "none",
           pc = "reset" => run[p].want = "SEM"
    PROVE  \E r : Becomes(p, r) /\ r.pc = pc /\ r.msg = run[p].msg /\ r.attempt = run[p].attempt
<1>2. run[p] \in Control /\ Fit(run[p])
  BY RecordOf
<1>3. PICK r : r = [run[p] EXCEPT !.pc = pc]
  OBVIOUS
<1>4. r \in Control /\ r.pc = pc /\ r.msg = run[p].msg /\ r.attempt = run[p].attempt /\ r.want = run[p].want /\ r.new = run[p].new
  BY <1>2, <1>3 DEF Control
<1>5. Fit(r)
  BY <1>2, <1>4 DEF Fit
<1>6. run' = [run EXCEPT ![p] = r]
  BY <1>3 DEF Go
<1> QED
  BY <1>4, <1>5, <1>6, RunBecomes DEF Typed

\* A worker whose layer is done still holds its task.
LEMMA FollowIs ==
    ASSUME Typed, NEW w \in Procs, NEW kind \in Kind \cup {"none"}, Follow(w, kind)
    PROVE  \E r : /\ Becomes(w, r) /\ r.pc \in {"check", "mark"} /\ r.attempt = run[w].attempt
                  /\ \A i : Holds(run[w], i) => Holds(r, i)
<1>2. run[w] \in Control /\ Fit(run[w]) /\ Job(w) = run[w].msg
  BY RecordOf
<1>3. PICK r : r = [run[w] EXCEPT !.want = kind,
                    !.pc = IF Job(w).kind \in {"SEM", "EMBED"} /\ kind # "none" THEN "check" ELSE "mark"]
  OBVIOUS
<1>4. /\ r \in Control /\ r.want = kind /\ r.msg = run[w].msg /\ r.attempt = run[w].attempt /\ r.new = run[w].new
      /\ r.pc = IF Job(w).kind \in {"SEM", "EMBED"} /\ kind # "none" THEN "check" ELSE "mark"
  BY <1>2, <1>3 DEF Control
<1>5. Fit(r)
  BY <1>2, <1>4 DEF Fit
<1>6. run' = [run EXCEPT ![w] = r]
  BY <1>3 DEF Follow
<1>7. \A i : Holds(run[w], i) => Holds(r, i)
  BY <1>2, <1>4 DEF Holds, Keyed
<1> QED
  BY <1>4, <1>5, <1>6, <1>7, RunBecomes DEF Typed

\* So does one that has published the follow-up, if its row is not marked yet.
LEMMA EnqueuedIs ==
    ASSUME Typed, NEW p \in Procs, run[p].pc \in {"check", "create", "reset", "send"}, Enqueued(p)
    PROVE  \E r : /\ Becomes(p, r) /\ r.pc \in {"idle", "mark"}
                  /\ r.attempt \in {0, run[p].attempt}
                  /\ p \in Workers => \A i : Holds(run[p], i) => Holds(r, i)
<1>2. run[p] \in Control /\ Fit(run[p]) /\ Job(p) = run[p].msg
  BY RecordOf
<1>3. CASE p \in Workers /\ Job(p).kind \in Keyed
  <2>1. PICK r : r = [run[p] EXCEPT !.pc = "mark", !.want = "none", !.new = 0]
    OBVIOUS
  <2>2. /\ r \in Control /\ r.pc = "mark" /\ r.want = "none" /\ r.new = 0
        /\ r.msg = run[p].msg /\ r.attempt = run[p].attempt
    <3>1. 0 \in 0..MaxTasks /\ "none" \in Kind \cup {"none"}
      BY BoundsAssumption
    <3> QED
      BY <1>2, <2>1, <3>1 DEF Control
  <2>3. Fit(r)
    BY <2>2, BoundsAssumption DEF Fit
  <2>4. run' = [run EXCEPT ![p] = r]
    BY <1>3, <2>1 DEF Enqueued
  <2>5. \A i : Holds(run[p], i) => Holds(r, i)
    BY <2>2 DEF Holds
  <2> QED
    BY <2>2, <2>3, <2>4, <2>5, RunBecomes DEF Typed
<1>4. CASE ~(p \in Workers /\ Job(p).kind \in Keyed)
  <2>1. Becomes(p, Idle)
    BY <1>4, IdleIs, RunBecomes DEF Enqueued, Typed
  <2>2. p \in Workers => \A i : ~Holds(run[p], i)
    BY <1>2, <1>4 DEF Holds
  <2> QED
    BY <2>1, <2>2, IdleIs
<1> QED
  BY <1>3, <1>4


-----------------------------------------------------------------------------
(* Steps that touch neither the rows nor the broker.                        *)

Still == UNCHANGED <<task, key, dead, lost, queue>>
Sound == cand' \in CandRow /\ env' \in Surroundings /\ events' \in [EventKinds -> Nat] /\ SameResults

LEMMA SameIsSound == ASSUME Typed, UNCHANGED <<cand, env, events>> PROVE Sound
BY DEF Typed, TypeOK, Sound, SameResults

LEMMA QuietGo ==
    ASSUME ChainInv, NEW w \in Procs, Go(w, "mark") \/ Go(w, "compute"),
           run[w].pc \in {"run", "llm", "compute", "mark"}, Still, Sound
    PROVE  ChainInv'
<1>1. PICK r : Becomes(w, r) /\ r.pc \in {"mark", "compute"} /\ r.msg = run[w].msg /\ r.attempt = run[w].attempt
  BY GoIs DEF ChainInv
<1>2. CallInv(r)
  BY <1>1 DEF ChainInv, CallInv
<1>3. \A i \in TaskId : Holds(run[w], i) => Holds(r, i)
  BY <1>1 DEF Holds
<1> QED
  BY <1>1, <1>2, <1>3, QuietStep DEF Still, Sound

LEMMA QuietFollow ==
    ASSUME ChainInv, NEW w \in Procs, NEW kind \in Kind \cup {"none"}, Follow(w, kind),
           run[w].pc \in {"run", "llm", "compute", "mark"}, Still, Sound
    PROVE  ChainInv'
<1>1. PICK r : /\ Becomes(w, r) /\ r.pc \in {"check", "mark"} /\ r.attempt = run[w].attempt
               /\ \A i : Holds(run[w], i) => Holds(r, i)
  BY FollowIs DEF ChainInv
<1>2. CallInv(r)
  BY <1>1 DEF ChainInv, CallInv
<1> QED
  BY <1>1, <1>2, QuietStep DEF Still, Sound

LEMMA QuietAsk ==
    ASSUME ChainInv, NEW c \in Clerks, NEW kind \in Kind, Ask(c, kind), run[c].pc = "idle", Still, Sound
    PROVE  ChainInv'
<1>1. c \in Procs /\ Typed
  BY DEF Procs, ChainInv
<1>2. run[c] \in Control /\ Fit(run[c])
  BY <1>1, RecordOf
<1>3. PICK r : r = [run[c] EXCEPT !.pc = "check", !.want = kind]
  OBVIOUS
<1>4. /\ r \in Control /\ r.pc = "check" /\ r.want = kind /\ r.new = run[c].new
      /\ r.msg = run[c].msg /\ r.attempt = run[c].attempt
  BY <1>2, <1>3 DEF Control
<1>5. Fit(r) /\ "none" \notin Kind
  BY <1>2, <1>4 DEF Fit, Kind, Keyed
<1>6. run' = [run EXCEPT ![c] = r]
  BY <1>3 DEF Ask
<1>7. Becomes(c, r)
  BY <1>1, <1>4, <1>5, <1>6, RunBecomes DEF Typed
<1>8. \A i \in TaskId : ~Holds(run[c], i)
  BY DEF Holds
<1>9. CallInv(r)
  BY <1>1, <1>4 DEF ChainInv, CallInv
<1> QED
  BY <1>1, <1>7, <1>8, <1>9, QuietStep DEF Still, Sound

LEMMA Kinds == Kind = {"EMBED", "SEM", "DET", "AI", "COMP"} /\ "none" \notin Kind
BY DEF Kind, Keyed

Quiet(w) == \/ ClosedSkip(w) \/ Embed(w) \/ TriggerPending(w) \/ SkipSemantic(w) \/ ReviewManually(w)
            \/ StoreVerdict(w) \/ StoreComposite(w)

LEMMA QuietLayers == ASSUME ChainInv, NEW w \in Workers, Quiet(w) PROVE ChainInv'
<1>t. w \in Procs /\ Typed /\ cand \in CandRow /\ env \in Surroundings /\ events \in [EventKinds -> Nat]
  BY DEF Procs, ChainInv, Typed, TypeOK
<1>r. run[w] \in Control
  BY <1>t, RecordOf
<1>1. CASE ClosedSkip(w)
  <2>1. Go(w, "mark") /\ run[w].pc = "run" /\ Still /\ UNCHANGED <<cand, env, events>>
    BY <1>1 DEF ClosedSkip, Still
  <2> QED
    BY <1>t, <2>1, SameIsSound, QuietGo
<1>2. CASE Embed(w)
  <2>1. Go(w, "compute") /\ run[w].pc = "run" /\ Still /\ env' = [env EXCEPT !.resume = TRUE] /\ UNCHANGED <<cand, events>>
    BY <1>2 DEF Embed, Still
  <2>2. Sound
    BY <1>t, <2>1 DEF Sound, SameResults, Surroundings
  <2> QED
    BY <1>t, <2>1, <2>2, QuietGo
<1>3. CASE TriggerPending(w)
  <2>1. PICK kind \in Kind \cup {"none"} : Follow(w, kind)
    BY <1>3, Kinds DEF TriggerPending
  <2>2. run[w].pc = "compute" /\ Still /\ UNCHANGED <<cand, env, events>>
    BY <1>3 DEF TriggerPending, Still
  <2> QED
    BY <1>t, <2>1, <2>2, SameIsSound, QuietFollow
<1>4. CASE SkipSemantic(w)
  <2>1. Go(w, "mark") /\ run[w].pc = "run" /\ Still /\ UNCHANGED <<cand, env, events>>
    BY <1>4 DEF SkipSemantic, Still, At
  <2> QED
    BY <1>t, <2>1, SameIsSound, QuietGo
<1>5. CASE ReviewManually(w)
  <2>1. PICK b \in BOOLEAN : cand' = [cand EXCEPT !.review = "MANUAL_REVIEW", !.sem = b]
    BY <1>5, <1>t DEF ReviewManually, Surroundings, CandRow
  <2>2. Go(w, "mark") /\ run[w].pc = "run" /\ Still /\ UNCHANGED <<env, events>>
    BY <1>5 DEF ReviewManually, Still, At
  <2>3. Sound
    BY <1>t, <2>1, <2>2 DEF Sound, SameResults, CandRow
  <2> QED
    BY <1>t, <2>2, <2>3, QuietGo
<1>6. CASE StoreVerdict(w)
  <2>1. PICK v \in Verdict, to \in Stage, kind \in Kind \cup {"none"} :
            /\ cand' = [cand EXCEPT !.ai = v, !.review = "COMPLETED", !.stage = to]
            /\ Follow(w, kind)
    <3>1. PICK v \in Verdict :
            LET from == run[w].stage
                to == IF v = "REJECT" /\ from \in Rejectable THEN "REJECTED"
                      ELSE IF v = "SHORTLIST" /\ from = "SCREENING" THEN "SHORTLISTED"
                      ELSE IF v = "HOLD" /\ from = "SCREENING" THEN "HOLD" ELSE cand.stage
            IN  /\ cand' = [cand EXCEPT !.ai = v, !.review = "COMPLETED", !.stage = to]
                /\ Follow(w, IF v = "REJECT" /\ from \notin Rejectable THEN "none" ELSE "COMP")
      BY <1>6 DEF StoreVerdict
    <3>2. cand.stage \in Stage /\ {"REJECTED", "SHORTLISTED", "HOLD"} \subseteq Stage /\ "COMP" \in Kind
      BY <1>t, Kinds DEF CandRow, Stage
    <3> QED
      BY <3>1, <3>2
  <2>2. run[w].pc = "llm" /\ Still /\ UNCHANGED <<env, events>>
    BY <1>6 DEF StoreVerdict, Still
  <2>3. Sound
    BY <1>t, <2>1, <2>2 DEF Sound, SameResults, CandRow
  <2> QED
    BY <1>t, <2>1, <2>2, <2>3, QuietFollow
<1>7. CASE StoreComposite(w)
  <2>1. Go(w, "mark") /\ run[w].pc = "compute" /\ Still /\ UNCHANGED <<env, events>>
        /\ cand' = [cand EXCEPT !.comp = run[w].inputs]
    BY <1>7 DEF StoreComposite, Still
  <2>2. Sound
    BY <1>t, <1>r, <2>1 DEF Sound, SameResults, CandRow, Control
  <2> QED
    BY <1>t, <2>1, <2>2, QuietGo
<1> QED
  BY <1>1, <1>2, <1>3, <1>4, <1>5, <1>6, <1>7 DEF Quiet

LEMMA EvaluateAIStep == ASSUME ChainInv, NEW w \in Workers, EvaluateAI(w) PROVE ChainInv'
<1>t. w \in Procs /\ Typed /\ cand \in CandRow
  BY DEF Procs, ChainInv, Typed, TypeOK
<1>1. run[w].pc = "run" /\ Still /\ UNCHANGED <<cand, env, events>>
  BY DEF EvaluateAI, At, Still
<1>2. CASE Go(w, "mark")
  BY <1>1, <1>2, <1>t, SameIsSound, QuietGo
<1>3. CASE /\ cand.breakdown = "pass"
           /\ run' = [run EXCEPT ![w] = [@ EXCEPT !.pc = "llm", !.stage = cand.stage, !.attempt = cand.attempt]]
  <2>1. run[w] \in Control /\ Fit(run[w])
    BY <1>t, RecordOf
  <2>2. PICK r : r = [run[w] EXCEPT !.pc = "llm", !.stage = cand.stage, !.attempt = cand.attempt]
    OBVIOUS
  <2>3. /\ r \in Control /\ r.pc = "llm" /\ r.want = run[w].want /\ r.new = run[w].new
        /\ r.msg = run[w].msg /\ r.attempt = cand.attempt
    BY <1>t, <2>1, <2>2 DEF Control, CandRow
  <2>4. Fit(r)
    BY <2>1, <2>3 DEF Fit
  <2>5. Becomes(w, r)
    BY <1>3, <1>t, <2>2, <2>3, <2>4, RunBecomes DEF Typed
  <2>6. \A i \in TaskId : Holds(run[w], i) => Holds(r, i)
    BY <2>3 DEF Holds
  <2>7. CallInv(r)
    BY <1>3, <1>t, <2>3 DEF CallInv, CandRow
  <2> QED
    BY <1>1, <1>t, <2>5, <2>6, <2>7, SameIsSound, QuietStep DEF Still, Sound
<1> QED
  BY <1>2, <1>3 DEF EvaluateAI

LEMMA ReadInputsStep == ASSUME ChainInv, NEW w \in Workers, ReadInputs(w) PROVE ChainInv'
<1>t. w \in Procs /\ Typed /\ cand \in CandRow /\ env \in Surroundings
  BY DEF Procs, ChainInv, Typed, TypeOK
<1>1. run[w].pc = "run" /\ Still /\ UNCHANGED <<cand, env, events>>
  BY DEF ReadInputs, At, Still
<1>2. PICK in : in = [det |-> cand.det, sem |-> cand.sem, ai |-> cand.ai, weights |-> env.weights]
  OBVIOUS
<1>3. in \in Inputs
  BY <1>t, <1>2 DEF Inputs, CandRow, Surroundings, Result
<1>4. run[w] \in Control /\ Fit(run[w])
  BY <1>t, RecordOf
<1>5. PICK r : r = [run[w] EXCEPT !.pc = "compute", !.inputs = in]
  OBVIOUS
<1>6. /\ r \in Control /\ r.pc = "compute" /\ r.want = run[w].want /\ r.new = run[w].new
      /\ r.msg = run[w].msg /\ r.attempt = run[w].attempt
  BY <1>3, <1>4, <1>5 DEF Control
<1>7. Fit(r)
  BY <1>4, <1>6 DEF Fit
<1>8. Becomes(w, r)
  BY <1>2, <1>5, <1>6, <1>7, <1>t, RunBecomes DEF Typed, ReadInputs
<1>9. \A i \in TaskId : Holds(run[w], i) => Holds(r, i)
  BY <1>6 DEF Holds
<1>10. CallInv(r)
  BY <1>6, <1>t DEF CallInv, ChainInv
<1> QED
  BY <1>1, <1>8, <1>9, <1>10, <1>t, SameIsSound, QuietStep DEF Still, Sound

\* The enqueue ends, or goes on to create the row.
LEMMA QuietEnqueued ==
    ASSUME ChainInv, NEW p \in Procs, run[p].pc \in {"check", "create", "reset"}, Still, Sound,
           \/ Enqueued(p)
           \/ /\ run[p].want # "none"
              /\ \/ Go(p, "check") \/ Go(p, "create")
                 \/ Go(p, "reset") /\ run[p].want = "SEM"
    PROVE  ChainInv'
<1>t. Typed /\ CallInv(run[p])
  BY DEF ChainInv
<1>1. CASE Enqueued(p)
  <2>1. PICK r : /\ Becomes(p, r) /\ r.pc \in {"idle", "mark"} /\ r.attempt \in {0, run[p].attempt}
                 /\ p \in Workers => \A i : Holds(run[p], i) => Holds(r, i)
    BY <1>1, <1>t, EnqueuedIs
  <2>2. CallInv(r)
    BY <1>t, <2>1, RecordOf DEF CallInv
  <2> QED
    BY <2>1, <2>2, QuietStep DEF Still, Sound
<1>2. CASE ~Enqueued(p)
  <2>1. PICK pc \in {"check", "create", "reset"} :
          Go(p, pc) /\ run[p].want # "none" /\ (pc = "reset" => run[p].want = "SEM")
    BY <1>2
  <2>2. PICK r : Becomes(p, r) /\ r.pc = pc /\ r.msg = run[p].msg /\ r.attempt = run[p].attempt
    BY <1>t, <2>1, EnqueueGoIs
  <2>3. CallInv(r) /\ \A i : Holds(run[p], i) => Holds(r, i)
    BY <1>t, <2>2 DEF CallInv, Holds
  <2> QED
    BY <2>2, <2>3, QuietStep DEF Still, Sound
<1> QED
  BY <1>1, <1>2

\* A test of the rows before an enqueue.
LEMMA CheckStep ==
    ASSUME ChainInv, NEW p \in Procs, CheckUnkeyed(p) \/ CheckEmbedding(p) \/ CheckSemantic(p)
    PROVE  ChainInv'
<1>t. Typed /\ run[p] \in Control /\ Fit(run[p])
  BY RecordOf DEF ChainInv
<1>1. run[p].pc = "check" /\ run[p].want # "none" /\ Still /\ UNCHANGED <<cand, env, events>>
  BY <1>t DEF CheckUnkeyed, CheckEmbedding, CheckSemantic, Still, Fit
<1>2. Sound
  BY <1>1, <1>t, SameIsSound
<1>5. ASSUME run' = [run EXCEPT ![p].want = "EMBED"] PROVE ChainInv'
  <2>1. PICK r : r = [run[p] EXCEPT !.want = "EMBED"]
    OBVIOUS
  <2>2. /\ r \in Control /\ r.pc = run[p].pc /\ r.want = "EMBED" /\ r.new = run[p].new
        /\ r.msg = run[p].msg /\ r.attempt = run[p].attempt
    BY <1>t, <2>1, Kinds DEF Control
  <2>3. Fit(r)
    BY <1>1, <1>t, <2>2 DEF Fit
  <2>4. Becomes(p, r)
    BY <1>5, <1>t, <2>1, <2>2, <2>3, RunBecomes DEF Typed
  <2>5. CallInv(r) /\ \A i : Holds(run[p], i) => Holds(r, i)
    BY <1>1, <2>2 DEF ChainInv, CallInv, Holds
  <2> QED
    BY <1>1, <1>2, <2>4, <2>5, QuietStep DEF Still, Sound
<1> QED
  BY <1>1, <1>2, <1>5, QuietEnqueued DEF CheckUnkeyed, CheckEmbedding, CheckSemantic

-----------------------------------------------------------------------------
(* The requests that leave the rows alone, and what the chain reads.        *)

LEMMA Events == EventKinds = {"crash", "slow", "lost", "fail", "close", "rescan",
                              "reject", "override", "rescore", "resubmit", "weights"}
BY DEF EventKinds

LEMMA RequestStep ==
    ASSUME ChainInv, NEW c \in Clerks, Scan(c) \/ Reject(c) \/ Override(c) \/ Weights(c) PROVE ChainInv'
<1>t. /\ c \in Procs /\ Typed /\ TypeOK /\ cand \in CandRow /\ env \in Surroundings /\ events \in [EventKinds -> Nat]
  BY DEF Procs, ChainInv, Typed, TypeOK
<1>1. CASE Scan(c)
  <2>1. run[c].pc = "idle" /\ Ask(c, "SEM") /\ Still /\ UNCHANGED <<cand, env>> /\ (Spend("rescan") \/ UNCHANGED events)
    BY <1>1 DEF Scan, Still
  <2>2. events' \in [EventKinds -> Nat]
    BY <1>t, <2>1, Spends, Events
  <2>3. Sound
    BY <1>t, <2>1, <2>2 DEF Sound, SameResults
  <2> QED
    BY <2>1, <2>3, QuietAsk, Kinds
<1>2. CASE Reject(c)
  <2>1. run[c].pc = "idle" /\ Still /\ UNCHANGED <<env, run>> /\ Spend("reject") /\ cand' = [cand EXCEPT !.stage = "REJECTED"]
    BY <1>2 DEF Reject, Still
  <2>2. events' \in [EventKinds -> Nat]
    BY <1>t, <2>1, Spends, Events
  <2>3. Sound
    BY <1>t, <2>1, <2>2 DEF Sound, SameResults, CandRow, Stage
  <2>4. PICK r : r = run[c]
    OBVIOUS
  <2>5. Becomes(c, r) /\ CallInv(r)
    BY <1>t, <2>1, <2>4, RecordOf DEF Becomes, TypeOK, ChainInv
  <2> QED
    BY <1>t, <2>1, <2>3, <2>4, <2>5, QuietStep DEF Still, Sound
<1>3. CASE Override(c)
  <2>1. PICK kind \in Kind : Ask(c, kind)
    BY <1>3, Kinds DEF Override
  <2>2. run[c].pc = "idle" /\ Still /\ UNCHANGED env /\ Spend("override") /\ cand' = [cand EXCEPT !.stage = "SCREENING"]
    BY <1>3 DEF Override, Still
  <2>3. events' \in [EventKinds -> Nat]
    BY <1>t, <2>2, Spends, Events
  <2>4. Sound
    BY <1>t, <2>2, <2>3 DEF Sound, SameResults, CandRow, Stage
  <2> QED
    BY <2>1, <2>2, <2>4, QuietAsk
<1>4. CASE Weights(c)
  <2>1. run[c].pc = "idle" /\ Ask(c, "COMP") /\ Still /\ UNCHANGED cand /\ Spend("weights")
        /\ env' = [env EXCEPT !.weights = @ + 1]
    BY <1>4 DEF Weights, Still
  <2>2. events' \in [EventKinds -> Nat]
    BY <1>t, <2>1, Spends, Events
  <2>3. Sound
    BY <1>t, <2>1, <2>2 DEF Sound, SameResults, Surroundings
  <2> QED
    BY <2>1, <2>3, QuietAsk, Kinds
<1> QED
  BY <1>1, <1>2, <1>3, <1>4

\* Nothing the invariant is about changes.
LEMMA OutsideStep ==
    ASSUME ChainInv, Close \/ JdEmbedded \/ UNCHANGED vars PROVE ChainInv'
<1>t. Typed /\ TypeOK /\ cand \in CandRow /\ env \in Surroundings /\ events \in [EventKinds -> Nat]
  BY DEF ChainInv, Typed, TypeOK
<1>1. UNCHANGED <<cand, task, key, dead, lost, queue, run>>
  BY DEF Close, JdEmbedded, vars
<1>2. env' \in Surroundings /\ env'.det = env.det /\ env'.sem = env.sem
  <2>1. CASE Close
    BY <1>t, <2>1 DEF Close, Surroundings
  <2>2. CASE JdEmbedded
    BY <1>t, <2>2 DEF JdEmbedded, Surroundings
  <2> QED
    BY <1>t, <2>1, <2>2 DEF vars
<1>3. events' \in [EventKinds -> Nat]
  <2>1. CASE Close
    BY <1>t, <2>1, Spends, Events DEF Close
  <2> QED
    BY <1>t, <2>1 DEF JdEmbedded, vars
<1>4. Typed'
  BY <1>t, <1>1, <1>2, <1>3 DEF Typed, TypeOK
<1>5. RowsInv' /\ ResultsInv' /\ \A p \in Procs : CallInv(run[p])'
  BY <1>1, <1>2 DEF ChainInv, RowsInv, ResultsInv, CallInv, Waiting, Carried, InBroker
<1> QED
  BY <1>4, <1>5 DEF ChainInv

-----------------------------------------------------------------------------
(* Steps of the rows and the broker.                                        *)

\* Such a step is typed and passes on what was carried.
RowStep(p, r) ==
    /\ Becomes(p, r) /\ CallInv(r)
    /\ task' \in [TaskId -> TaskRow] /\ key' \in [Keyed -> 0..MaxTasks]
    /\ dead' \subseteq TaskId /\ lost' \subseteq TaskId /\ queue' \subseteq Message
    /\ lost \subseteq lost'
    /\ \A i \in TaskId : Waiting(i)' => Waiting(i) \/ Passed(p, r, i)
    /\ \A m \in queue : m \in queue' \/ Passed(p, r, m.id)
    /\ p \in Workers => \A i \in TaskId : Holds(run[p], i) => Passed(p, r, i)
    /\ \A i \in TaskId : Sends(run[p], i) => Passed(p, r, i)

LEMMA RowsPass ==
    ASSUME ChainInv, NEW p \in Procs, NEW r, RowStep(p, r), Sound PROVE ChainInv'
<1>1. Typed'
  BY TypedKept DEF ChainInv, RowStep, Sound
<1>2. RowsInv'
  BY RowsKept DEF ChainInv, RowStep
<1> QED
  BY <1>1, <1>2, ResultsKept DEF ChainInv, RowStep, Sound

\* The row of one task changes.
LEMMA SetRowIs ==
    ASSUME TypeOK, NEW i \in TaskId, NEW s \in Status, SetRow(i, s)
    PROVE  /\ task' \in [TaskId -> TaskRow] /\ task'[i].status = s
           /\ \A j \in TaskId \ {i} : task'[j] = task[j]
<1>1. PICK t : t = [task[i] EXCEPT !.status = s]
  OBVIOUS
<1>2. t \in TaskRow /\ t.status = s
  BY <1>1 DEF TypeOK, TaskRow
<1>3. task' = [task EXCEPT ![i] = t]
  BY <1>1 DEF SetRow
<1> QED
  BY <1>2, <1>3 DEF TypeOK

LEMMA Statuses == /\ {"QUEUED", "RUNNING", "RETRY", "SUCCESS", "FAILURE", "DEAD", "NONE"} \subseteq Status
                  /\ Live = {"QUEUED", "RUNNING"}
BY DEF Status, Live

LEMMA WorkersAre == ASSUME ChainInv, NEW w \in Workers
                    PROVE  /\ w \in Procs /\ Typed /\ TypeOK /\ CallInv(run[w])
                           /\ cand \in CandRow /\ env \in Surroundings /\ events \in [EventKinds -> Nat]
                           /\ key \in [Keyed -> 0..MaxTasks] /\ dead \subseteq TaskId /\ lost \subseteq TaskId
                           /\ queue \subseteq Message /\ task \in [TaskId -> TaskRow] /\ CallInv(Idle)
BY IdleIs DEF Procs, ChainInv, Typed, TypeOK, CallInv, CandRow

LEMMA StartStep == ASSUME ChainInv, NEW w \in Workers, Start(w) PROVE ChainInv'
<1>t. w \in Procs /\ TypeOK /\ CallInv(Idle)
  BY WorkersAre
<1>1. run[w].pc = "idle" /\ UNCHANGED <<cand, env, key, dead, lost, events>>
  BY DEF Start
<1>2. PICK m \in queue :
        /\ queue' = queue \ {m}
        /\ IF task[m.id].status = "SUCCESS" THEN UNCHANGED <<task, run>>
           ELSE /\ task' = [task EXCEPT ![m.id] = [kind |-> m.kind, status |-> "RUNNING"]]
                /\ run' = [run EXCEPT ![w] = [Idle EXCEPT !.pc = "run", !.msg = m]]
  BY DEF Start
<1>3. m \in Message /\ m.id \in TaskId /\ m.kind \in Kind /\ queue' \subseteq Message
  BY <1>2, WorkersAre DEF Message
<1>4. Sound
  BY <1>1, WorkersAre, SameIsSound
<1>5. \A i \in TaskId : ~Holds(run[w], i) /\ ~Sends(run[w], i)
  BY <1>1 DEF Holds, Sends
<1>6. CASE task[m.id].status = "SUCCESS"
  <2>1. UNCHANGED <<task, run>>
    BY <1>2, <1>6
  <2>2. PICK r : r = run[w]
    OBVIOUS
  <2>3. Becomes(w, r) /\ CallInv(r)
    BY <2>1, <2>2, WorkersAre, RecordOf DEF Becomes, TypeOK
  <2>4. Passed(w, r, m.id)
    BY <1>6, <2>1, Statuses DEF Passed
  <2>5. RowStep(w, r)
    BY <1>1, <1>2, <1>3, <1>5, <2>1, <2>3, <2>4, WorkersAre DEF RowStep, Waiting
  <2> QED
    BY <1>4, <1>t, <2>5, RowsPass
<1>7. CASE task[m.id].status # "SUCCESS"
  <2>1. /\ task' = [task EXCEPT ![m.id] = [kind |-> m.kind, status |-> "RUNNING"]]
        /\ run' = [run EXCEPT ![w] = [Idle EXCEPT !.pc = "run", !.msg = m]]
    BY <1>2, <1>7
  <2>2. PICK r : r = [Idle EXCEPT !.pc = "run", !.msg = m]
    OBVIOUS
  <2>3. r \in Control /\ r.pc = "run" /\ r.msg = m /\ r.want = Idle.want /\ r.new = Idle.new /\ r.attempt = Idle.attempt
    BY <1>3, <2>2, IdleIs DEF Control
  <2>4. Fit(r)
    BY <2>3, IdleIs DEF Fit
  <2>5. Becomes(w, r)
    BY <1>t, <2>1, <2>2, <2>3, <2>4, RunBecomes
  <2>6. CallInv(r)
    BY <1>t, <2>3 DEF CallInv
  <2>7. Passed(w, r, m.id)
    BY <2>3 DEF Passed, Holds
  <2>8. task' \in [TaskId -> TaskRow] /\ \A i \in TaskId \ {m.id} : task'[i] = task[i]
    BY <1>3, <1>t, <2>1, Statuses DEF TypeOK, TaskRow
  <2>9. RowStep(w, r)
    BY <1>1, <1>2, <1>3, <1>5, <2>5, <2>6, <2>7, <2>8, WorkersAre DEF RowStep, Waiting
  <2> QED
    BY <1>4, <1>t, <2>9, RowsPass
<1> QED
  BY <1>6, <1>7

LEMMA MarkStep == ASSUME ChainInv, NEW w \in Workers, Mark(w) PROVE ChainInv'
<1>t. w \in Procs /\ Typed /\ TypeOK /\ CallInv(Idle) /\ CallInv(run[w])
  BY WorkersAre
<1>r. run[w] \in Control /\ Fit(run[w]) /\ Job(w) = run[w].msg /\ Job(w).id \in TaskId
  BY <1>t, RecordOf
<1>1. run[w].pc = "mark" /\ UNCHANGED <<cand, env, key, dead, lost, queue, events>>
  BY DEF Mark
<1>2. /\ task' \in [TaskId -> TaskRow] /\ task'[Job(w).id].status \in {"NONE", "SUCCESS"}
      /\ \A j \in TaskId \ {Job(w).id} : task'[j] = task[j]
  <2>1. CASE Row(w) = "NONE"
    BY <1>r, <1>t, <2>1 DEF Mark, Row, TypeOK
  <2>2. CASE Row(w) # "NONE"
    BY <1>r, <1>t, <2>2, SetRowIs, Statuses DEF Mark
  <2> QED
    BY <2>1, <2>2
<1>3. \E r : Becomes(w, r) /\ CallInv(r)
  <2>1. CASE Go(w, "check") /\ run[w].want # "none"
    <3>1. PICK r : Becomes(w, r) /\ r.pc = "check" /\ r.msg = run[w].msg /\ r.attempt = run[w].attempt
      BY <1>t, <2>1, EnqueueGoIs
    <3> QED
      BY <1>t, <3>1 DEF CallInv
  <2>2. CASE run' = [run EXCEPT ![w] = Idle]
    BY <1>t, <2>2, IdleIs, RunBecomes
  <2> QED
    BY <2>1, <2>2 DEF Mark
<1>4. PICK r : Becomes(w, r) /\ CallInv(r)
  BY <1>3
<1>5. Passed(w, r, Job(w).id)
  BY <1>2, Statuses DEF Passed
<1>6. \A i \in TaskId : (Holds(run[w], i) => i = Job(w).id) /\ ~Sends(run[w], i)
  BY <1>1, <1>r DEF Holds, Sends
<1>7. RowStep(w, r)
  BY <1>1, <1>2, <1>4, <1>5, <1>6, WorkersAre DEF RowStep, Waiting
<1> QED
  BY <1>1, <1>7, <1>t, RowsPass, SameIsSound

\* The worker rests; its message waits in the broker, or its row does not wait any more.
LEMMA Rests ==
    ASSUME ChainInv, NEW w \in Workers, run[w].pc \notin {"idle", "send"}, run' = [run EXCEPT ![w] = Idle],
           task' \in [TaskId -> TaskRow], \A j \in TaskId \ {Job(w).id} : task'[j] = task[j],
           UNCHANGED <<key, lost>>, dead' \subseteq TaskId, queue \subseteq queue', queue' \subseteq Message,
           \/ task'[Job(w).id].status \notin Live \cup {"RETRY"}
           \/ \E m \in queue' : m.id = Job(w).id,
           Sound
    PROVE  ChainInv'
<1>t. w \in Procs /\ Typed /\ TypeOK /\ CallInv(Idle) /\ Job(w) = run[w].msg
  BY WorkersAre DEF Job
<1>1. PICK r : r = Idle
  OBVIOUS
<1>2. Becomes(w, r) /\ CallInv(r)
  BY <1>1, <1>t, IdleIs, RunBecomes
<1>j. PICK j \in TaskId : j = Job(w).id
  BY <1>t, RecordOf
<1>3. Passed(w, r, j)
  BY <1>j DEF Passed, InBroker
<1>4. \A i \in TaskId : (Holds(run[w], i) => i = j) /\ ~Sends(run[w], i)
  BY <1>t, <1>j DEF Holds, Sends
<1>5. RowStep(w, r)
  BY <1>2, <1>3, <1>4, <1>j, <1>t, WorkersAre DEF RowStep, Waiting
<1> QED
  BY <1>5, <1>t, RowsPass

LEMMA AgainIs ==
    ASSUME Typed, NEW w \in Procs, Again(w), Job(w).try < MaxAttempts \/ Job(w).try <= MaxJdWaits
    PROVE  queue \subseteq queue' /\ queue' \subseteq Message /\ \E m \in queue' : m.id = Job(w).id
<1>1. Job(w) \in Message
  BY RecordOf
<1>2. PICK t \in 1..MaxTry : t = Job(w).try + 1
  BY <1>1, Tries DEF Message
<1>3. PICK m : m = [Job(w) EXCEPT !.try = t]
  OBVIOUS
<1>4. m \in Message /\ m.id = Job(w).id
  BY <1>1, <1>3 DEF Message
<1>5. queue' = queue \cup {m}
  BY <1>2, <1>3 DEF Again
<1> QED
  BY <1>4, <1>5 DEF Typed, TypeOK

LEMMA FailStep == ASSUME ChainInv, NEW w \in Workers, Fail(w) PROVE ChainInv'
<1>t. w \in Procs /\ Typed /\ TypeOK /\ Job(w).id \in TaskId
  BY WorkersAre, RecordOf
<1>1. /\ run[w].pc \notin {"idle", "send"} /\ Spend("fail") /\ run' = [run EXCEPT ![w] = Idle]
      /\ UNCHANGED <<env, key, lost>>
  BY DEF Fail
<1>2. events' \in [EventKinds -> Nat]
  BY <1>1, <1>t, Spends, Events
<1>3. ASSUME UNCHANGED cand PROVE Sound
  BY <1>1, <1>2, <1>3, WorkersAre DEF Sound, SameResults
<1>4. CASE /\ Job(w).try < MaxAttempts /\ SetRow(Job(w).id, "RETRY") /\ Again(w)
           /\ UNCHANGED <<dead, cand>>
  BY <1>1, <1>3, <1>4, <1>t, AgainIs, SetRowIs, Statuses, Rests, WorkersAre
<1>5. CASE /\ SetRow(Job(w).id, "DEAD") /\ dead' = dead \cup {Job(w).id} /\ UNCHANGED queue
           /\ cand' = IF Job(w).kind = "EMBED" THEN [cand EXCEPT !.review = "MANUAL_REVIEW"] ELSE cand
  <2>1. Sound
    BY <1>1, <1>2, <1>5, WorkersAre DEF Sound, SameResults, CandRow
  <2>2. dead' \subseteq TaskId
    BY <1>5, <1>t DEF TypeOK
  <2> QED
    BY <1>1, <1>5, <1>t, <2>1, <2>2, SetRowIs, Statuses, Rests, WorkersAre
<1>6. CASE SetRow(Job(w).id, "FAILURE") /\ UNCHANGED <<dead, cand, queue>>
  BY <1>1, <1>3, <1>6, <1>t, SetRowIs, Statuses, Rests, WorkersAre
<1>7. CASE Row(w) = "NONE" /\ UNCHANGED <<task, dead, cand, queue>>
  BY <1>1, <1>3, <1>7, <1>t, Statuses, Rests, WorkersAre DEF Row
<1> QED
  BY <1>4, <1>5, <1>6, <1>7 DEF Fail

LEMMA CrashStep == ASSUME ChainInv, NEW w \in Workers, Crash(w) PROVE ChainInv'
<1>t. w \in Procs /\ Typed /\ TypeOK /\ Job(w) \in Message
  BY WorkersAre, RecordOf
<1>1. /\ run[w].pc \notin {"idle", "send"} /\ Spend("crash") /\ run' = [run EXCEPT ![w] = Idle]
      /\ queue' = queue \cup {Job(w)} /\ UNCHANGED <<cand, env, task, key, dead, lost>>
  BY DEF Crash
<1>2. Sound
  BY <1>1, <1>t, Spends, Events, WorkersAre DEF Sound, SameResults
<1>3. queue \subseteq queue' /\ queue' \subseteq Message /\ \E m \in queue' : m.id = Job(w).id
  BY <1>1, <1>t DEF TypeOK
<1> QED
  BY <1>1, <1>2, <1>3, Rests, WorkersAre

LEMMA RedeliverStep == ASSUME ChainInv, NEW w \in Workers, Redeliver(w) PROVE ChainInv'
<1>t. w \in Procs /\ Typed /\ TypeOK /\ Job(w) \in Message
  BY WorkersAre, RecordOf
<1>1. /\ run[w].pc \notin {"idle", "send"} /\ Spend("slow")
      /\ queue' = queue \cup {Job(w)} /\ UNCHANGED <<cand, env, task, key, dead, lost, run>>
  BY DEF Redeliver
<1>2. Sound
  BY <1>1, <1>t, Spends, Events, WorkersAre DEF Sound, SameResults
<1>3. PICK r : r = run[w]
  OBVIOUS
<1>4. Becomes(w, r) /\ CallInv(r)
  BY <1>1, <1>3, <1>t, WorkersAre, RecordOf DEF Becomes, TypeOK
<1>5. queue' \subseteq Message
  BY <1>1, <1>t DEF TypeOK
<1>6. RowStep(w, r)
  BY <1>1, <1>3, <1>4, <1>5, WorkersAre DEF RowStep, Waiting, Passed, Sends
<1> QED
  BY <1>2, <1>6, <1>t, RowsPass

LEMMA WaitForJdStep == ASSUME ChainInv, NEW w \in Workers, WaitForJd(w) PROVE ChainInv'
<1>t. w \in Procs /\ Typed /\ TypeOK /\ Job(w).id \in TaskId
  BY WorkersAre, RecordOf
<1>1. /\ run[w].pc = "run" /\ Job(w).try <= MaxJdWaits /\ SetRow(Job(w).id, "RETRY") /\ Again(w)
      /\ run' = [run EXCEPT ![w] = Idle] /\ UNCHANGED <<cand, env, key, dead, lost, events>>
  BY DEF WaitForJd, At
<1> QED
  BY <1>1, <1>t, AgainIs, SetRowIs, Statuses, Rests, SameIsSound, WorkersAre

\* A new row belongs to the process that is about to publish its message.
LEMMA Queues ==
    ASSUME ChainInv, NEW p \in Procs, run[p].pc \in {"create", "reset"}, Fresh # {},
           run' = [run EXCEPT ![p] = [@ EXCEPT !.pc = "send", !.new = NewId]],
           task' \in [TaskId -> TaskRow], \A i \in TaskId \ {NewId} : Waiting(i)' => Waiting(i),
           key' \in [Keyed -> 0..MaxTasks], UNCHANGED <<cand, env, dead, lost, queue, events>>
    PROVE  ChainInv'
<1>t. Typed /\ TypeOK /\ run[p] \in Control /\ Fit(run[p]) /\ CallInv(run[p])
  BY RecordOf DEF ChainInv, Typed
<1>1. PICK n \in TaskId : n = NewId
  BY NewIdIsFresh
<1>2. PICK r : r = [run[p] EXCEPT !.pc = "send", !.new = n]
  OBVIOUS
<1>3. n \in 0..MaxTasks /\ n # 0
  BY BoundsAssumption DEF TaskId
<1>4. /\ r \in Control /\ r.pc = "send" /\ r.new = n /\ r.want = run[p].want
      /\ r.msg = run[p].msg /\ r.attempt = run[p].attempt
  BY <1>2, <1>3, <1>t DEF Control
<1>5. Fit(r)
  BY <1>3, <1>4, <1>t DEF Fit
<1>6. Becomes(p, r)
  BY <1>1, <1>2, <1>4, <1>5, <1>t, RunBecomes
<1>7. CallInv(r)
  BY <1>4, <1>t DEF CallInv
<1>8. \A i \in TaskId : (Holds(run[p], i) => Holds(r, i)) /\ ~Sends(run[p], i)
  BY <1>4 DEF Holds, Sends
<1>9. \A i \in TaskId : Waiting(i)' => Waiting(i) \/ Passed(p, r, i)
  <2>1. Passed(p, r, n)
    BY <1>4 DEF Passed, Sends
  <2> QED
    BY <1>1, <2>1
<1>10. \A i \in TaskId : p \in Workers /\ Holds(run[p], i) => Passed(p, r, i)
  BY <1>8 DEF Passed
<1>11. RowStep(p, r)
  BY <1>6, <1>7, <1>8, <1>9, <1>10, <1>t DEF RowStep, TypeOK
<1> QED
  BY <1>11, <1>t, RowsPass, SameIsSound

LEMMA CreateStep == ASSUME ChainInv, NEW p \in Procs, Create(p) PROVE ChainInv'
<1>t. Typed /\ TypeOK /\ run[p] \in Control /\ Fit(run[p])
  BY RecordOf DEF ChainInv, Typed
<1>1. run[p].pc = "create" /\ UNCHANGED <<cand, env, dead, lost, queue, events>> /\ run[p].want \in Kind
  BY <1>t DEF Create, Fit, Control
<1>2. CASE run[p].want \in Keyed /\ key[run[p].want] # 0
  <2>1. Go(p, "check") /\ Still
    BY <1>1, <1>2 DEF Create, Still
  <2> QED
    BY <1>1, <1>t, <2>1, QuietEnqueued, SameIsSound, Kinds
<1>3. CASE ~(run[p].want \in Keyed /\ key[run[p].want] # 0)
  <2>1. /\ Fresh # {}
        /\ task' = [task EXCEPT ![NewId] = [kind |-> run[p].want, status |-> "QUEUED"]]
        /\ key' = IF run[p].want \in Keyed THEN [key EXCEPT ![run[p].want] = NewId] ELSE key
        /\ run' = [run EXCEPT ![p] = [@ EXCEPT !.pc = "send", !.new = NewId]]
    BY <1>3 DEF Create
  <2>2. PICK n \in TaskId : n = NewId
    BY <2>1, NewIdIsFresh
  <2>3. task' \in [TaskId -> TaskRow] /\ \A i \in TaskId \ {n} : task'[i] = task[i]
    BY <1>1, <1>t, <2>1, <2>2, Statuses DEF TypeOK, TaskRow
  <2>4. key' \in [Keyed -> 0..MaxTasks]
    <3>1. n \in 0..MaxTasks
      BY BoundsAssumption DEF TaskId
    <3> QED
      BY <1>t, <2>1, <2>2, <3>1 DEF TypeOK
  <2> QED
    BY <1>1, <2>1, <2>2, <2>3, <2>4, Queues DEF Waiting
<1> QED
  BY <1>2, <1>3

LEMMA ResetStep == ASSUME ChainInv, NEW p \in Procs, Reset(p) PROVE ChainInv'
<1>t. Typed /\ TypeOK /\ run[p] \in Control /\ Fit(run[p])
  BY RecordOf DEF ChainInv, Typed
<1>1. run[p].pc = "reset" /\ UNCHANGED <<cand, env, dead, lost, queue, events>> /\ Fresh # {}
  BY DEF Reset
<1>2. CASE key["SEM"] = 0
  <2>1. Enqueued(p) /\ Still
    BY <1>1, <1>2 DEF Reset, Still
  <2> QED
    BY <1>1, <1>t, <2>1, QuietEnqueued, SameIsSound
<1>3. CASE key["SEM"] # 0
  <2>1. /\ task' = [task EXCEPT ![key["SEM"]].status = "NONE",
                                ![NewId] = [kind |-> "SEM", status |-> "QUEUED"]]
        /\ key' = [key EXCEPT !["SEM"] = NewId]
        /\ run' = [run EXCEPT ![p] = [@ EXCEPT !.pc = "send", !.new = NewId]]
    BY <1>3 DEF Reset
  <2>2. PICK n \in TaskId : n = NewId
    BY <1>1, NewIdIsFresh
  <2>3. PICK o \in TaskId : o = key["SEM"]
    BY <1>3, <1>t, BoundsAssumption DEF TypeOK, Keyed, TaskId
  <2>4. PICK t \in TaskRow : t = [task[o] EXCEPT !.status = "NONE"]
    BY <1>t, Statuses DEF TypeOK, TaskRow
  <2>5. PICK u \in TaskRow : u = [kind |-> "SEM", status |-> "QUEUED"]
    BY Kinds, Statuses DEF TaskRow
  <2>6. task' = [task EXCEPT ![o] = t, ![n] = u]
    BY <2>1, <2>2, <2>3, <2>4, <2>5
  <2>7. t.status = "NONE"
    BY <1>t, <2>4 DEF TypeOK, TaskRow
  <2>8. task' \in [TaskId -> TaskRow] /\ \A i \in TaskId \ {n} : task'[i] \in {t, task[i]}
    BY <1>t, <2>6 DEF TypeOK
  <2>9. key' \in [Keyed -> 0..MaxTasks]
    <3>1. n \in 0..MaxTasks
      BY BoundsAssumption DEF TaskId
    <3> QED
      BY <1>t, <2>1, <2>2, <3>1 DEF TypeOK
  <2>10. \A i \in TaskId \ {n} : Waiting(i)' => Waiting(i)
    BY <2>7, <2>8, Statuses DEF Waiting
  <2> QED
    BY <1>1, <2>1, <2>2, <2>8, <2>9, <2>10, Queues
<1> QED
  BY <1>2, <1>3

LEMMA SendStep == ASSUME ChainInv, NEW p \in Procs, Send(p) PROVE ChainInv'
<1>t. Typed /\ TypeOK /\ run[p] \in Control /\ Fit(run[p]) /\ CallInv(run[p])
  BY RecordOf DEF ChainInv, Typed
<1>1. run[p].pc = "send" /\ Enqueued(p) /\ UNCHANGED <<cand, env, task, key, dead>>
  BY DEF Send
<1>2. PICK n \in TaskId : n = run[p].new
  BY <1>1, <1>t, BoundsAssumption DEF Fit, TaskId
<1>3. run[p].want \in Kind
  BY <1>1, <1>t DEF Fit, Control
<1>4. PICK m \in Message : m = First(n, run[p].want) /\ m.id = n
  BY <1>3, Firsts
<1>5. PICK r : /\ Becomes(p, r) /\ r.pc \in {"idle", "mark"} /\ r.attempt \in {0, run[p].attempt}
               /\ p \in Workers => \A i : Holds(run[p], i) => Holds(r, i)
  BY <1>1, <1>t, EnqueuedIs
<1>6. CallInv(r)
  BY <1>5, <1>t, RecordOf DEF CallInv
<1>7. /\ queue \subseteq queue' /\ queue' \subseteq Message /\ lost \subseteq lost' /\ lost' \subseteq TaskId
      /\ m \in queue' \/ n \in lost'
      /\ events' \in [EventKinds -> Nat]
  <2>1. CASE queue' = queue \cup {First(run[p].new, run[p].want)} /\ UNCHANGED <<lost, events>>
    BY <1>2, <1>4, <1>t, <2>1 DEF TypeOK
  <2>2. CASE Spend("lost") /\ lost' = lost \cup {run[p].new} /\ UNCHANGED queue
    BY <1>2, <1>t, <2>2, Spends, Events DEF TypeOK
  <2> QED
    BY <2>1, <2>2 DEF Send
<1>8. Passed(p, r, n)
  BY <1>4, <1>7 DEF Passed, InBroker
<1>9. \A i \in TaskId : Sends(run[p], i) => i = n
  BY <1>2 DEF Sends
<1>10. \A i \in TaskId : p \in Workers /\ Holds(run[p], i) => Passed(p, r, i)
  BY <1>5 DEF Passed
<1>11. RowStep(p, r)
  BY <1>1, <1>5, <1>6, <1>7, <1>8, <1>9, <1>10, <1>t DEF RowStep, TypeOK, Waiting
<1>12. Sound
  BY <1>1, <1>7, <1>t DEF Sound, SameResults, TypeOK
<1> QED
  BY <1>11, <1>12, RowsPass

-----------------------------------------------------------------------------
(* The layers that set a verdict.                                           *)

LEMMA Cancels ==
    ASSUME TypeOK, CancelAI \/ UNCHANGED task
    PROVE  task' \in [TaskId -> TaskRow] /\ \A i \in TaskId : Waiting(i)' => Waiting(i)
<1>1. CASE CancelAI
  <2> SUFFICES ASSUME NEW i \in TaskId PROVE task'[i] \in TaskRow /\ (Waiting(i)' => Waiting(i))
    BY <1>1 DEF CancelAI
  <2>1. task[i] \in TaskRow
    BY DEF TypeOK
  <2>2. CASE task[i] = [kind |-> "AI", status |-> "QUEUED"]
    <3>1. task'[i] = [task[i] EXCEPT !.status = "DEAD"]
      BY <1>1, <2>2 DEF CancelAI
    <3>2. task'[i] \in TaskRow /\ task'[i].status = "DEAD"
      BY <2>1, <3>1, Statuses DEF TaskRow
    <3> QED
      BY <3>2, Statuses DEF Waiting
  <2>3. CASE task[i] # [kind |-> "AI", status |-> "QUEUED"]
    <3>1. task'[i] = task[i]
      BY <1>1, <2>3 DEF CancelAI
    <3> QED
      BY <2>1, <3>1 DEF Waiting
  <2> QED
    BY <2>2, <2>3
<1>2. CASE UNCHANGED task
  BY <1>2 DEF TypeOK, Waiting
<1> QED
  BY <1>1, <1>2

LEMMA ScoreStep ==
    ASSUME ChainInv, NEW w \in Workers, run[w].pc = "run",
           NEW kind \in Kind \cup {"none"}, Follow(w, kind), CancelAI \/ UNCHANGED task,
           UNCHANGED <<env, key, dead, lost, queue, events>>,
           cand' \in CandRow, cand'.attempt = cand.attempt, cand'.resume = cand.resume,
           ResultsInv', cand.breakdown = "pass" /\ cand.resume = 1 => cand'.breakdown = "pass"
    PROVE  ChainInv'
<1>t. w \in Procs /\ Typed /\ TypeOK /\ CallInv(run[w])
  BY WorkersAre
<1>1. PICK r : /\ Becomes(w, r) /\ r.pc \in {"check", "mark"} /\ r.attempt = run[w].attempt
               /\ \A i : Holds(run[w], i) => Holds(r, i)
  BY <1>t, FollowIs
<1>2. task' \in [TaskId -> TaskRow] /\ \A i \in TaskId : Waiting(i)' => Waiting(i)
  BY <1>t, Cancels
<1>3. Typed'
  BY <1>1, <1>2, <1>t, TypedKept, WorkersAre
<1>4. RowsInv'
  <2>1. \A i \in TaskId : (w \in Workers /\ Holds(run[w], i)) \/ Sends(run[w], i) => Passed(w, r, i)
    BY <1>1 DEF Passed, Sends
  <2> QED
    BY <1>1, <1>2, <1>t, <2>1, RowsKept DEF ChainInv
<1>5. CallInv(r)'
  BY <1>1, <1>t DEF CallInv
<1>6. \A q \in Procs : CallInv(run[q])'
  BY <1>1, <1>5, <1>t, CallsKept DEF ChainInv
<1> QED
  BY <1>3, <1>4, <1>6 DEF ChainInv

\* What a rejection leaves of the row.
LEMMA RejectedIs ==
    ASSUME NEW c \in CandRow
    PROVE  /\ Rejected(c) \in CandRow
           /\ Rejected(c).det = c.det /\ Rejected(c).breakdown = c.breakdown
           /\ Rejected(c).attempt = c.attempt /\ Rejected(c).resume = c.resume
<1>1. PICK s \in Stage : s = IF c.stage \in Rejectable THEN "REJECTED" ELSE c.stage
  BY DEF CandRow, Stage
<1>2. Rejected(c) = [c EXCEPT !.stage = s, !.review = "SKIPPED"]
  BY <1>1 DEF Rejected
<1> QED
  BY <1>2 DEF CandRow

LEMMA ScoreDeterministicStep == ASSUME ChainInv, NEW w \in Workers, ScoreDeterministic(w) PROVE ChainInv'
<1>t. cand \in CandRow /\ env \in Surroundings /\ ResultsInv
  BY WorkersAre DEF ChainInv
<1>1. PICK s \in Stage : s = IF cand.stage = "UPLOADED" THEN "SCREENING" ELSE cand.stage
  BY <1>t DEF CandRow, Stage
<1>2. PICK seen : seen = [cand EXCEPT !.det = env.det, !.stage = s]
  OBVIOUS
<1>3. /\ seen \in CandRow /\ seen.det = env.det /\ seen.breakdown = cand.breakdown
      /\ seen.attempt = cand.attempt /\ seen.resume = cand.resume
  BY <1>2, <1>t DEF CandRow, Surroundings, Result
<1>4. seen = [cand EXCEPT !.det = env.det, !.stage = IF @ = "UPLOADED" THEN "SCREENING" ELSE @]
  BY <1>1, <1>2
<1>5. run[w].pc = "run" /\ UNCHANGED <<env, key, dead, lost, queue, events>>
  BY DEF ScoreDeterministic, At
<1>6. PICK kind \in Kind \cup {"none"} :
        Follow(w, kind) /\ (CancelAI \/ UNCHANGED task) /\ cand' \in {seen, Rejected(seen)}
  BY <1>4, Kinds DEF ScoreDeterministic
<1>7. /\ cand' \in CandRow /\ cand'.det = env.det /\ cand'.breakdown = cand.breakdown
      /\ cand'.attempt = cand.attempt /\ cand'.resume = cand.resume
  BY <1>3, <1>6, RejectedIs
<1>8. ResultsInv'
  BY <1>5, <1>7, <1>t DEF ResultsInv
<1> QED
  BY <1>5, <1>6, <1>7, <1>8, ScoreStep

LEMMA ScoreSemanticStep == ASSUME ChainInv, NEW w \in Workers, ScoreSemantic(w) PROVE ChainInv'
<1>t. cand \in CandRow /\ env \in Surroundings /\ ResultsInv
  BY WorkersAre DEF ChainInv
<1>2. PICK seen : seen = [cand EXCEPT !.sem = TRUE, !.breakdown = env.sem]
  OBVIOUS
<1>3. /\ seen \in CandRow /\ seen.det = cand.det /\ seen.breakdown = env.sem
      /\ seen.attempt = cand.attempt /\ seen.resume = cand.resume
  BY <1>2, <1>t DEF CandRow, Surroundings, Result
<1>5. /\ run[w].pc = "run" /\ cand.det = "pass" /\ UNCHANGED <<env, key, dead, lost, queue, events>>
  BY DEF ScoreSemantic, At
<1>6. PICK kind \in Kind \cup {"none"} :
        Follow(w, kind) /\ (CancelAI \/ UNCHANGED task) /\ cand' \in {seen, Rejected(seen)}
  BY <1>2, Kinds DEF ScoreSemantic
<1>7. /\ cand' \in CandRow /\ cand'.det = cand.det /\ cand'.breakdown = env.sem
      /\ cand'.attempt = cand.attempt /\ cand'.resume = cand.resume
  BY <1>3, <1>6, RejectedIs
<1>8. ResultsInv' /\ (cand.breakdown = "pass" /\ cand.resume = 1 => cand'.breakdown = "pass")
  BY <1>5, <1>7, <1>t DEF ResultsInv
<1> QED
  BY <1>5, <1>6, <1>7, <1>8, ScoreStep

-----------------------------------------------------------------------------
(* The requests that start the chain again, for the next attempt.           *)

LEMMA RestartStep ==
    ASSUME ChainInv, UNCHANGED <<run, dead>>, cand' \in CandRow, cand'.attempt = cand.attempt + 1, ResultsInv',
           env' \in Surroundings, task' \in [TaskId -> TaskRow], key' \in [Keyed -> 0..MaxTasks],
           \A i \in TaskId : Waiting(i)' => Waiting(i) \/ \E m \in queue' : m.id = i,
           queue \subseteq queue', queue' \subseteq Message, lost \subseteq lost', lost' \subseteq TaskId,
           events' \in [EventKinds -> Nat]
    PROVE  ChainInv'
<1>1. Typed'
  BY DEF ChainInv, Typed, TypeOK
<1>2. RowsInv'
  <2> SUFFICES ASSUME NEW i \in TaskId, Waiting(i)' PROVE Carried(i)' \/ i \in lost'
    BY DEF RowsInv
  <2>1. CASE \E m \in queue' : m.id = i
    BY <2>1 DEF Carried, InBroker
  <2>2. CASE Waiting(i)
    <3>1. Carried(i) \/ i \in lost
      BY <2>2 DEF ChainInv, RowsInv
    <3>2. InBroker(i) => InBroker(i)'
      BY DEF InBroker
    <3> QED
      BY <3>1, <3>2 DEF Carried
  <2> QED
    BY <2>1, <2>2
<1>3. \A p \in Procs : CallInv(run[p])'
  <2> SUFFICES ASSUME NEW p \in Procs PROVE CallInv(run[p])'
    OBVIOUS
  <2>1. run[p].attempt <= cand.attempt /\ run[p].attempt \in Nat /\ cand.attempt \in Nat
    BY RecordOf DEF ChainInv, CallInv
  <2>2. run'[p] = run[p] /\ run[p].attempt < cand'.attempt
    BY <2>1
  <2> QED
    BY <2>1, <2>2 DEF CallInv
<1> QED
  BY <1>1, <1>2, <1>3 DEF ChainInv

LEMMA RescoreStep == ASSUME ChainInv, NEW c \in Clerks, Rescore(c) PROVE ChainInv'
<1>t. TypeOK /\ cand \in CandRow /\ ResultsInv
  BY DEF ChainInv, Typed, TypeOK
<1>1. /\ Fresh # {} /\ Spend("rescore") /\ Dispatch(NewId) /\ UNCHANGED <<env, dead, run>>
      /\ cand' = [cand EXCEPT !.stage = "SCREENING", !.det = "none", !.sem = FALSE, !.breakdown = "none",
                              !.ai = "none", !.review = "PENDING", !.comp = NoInputs, !.attempt = @ + 1]
      /\ task' = [i \in TaskId |-> IF Stale(i) THEN [task[i] EXCEPT !.status = "NONE"] ELSE task[i]]
      /\ key' = IF key["SEM"] # 0 /\ Stale(key["SEM"]) THEN [key EXCEPT !["SEM"] = 0] ELSE key
  BY DEF Rescore
<1>2. PICK n \in TaskId : n = NewId
  BY <1>1, NewIdIsFresh
<1>3. PICK a \in Nat : a = cand.attempt + 1
  BY <1>t DEF CandRow
<1>4. NoInputs \in Inputs
  BY DEF NoInputs, Inputs
<1>5. cand' \in CandRow /\ cand'.attempt = cand.attempt + 1 /\ cand'.resume = cand.resume
      /\ cand'.det = "none" /\ cand'.breakdown = "none"
  <2>1. cand' = [cand EXCEPT !.stage = "SCREENING", !.det = "none", !.sem = FALSE, !.breakdown = "none",
                             !.ai = "none", !.review = "PENDING", !.comp = NoInputs, !.attempt = a]
    BY <1>1, <1>3
  <2> QED
    BY <1>3, <1>4, <1>t, <2>1 DEF CandRow, Stage, Result
<1>6. ResultsInv'
  BY <1>5, <1>t DEF ResultsInv
<1>7. task' \in [TaskId -> TaskRow] /\ \A i \in TaskId : Waiting(i)' => Waiting(i)
  <2> SUFFICES ASSUME NEW i \in TaskId PROVE task'[i] \in TaskRow /\ (Waiting(i)' => Waiting(i))
    BY <1>1
  <2>1. task[i] \in TaskRow
    BY <1>t DEF TypeOK
  <2>2. CASE Stale(i)
    <3>1. task'[i] = [task[i] EXCEPT !.status = "NONE"]
      BY <1>1, <2>2
    <3>2. task'[i] \in TaskRow /\ task'[i].status = "NONE"
      BY <2>1, <3>1, Statuses DEF TaskRow
    <3> QED
      BY <3>2, Statuses DEF Waiting
  <2>3. CASE ~Stale(i)
    <3>1. task'[i] = task[i]
      BY <1>1, <2>3
    <3> QED
      BY <2>1, <3>1 DEF Waiting
  <2> QED
    BY <2>2, <2>3
<1>8. key' \in [Keyed -> 0..MaxTasks]
  <2>1. 0 \in 0..MaxTasks
    BY BoundsAssumption
  <2> QED
    BY <1>1, <1>t, <2>1 DEF TypeOK
<1>9. queue \subseteq queue' /\ queue' \subseteq Message /\ lost \subseteq lost' /\ lost' \subseteq TaskId
  <2>1. First(n, "DET") \in Message
    BY Firsts, Kinds
  <2> QED
    BY <1>1, <1>2, <1>t, <2>1 DEF Dispatch, TypeOK
<1>10. events' \in [EventKinds -> Nat]
  BY <1>1, <1>t, Spends, Events
<1>11. env' \in Surroundings
  BY <1>1, <1>t DEF TypeOK
<1> QED
  BY <1>1, <1>5, <1>6, <1>7, <1>8, <1>9, <1>10, <1>11, RestartStep

LEMMA ResubmitStep == ASSUME ChainInv, NEW c \in Clerks, Resubmit(c) PROVE ChainInv'
<1>t. TypeOK /\ cand \in CandRow /\ env \in Surroundings /\ ResultsInv
  BY DEF ChainInv, Typed, TypeOK
<1>1. /\ Cardinality(Fresh) >= 2 /\ Spend("resubmit") /\ UNCHANGED <<dead, lost, run>>
      /\ cand' = [cand EXCEPT !.stage = "UPLOADED", !.det = "none", !.sem = FALSE,
                              !.ai = "none", !.review = "PENDING", !.comp = NoInputs,
                              !.attempt = @ + 1, !.resume = @ + 1]
      /\ \E d, s \in {"pass", "fail"} : env' = [env EXCEPT !.resume = FALSE, !.det = d, !.sem = s]
  BY DEF Resubmit
<1>2. Fresh # {}
  BY <1>1, FS_EmptySet
<1>3. PICK n \in TaskId : n = NewId /\ n \in Fresh
  BY <1>2, NewIdIsFresh
<1>4. Fresh \ {n} # {}
  <2>1. SUFFICES ASSUME Fresh \ {n} = {} PROVE FALSE
    OBVIOUS
  <2>2. Fresh = {n}
    BY <1>3, <2>1
  <2>3. Cardinality(Fresh) = 1
    BY <2>2, FS_Singleton
  <2> QED
    BY <1>1, <2>3
<1>5. PICK e \in TaskId : e = CHOOSE i \in Fresh \ {n} : TRUE
  BY <1>4 DEF Fresh
<1>6. /\ task' = [task EXCEPT ![n] = [kind |-> "DET", status |-> "QUEUED"],
                              ![e] = [kind |-> "EMBED", status |-> "QUEUED"]]
      /\ key' = [key EXCEPT !["EMBED"] = e]
      /\ queue' = queue \cup {First(n, "DET"), First(e, "EMBED")}
  BY <1>3, <1>5 DEF Resubmit
<1>7. PICK a \in Nat, v \in Nat : a = cand.attempt + 1 /\ v = cand.resume + 1
  BY <1>t DEF CandRow
<1>8. NoInputs \in Inputs
  BY DEF NoInputs, Inputs
<1>9. cand' \in CandRow /\ cand'.attempt = cand.attempt + 1 /\ cand'.resume = cand.resume + 1
  <2>1. cand' = [cand EXCEPT !.stage = "UPLOADED", !.det = "none", !.sem = FALSE,
                             !.ai = "none", !.review = "PENDING", !.comp = NoInputs,
                             !.attempt = a, !.resume = v]
    BY <1>1, <1>7
  <2> QED
    BY <1>7, <1>8, <1>t, <2>1 DEF CandRow, Stage, Result
<1>10. ResultsInv'
  BY <1>9, <1>t DEF ResultsInv, CandRow
<1>11. PICK t \in TaskRow, u \in TaskRow : /\ t = [kind |-> "DET", status |-> "QUEUED"]
                                           /\ u = [kind |-> "EMBED", status |-> "QUEUED"]
  BY Kinds, Statuses DEF TaskRow
<1>12. task' \in [TaskId -> TaskRow] /\ \A i \in TaskId \ {n, e} : task'[i] = task[i]
  BY <1>6, <1>11, <1>t DEF TypeOK
<1>13. PICK m \in Message, l \in Message : m = First(n, "DET") /\ m.id = n /\ l = First(e, "EMBED") /\ l.id = e
  BY Firsts, Kinds
<1>14. queue \subseteq queue' /\ queue' \subseteq Message /\ m \in queue' /\ l \in queue'
  BY <1>6, <1>13, <1>t DEF TypeOK
<1>15. \A i \in TaskId : Waiting(i)' => Waiting(i) \/ \E x \in queue' : x.id = i
  BY <1>12, <1>13, <1>14 DEF Waiting
<1>16. key' \in [Keyed -> 0..MaxTasks]
  <2>1. e \in 0..MaxTasks
    BY BoundsAssumption DEF TaskId
  <2> QED
    BY <1>6, <1>t, <2>1 DEF TypeOK
<1>17. env' \in Surroundings
  BY <1>1, <1>t DEF Surroundings
<1>18. events' \in [EventKinds -> Nat] /\ lost' \subseteq TaskId
  BY <1>1, <1>t, Spends, Events DEF TypeOK
<1> QED
  BY <1>1, <1>9, <1>10, <1>12, <1>14, <1>15, <1>16, <1>17, <1>18, RestartStep

-----------------------------------------------------------------------------
(* The invariant and what follows from it.                                  *)

LEMMA ChainStarts == Init => ChainInv
<1> SUFFICES ASSUME Init PROVE ChainInv
  OBVIOUS
<1>1. 1 \in TaskId /\ 2 \in TaskId /\ 0 \in 0..MaxTasks /\ 2 \in 0..MaxTasks
  BY BoundsAssumption DEF TaskId
<1>2. PICK s \in Scenarios : /\ env = [open |-> TRUE, resume |-> FALSE, jd |-> s.jd, weights |-> 0,
                                       det |-> s.det, sem |-> s.sem]
                             /\ events = s.may
  BY DEF Init
<1>3. env \in Surroundings /\ events \in [EventKinds -> Nat]
  <2>1. /\ s.jd \in {"none", "same", "other"} /\ s.det \in {"pass", "fail"} /\ s.sem \in {"pass", "fail"}
        /\ s.may \in [EventKinds -> Nat]
    BY ScenariosAssumption
  <2> QED
    BY <1>2, <2>1 DEF Surroundings
<1>4. /\ cand \in CandRow /\ cand.attempt = 0 /\ cand.resume = 1 /\ cand.det = "none" /\ cand.breakdown = "none"
  <2>1. NoInputs \in Inputs
    BY DEF NoInputs, Inputs
  <2> QED
    BY <2>1 DEF Init, CandRow, Stage, Result
<1>5. task \in [TaskId -> TaskRow] /\ \A i \in TaskId \ {1, 2} : task[i].status = "NONE"
  <2>1. \A i \in TaskId : i <= 2 <=> i \in {1, 2}
    BY DEF TaskId
  <2> QED
    BY <2>1, Kinds, Statuses DEF Init, TaskRow
<1>6. key \in [Keyed -> 0..MaxTasks]
  BY <1>1 DEF Init
<1>7. PICK m \in Message, l \in Message : m = First(1, "DET") /\ m.id = 1 /\ l = First(2, "EMBED") /\ l.id = 2
  BY <1>1, Firsts, Kinds
<1>8. queue = {m, l} /\ dead = {} /\ lost = {} /\ run = [p \in Procs |-> Idle]
  BY <1>7 DEF Init
<1>9. Typed
  BY <1>3, <1>4, <1>5, <1>6, <1>8, IdleIs DEF Typed, TypeOK
<1>10. RowsInv
  BY <1>5, <1>7, <1>8, Statuses DEF RowsInv, Waiting, Carried, InBroker
<1>11. ResultsInv /\ \A p \in Procs : CallInv(run[p])
  BY <1>4, <1>8, IdleIs DEF ResultsInv, CallInv
<1> QED
  BY <1>9, <1>10, <1>11 DEF ChainInv

LEMMA ChainIsKept == ChainInv /\ [Next]_vars => ChainInv'
<1> SUFFICES ASSUME ChainInv, [Next]_vars PROVE ChainInv'
  OBVIOUS
<1>1. ASSUME NEW w \in Workers, Work(w) \/ Fail(w) \/ Crash(w) \/ Redeliver(w) PROVE ChainInv'
  <2>1. CASE Layer(w) \/ ClosedSkip(w)
    BY <2>1, QuietLayers, EvaluateAIStep, ReadInputsStep, WaitForJdStep, ScoreDeterministicStep,
       ScoreSemanticStep DEF Layer, Quiet
  <2> QED
    BY <1>1, <2>1, StartStep, MarkStep, FailStep, CrashStep, RedeliverStep DEF Work
<1>2. ASSUME NEW p \in Procs, Enqueue(p) PROVE ChainInv'
  BY <1>2, CheckStep, CreateStep, ResetStep, SendStep DEF Enqueue
<1>3. ASSUME NEW c \in Clerks,
             Scan(c) \/ Reject(c) \/ Override(c) \/ Weights(c) \/ Rescore(c) \/ Resubmit(c) PROVE ChainInv'
  BY <1>3, RequestStep, RescoreStep, ResubmitStep
<1> QED
  BY <1>1, <1>2, <1>3, OutsideStep DEF Next

LEMMA ChainAlways == Spec => []ChainInv
BY ChainStarts, ChainIsKept, PTL DEF Spec

(* The candidate's row, the tasks' rows, the messages and the control      *)
(* records of the workers and clerks hold what the code stores in them.    *)
THEOREM ChainTyped == Spec => []TypeOK
<1>1. ChainInv => TypeOK
  BY DEF ChainInv, Typed
<1> QED
  BY <1>1, ChainAlways, PTL

(* However enqueues, deliveries, retries, crashes, rescores and            *)
(* resubmissions interleave, a celery_task_log row that waits belongs to a *)
(* task whose message is in the broker, in a worker's hands or about to be *)
(* published: only a publish that failed leaves it behind.                 *)
THEOREM RowsAreBacked == Spec => []LiveRowIsBacked
<1>1. ChainInv => LiveRowIsBacked
  <2> SUFFICES ASSUME ChainInv, NEW i \in TaskId, Waiting(i) PROVE Backed(i) \/ i \in lost
    BY DEF LiveRowIsBacked, Waiting
  <2>1. Carried(i) \/ i \in lost
    BY DEF ChainInv, RowsInv
  <2> QED
    BY <2>1 DEF Carried, InBroker, Holds, Sends, Backed
<1> QED
  BY <1>1, ChainAlways, PTL

(* calculate_ai_evaluation_task stores the LLM's verdict for the present   *)
(* attempt only if the deterministic and the semantic layer had passed the *)
(* candidate, whoever queued the task and however often it ran.            *)
THEOREM VerdictsNeedPasses == Spec => VerdictNeedsPass
<1> DEFINE P(w) == run[w].pc = "llm" /\ cand'.review = "COMPLETED" /\ run'[w].pc = "mark"
                     /\ run[w].attempt = cand.attempt /\ cand.resume = 1
                   => cand.breakdown = "pass" /\ cand.det = "pass"
<1>1. ChainInv /\ [Next]_vars => [\A w \in Workers : P(w)]_vars
  <2> SUFFICES ASSUME ChainInv, NEW w \in Workers PROVE P(w)
    OBVIOUS
  <2>1. CallInv(run[w]) /\ ResultsInv
    BY DEF ChainInv, Procs
  <2> QED
    BY <2>1 DEF CallInv, ResultsInv
<1> QED
  BY <1>1, ChainAlways, PTL DEF Spec, VerdictNeedsPass

-----------------------------------------------------------------------------
(* The rules of the deterministic layer (ScreeningRules).  Removing one member   *)
(* after another reaches every finite set, which is the induction the sums need. *)

LEMMA SubsetsGrounded ==
    ASSUME NEW S, IsFiniteSet(S) PROVE IsWellFoundedOn(StrictSubsetOrdering(S), SUBSET S)
BY FS_StrictSubsetOrderingWellFounded, FS_FiniteSubsetsOfFinite

\* What holds of the empty set, and of a set when it holds of the set without any one of its
\* members, holds of every finite set.
LEMMA ByRemoval ==
    ASSUME NEW S, IsFiniteSet(S), NEW G \in SUBSET SUBSET S, {} \in G,
           \A U \in SUBSET S : U # {} /\ (\A x \in U : U \ {x} \in G) => U \in G
    PROVE  S \in G
<1> DEFINE Bad == (SUBSET S) \ G
<1> SUFFICES ASSUME Bad # {} PROVE FALSE
  OBVIOUS
<1>1. IsWellFoundedOn(StrictSubsetOrdering(S), SUBSET S)
  BY SubsetsGrounded
<1>2. PICK U \in Bad : \A W \in Bad : ~(<<W, U>> \in StrictSubsetOrdering(S))
  <2>1. Bad \subseteq SUBSET S
    OBVIOUS
  <2> HIDE DEF Bad
  <2> QED
    BY <1>1, <2>1, WFMin
<1>3. U \in SUBSET S /\ U \notin G /\ U # {}
  OBVIOUS
<1>4. ASSUME NEW x \in U PROVE U \ {x} \in G
  <2>1. U \ {x} \in SUBSET S /\ U \ {x} \subseteq U /\ U \ {x} # U
    BY <1>3
  <2>2. <<U \ {x}, U>> \in StrictSubsetOrdering(S)
    BY <1>3, <2>1 DEF StrictSubsetOrdering
  <2> QED
    BY <1>2, <2>1, <2>2
<1> QED
  BY <1>3, <1>4

-----------------------------------------------------------------------------
(* Sums over a finite set: the recursion the library's definition goes through.  *)

One(s) == CHOOSE x \in s : TRUE

\* h adds up f over every subset of T that ByRemoval has reached.
AddsUp(h, f, T, G) ==
    /\ h \in [SUBSET T -> Int]
    /\ \A u \in G : h[u] = IF u = {} THEN 0 ELSE f[One(u)] + h[u \ {One(u)}]

LEMMA SumExpands ==
    ASSUME NEW f, NEW T, NEW h, h = [s \in SUBSET T |-> IF s = {} THEN 0 ELSE f[One(s)] + h[s \ {One(s)}]]
    PROVE  \E g : /\ g = [s \in SUBSET T |-> IF s = {} THEN 0 ELSE f[One(s)] + g[s \ {One(s)}]]
                  /\ SumFunctionOnSet(f, T) = g[T]
<1> DEFINE g == CHOOSE g : g = [s \in SUBSET T |-> IF s = {} THEN 0 ELSE f[CHOOSE x \in s : TRUE] + g[s \ {CHOOSE x \in s : TRUE}]]
<1>1. SumFunctionOnSet(f, T) = g[T]
  BY DEF SumFunctionOnSet, FoldFunctionOnSet, MapThenFoldSet
<1>2. g = [s \in SUBSET T |-> IF s = {} THEN 0 ELSE f[CHOOSE x \in s : TRUE] + g[s \ {CHOOSE x \in s : TRUE}]]
  BY DEF One
<1> HIDE DEF g
<1> QED BY <1>1, <1>2 DEF One

\* A set of numbers has a least one.
LEMMA LeastNumber == ASSUME NEW T \in SUBSET Nat, T # {} PROVE \E n \in T : \A m \in T : n <= m
<1> DEFINE R == {ss \in Nat \X Nat : ss[1] < ss[2]}
<1>1. IsWellFoundedOn(R, Nat)
  BY NatLessThanWellFounded DEF OpToRel
<1>2. PICK x \in T : \A y \in T : ~(<<y, x>> \in R)
  BY <1>1, WFMin
<1>3. ASSUME NEW y \in T PROVE x <= y
  <2>1. x \in Nat /\ y \in Nat /\ ~(y < x)
    BY <1>2
  <2> QED BY <2>1
<1> QED
  BY <1>3

\* Whatever holds at zero and with every number at the next holds at every number.
LEMMA Inductive ==
    ASSUME NEW H \in SUBSET Nat, 0 \in H, \A n \in H : n + 1 \in H PROVE H = Nat
<1> SUFFICES ASSUME Nat \ H # {} PROVE FALSE
  OBVIOUS
<1>1. PICK n \in Nat \ H : \A m \in Nat \ H : n <= m
  BY LeastNumber
<1>2. n # 0 /\ n - 1 \in Nat /\ ~(n <= n - 1)
  BY <1>1
<1>3. n - 1 \in H /\ (n - 1) + 1 = n
  BY <1>1, <1>2
<1> QED
  BY <1>1, <1>3

\* The subsets of up to n members.
Small(T, n) == {u \in SUBSET T : Cardinality(u) <= n}

LEMMA SumReaches ==
    ASSUME NEW f, NEW T, IsFiniteSet(T), \A x \in T : f[x] \in Int
    PROVE  \A n \in Nat : \E h : AddsUp(h, f, T, Small(T, n))
<1> DEFINE Reached == {n \in Nat : \E h : AddsUp(h, f, T, Small(T, n))}
<1>1. 0 \in Reached
  <2> DEFINE h == [u \in SUBSET T |-> 0]
  <2>1. h \in [SUBSET T -> Int]
    OBVIOUS
  <2>2. ASSUME NEW u \in Small(T, 0) PROVE u = {}
    <3>1. u \in SUBSET T /\ IsFiniteSet(u) /\ Cardinality(u) <= 0
      BY FS_Subset DEF Small
    <3> QED
      BY <3>1, FS_EmptySet, FS_CardinalityType
  <2>3. \A u \in Small(T, 0) : h[u] = 0
    BY DEF Small
  <2>4. AddsUp(h, f, T, Small(T, 0))
    <3> HIDE DEF h
    <3> QED
      BY <2>1, <2>2, <2>3 DEF AddsUp
  <2> HIDE DEF h
  <2> QED
    BY <2>4
<1>2. ASSUME NEW n \in Reached PROVE n + 1 \in Reached
  <2>1. PICK h : AddsUp(h, f, T, Small(T, n))
    OBVIOUS
  <2> DEFINE next == [u \in SUBSET T |-> IF u = {} THEN 0 ELSE f[One(u)] + h[u \ {One(u)}]]
  <2>2. \A u \in SUBSET T : u # {} => One(u) \in u /\ f[One(u)] \in Int /\ u \ {One(u)} \in SUBSET T
    BY DEF One
  <2>3. next \in [SUBSET T -> Int]
    BY <2>1, <2>2 DEF AddsUp
  <2>4. ASSUME NEW u \in Small(T, n) PROVE h[u] = next[u]
    BY <2>1 DEF AddsUp, Small
  <2>5. ASSUME NEW u \in Small(T, n + 1), u # {} PROVE u \ {One(u)} \in Small(T, n)
    <3>1. u \in SUBSET T /\ IsFiniteSet(u) /\ One(u) \in u
      BY <2>2, <2>5, FS_Subset DEF Small
    <3>2. Cardinality(u \ {One(u)}) = Cardinality(u) - 1
      BY <3>1, FS_RemoveElement
    <3>3. Cardinality(u) \in Nat /\ Cardinality(u) <= n + 1
      BY <3>1, FS_CardinalityType DEF Small
    <3>4. Cardinality(u) - 1 <= n
      BY <3>3
    <3> QED
      BY <3>1, <3>2, <3>4 DEF Small
  <2>6. ASSUME NEW u \in Small(T, n + 1)
        PROVE  next[u] = IF u = {} THEN 0 ELSE f[One(u)] + next[u \ {One(u)}]
    <3>1. u \in SUBSET T
      BY DEF Small
    <3>2. next[u] = IF u = {} THEN 0 ELSE f[One(u)] + h[u \ {One(u)}]
      BY <3>1
    <3>3. u # {} => h[u \ {One(u)}] = next[u \ {One(u)}]
      <4> HIDE DEF next
      <4> QED
        BY <2>4, <2>5
    <3> HIDE DEF next
    <3> QED
      BY <3>2, <3>3
  <2>7. AddsUp(next, f, T, Small(T, n + 1))
    <3> HIDE DEF next
    <3> QED
      BY <2>3, <2>6 DEF AddsUp
  <2> HIDE DEF next
  <2> QED
    BY <2>7
<1>3. Reached = Nat
  <2>1. Reached \in SUBSET Nat
    OBVIOUS
  <2> HIDE DEF Reached
  <2> QED
    BY <1>1, <1>2, <2>1, Inductive
<1> QED
  BY <1>3

\* Whatever adds up f does so alike.
Recurs(g, f, T) == \A u \in SUBSET T : g[u] = IF u = {} THEN 0 ELSE f[One(u)] + g[u \ {One(u)}]

LEMMA SumsAgree ==
    ASSUME NEW f, NEW T, NEW W, IsFiniteSet(T), T \subseteq W, NEW g, NEW h,
           Recurs(g, f, T), AddsUp(h, f, W, SUBSET W)
    PROVE  g[T] = h[T]
<1> DEFINE G == {u \in SUBSET T : g[u] = h[u]}
<1>1. {} \in G
  <2>1. {} \in SUBSET T /\ {} \in SUBSET W
    OBVIOUS
  <2>2. g[{}] = 0
    BY <2>1 DEF Recurs
  <2>3. h[{}] = 0
    BY <2>1 DEF AddsUp
  <2> QED
    BY <2>1, <2>2, <2>3
<1>2. ASSUME NEW u \in SUBSET T, u # {}, \A x \in u : u \ {x} \in G PROVE u \in G
  <2>1. One(u) \in u
    BY <1>2 DEF One
  <2>2. g[u \ {One(u)}] = h[u \ {One(u)}]
    BY <1>2, <2>1
  <2>3. g[u] = f[One(u)] + g[u \ {One(u)}]
    BY <1>2 DEF Recurs
  <2>4. h[u] = f[One(u)] + h[u \ {One(u)}]
    <3>1. u \in SUBSET W
      OBVIOUS
    <3> QED
      BY <1>2, <3>1 DEF AddsUp
  <2> QED
    BY <2>2, <2>3, <2>4
<1>3. T \in G
  <2>1. G \in SUBSET SUBSET T
    OBVIOUS
  <2> HIDE DEF G
  <2> QED
    BY <1>1, <1>2, <2>1, ByRemoval
<1> QED
  BY <1>3

LEMMA SumUnfolds ==
    ASSUME NEW f, NEW T, IsFiniteSet(T), \A x \in T : f[x] \in Int
    PROVE  \E h : AddsUp(h, f, T, SUBSET T) /\ \A U \in SUBSET T : SumFunctionOnSet(f, U) = h[U]
<1>1. Cardinality(T) \in Nat /\ \A u \in SUBSET T : Cardinality(u) <= Cardinality(T)
  BY FS_CardinalityType, FS_Subset
<1>2. PICK h : AddsUp(h, f, T, Small(T, Cardinality(T)))
  BY <1>1, SumReaches
<1>3. Small(T, Cardinality(T)) = SUBSET T
  BY <1>1 DEF Small
<1>4. AddsUp(h, f, T, SUBSET T)
  BY <1>2, <1>3
<1>5. ASSUME NEW U \in SUBSET T PROVE SumFunctionOnSet(f, U) = h[U]
  <2> DEFINE k == [u \in SUBSET U |-> h[u]]
  <2>1. ASSUME NEW u \in SUBSET U PROVE k[u] = IF u = {} THEN 0 ELSE f[One(u)] + k[u \ {One(u)}]
    <3>1. u \in SUBSET T /\ u \ {One(u)} \in SUBSET U
      OBVIOUS
    <3>2. h[u] = IF u = {} THEN 0 ELSE f[One(u)] + h[u \ {One(u)}]
      BY <1>4, <3>1 DEF AddsUp
    <3> QED
      BY <3>1, <3>2
  <2>2. k = [u \in SUBSET U |-> IF u = {} THEN 0 ELSE f[One(u)] + k[u \ {One(u)}]]
    <3>1. k = [u \in SUBSET U |-> k[u]]
      OBVIOUS
    <3> HIDE DEF k
    <3>2. [u \in SUBSET U |-> k[u]] = [u \in SUBSET U |-> IF u = {} THEN 0 ELSE f[One(u)] + k[u \ {One(u)}]]
      BY <2>1
    <3> QED
      BY <3>1, <3>2
  <2> HIDE DEF k
  <2>3. PICK g : /\ g = [u \in SUBSET U |-> IF u = {} THEN 0 ELSE f[One(u)] + g[u \ {One(u)}]]
                 /\ SumFunctionOnSet(f, U) = g[U]
    BY <2>2, SumExpands
  <2>4. Recurs(g, f, U)
    BY <2>3 DEF Recurs
  <2>5. IsFiniteSet(U) /\ U \subseteq T
    BY FS_Subset
  <2>6. g[U] = h[U]
    BY <1>4, <2>4, <2>5, SumsAgree
  <2> QED
    BY <2>3, <2>6
<1> QED
  BY <1>4, <1>5

-----------------------------------------------------------------------------
(* What the model's sums are, and what is proved of them.                       *)

\* The sum over nothing is zero; otherwise it is that over the others and one more.
LEMMA SumOfOneMore ==
    ASSUME NEW f, NEW T, IsFiniteSet(T), \A x \in T : f[x] \in Int
    PROVE  /\ SumFunctionOnSet(f, {}) = 0
           /\ SumFunctionOnSet(f, T) \in Int
           /\ T # {} => \E x \in T : SumFunctionOnSet(f, T) = f[x] + SumFunctionOnSet(f, T \ {x})
<1>1. PICK h : AddsUp(h, f, T, SUBSET T) /\ \A U \in SUBSET T : SumFunctionOnSet(f, U) = h[U]
  BY SumUnfolds
<1>2. {} \in SUBSET T /\ T \in SUBSET T /\ T \ {One(T)} \in SUBSET T
  OBVIOUS
<1>3. SumFunctionOnSet(f, {}) = h[{}] /\ h[{}] = 0
  BY <1>1, <1>2 DEF AddsUp
<1>4. SumFunctionOnSet(f, T) \in Int
  BY <1>1, <1>2 DEF AddsUp
<1>5. ASSUME T # {} PROVE \E x \in T : SumFunctionOnSet(f, T) = f[x] + SumFunctionOnSet(f, T \ {x})
  <2>1. One(T) \in T
    BY <1>5 DEF One
  <2>2. h[T] = f[One(T)] + h[T \ {One(T)}]
    BY <1>1, <1>2, <1>5 DEF AddsUp
  <2>3. SumFunctionOnSet(f, T) = h[T] /\ SumFunctionOnSet(f, T \ {One(T)}) = h[T \ {One(T)}]
    BY <1>1, <1>2
  <2> QED
    BY <2>1, <2>2, <2>3
<1> QED
  BY <1>3, <1>4, <1>5

\* It does not matter which member is left out.
LEMMA SumWithout ==
    ASSUME NEW f, NEW S, IsFiniteSet(S), \A x \in S : f[x] \in Int
    PROVE  \A x \in S : SumFunctionOnSet(f, S) = f[x] + SumFunctionOnSet(f, S \ {x})
<1> DEFINE G == {U \in SUBSET S : \A x \in U : SumFunctionOnSet(f, U) = f[x] + SumFunctionOnSet(f, U \ {x})}
<1>1. {} \in G
  OBVIOUS
<1>2. ASSUME NEW U \in SUBSET S, U # {}, \A x \in U : U \ {x} \in G PROVE U \in G
  <2>1. \A V \in SUBSET U : IsFiniteSet(V) /\ SumFunctionOnSet(f, V) \in Int
    <3> TAKE V \in SUBSET U
    <3>1. IsFiniteSet(V) /\ V \in SUBSET S
      BY FS_Subset
    <3>2. \A x \in V : f[x] \in Int
      BY <3>1
    <3> QED
      BY <3>1, <3>2, SumOfOneMore
  <2>2. PICK c \in U : SumFunctionOnSet(f, U) = f[c] + SumFunctionOnSet(f, U \ {c})
    <3>1. IsFiniteSet(U) /\ \A x \in U : f[x] \in Int
      BY <2>1
    <3> HIDE DEF G
    <3> QED
      BY <1>2, <3>1, SumOfOneMore
  <2>3. ASSUME NEW x \in U, x # c PROVE SumFunctionOnSet(f, U) = f[x] + SumFunctionOnSet(f, U \ {x})
    <3> DEFINE V == U \ {c, x}
    <3>1. U \ {c} \in G /\ U \ {x} \in G /\ x \in U \ {c} /\ c \in U \ {x}
      BY <1>2, <2>3
    <3>2. (U \ {c}) \ {x} = V /\ (U \ {x}) \ {c} = V /\ V \in SUBSET U
      OBVIOUS
    <3>3. /\ SumFunctionOnSet(f, U \ {c}) = f[x] + SumFunctionOnSet(f, V)
          /\ SumFunctionOnSet(f, U \ {x}) = f[c] + SumFunctionOnSet(f, V)
      BY <3>1, <3>2
    <3>4. f[x] \in Int /\ f[c] \in Int /\ SumFunctionOnSet(f, V) \in Int
      BY <2>1, <3>2
    <3> QED
      BY <2>2, <3>3, <3>4
  <2> QED
    BY <2>2, <2>3
<1>3. S \in G
  <2>1. G \in SUBSET SUBSET S
    OBVIOUS
  <2> HIDE DEF G
  <2> QED
    BY <1>1, <1>2, <2>1, ByRemoval
<1> QED
  BY <1>3

-----------------------------------------------------------------------------
(* Sums compared member by member.                                              *)

\* A sum is at most k times another when every member is.
LEMMA SumAtMost ==
    ASSUME NEW f, NEW g, NEW k \in Nat, NEW S, IsFiniteSet(S),
           \A x \in S : f[x] \in Int /\ g[x] \in Int /\ f[x] <= k * g[x]
    PROVE  SumFunctionOnSet(f, S) <= k * SumFunctionOnSet(g, S)
<1> DEFINE G == {U \in SUBSET S : SumFunctionOnSet(f, U) <= k * SumFunctionOnSet(g, U)}
<1>0. \A U \in SUBSET S : /\ IsFiniteSet(U)
                          /\ SumFunctionOnSet(f, U) \in Int /\ SumFunctionOnSet(g, U) \in Int
  <2> TAKE U \in SUBSET S
  <2>1. IsFiniteSet(U)
    BY FS_Subset
  <2>2. (\A x \in U : f[x] \in Int) /\ (\A x \in U : g[x] \in Int)
    OBVIOUS
  <2>3. SumFunctionOnSet(f, U) \in Int
    BY <2>1, <2>2, SumOfOneMore
  <2>4. SumFunctionOnSet(g, U) \in Int
    BY <2>1, <2>2, SumOfOneMore
  <2> QED
    BY <2>1, <2>3, <2>4
<1>1. {} \in G
  <2>1. SumFunctionOnSet(f, {}) = 0
    BY SumOfOneMore
  <2>2. SumFunctionOnSet(g, {}) = 0
    BY SumOfOneMore
  <2> QED
    BY <2>1, <2>2
<1>2. ASSUME NEW U \in SUBSET S, U # {}, \A x \in U : U \ {x} \in G PROVE U \in G
  <2>1. PICK c \in U : TRUE
    BY <1>2
  <2>2. SumFunctionOnSet(f, U) = f[c] + SumFunctionOnSet(f, U \ {c})
    <3>1. IsFiniteSet(U) /\ \A x \in U : f[x] \in Int
      BY <1>0
    <3> QED
      BY <3>1, SumWithout
  <2>3. SumFunctionOnSet(g, U) = g[c] + SumFunctionOnSet(g, U \ {c})
    <3>1. IsFiniteSet(U) /\ \A x \in U : g[x] \in Int
      BY <1>0
    <3> QED
      BY <3>1, SumWithout
  <2>4. /\ f[c] \in Int /\ g[c] \in Int /\ f[c] <= k * g[c]
        /\ SumFunctionOnSet(f, U \ {c}) \in Int /\ SumFunctionOnSet(g, U \ {c}) \in Int
    BY <1>0
  <2>5. SumFunctionOnSet(f, U \ {c}) <= k * SumFunctionOnSet(g, U \ {c})
    BY <1>2
  <2>6. \A a, b \in Int : k * (a + b) = k * a + k * b
    OBVIOUS
  <2>7. k * SumFunctionOnSet(g, U) = k * g[c] + k * SumFunctionOnSet(g, U \ {c})
    BY <2>3, <2>4, <2>6
  <2>8. \A a, b, p, q \in Int : a <= p /\ b <= q => a + b <= p + q
    OBVIOUS
  <2>9. k * g[c] \in Int /\ k * SumFunctionOnSet(g, U \ {c}) \in Int
    BY <2>4
  <2> QED
    BY <2>2, <2>4, <2>5, <2>7, <2>8, <2>9
<1>3. S \in G
  <2>1. G \in SUBSET SUBSET S
    OBVIOUS
  <2> HIDE DEF G
  <2> QED
    BY <1>1, <1>2, <2>1, ByRemoval
<1> QED
  BY <1>3

\* Sums of the same numbers are the same; sums of what is not negative are not.
LEMMA SumSame ==
    ASSUME NEW f, NEW g, NEW S, IsFiniteSet(S), \A x \in S : f[x] \in Int /\ g[x] = f[x]
    PROVE  SumFunctionOnSet(f, S) = SumFunctionOnSet(g, S)
<1>1. \A x \in S : g[x] \in Int /\ f[x] <= 1 * g[x] /\ g[x] <= 1 * f[x]
  OBVIOUS
<1>2. SumFunctionOnSet(f, S) <= 1 * SumFunctionOnSet(g, S)
  BY <1>1, SumAtMost
<1>3. SumFunctionOnSet(g, S) <= 1 * SumFunctionOnSet(f, S)
  BY <1>1, SumAtMost
<1>4. SumFunctionOnSet(f, S) \in Int
  BY SumOfOneMore
<1>5. SumFunctionOnSet(g, S) \in Int
  BY <1>1, SumOfOneMore
<1> QED
  BY <1>2, <1>3, <1>4, <1>5

LEMMA SumOfNaturals ==
    ASSUME NEW f, NEW S, IsFiniteSet(S), \A x \in S : f[x] \in Nat
    PROVE  SumFunctionOnSet(f, S) \in Nat
<1> DEFINE G == {U \in SUBSET S : SumFunctionOnSet(f, U) \in Nat}
<1>1. {} \in G
  <2>1. \A x \in S : f[x] \in Int
    OBVIOUS
  <2>2. SumFunctionOnSet(f, {}) = 0
    BY <2>1, SumOfOneMore
  <2> QED
    BY <2>2
<1>2. ASSUME NEW U \in SUBSET S, U # {}, \A x \in U : U \ {x} \in G PROVE U \in G
  <2>1. IsFiniteSet(U) /\ \A x \in U : f[x] \in Int
    BY FS_Subset
  <2>2. PICK c \in U : SumFunctionOnSet(f, U) = f[c] + SumFunctionOnSet(f, U \ {c})
    BY <1>2, <2>1, SumOfOneMore
  <2>3. f[c] \in Nat /\ SumFunctionOnSet(f, U \ {c}) \in Nat
    BY <1>2
  <2> QED
    BY <2>2, <2>3
<1>3. S \in G
  <2>1. G \in SUBSET SUBSET S
    OBVIOUS
  <2> HIDE DEF G
  <2> QED
    BY <1>1, <1>2, <2>1, ByRemoval
<1> QED
  BY <1>3

-----------------------------------------------------------------------------
(* Rounding.                                                                    *)

\* A quotient of integers is the greatest number of times the divisor fits.
LEMMA Quotient ==
    ASSUME NEW a \in Int, NEW b \in Nat, b > 0
    PROVE  /\ a \div b \in Int /\ (a \div b) * b <= a /\ a < (a \div b) * b + b
           /\ \A q \in Int : q * b <= a => q <= a \div b
<1>1. a \div b \in Int /\ (a \div b) * b <= a /\ a < (a \div b) * b + b
  OBVIOUS
<1>2. ASSUME NEW q \in Int, q * b <= a PROVE q <= a \div b
  <2> SUFFICES ASSUME q >= (a \div b) + 1 PROVE FALSE
    BY <1>1
  <2>1. \A p \in Int : \A m \in Int : p >= m + 1 => p * b >= m * b + b
    <3> TAKE p \in Int
    <3> TAKE m \in Int
    <3> HAVE p >= m + 1
    <3>1. p - m - 1 \in Nat
      OBVIOUS
    <3>2. (p - m - 1) * b \in Nat
      BY <3>1
    <3>3. (p - m - 1) * b = p * b - m * b - b
      OBVIOUS
    <3> QED
      BY <3>2, <3>3
  <2> QED
    BY <1>1, <1>2, <2>1
<1> QED
  BY <1>1, <1>2

\* The greater quotient does not round to the lesser number.
LEMMA RoundedGrows ==
    ASSUME NEW m \in Nat, NEW d \in Nat, d > 0, NEW n \in Nat, NEW e \in Nat, e > 0,
           m * e <= n * d
    PROVE  Rounded(m, d) <= Rounded(n, e)
<1> DEFINE q == (2 * m + d) \div (2 * d)
<1>1. 2 * m + d \in Nat /\ 2 * d \in Nat /\ 2 * d > 0 /\ 2 * n + e \in Nat /\ 2 * e \in Nat /\ 2 * e > 0
  OBVIOUS
<1>2. q \in Int /\ q * (2 * d) <= 2 * m + d
  <2> HIDE DEF q
  <2> QED
    BY <1>1, Quotient DEF q
<1> HIDE DEF q
<1>3. (q * (2 * d)) * e <= (2 * m + d) * e
  <2>1. (2 * m + d) - q * (2 * d) \in Nat
    BY <1>2
  <2>2. ((2 * m + d) - q * (2 * d)) * e \in Nat
    BY <2>1
  <2>3. ((2 * m + d) - q * (2 * d)) * e = (2 * m + d) * e - (q * (2 * d)) * e
    BY <1>2
  <2>4. (2 * m + d) * e \in Int /\ (q * (2 * d)) * e \in Int
    BY <1>2
  <2> QED
    BY <2>2, <2>3, <2>4
<1>4. (2 * m + d) * e = 2 * (m * e) + d * e /\ (2 * n + e) * d = 2 * (n * d) + d * e
  OBVIOUS
<1>5. (q * (2 * d)) * e = (q * (2 * e)) * d
  BY <1>2
<1>6. (q * (2 * e)) * d <= (2 * n + e) * d
  <2>1. m * e \in Int /\ n * d \in Int /\ d * e \in Int
    OBVIOUS
  <2>2. 2 * (m * e) + d * e <= 2 * (n * d) + d * e
    BY <2>1
  <2>3. (q * (2 * d)) * e \in Int
    BY <1>2
  <2> QED
    BY <1>3, <1>4, <1>5, <2>1, <2>2, <2>3
<1>7. q * (2 * e) <= 2 * n + e
  <2> SUFFICES ASSUME q * (2 * e) >= 2 * n + e + 1 PROVE FALSE
    BY <1>1, <1>2
  <2>1. q * (2 * e) - (2 * n + e) - 1 \in Nat
    BY <1>2
  <2>2. (q * (2 * e) - (2 * n + e) - 1) * d \in Nat
    BY <2>1
  <2>3. (q * (2 * e) - (2 * n + e) - 1) * d = (q * (2 * e)) * d - (2 * n + e) * d - d
    BY <1>2
  <2>4. (q * (2 * e)) * d \in Int /\ (2 * n + e) * d \in Int
    BY <1>2
  <2> QED
    BY <1>6, <2>2, <2>3, <2>4
<1>8. q <= (2 * n + e) \div (2 * e)
  BY <1>1, <1>2, <1>7, Quotient
<1> QED
  BY <1>8 DEF Rounded, q

\* A fraction of at most k is rounded to at most k.
LEMMA RoundedAtMost ==
    ASSUME NEW m \in Nat, NEW d \in Nat, d > 0, NEW k \in Nat, m <= k * d
    PROVE  Rounded(m, d) \in 0..k
<1>1. Rounded(k, 1) = k
  BY DEF Rounded
<1>2. m * 1 <= k * d /\ 0 * d <= m * 1
  OBVIOUS
<1>3. Rounded(m, d) <= Rounded(k, 1)
  BY <1>2, RoundedGrows
<1>4. Rounded(0, 1) <= Rounded(m, d)
  BY <1>2, RoundedGrows
<1>5. Rounded(0, 1) = 0
  BY DEF Rounded
<1>6. Rounded(m, d) \in Int
  <2>1. 2 * m + d \in Int /\ 2 * d \in Nat /\ 2 * d > 0
    OBVIOUS
  <2> QED
    BY <2>1, Quotient DEF Rounded
<1> QED
  BY <1>1, <1>3, <1>4, <1>5, <1>6

\* A share of the whole is a percentage.
LEMMA RoundedPercent ==
    ASSUME NEW m \in Nat, NEW d \in Nat, d > 0, m <= 10000 * d PROVE Rounded(m, d) \in Percent
<1> DEFINE k == 10000
<1>1. k \in Nat /\ m <= k * d
  OBVIOUS
<1>2. Rounded(m, d) \in 0..k
  <2> HIDE DEF k
  <2> QED
    BY <1>1, RoundedAtMost
<1>3. Percent = 0..k
  BY DEF Percent
<1> HIDE DEF k
<1> QED
  BY <1>2, <1>3

-----------------------------------------------------------------------------
(* What a resume holds, and what the skills come to.                            *)

\* The resume holds what parsing can extract, for the JD at hand.
ResumeWell(j, r) ==
    /\ DOMAIN r = {"skills", "years", "degrees", "evidence"}
    /\ \A s \in DOMAIN r.skills : s \in Skills /\ r.skills[s] \in Grades
    /\ r.years \in Years \cup {None}
    /\ r.degrees \subseteq Ranks
    /\ r.evidence = None \/ \A c \in j.capabilities : r.evidence[c] \in 0..100

LEMMA Ranges == (\A g \in Grades : g \in 0..10) /\ \A d \in Ranks : d \in 0..10
<1>1. Grades \subseteq 1..10 /\ Ranks \subseteq 0..7
  BY RulesAssumption
<1>2. (\A g \in 1..10 : g \in 0..10) /\ \A d \in 0..7 : d \in 0..10
  OBVIOUS
<1> QED
  BY <1>1, <1>2

\* A nonempty set of small numbers has a greatest and a least.
LEMMA SmallBounds ==
    ASSUME NEW S \in SUBSET (0..10), S # {}
    PROVE  /\ Max(S) \in S /\ \A x \in S : Max(S) >= x
           /\ Min(S) \in S /\ \A x \in S : Min(S) <= x
<1>1. \E m \in S : \A x \in S : m >= x
  <2> DEFINE T == {10 - x : x \in S}
  <2>0. ASSUME NEW x \in S PROVE x \in Int /\ 10 - x \in Nat
    <3>1. x \in 0..10
      OBVIOUS
    <3> QED
      BY <3>1
  <2>1. T \in SUBSET Nat /\ T # {}
    BY <2>0
  <2>2. PICK n \in T : \A m \in T : n <= m
    <3> HIDE DEF T
    <3> QED
      BY <2>1, LeastNumber
  <2>3. PICK m \in S : n = 10 - m
    OBVIOUS
  <2>4. ASSUME NEW x \in S PROVE m >= x
    <3>1. 10 - x \in T
      OBVIOUS
    <3>2. 10 - m <= 10 - x /\ m \in Int /\ x \in Int
      BY <2>0, <2>2, <2>3, <3>1
    <3> QED
      BY <3>2
  <2> QED
    BY <2>4
<1>2. \E m \in S : \A x \in S : m <= x
  <2>1. S \in SUBSET Nat
    OBVIOUS
  <2> QED
    BY <2>1, LeastNumber
<1> QED
  BY <1>1, <1>2 DEF Max, Min

LEMMA BestIsGrade ==
    ASSUME NEW j, NEW r, ResumeWell(j, r), NEW S PROVE Best(r, S) \in 0..10
<1> DEFINE B == {r.skills[s] : s \in S \cap Held(r)} \cup {0}
<1>1. B \in SUBSET (0..10) /\ B # {}
  <2>1. \A s \in DOMAIN r.skills : r.skills[s] \in Grades
    BY DEF ResumeWell
  <2> QED
    BY <2>1, Ranges DEF Held
<1>2. Max(B) \in B
  <2> HIDE DEF B
  <2> QED
    BY <1>1, SmallBounds
<1>3. Best(r, S) = Max(B)
  BY DEF Best
<1> QED
  BY <1>1, <1>2, <1>3

LEMMA MatchPays ==
    ASSUME NEW j, NEW r, ResumeWell(j, r), NEW s, NEW aliases PROVE Match(r, s, aliases).pays \in 0..100
<1> DEFINE tiers == Tier(r, s, aliases)
           hits == {i \in 1..6 : tiers[i].among \cap Held(r) # {}}
<1>1. CASE hits = {}
  <2>1. Match(r, s, aliases) = [type |-> "MISSING", pays |-> 0]
    BY <1>1, Zenon DEF Match
  <2> QED
    BY <2>1
<1>2. CASE hits # {}
  <2>1. hits \in SUBSET (0..10)
    OBVIOUS
  <2>2. Min(hits) \in 1..6
    <3>1. hits \subseteq 1..6
      OBVIOUS
    <3> HIDE DEF hits
    <3> QED
      BY <1>2, <2>1, <3>1, SmallBounds
  <2>3. \A i \in 1..6 : tiers[i].times \in 0..10
    BY DEF Tier
  <2>4. Match(r, s, aliases).pays = Best(r, tiers[Min(hits)].among) * tiers[Min(hits)].times
    <3> HIDE DEF hits
    <3>1. Match(r, s, aliases) = IF hits = {} THEN [type |-> "MISSING", pays |-> 0]
                                 ELSE [type |-> tiers[Min(hits)].type,
                                       pays |-> Best(r, tiers[Min(hits)].among) * tiers[Min(hits)].times]
      BY DEF Match, hits
    <3> HIDE DEF tiers
    <3> QED
      BY <1>2, <3>1
  <2>5. Best(r, tiers[Min(hits)].among) \in 0..10
    BY BestIsGrade
  <2>6. \A a, b \in 0..10 : a * b \in 0..100
    OBVIOUS
  <2> HIDE DEF tiers, hits
  <2> QED
    BY <2>2, <2>3, <2>4, <2>5, <2>6
<1> QED
  BY <1>1, <1>2

\* No contribution exceeds a hundred times the maximum it is divided by.
Fair(e, S) == \A s \in S : e[s].max \in Nat /\ e[s].got \in Nat /\ e[s].got <= 100 * e[s].max

LEMMA ContributionBound ==
    ASSUME NEW w \in Nat, NEW p \in 0..100 PROVE w * p \in Nat /\ w * p <= 100 * w
<1>1. w * (100 - p) \in Nat /\ w * (100 - p) = 100 * w - w * p
  OBVIOUS
<1> QED
  BY <1>1

LEMMA EntriesFair ==
    ASSUME NEW j, JdOK(j), NEW r, ResumeWell(j, r)
    PROVE  /\ Fair(Mandatory(j, r), DOMAIN j.required) /\ DOMAIN Mandatory(j, r) = DOMAIN j.required
           /\ Fair(PreferredSkills(j, r), DOMAIN j.preferred) /\ DOMAIN PreferredSkills(j, r) = DOMAIN j.preferred
<1>1. ASSUME NEW s \in DOMAIN j.required
      PROVE  LET e == Mandatory(j, r)[s] IN e.max \in Nat /\ e.got \in Nat /\ e.got <= 100 * e.max
  <2> DEFINE m == Match(r, s, j.required[s].aliases)
             w == j.required[s].weight * Times(j.required[s].importance, j)
  <2>1. Times(j.required[s].importance, j) \in Nat
    BY DEF Times, JdOK
  <2>2. w \in Nat
    <3>1. j.required[s].weight \in Nat
      BY DEF JdOK
    <3> QED
      BY <2>1, <3>1
  <2>3. m.pays \in 0..100
    BY MatchPays
  <2>4. Mandatory(j, r)[s].max = w /\ Mandatory(j, r)[s].got = w * m.pays
    BY DEF Mandatory, Entry
  <2> HIDE DEF m, w
  <2> QED
    BY <2>2, <2>3, <2>4, ContributionBound
<1>2. ASSUME NEW s \in DOMAIN j.preferred
      PROVE  LET e == PreferredSkills(j, r)[s] IN e.max \in Nat /\ e.got \in Nat /\ e.got <= 100 * e.max
  <2> DEFINE w == j.preferred[s].weight
             b == IF Best(r, {s}) > 0 THEN Best(r, {s}) ELSE Best(r, j.preferred[s].aliases)
  <2>1. w \in Nat
    BY DEF JdOK
  <2>2. b \in 0..10
    BY BestIsGrade
  <2>3. PreferredSkills(j, r)[s].max = w /\ PreferredSkills(j, r)[s].got = w * (10 * b)
    BY DEF PreferredSkills, PreferredEntry
  <2>4. 10 * b \in 0..100
    BY <2>2
  <2> HIDE DEF w, b
  <2> QED
    BY <2>1, <2>3, <2>4, ContributionBound
<1> QED
  BY <1>1, <1>2 DEF Fair, Mandatory, PreferredSkills

LEMMA TotalsFair ==
    ASSUME NEW e, NEW S, IsFiniteSet(S), Fair(e, S)
    PROVE  Got(e, S) \in Nat /\ MaxOf(e, S) \in Nat /\ Got(e, S) <= 100 * MaxOf(e, S)
<1> DEFINE f == [s \in S |-> e[s].got]
           g == [s \in S |-> e[s].max]
<1>1. \A s \in S : f[s] \in Nat /\ g[s] \in Nat /\ f[s] <= 100 * g[s]
  BY DEF Fair
<1>2. Got(e, S) = SumFunctionOnSet(f, S) /\ MaxOf(e, S) = SumFunctionOnSet(g, S)
  BY DEF Got, MaxOf, SumFunction
<1> HIDE DEF f, g
<1>3. SumFunctionOnSet(f, S) \in Nat
  BY <1>1, SumOfNaturals
<1>4. SumFunctionOnSet(g, S) \in Nat
  BY <1>1, SumOfNaturals
<1>5. \A s \in S : f[s] \in Int /\ g[s] \in Int /\ f[s] <= 100 * g[s]
  BY <1>1
<1>6. SumFunctionOnSet(f, S) <= 100 * SumFunctionOnSet(g, S)
  BY <1>5, SumAtMost
<1> QED
  BY <1>2, <1>3, <1>4, <1>6

\* The two shares of the technical score, of a1 out of m1 and a2 out of m2.
LEMMA SharesBound ==
    ASSUME NEW s \in 0..10, NEW a1 \in Nat, NEW m1 \in Nat, NEW a2 \in Nat, NEW m2 \in Nat,
           a1 <= 100 * m1, a2 <= 100 * m2
    PROVE  LET n == 10 * ((10 - s) * a1 * m2 + s * a2 * m1)
           IN  n \in Nat /\ n <= 10000 * (m1 * m2)
<1>1. (100 * m1 - a1) * m2 \in Nat /\ (100 * m2 - a2) * m1 \in Nat
  OBVIOUS
<1> DEFINE x == a1 * m2
           y == a2 * m1
           z == m1 * m2
<1>2. x \in Nat /\ y \in Nat /\ z \in Nat
  OBVIOUS
<1>3. (100 * m1 - a1) * m2 = 100 * z - x /\ (100 * m2 - a2) * m1 = 100 * z - y
  OBVIOUS
<1>4. x <= 100 * z /\ y <= 100 * z
  <2> HIDE DEF x, y, z
  <2> QED
    BY <1>1, <1>2, <1>3
<1>5. (10 - s) * a1 * m2 = (10 - s) * x /\ s * a2 * m1 = s * y
  OBVIOUS
<1> HIDE DEF x, y, z
<1>6. (10 - s) * (100 * z - x) \in Nat /\ s * (100 * z - y) \in Nat
  BY <1>2, <1>4
<1>7. (10 - s) * (100 * z - x) = 1000 * z - 100 * (s * z) - (10 - s) * x /\ s * (100 * z - y) = 100 * (s * z) - s * y
  BY <1>2
<1>8. (10 - s) * x \in Nat /\ s * y \in Nat /\ s * z \in Nat
  BY <1>2
<1>9. (10 - s) * x + s * y <= 1000 * z
  BY <1>2, <1>6, <1>7, <1>8
<1>10. 10 * ((10 - s) * x + s * y) \in Nat /\ 10 * ((10 - s) * x + s * y) <= 10000 * z
  BY <1>2, <1>8, <1>9
<1> QED
  BY <1>5, <1>10 DEF z

LEMMA TechnicalBound ==
    ASSUME NEW j, JdOK(j), NEW r, ResumeWell(j, r)
    PROVE  Technical(j, Mandatory(j, r), PreferredSkills(j, r)) \in Percent \cup {None}
<1> DEFINE m == Mandatory(j, r)
           p == PreferredSkills(j, r)
           other == {s \in DOMAIN m : m[s].importance # "core"}
           scored == IF other = {} THEN DOMAIN m ELSE other
           a1 == Got(m, scored)
           m1 == MaxOf(m, scored)
           a2 == Got(p, DOMAIN p)
           m2 == MaxOf(p, DOMAIN p)
<1> SUFFICES Technical(j, m, p) \in Percent \cup {None}
  OBVIOUS
<1>0. /\ Fair(m, DOMAIN j.required) /\ DOMAIN m = DOMAIN j.required
      /\ Fair(p, DOMAIN j.preferred) /\ DOMAIN p = DOMAIN j.preferred
  BY EntriesFair
<1>1. /\ Fair(m, DOMAIN m) /\ DOMAIN m \subseteq Skills
      /\ Fair(p, DOMAIN p) /\ DOMAIN p \subseteq Skills
  <2>1. DOMAIN j.required \subseteq Skills /\ DOMAIN j.preferred \subseteq Skills
    BY DEF JdOK
  <2> HIDE DEF m, p
  <2> QED
    BY <1>0, <2>1
<1>2. Fair(m, scored) /\ IsFiniteSet(scored) /\ IsFiniteSet(DOMAIN p)
  <2> HIDE DEF m, p
  <2>1. scored \subseteq DOMAIN m
    OBVIOUS
  <2>2. IsFiniteSet(scored) /\ IsFiniteSet(DOMAIN p)
    BY <1>1, <2>1, RulesAssumption, FS_Subset
  <2> QED
    BY <1>1, <2>1, <2>2 DEF Fair
<1>3. a1 \in Nat /\ m1 \in Nat /\ a1 <= 100 * m1
  <2> HIDE DEF m, scored
  <2> QED
    BY <1>2, TotalsFair
<1>4. a2 \in Nat /\ m2 \in Nat /\ a2 <= 100 * m2
  <2> HIDE DEF p
  <2> QED
    BY <1>1, <1>2, TotalsFair
<1>5. Technical(j, m, p) =
        CASE m1 = 0 /\ m2 = 0 -> None
          [] m1 > 0 /\ m2 = 0 -> Rounded(100 * a1, m1)
          [] m1 = 0 /\ m2 > 0 -> Rounded(100 * a2, m2)
          [] OTHER -> Rounded(10 * ((10 - j.share) * a1 * m2 + j.share * a2 * m1), m1 * m2)
  BY DEF Technical
<1>6. j.share \in 0..10
  BY DEF JdOK
<1> HIDE DEF m, p, scored, a1, m1, a2, m2
<1>7. CASE m1 = 0 /\ m2 = 0
  BY <1>5, <1>7
<1>8. CASE m1 > 0 /\ m2 = 0
  <2>1. 100 * a1 \in Nat /\ 100 * a1 <= 10000 * m1
    BY <1>3
  <2>2. PICK x \in Nat : x = 100 * a1
    BY <2>1
  <2>3. Rounded(x, m1) \in Percent
    BY <1>3, <1>8, <2>1, <2>2, RoundedPercent
  <2> QED
    BY <1>5, <1>8, <2>2, <2>3
<1>9. CASE m1 = 0 /\ m2 > 0
  <2>1. 100 * a2 \in Nat /\ 100 * a2 <= 10000 * m2
    BY <1>4
  <2>2. PICK x \in Nat : x = 100 * a2
    BY <2>1
  <2>3. Rounded(x, m2) \in Percent
    BY <1>4, <1>9, <2>1, <2>2, RoundedPercent
  <2> QED
    BY <1>5, <1>9, <2>2, <2>3
<1>10. CASE m1 > 0 /\ m2 > 0
  <2> DEFINE n == 10 * ((10 - j.share) * a1 * m2 + j.share * a2 * m1)
  <2>1. n \in Nat /\ n <= 10000 * (m1 * m2)
    BY <1>3, <1>4, <1>6, SharesBound
  <2>2. m1 * m2 \in Nat /\ m1 * m2 > 0
    BY <1>3, <1>4, <1>10
  <2>3. Technical(j, m, p) = Rounded(n, m1 * m2)
    BY <1>5, <1>10
  <2> HIDE DEF n
  <2>4. PICK x \in Nat, y \in Nat : x = n /\ y = m1 * m2
    BY <2>1, <2>2
  <2>5. x <= 10000 * y /\ y > 0
    BY <2>1, <2>2, <2>4
  <2>6. Rounded(x, y) \in Percent
    BY <2>5, RoundedPercent
  <2> QED
    BY <2>3, <2>4, <2>6
<1>11. m1 = 0 \/ m1 > 0
  BY <1>3
<1>12. m2 = 0 \/ m2 > 0
  BY <1>4
<1> QED
  BY <1>7, <1>8, <1>9, <1>10, <1>11, <1>12

-----------------------------------------------------------------------------
(* Experience, education and domain: each result is a percentage where it       *)
(* applies, and a better resume has a better one.                               *)

ResultWell(a) ==
    a.applicable \in BOOLEAN /\ a.passed \in BOOLEAN /\ (a.applicable => a.score \in Percent)

\* What counted counts still, for no less; what comes to count counts in full.
Better(a, b) ==
    /\ a.passed => b.passed
    /\ a.applicable => b.applicable /\ a.score <= b.score
    /\ ~a.applicable /\ b.applicable => b.score = 10000

\* q shows what r does and more of it: the case GainNeverFails speaks of.
Grows(j, r, q) ==
    /\ q.skills = r.skills
    /\ q.years # r.years => r.years # None /\ q.years # None /\ r.years <= q.years
    /\ q.degrees # r.degrees => Ranked(r) # {} /\ r.degrees \subseteq q.degrees
    /\ q.evidence # r.evidence =>
          r.evidence # None /\ q.evidence # None /\ \A c \in j.capabilities : r.evidence[c] <= q.evidence[c]

LEMMA SameDivisor ==
    ASSUME NEW m \in Nat, NEW n \in Nat, NEW d \in Nat, d > 0, m <= n PROVE Rounded(m, d) <= Rounded(n, d)
<1>1. (n - m) * d \in Nat /\ (n - m) * d = n * d - m * d
  OBVIOUS
<1>2. m * d \in Int /\ n * d \in Int
  OBVIOUS
<1>3. m * d <= n * d
  BY <1>1, <1>2
<1> QED
  BY <1>3, RoundedGrows

\* A share k of d in hundredths of a percent: a percentage that grows with k.
LEMMA ShareOf ==
    ASSUME NEW k \in Nat, NEW d \in Nat, k < d
    PROVE  /\ Rounded(10000 * k, d) \in Percent
           /\ \A n \in Nat : k <= n /\ n < d => Rounded(10000 * k, d) <= Rounded(10000 * n, d)
<1>1. PICK x \in Nat : x = 10000 * k
  OBVIOUS
<1>2. d > 0 /\ x <= 10000 * d
  BY <1>1
<1>3. Rounded(x, d) \in Percent
  BY <1>2, RoundedPercent
<1>4. ASSUME NEW n \in Nat, k <= n, n < d PROVE Rounded(x, d) <= Rounded(10000 * n, d)
  <2>1. PICK y \in Nat : y = 10000 * n
    OBVIOUS
  <2>2. x <= y
    BY <1>1, <1>4, <2>1
  <2>3. Rounded(x, d) <= Rounded(y, d)
    BY <1>2, <2>2, SameDivisor
  <2> QED
    BY <2>1, <2>3
<1> QED
  BY <1>1, <1>3, <1>4

LEMMA FullIsPercent ==
    /\ 10000 \in Percent
    /\ \A x \in Percent : x \in Nat /\ x <= 10000
BY DEF Percent

Failing(x) == [Met EXCEPT !.passed = FALSE, !.score = x]

\* A degree the career stands in for.
StoodInFor == [Met EXCEPT !.missing = TRUE]

LEMMA FailingResult ==
    ASSUME NEW x
    PROVE  /\ Failing(x).applicable /\ Failing(x).applicable \in BOOLEAN
           /\ ~Failing(x).passed /\ Failing(x).passed \in BOOLEAN
           /\ Failing(x).score = x
<1>1. Failing(x).applicable = TRUE
  BY DEF Failing, Met
<1>2. Failing(x).passed = FALSE
  BY DEF Failing, Met
<1>3. Failing(x).score = x
  BY DEF Failing, Met
<1> QED
  BY <1>1, <1>2, <1>3

LEMMA FullResult ==
    \A a \in {Met, StoodInFor} :
        /\ a.applicable /\ a.applicable \in BOOLEAN /\ a.passed /\ a.passed \in BOOLEAN
        /\ a.score = 10000
<1>1. Met.applicable = TRUE /\ Met.passed = TRUE /\ Met.score = 10000
  BY DEF Met
<1>2. StoodInFor.applicable = TRUE
  BY DEF StoodInFor, Met
<1>3. StoodInFor.passed = TRUE
  BY DEF StoodInFor, Met
<1>4. StoodInFor.score = 10000
  BY DEF StoodInFor, Met
<1>5. ASSUME NEW a \in {Met, StoodInFor} PROVE a.applicable = TRUE /\ a.passed = TRUE
  <2>1. CASE a = Met
    BY <1>1, <2>1
  <2>2. CASE a = StoodInFor
    BY <1>2, <1>3, <2>2
  <2> QED
    BY <2>1, <2>2
<1>6. ASSUME NEW a \in {Met, StoodInFor} PROVE a.score = 10000
  BY <1>1, <1>4
<1>7. \A a \in {Met, StoodInFor} : a.applicable /\ a.applicable \in BOOLEAN /\ a.passed /\ a.passed \in BOOLEAN
  BY <1>5
<1> QED
  BY <1>6, <1>7

LEMMA OutOfCount ==
    \A a \in {Skipped, DataMissing} :
        ~a.applicable /\ a.applicable \in BOOLEAN /\ a.passed /\ a.passed \in BOOLEAN
<1>1. Skipped.applicable = FALSE /\ Skipped.passed = TRUE
  BY DEF Skipped
<1>2. DataMissing.applicable = FALSE /\ DataMissing.passed = TRUE
  BY DEF DataMissing
<1>3. ASSUME NEW a \in {Skipped, DataMissing} PROVE a.applicable = FALSE /\ a.passed = TRUE
  <2>1. CASE a = Skipped
    BY <1>1, <2>1
  <2>2. CASE a = DataMissing
    BY <1>2, <2>2
  <2> QED
    BY <2>1, <2>2
<1> QED
  BY <1>3

LEMMA ResultsWell ==
    /\ \A a \in {Skipped, DataMissing, Met, StoodInFor} : ResultWell(a)
    /\ \A x \in Percent : ResultWell(Failing(x))
<1>1. \A a \in {Skipped, DataMissing} : ResultWell(a)
  BY OutOfCount DEF ResultWell
<1>2. \A a \in {Met, StoodInFor} : ResultWell(a)
  BY FullResult, FullIsPercent DEF ResultWell
<1>3. \A x \in Percent : ResultWell(Failing(x))
  BY FailingResult DEF ResultWell
<1> QED
  BY <1>1, <1>2, <1>3

LEMMA Betters ==
    /\ \A a \in {Skipped, DataMissing} : Better(a, a)
    /\ Better(Met, Met) /\ Better(StoodInFor, StoodInFor)
    /\ Better(DataMissing, Met) /\ Better(DataMissing, StoodInFor)
    /\ \A x \in Percent : Better(Failing(x), Met)
    /\ \A x \in Percent, y \in Percent : x <= y => Better(Failing(x), Failing(y))
<1>1. \A a \in {Skipped, DataMissing} : Better(a, a)
  BY OutOfCount DEF Better
<1>2. \A a \in {Met, StoodInFor} : Better(a, a) /\ Better(DataMissing, a)
  BY OutOfCount, FullResult DEF Better
<1>3. \A x \in Percent : Better(Failing(x), Met)
  <2>1. \A x \in Percent : x <= 10000
    BY FullIsPercent
  <2> QED
    BY <2>1, FailingResult, FullResult DEF Better
<1>4. \A x \in Percent, y \in Percent : x <= y => Better(Failing(x), Failing(y))
  BY FailingResult DEF Better
<1> QED
  BY <1>1, <1>2, <1>3, <1>4

LEMMA ExperienceGrows ==
    ASSUME NEW j, JdOK(j), NEW r, ResumeWell(j, r)
    PROVE  /\ ResultWell(Experience(j, r))
           /\ \A q : ResumeWell(j, q) /\ Grows(j, r, q) =>
                  /\ Better(Experience(j, r), Experience(j, q))
                  /\ Experience(j, q).applicable = Experience(j, r).applicable
<1> DEFINE min == Minimum(j)
           eff == Max({min - j.tolerance, 0})
           E(y) == IF min = None THEN Skipped
                   ELSE IF y = None THEN DataMissing
                   ELSE IF y >= eff THEN Met
                   ELSE Failing(Rounded(10000 * y, eff))
<1>1. \A p : Experience(j, p) = E(p.years)
  BY DEF Experience, Failing
<1>2. min \in Nat \cup {None}
  BY DEF Minimum, JdOK
<1>3. ASSUME min # None PROVE eff \in Nat
  <2>1. min - j.tolerance \in Int
    BY <1>2, <1>3 DEF JdOK
  <2> DEFINE a == min - j.tolerance
  <2>2. \E m \in {a, 0} : \A x \in {a, 0} : m >= x
    <3> HIDE DEF min, a
    <3>1. a \in Int
      BY <2>1 DEF a
    <3> QED
      BY <3>1
  <2>3. Max({a, 0}) \in {a, 0} /\ Max({a, 0}) >= 0
    <3> HIDE DEF a
    <3> QED
      BY <2>2 DEF Max
  <2> HIDE DEF min
  <2> QED
    BY <2>1, <2>3
<1>4. \A p : ResumeWell(j, p) => p.years \in Nat \cup {None}
  BY RulesAssumption DEF ResumeWell
<1>5. None \notin Nat
  BY RulesAssumption
<1> HIDE DEF min, eff
<1>c. ASSUME NEW y \in Nat \cup {None}
      PROVE  \/ (min = None \/ y = None) /\ E(y) \in {Skipped, DataMissing}
             \/ min # None /\ y \in Nat /\ eff \in Nat /\ y >= eff /\ E(y) = Met
             \/ min # None /\ y \in Nat /\ eff \in Nat /\ y < eff /\ E(y) = Failing(Rounded(10000 * y, eff))
  <2>1. CASE min = None \/ y = None
    BY <2>1
  <2>2. CASE min # None /\ y # None
    <3>1. y \in Nat /\ eff \in Nat /\ (y >= eff \/ y < eff)
      BY <1>3, <2>2
    <3>2. y < eff => ~(y >= eff)
      BY <3>1
    <3> QED
      BY <2>2, <3>1, <3>2
  <2> QED
    BY <2>1, <2>2
<1>6. ASSUME NEW y \in Nat \cup {None} PROVE ResultWell(E(y))
  <2> HIDE DEF E
  <2>1. y \in Nat /\ eff \in Nat /\ y < eff => Rounded(10000 * y, eff) \in Percent
    BY ShareOf
  <2> QED
    BY <1>c, <2>1, ResultsWell
<1>7. ASSUME NEW y \in Nat \cup {None}, NEW z \in Nat \cup {None}, y = z \/ (y # None /\ z # None /\ y <= z)
      PROVE  Better(E(y), E(z)) /\ E(z).applicable = E(y).applicable
  <2>1. CASE min = None \/ y = None
    <3>1. y = None => z = None
      BY <1>7
    <3>2. E(z) = E(y)
      BY <2>1, <3>1
    <3> HIDE DEF E
    <3>3. E(y) \in {Skipped, DataMissing}
      BY <1>c, <1>5, <2>1
    <3> QED
      BY <3>2, <3>3, Betters
  <2>2. CASE min # None /\ y # None
    <3> HIDE DEF E
    <3>1. y <= z /\ y \in Nat /\ z \in Nat /\ z # None
      BY <1>5, <1>7, <2>2
    <3>2. CASE z >= eff
      <4>1. E(z) = Met
        BY <1>c, <2>2, <3>1, <3>2
      <4>2. E(y) = Met \/ (E(y) = Failing(Rounded(10000 * y, eff)) /\ y < eff /\ eff \in Nat)
        BY <1>c, <2>2, <3>1
      <4>3. y < eff /\ eff \in Nat => Rounded(10000 * y, eff) \in Percent
        BY <3>1, ShareOf
      <4>4. E(y).applicable /\ E(y).applicable \in BOOLEAN
        BY <4>2, FailingResult, FullResult
      <4>5. Met.applicable /\ Met.applicable \in BOOLEAN
        BY FullResult
      <4>6. Better(E(y), E(z))
        BY <4>1, <4>2, <4>3, Betters
      <4> QED
        BY <4>1, <4>4, <4>5, <4>6
    <3>3. CASE z < eff
      <4>0. eff \in Nat
        BY <1>c, <2>2, <3>1
      <4>1. y < eff
        BY <3>1, <3>3, <4>0
      <4>2. E(y) = Failing(Rounded(10000 * y, eff)) /\ E(z) = Failing(Rounded(10000 * z, eff))
        BY <1>c, <2>2, <3>1, <3>3, <4>0, <4>1
      <4>3. Rounded(10000 * y, eff) \in Percent /\ Rounded(10000 * z, eff) \in Percent
        BY <3>1, <3>3, <4>0, <4>1, ShareOf
      <4>4. Rounded(10000 * y, eff) <= Rounded(10000 * z, eff)
        BY <3>1, <3>3, <4>0, <4>1, ShareOf
      <4>5. Better(E(y), E(z))
        BY <4>2, <4>3, <4>4, Betters
      <4>6. /\ E(y).applicable /\ E(y).applicable \in BOOLEAN
            /\ E(z).applicable /\ E(z).applicable \in BOOLEAN
        BY <4>2, FailingResult
      <4> QED
        BY <4>5, <4>6
    <3>4. z >= eff \/ z < eff
      <4>1. eff \in Nat
        BY <1>3, <2>2
      <4> QED
        BY <3>1, <4>1
    <3> QED
      BY <3>2, <3>3, <3>4
  <2> QED
    BY <2>1, <2>2
<1> HIDE DEF E
<1>8. ResultWell(Experience(j, r))
  BY <1>1, <1>4, <1>6
<1>9. ASSUME NEW q, ResumeWell(j, q), Grows(j, r, q)
      PROVE  Better(Experience(j, r), Experience(j, q)) /\ Experience(j, q).applicable = Experience(j, r).applicable
  <2>1. r.years = q.years \/ (r.years # None /\ q.years # None /\ r.years <= q.years)
    BY <1>9 DEF Grows
  <2>2. r.years \in Nat \cup {None} /\ q.years \in Nat \cup {None}
    BY <1>4, <1>9
  <2>3. Better(E(r.years), E(q.years)) /\ E(q.years).applicable = E(r.years).applicable
    BY <1>7, <2>1, <2>2
  <2> QED
    BY <1>1, <2>3
<1> QED
  BY <1>8, <1>9

\* A longer career stands in wherever a shorter one does, and another degree keeps the best rank.
LEMMA RankGrows ==
    ASSUME NEW j, JdOK(j), NEW r, NEW q, ResumeWell(j, r), ResumeWell(j, q), Grows(j, r, q)
    PROVE  /\ Equivalent(j, r) => Equivalent(j, q)
           /\ Ranked(r) = {} => Ranked(q) = {}
           /\ Ranked(r) # {} => Ranked(q) # {} /\ BestRank(r) <= BestRank(q)
<1>1. ASSUME Equivalent(j, r) PROVE Equivalent(j, q)
  <2>1. j.equivalent # None /\ r.years # None /\ r.years >= j.equivalent
    BY <1>1 DEF Equivalent
  <2>2. j.equivalent \in Nat
    BY <2>1 DEF JdOK
  <2>3. r.years \in Nat /\ q.years \in Nat \cup {None}
    BY <2>1, RulesAssumption DEF ResumeWell
  <2>4. q.years # None /\ (q.years = r.years \/ r.years <= q.years)
    BY <2>1 DEF Grows
  <2>5. q.years >= j.equivalent
    BY <2>1, <2>2, <2>3, <2>4
  <2> QED
    BY <2>1, <2>4, <2>5 DEF Equivalent
<1>2. ASSUME Ranked(r) = {} PROVE Ranked(q) = {}
  BY <1>2 DEF Grows, Ranked
<1>3. ASSUME Ranked(r) # {} PROVE Ranked(q) # {} /\ BestRank(r) <= BestRank(q)
  <2>1. r.degrees \subseteq q.degrees
    BY DEF Grows
  <2>2. Ranked(r) \subseteq Ranked(q)
    BY <2>1 DEF Ranked
  <2>3. Ranked(r) \in SUBSET (0..10) /\ Ranked(q) \in SUBSET (0..10) /\ Ranked(q) # {}
    <3>1. r.degrees \subseteq Ranks /\ q.degrees \subseteq Ranks
      BY DEF ResumeWell
    <3> QED
      BY <1>3, <2>2, <3>1, Ranges DEF Ranked
  <2>4. Max(Ranked(r)) \in Ranked(r)
    BY <1>3, <2>3, SmallBounds
  <2>5. \A x \in Ranked(q) : Max(Ranked(q)) >= x
    BY <2>3, SmallBounds
  <2>6. Max(Ranked(q)) \in Ranked(q)
    BY <2>3, SmallBounds
  <2>7. Max(Ranked(r)) \in 0..10 /\ Max(Ranked(q)) \in 0..10 /\ Max(Ranked(q)) >= Max(Ranked(r))
    BY <2>2, <2>3, <2>4, <2>5, <2>6
  <2> QED
    BY <2>3, <2>7 DEF BestRank
<1> QED
  BY <1>1, <1>2, <1>3

\* What Education answers, by what it reads.
LEMMA EducationCases ==
    ASSUME NEW j, JdOK(j), NEW r, ResumeWell(j, r)
    PROVE  \/ j.level = None /\ Education(j, r) = Skipped
           \/ /\ j.level # None /\ Ranked(r) = {}
              /\ \/ Equivalent(j, r) /\ Education(j, r) = StoodInFor
                 \/ ~Equivalent(j, r) /\ Education(j, r) = DataMissing
           \/ /\ j.level \in Nat /\ Ranked(r) # {} /\ BestRank(r) \in Nat
              /\ \/ (BestRank(r) >= j.level \/ Equivalent(j, r)) /\ Education(j, r) = Met
                 \/ /\ BestRank(r) < j.level /\ ~Equivalent(j, r)
                    /\ Education(j, r) = Failing(Rounded(10000 * BestRank(r), j.level))
<1>1. CASE j.level = None
  BY <1>1 DEF Education
<1>2. CASE j.level # None /\ Ranked(r) = {}
  BY <1>2 DEF Education, StoodInFor
<1>3. CASE j.level # None /\ Ranked(r) # {}
  <2>1. j.level \in Nat
    BY <1>3 DEF JdOK
  <2>2. BestRank(r) \in Nat
    <3>1. Ranked(r) \in SUBSET (0..10)
      <4>1. r.degrees \subseteq Ranks
        BY DEF ResumeWell
      <4> QED
        BY <4>1, Ranges DEF Ranked
    <3>2. Max(Ranked(r)) \in Ranked(r)
      BY <1>3, <3>1, SmallBounds
    <3> QED
      BY <3>1, <3>2 DEF BestRank
  <2>3. CASE BestRank(r) >= j.level \/ Equivalent(j, r)
    <3>1. Education(j, r) = Met
      BY <1>3, <2>3 DEF Education
    <3> QED
      BY <1>3, <2>1, <2>2, <2>3, <3>1
  <2>4. CASE ~(BestRank(r) >= j.level) /\ ~Equivalent(j, r)
    <3>1. Education(j, r) = Failing(Rounded(10000 * BestRank(r), j.level))
      BY <1>3, <2>4 DEF Education, Failing
    <3>2. BestRank(r) < j.level
      BY <2>1, <2>2, <2>4
    <3> QED
      BY <1>3, <2>1, <2>2, <2>4, <3>1, <3>2
  <2> QED
    BY <2>3, <2>4
<1> QED
  BY <1>1, <1>2, <1>3

LEMMA EducationWell ==
    ASSUME NEW j, JdOK(j), NEW r, ResumeWell(j, r) PROVE ResultWell(Education(j, r))
<1>1. CASE Education(j, r) \in {Skipped, StoodInFor, DataMissing, Met}
  BY <1>1, ResultsWell
<1>2. CASE /\ j.level \in Nat /\ BestRank(r) \in Nat /\ BestRank(r) < j.level
           /\ Education(j, r) = Failing(Rounded(10000 * BestRank(r), j.level))
  <2>1. Rounded(10000 * BestRank(r), j.level) \in Percent
    BY <1>2, ShareOf
  <2> QED
    BY <1>2, <2>1, ResultsWell
<1> QED
  BY <1>1, <1>2, EducationCases

LEMMA EducationGrows ==
    ASSUME NEW j, JdOK(j), NEW r, NEW q, ResumeWell(j, r), ResumeWell(j, q), Grows(j, r, q)
    PROVE  Better(Education(j, r), Education(j, q))
<1> DEFINE share(p) == Rounded(10000 * BestRank(p), j.level)
<1>1. CASE j.level = None
  <2>1. Education(j, r) = Skipped /\ Education(j, q) = Skipped
    BY <1>1, RulesAssumption DEF Education
  <2> QED
    BY <2>1, Betters
<1>2. CASE j.level # None /\ Ranked(r) = {}
  <2>1. Ranked(q) = {} /\ (Equivalent(j, r) => Equivalent(j, q))
    BY <1>2, RankGrows
  <2>2. \/ Equivalent(j, r) /\ Education(j, r) = StoodInFor
        \/ ~Equivalent(j, r) /\ Education(j, r) = DataMissing
    BY <1>2 DEF Education, StoodInFor
  <2>3. \/ Equivalent(j, q) /\ Education(j, q) = StoodInFor
        \/ ~Equivalent(j, q) /\ Education(j, q) = DataMissing
    BY <1>2, <2>1 DEF Education, StoodInFor
  <2> QED
    BY <2>1, <2>2, <2>3, Betters
<1>3. CASE j.level # None /\ Ranked(r) # {}
  <2>1. Ranked(q) # {} /\ BestRank(r) <= BestRank(q) /\ (Equivalent(j, r) => Equivalent(j, q))
    BY <1>3, RankGrows
  <2>2. /\ j.level \in Nat /\ BestRank(r) \in Nat
        /\ \/ (BestRank(r) >= j.level \/ Equivalent(j, r)) /\ Education(j, r) = Met
           \/ BestRank(r) < j.level /\ ~Equivalent(j, r) /\ Education(j, r) = Failing(share(r))
    <3> HIDE DEF Failing
    <3> QED
      BY <1>3, EducationCases
  <2>3. /\ BestRank(q) \in Nat
        /\ \/ (BestRank(q) >= j.level \/ Equivalent(j, q)) /\ Education(j, q) = Met
           \/ BestRank(q) < j.level /\ ~Equivalent(j, q) /\ Education(j, q) = Failing(share(q))
    BY <1>3, <2>1, EducationCases
  <2>4. BestRank(r) < j.level => share(r) \in Percent
    BY <2>2, ShareOf
  <2>5. BestRank(q) < j.level => share(q) \in Percent
    BY <2>2, <2>3, ShareOf
  <2>6. BestRank(q) < j.level => BestRank(r) < j.level /\ share(r) <= share(q)
    <3> SUFFICES ASSUME BestRank(q) < j.level PROVE BestRank(r) < j.level /\ share(r) <= share(q)
      OBVIOUS
    <3>1. BestRank(r) < j.level
      BY <2>1, <2>2, <2>3
    <3>2. share(r) <= share(q)
      BY <2>1, <2>2, <2>3, <3>1, ShareOf
    <3> QED
      BY <3>1, <3>2
  <2> HIDE DEF share
  <2>7. BestRank(r) >= j.level => ~(BestRank(q) < j.level)
    BY <2>1, <2>2, <2>3
  <2>8. CASE Education(j, r) = Met /\ Education(j, q) = Met
    BY <2>8, Betters
  <2>9. CASE /\ BestRank(r) < j.level /\ Education(j, r) = Failing(share(r))
             /\ Education(j, q) = Met
    BY <2>4, <2>9, Betters
  <2>10. CASE /\ Education(j, r) = Failing(share(r)) /\ BestRank(q) < j.level
              /\ Education(j, q) = Failing(share(q))
    BY <2>4, <2>5, <2>6, <2>10, Betters
  <2> QED
    BY <2>1, <2>2, <2>3, <2>7, <2>8, <2>9, <2>10
<1> QED
  BY <1>1, <1>2, <1>3

\* A capability's weight, twice as much when the JD requires it.
Weigh(j, c) == IF c \in j.requiredCapabilities THEN 2 ELSE 1

CapabilityWeight(j) == SumFunction([c \in j.capabilities |-> Weigh(j, c)])

Evidence(j, r) == SumFunction([c \in j.capabilities |-> Weigh(j, c) * r.evidence[c]])

Showing(x) == [Met EXCEPT !.score = x]

LEMMA WeightPositive ==
    ASSUME NEW j, JdOK(j), j.capabilities # {} PROVE CapabilityWeight(j) \in Nat /\ CapabilityWeight(j) > 0
<1> DEFINE C == j.capabilities
           g == [c \in C |-> Weigh(j, c)]
<1>0. IsFiniteSet(C)
  BY DEF JdOK
<1>1. \A c \in C : g[c] \in Nat /\ g[c] \in Int /\ g[c] >= 1
  BY DEF Weigh
<1>2. CapabilityWeight(j) = SumFunctionOnSet(g, C)
  BY DEF CapabilityWeight, SumFunction
<1>3. PICK c \in C : TRUE
  OBVIOUS
<1> HIDE DEF g, C
<1>4. SumFunctionOnSet(g, C) = g[c] + SumFunctionOnSet(g, C \ {c})
  BY <1>0, <1>1, SumWithout
<1>5. SumFunctionOnSet(g, C \ {c}) \in Nat
  <2>1. IsFiniteSet(C \ {c}) /\ \A x \in C \ {c} : g[x] \in Nat
    BY <1>0, <1>1, FS_Subset
  <2> QED
    BY <2>1, SumOfNaturals
<1> QED
  BY <1>1, <1>2, <1>4, <1>5

\* The evidence is at most a hundred times the weight, and grows with every sentence.
LEMMA EvidenceGrows ==
    ASSUME NEW j, JdOK(j), NEW r, \A c \in j.capabilities : r.evidence[c] \in 0..100
    PROVE  /\ Evidence(j, r) \in Nat /\ Evidence(j, r) <= 100 * CapabilityWeight(j)
           /\ \A q : (\A c \in j.capabilities : q.evidence[c] \in 0..100 /\ r.evidence[c] <= q.evidence[c])
                        => Evidence(j, r) <= Evidence(j, q)
<1> DEFINE C == j.capabilities
           g == [c \in C |-> Weigh(j, c)]
           f(p) == [c \in C |-> Weigh(j, c) * p.evidence[c]]
<1>0. IsFiniteSet(C)
  BY DEF JdOK
<1>1. \A c \in C : Weigh(j, c) \in 1..2
  BY DEF Weigh
<1>2. \A w \in 1..2 : \A x \in 0..100 : w * x \in Nat /\ w * x <= 100 * w
  OBVIOUS
<1>3. \A w \in 1..2 : \A x \in 0..100 : \A y \in 0..100 : x <= y => w * x <= w * y
  OBVIOUS
<1>4. /\ CapabilityWeight(j) = SumFunctionOnSet(g, C)
      /\ \A p : Evidence(j, p) = SumFunctionOnSet(f(p), C)
  BY DEF CapabilityWeight, Evidence, SumFunction
<1>5. \A c \in C : f(r)[c] \in Nat /\ f(r)[c] \in Int /\ g[c] \in Int /\ f(r)[c] <= 100 * g[c]
  <2> TAKE c \in C
  <2>1. PICK w \in 1..2, x \in 0..100 : w = Weigh(j, c) /\ x = r.evidence[c]
    BY <1>1
  <2>2. f(r)[c] = w * x /\ g[c] = w
    BY <2>1
  <2> QED
    BY <1>2, <2>2
<1>6. ASSUME NEW q, \A c \in C : q.evidence[c] \in 0..100 /\ r.evidence[c] <= q.evidence[c]
      PROVE  SumFunctionOnSet(f(r), C) <= SumFunctionOnSet(f(q), C)
  <2>1. \A c \in C : f(r)[c] \in Int /\ f(q)[c] \in Int /\ f(r)[c] <= 1 * f(q)[c]
    <3> TAKE c \in C
    <3>1. PICK w \in 1..2, x \in 0..100, y \in 0..100 :
             w = Weigh(j, c) /\ x = r.evidence[c] /\ y = q.evidence[c] /\ x <= y
      BY <1>1, <1>6
    <3>2. f(r)[c] = w * x /\ f(q)[c] = w * y
      BY <3>1
    <3>3. w * x \in Int /\ w * y \in Int /\ w * x <= w * y
      BY <1>2, <1>3, <3>1
    <3> QED
      BY <3>2, <3>3
  <2>2. PICK a, b : a = f(r) /\ b = f(q)
    OBVIOUS
  <2> HIDE DEF f
  <2>3. \A c \in C : a[c] \in Int /\ b[c] \in Int /\ a[c] <= 1 * b[c]
    BY <2>1, <2>2
  <2>4. SumFunctionOnSet(a, C) <= 1 * SumFunctionOnSet(b, C)
    BY <1>0, <2>3, SumAtMost
  <2>5. SumFunctionOnSet(b, C) \in Int
    BY <1>0, <2>3, SumOfOneMore
  <2> QED
    BY <2>2, <2>4, <2>5
<1>7. SumFunctionOnSet(f(r), C) \in Nat /\ SumFunctionOnSet(f(r), C) <= 100 * SumFunctionOnSet(g, C)
  <2>1. PICK a : a = f(r)
    OBVIOUS
  <2> HIDE DEF f, g
  <2>2. \A c \in C : a[c] \in Nat /\ a[c] \in Int /\ g[c] \in Int /\ a[c] <= 100 * g[c]
    BY <1>5, <2>1
  <2>3. SumFunctionOnSet(a, C) \in Nat
    BY <1>0, <2>2, SumOfNaturals
  <2>4. SumFunctionOnSet(a, C) <= 100 * SumFunctionOnSet(g, C)
    BY <1>0, <2>2, SumAtMost
  <2> QED
    BY <2>1, <2>3, <2>4
<1> HIDE DEF f, g
<1>8. \A q : (\A c \in C : q.evidence[c] \in 0..100 /\ r.evidence[c] <= q.evidence[c])
                 => SumFunctionOnSet(f(r), C) <= SumFunctionOnSet(f(q), C)
  BY <1>6
<1> QED
  BY <1>4, <1>7, <1>8

LEMMA ShowingResult ==
    /\ \A x : /\ Showing(x).applicable /\ Showing(x).applicable \in BOOLEAN
              /\ Showing(x).passed /\ Showing(x).passed \in BOOLEAN
              /\ Showing(x).score = x
    /\ \A x \in Percent : ResultWell(Showing(x))
    /\ \A x \in Percent, y \in Percent : x <= y => Better(Showing(x), Showing(y))
<1>1. ASSUME NEW x PROVE Showing(x).applicable = TRUE /\ Showing(x).passed = TRUE
  BY DEF Showing, Met
<1>2. ASSUME NEW x PROVE Showing(x).score = x
  BY DEF Showing, Met
<1>3. \A x : /\ Showing(x).applicable /\ Showing(x).applicable \in BOOLEAN
             /\ Showing(x).passed /\ Showing(x).passed \in BOOLEAN
             /\ Showing(x).score = x
  BY <1>1, <1>2
<1>4. \A x \in Percent : ResultWell(Showing(x))
  BY <1>3 DEF ResultWell
<1>5. \A x \in Percent, y \in Percent : x <= y => Better(Showing(x), Showing(y))
  BY <1>3 DEF Better
<1> QED
  BY <1>3, <1>4, <1>5

LEMMA DomainGrows ==
    ASSUME NEW j, JdOK(j), NEW r, ResumeWell(j, r)
    PROVE  /\ ResultWell(Domain(j, r))
           /\ \A q : ResumeWell(j, q) /\ Grows(j, r, q) =>
                  /\ Better(Domain(j, r), Domain(j, q))
                  /\ Domain(j, q).applicable = Domain(j, r).applicable
<1> DEFINE share(p) == Rounded(100 * Evidence(j, p), CapabilityWeight(j))
<1>1. \A p : Domain(j, p) = IF j.capabilities = {} THEN Skipped
                             ELSE IF p.evidence = None THEN DataMissing ELSE Showing(share(p))
  BY DEF Domain, Showing, Evidence, CapabilityWeight, Weigh
<1>2. CASE j.capabilities = {}
  <2>1. \A p : Domain(j, p) = Skipped
    BY <1>1, <1>2
  <2> QED
    BY <2>1, Betters, ResultsWell
<1>3. CASE j.capabilities # {} /\ r.evidence = None
  <2>1. Domain(j, r) = DataMissing
    BY <1>1, <1>3
  <2>2. \A q : Grows(j, r, q) => Domain(j, q) = DataMissing
    BY <1>1, <1>3 DEF Grows
  <2> QED
    BY <2>1, <2>2, Betters, ResultsWell
<1>4. CASE j.capabilities # {} /\ r.evidence # None
  <2>1. CapabilityWeight(j) \in Nat /\ CapabilityWeight(j) > 0
    BY <1>4, WeightPositive
  <2>2. ASSUME NEW p, \A c \in j.capabilities : p.evidence[c] \in 0..100
        PROVE  100 * Evidence(j, p) \in Nat /\ share(p) \in Percent
    <3>1. Evidence(j, p) \in Nat /\ Evidence(j, p) <= 100 * CapabilityWeight(j)
      BY <2>2, EvidenceGrows
    <3>2. PICK x \in Nat, d \in Nat : x = 100 * Evidence(j, p) /\ d = CapabilityWeight(j)
      BY <2>1, <3>1
    <3>3. x <= 10000 * d /\ d > 0
      BY <2>1, <3>1, <3>2
    <3>4. Rounded(x, d) \in Percent
      BY <3>3, RoundedPercent
    <3> QED
      BY <3>2, <3>4
  <2>3. \A c \in j.capabilities : r.evidence[c] \in 0..100
    BY <1>4 DEF ResumeWell
  <2>4. Domain(j, r) = Showing(share(r)) /\ share(r) \in Percent
    BY <1>1, <1>4, <2>2, <2>3
  <2>5. ASSUME NEW q, ResumeWell(j, q), Grows(j, r, q)
        PROVE  /\ Domain(j, q) = Showing(share(q)) /\ share(q) \in Percent /\ share(r) <= share(q)
    <3>1. q.evidence # None
      BY <1>4, <2>5 DEF Grows
    <3>2. \A c \in j.capabilities : q.evidence[c] \in 0..100
      BY <2>5, <3>1 DEF ResumeWell
    <3>3. \A c \in j.capabilities : r.evidence[c] <= q.evidence[c]
      <4>1. CASE q.evidence = r.evidence
        BY <2>3, <4>1
      <4>2. CASE q.evidence # r.evidence
        BY <2>5, <4>2 DEF Grows
      <4> QED
        BY <4>1, <4>2
    <3>4. Evidence(j, r) <= Evidence(j, q)
      BY <2>3, <3>2, <3>3, EvidenceGrows
    <3>5. Evidence(j, r) \in Nat /\ Evidence(j, q) \in Nat
      BY <2>3, <3>2, EvidenceGrows
    <3>6. PICK x \in Nat, y \in Nat, d \in Nat :
             x = 100 * Evidence(j, r) /\ y = 100 * Evidence(j, q) /\ d = CapabilityWeight(j)
      BY <2>1, <3>5
    <3>7. x <= y /\ d > 0
      BY <2>1, <3>4, <3>5, <3>6
    <3>8. Rounded(x, d) <= Rounded(y, d)
      BY <3>7, SameDivisor
    <3>9. share(r) <= share(q)
      BY <3>6, <3>8
    <3>10. share(q) \in Percent
      BY <2>2, <3>2
    <3>11. Domain(j, q) = Showing(share(q))
      BY <1>1, <1>4, <3>1
    <3> QED
      BY <3>9, <3>10, <3>11
  <2> HIDE DEF share
  <2>6. ResultWell(Domain(j, r))
    BY <2>4, ShowingResult
  <2>7. ASSUME NEW q, ResumeWell(j, q), Grows(j, r, q)
        PROVE  Better(Domain(j, r), Domain(j, q)) /\ Domain(j, q).applicable = Domain(j, r).applicable
    <3>1. Domain(j, q) = Showing(share(q)) /\ share(q) \in Percent /\ share(r) <= share(q)
      BY <2>5, <2>7
    <3>2. Domain(j, q).applicable /\ Domain(j, q).applicable \in BOOLEAN
      BY <3>1, ShowingResult
    <3>3. Domain(j, r).applicable /\ Domain(j, r).applicable \in BOOLEAN
      BY <2>4, ShowingResult
    <3> QED
      BY <2>4, <3>1, <3>2, <3>3, ShowingResult
  <2> QED
    BY <2>6, <2>7
<1> QED
  BY <1>2, <1>3, <1>4

-----------------------------------------------------------------------------
(* The blend: a weighted mean over the components that count.                   *)

TotalWeight(p) == SumFunction([c \in DOMAIN p |-> p[c].weight])

Points(p) == SumFunction([c \in DOMAIN p |-> p[c].score * p[c].weight])

Mean(p, z) == IF TotalWeight(p) > 0 THEN Rounded(Points(p), TotalWeight(p)) ELSE z

PartsOK(p) == IsFiniteSet(DOMAIN p) /\ \A c \in DOMAIN p : p[c].score \in Percent /\ p[c].weight \in Nat

LEMMA PercentTimes ==
    ASSUME NEW x \in Percent, NEW w \in Nat
    PROVE  /\ x * w \in Nat /\ x * w <= 10000 * w
           /\ \A y \in Percent : x <= y => x * w <= y * w
<1>1. x \in Nat /\ x <= 10000
  BY FullIsPercent
<1>2. (10000 - x) * w \in Nat /\ (10000 - x) * w = 10000 * w - x * w /\ x * w \in Nat
  <2>1. PICK k \in Nat : k = 10000
    OBVIOUS
  <2>2. (k - x) * w \in Nat /\ (k - x) * w = k * w - x * w /\ x * w \in Nat
    BY <1>1, <2>1
  <2> QED
    BY <2>1, <2>2
<1>3. ASSUME NEW y \in Nat, x <= y PROVE x * w <= y * w
  <2>1. (y - x) * w \in Nat /\ (y - x) * w = y * w - x * w /\ x * w \in Nat /\ y * w \in Nat
    BY <1>1, <1>3
  <2> QED
    BY <2>1
<1> QED
  BY <1>2, <1>3, FullIsPercent

LEMMA MeanSums ==
    ASSUME NEW p, PartsOK(p)
    PROVE  TotalWeight(p) \in Nat /\ Points(p) \in Nat /\ Points(p) <= 10000 * TotalWeight(p)
<1> DEFINE D == DOMAIN p
           f == [c \in D |-> p[c].score * p[c].weight]
           g == [c \in D |-> p[c].weight]
<1>1. \A c \in D : f[c] \in Nat /\ g[c] \in Nat /\ f[c] \in Int /\ g[c] \in Int /\ f[c] <= 10000 * g[c]
  <2> TAKE c \in D
  <2>1. p[c].score \in Percent /\ p[c].weight \in Nat
    BY DEF PartsOK
  <2>2. p[c].score * p[c].weight \in Nat /\ p[c].score * p[c].weight <= 10000 * p[c].weight
    BY <2>1, PercentTimes
  <2> QED
    BY <2>1, <2>2
<1>2. Points(p) = SumFunctionOnSet(f, D) /\ TotalWeight(p) = SumFunctionOnSet(g, D) /\ IsFiniteSet(D)
  BY DEF Points, TotalWeight, SumFunction, PartsOK
<1> HIDE DEF D, f, g
<1>3. SumFunctionOnSet(f, D) \in Nat
  BY <1>1, <1>2, SumOfNaturals
<1>4. SumFunctionOnSet(g, D) \in Nat
  BY <1>1, <1>2, SumOfNaturals
<1>5. PICK k \in Nat : k = 10000
  OBVIOUS
<1>6. \A c \in D : f[c] \in Int /\ g[c] \in Int /\ f[c] <= k * g[c]
  BY <1>1, <1>5
<1>7. SumFunctionOnSet(f, D) <= k * SumFunctionOnSet(g, D)
  BY <1>2, <1>6, SumAtMost
<1> QED
  BY <1>2, <1>3, <1>4, <1>5, <1>7

\* q scores every part of p no lower, at its weight, and has at most one part more,
\* which it scores in full.
InFull(part) == part.score = 10000 /\ part.weight > 0

Improves(p, q) ==
    /\ \A c \in DOMAIN p : q[c].weight = p[c].weight /\ p[c].score <= q[c].score
    /\ \/ DOMAIN q = DOMAIN p
       \/ \E x : x \notin DOMAIN p /\ DOMAIN q = DOMAIN p \cup {x} /\ InFull(q[x])

LEMMA SumsCompared ==
    ASSUME NEW p, NEW q, PartsOK(p), PartsOK(q), Improves(p, q)
    PROVE  \/ TotalWeight(q) = TotalWeight(p) /\ Points(p) <= Points(q)
           \/ \E w \in Nat, n \in Nat :
                 w > 0 /\ TotalWeight(q) = w + TotalWeight(p) /\ Points(q) = 10000 * w + n /\ Points(p) <= n
<1> DEFINE D == DOMAIN p
           S == DOMAIN q
           f(r) == [c \in DOMAIN r |-> r[c].score * r[c].weight]
           g(r) == [c \in DOMAIN r |-> r[c].weight]
<1>0. PICK fp, gp, fq, gq : fp = f(p) /\ gp = g(p) /\ fq = f(q) /\ gq = g(q)
  OBVIOUS
<1>1. /\ Points(p) = SumFunctionOnSet(fp, D) /\ TotalWeight(p) = SumFunctionOnSet(gp, D)
      /\ Points(q) = SumFunctionOnSet(fq, S) /\ TotalWeight(q) = SumFunctionOnSet(gq, S)
  BY <1>0 DEF Points, TotalWeight, SumFunction
<1>2. IsFiniteSet(D) /\ IsFiniteSet(S) /\ D \subseteq S
  <2>1. IsFiniteSet(DOMAIN p) /\ IsFiniteSet(DOMAIN q)
    BY DEF PartsOK
  <2>2. DOMAIN q = DOMAIN p \/ \E x : DOMAIN q = DOMAIN p \cup {x}
    BY DEF Improves
  <2> QED
    BY <2>1, <2>2
<1>3. \A c \in S : fq[c] = q[c].score * q[c].weight /\ fq[c] \in Nat /\ gq[c] = q[c].weight /\ gq[c] \in Nat
  <2> TAKE c \in S
  <2>1. q[c].score \in Percent /\ q[c].weight \in Nat
    BY DEF PartsOK
  <2>2. q[c].score * q[c].weight \in Nat
    BY <2>1, PercentTimes
  <2> QED
    BY <1>0, <2>1, <2>2
<1>4. \A c \in D : gp[c] \in Int /\ gq[c] = gp[c] /\ fp[c] \in Int /\ fq[c] \in Int /\ fp[c] <= 1 * fq[c]
  <2> TAKE c \in D
  <2>1. p[c].score \in Percent /\ p[c].weight \in Nat /\ q[c].score \in Percent /\ c \in S
    BY <1>2 DEF PartsOK
  <2>2. q[c].weight = p[c].weight /\ p[c].score <= q[c].score
    BY DEF Improves
  <2>3. /\ p[c].score * p[c].weight \in Nat
        /\ p[c].score * p[c].weight <= q[c].score * p[c].weight
    BY <2>1, <2>2, PercentTimes
  <2>4. fp[c] = p[c].score * p[c].weight /\ gp[c] = p[c].weight
    BY <1>0
  <2> HIDE DEF D, S
  <2> QED
    BY <1>3, <2>1, <2>2, <2>3, <2>4
<1> HIDE DEF f, g
<1>5. SumFunctionOnSet(gp, D) = SumFunctionOnSet(gq, D)
  <2> HIDE DEF D, S
  <2>1. \A c \in D : gp[c] \in Int /\ gq[c] = gp[c]
    BY <1>4
  <2> QED
    BY <1>2, <2>1, SumSame
<1>6. SumFunctionOnSet(fp, D) <= 1 * SumFunctionOnSet(fq, D)
  <2> HIDE DEF D, S
  <2>1. \A c \in D : fp[c] \in Int /\ fq[c] \in Int /\ fp[c] <= 1 * fq[c]
    BY <1>4
  <2> QED
    BY <1>2, <2>1, SumAtMost
<1>7. SumFunctionOnSet(fq, D) \in Nat /\ SumFunctionOnSet(gq, D) \in Nat
  <2> HIDE DEF D, S
  <2>1. (\A c \in D : fq[c] \in Nat) /\ (\A c \in D : gq[c] \in Nat)
    BY <1>2, <1>3
  <2>2. SumFunctionOnSet(fq, D) \in Nat
    BY <1>2, <2>1, SumOfNaturals
  <2>3. SumFunctionOnSet(gq, D) \in Nat
    BY <1>2, <2>1, SumOfNaturals
  <2> QED
    BY <2>2, <2>3
<1>8. CASE S = D
  <2> HIDE DEF D, S
  <2> QED
    BY <1>1, <1>5, <1>6, <1>7, <1>8
<1>9. CASE \E x : x \notin D /\ S = D \cup {x} /\ InFull(q[x])
  <2>1. PICK x : x \notin D /\ S = D \cup {x} /\ q[x].score = 10000 /\ q[x].weight > 0
    BY <1>9 DEF InFull
  <2> HIDE DEF D, S
  <2>2. S \ {x} = D /\ x \in S
    BY <2>1
  <2>3. SumFunctionOnSet(fq, S) = fq[x] + SumFunctionOnSet(fq, D)
    <3>1. \A c \in S : fq[c] \in Int
      BY <1>3
    <3> QED
      BY <1>2, <2>2, <3>1, SumWithout
  <2>4. SumFunctionOnSet(gq, S) = gq[x] + SumFunctionOnSet(gq, D)
    <3>1. \A c \in S : gq[c] \in Int
      BY <1>3
    <3> QED
      BY <1>2, <2>2, <3>1, SumWithout
  <2>5. PICK w \in Nat : w = q[x].weight /\ w > 0
    BY <1>3, <2>1, <2>2
  <2>6. PICK n \in Nat : n = SumFunctionOnSet(fq, D)
    BY <1>7
  <2>7. fq[x] = 10000 * w /\ gq[x] = w
    BY <1>3, <2>1, <2>2, <2>5
  <2>8. TotalWeight(q) = w + TotalWeight(p)
    BY <1>1, <1>5, <2>4, <2>7
  <2>9. Points(q) = 10000 * w + n
    BY <1>1, <2>3, <2>6, <2>7
  <2>10. Points(p) <= n
    BY <1>1, <1>6, <2>6
  <2> QED
    BY <2>5, <2>8, <2>9, <2>10
<1>10. \/ DOMAIN q = DOMAIN p
       \/ \E x : x \notin DOMAIN p /\ DOMAIN q = DOMAIN p \cup {x} /\ InFull(q[x])
  BY DEF Improves
<1>11. S = D \/ \E x : x \notin D /\ S = D \cup {x} /\ InFull(q[x])
  BY <1>10
<1> HIDE DEF D, S
<1> QED
  BY <1>8, <1>9, <1>11

LEMMA MeanBound ==
    ASSUME NEW p, PartsOK(p), NEW z \in Percent PROVE Mean(p, z) \in Percent
<1>1. PICK d \in Nat, n \in Nat : d = TotalWeight(p) /\ n = Points(p) /\ n <= 10000 * d
  BY MeanSums
<1>2. d > 0 => Rounded(n, d) \in Percent
  BY <1>1, RoundedPercent
<1> QED
  BY <1>1, <1>2 DEF Mean

LEMMA MeanGrows ==
    ASSUME NEW p, NEW q, PartsOK(p), PartsOK(q), Improves(p, q), NEW z \in Percent
    PROVE  Mean(p, z) <= Mean(q, z)
<1>1. PICK d \in Nat, m \in Nat : d = TotalWeight(p) /\ m = Points(p) /\ m <= 10000 * d
  BY MeanSums
<1>2. PICK e \in Nat, n \in Nat : e = TotalWeight(q) /\ n = Points(q) /\ n <= 10000 * e
  BY MeanSums
<1>3. \/ e = d /\ m <= n
      \/ \E w \in Nat, k \in Nat : w > 0 /\ e = w + d /\ n = 10000 * w + k /\ m <= k
  BY <1>1, <1>2, SumsCompared
<1>4. z \in Nat /\ z <= 10000 /\ \A x \in Percent : x \in Nat
  BY FullIsPercent
<1>5. CASE e = d /\ m <= n
  <2>1. CASE d > 0
    <3>1. Rounded(m, d) <= Rounded(n, d)
      BY <1>5, <2>1, SameDivisor
    <3> QED
      BY <1>1, <1>2, <1>5, <2>1, <3>1 DEF Mean
  <2>2. CASE ~(d > 0)
    BY <1>1, <1>2, <1>4, <1>5, <2>2 DEF Mean
  <2> QED
    BY <2>1, <2>2
<1>6. CASE \E w \in Nat, k \in Nat : w > 0 /\ e = w + d /\ n = 10000 * w + k /\ m <= k
  <2>1. PICK w \in Nat, k \in Nat : w > 0 /\ e = w + d /\ n = 10000 * w + k /\ m <= k
    BY <1>6
  <2>2. e > 0
    BY <2>1
  <2>3. Mean(q, z) = Rounded(n, e)
    BY <1>2, <2>2 DEF Mean
  <2>4. CASE d > 0
    <3>1. m * e <= n * d
      <4>1. m * e = m * w + m * d /\ n * d = 10000 * w * d + k * d
        BY <2>1
      <4>2. PICK x \in Nat : x = 10000
        OBVIOUS
      <4>3. (x * d - m) * w \in Nat /\ (k - m) * d \in Nat
        <5>1. x * d - m \in Nat
          BY <1>1, <4>2
        <5>2. k - m \in Nat
          BY <2>1
        <5>3. \A a, b \in Nat : a * b \in Nat
          OBVIOUS
        <5> QED
          BY <5>1, <5>2, <5>3
      <4>4. (x * d - m) * w = x * w * d - m * w /\ (k - m) * d = k * d - m * d
        OBVIOUS
      <4>5. m * w \in Nat /\ m * d \in Nat /\ k * d \in Nat /\ x * w * d \in Nat
        OBVIOUS
      <4>6. m * w <= x * w * d /\ m * d <= k * d
        BY <4>3, <4>4, <4>5
      <4>7. m * w + m * d <= x * w * d + k * d
        BY <4>5, <4>6
      <4> QED
        BY <4>1, <4>2, <4>7
    <3>2. Rounded(m, d) <= Rounded(n, e)
      BY <2>2, <2>4, <3>1, RoundedGrows
    <3> QED
      BY <1>1, <2>3, <2>4, <3>2 DEF Mean
  <2>5. CASE ~(d > 0)
    <3>1. d = 0 /\ e = w
      BY <2>1, <2>5
    <3>2. PICK x \in Nat : x = 10000
      OBVIOUS
    <3>3. x * e <= n * 1
      BY <2>1, <3>1, <3>2
    <3>4. Rounded(x, 1) <= Rounded(n, e)
      BY <2>2, <3>3, RoundedGrows
    <3>5. Rounded(x, 1) = x
      BY DEF Rounded
    <3>6. Mean(p, z) = z
      BY <1>1, <2>5 DEF Mean
    <3>7. Rounded(n, e) \in Percent
      BY <1>2, <2>2, RoundedPercent
    <3>8. PICK y \in Nat : y = Rounded(n, e) /\ x <= y
      <4>1. PICK y \in Percent : y = Rounded(n, e)
        BY <3>7
      <4>2. x <= y
        BY <3>4, <3>5, <4>1
      <4>3. y \in Nat
        BY FullIsPercent
      <4> QED
        BY <4>1, <4>2, <4>3
    <3>9. z <= y
      BY <1>4, <3>2, <3>8
    <3> QED
      BY <2>3, <3>6, <3>8, <3>9
  <2> QED
    BY <2>4, <2>5
<1> QED
  BY <1>3, <1>5, <1>6

-----------------------------------------------------------------------------
(* The blend of the four components.                                            *)

Names == {"skills", "functional", "experience", "education"}

All(skill, e, d, f) ==
    [skills |-> [applicable |-> skill # None, score |-> skill],
     functional |-> f, experience |-> e, education |-> d]

LEMMA BlendIsMean ==
    ASSUME NEW j, NEW skill, NEW e, NEW d, NEW f
    PROVE  Blend(j, skill, e, d, f) = Mean(Components(j, skill, e, d, f), IF skill = None THEN 10000 ELSE skill)
BY DEF Blend, Mean, TotalWeight, Points

\* The components that count, and what each has.
PartsOf(p, all, j) ==
    /\ DOMAIN p = {c \in Names : all[c].applicable}
    /\ \A c \in DOMAIN p : /\ p[c].score = all[c].score
                           /\ p[c].weight = IF c = "skills" THEN j.wSkills ELSE 15

LEMMA ComponentParts ==
    ASSUME NEW j, NEW skill, NEW e, NEW d, NEW f
    PROVE  PartsOf(Components(j, skill, e, d, f), All(skill, e, d, f), j)
<1> DEFINE all == All(skill, e, d, f)
<1>1. DOMAIN all = Names
  BY DEF All, Names
<1>2. Components(j, skill, e, d, f) =
        [c \in {n \in DOMAIN all : all[n].applicable} |->
            [score |-> all[c].score, weight |-> IF c = "skills" THEN j.wSkills ELSE 15]]
  BY DEF Components, All
<1>3. PICK p, a : p = Components(j, skill, e, d, f) /\ a = all
  OBVIOUS
<1> HIDE DEF all
<1>4. p = [c \in {n \in Names : a[n].applicable} |->
            [score |-> a[c].score, weight |-> IF c = "skills" THEN j.wSkills ELSE 15]]
  BY <1>1, <1>2, <1>3
<1>5. PartsOf(p, a, j)
  BY <1>4 DEF PartsOf
<1> QED
  BY <1>3, <1>5 DEF all

\* What the components are read from: the skills' score, if there is one, and three results.
Readings(skill, e, d, f) ==
    /\ skill \in Percent \cup {None}
    /\ ResultWell(e) /\ ResultWell(d) /\ ResultWell(f)

LEMMA AllOfThem ==
    ASSUME NEW skill, NEW e, NEW d, NEW f
    PROVE  LET all == All(skill, e, d, f)
           IN  /\ all["functional"] = f /\ all["experience"] = e /\ all["education"] = d
               /\ (all["skills"].applicable <=> skill # None) /\ all["skills"].score = skill
BY DEF All

LEMMA PartsWell ==
    ASSUME NEW j, JdOK(j), NEW skill, NEW e, NEW d, NEW f, Readings(skill, e, d, f)
    PROVE  PartsOK(Components(j, skill, e, d, f))
<1>0. PICK p, all : p = Components(j, skill, e, d, f) /\ all = All(skill, e, d, f)
  OBVIOUS
<1>1. PartsOf(p, all, j)
  BY <1>0, ComponentParts
<1>2. /\ DOMAIN p = {c \in Names : all[c].applicable}
      /\ \A c \in DOMAIN p : p[c].score = all[c].score /\ p[c].weight = IF c = "skills" THEN j.wSkills ELSE 15
  BY <1>1 DEF PartsOf
<1>3. \A c \in Names : all[c].applicable => all[c].score \in Percent
  <2>1. /\ all["functional"] = f /\ all["experience"] = e /\ all["education"] = d
        /\ (all["skills"].applicable <=> skill # None) /\ all["skills"].score = skill
    BY <1>0, AllOfThem
  <2>2. all["skills"].applicable => all["skills"].score \in Percent
    BY <2>1 DEF Readings
  <2>3. /\ all["functional"].applicable => all["functional"].score \in Percent
        /\ all["experience"].applicable => all["experience"].score \in Percent
        /\ all["education"].applicable => all["education"].score \in Percent
    BY <2>1 DEF Readings, ResultWell
  <2> QED
    BY <2>2, <2>3 DEF Names
<1>4. j.wSkills \in Nat
  BY DEF JdOK
<1>5. IsFiniteSet(Names)
  <2>1. IsFiniteSet({"skills", "functional"} \cup {"experience", "education"})
    <3>1. IsFiniteSet({"skills", "functional"})
      <4>1. IsFiniteSet({"skills"}) /\ IsFiniteSet({"functional"})
        BY FS_Singleton
      <4>2. {"skills", "functional"} = {"skills"} \cup {"functional"}
        OBVIOUS
      <4> QED
        BY <4>1, <4>2, FS_Union
    <3>2. IsFiniteSet({"experience", "education"})
      <4>1. IsFiniteSet({"experience"}) /\ IsFiniteSet({"education"})
        BY FS_Singleton
      <4>2. {"experience", "education"} = {"experience"} \cup {"education"}
        OBVIOUS
      <4> QED
        BY <4>1, <4>2, FS_Union
    <3> QED
      BY <3>1, <3>2, FS_Union
  <2>2. Names = {"skills", "functional"} \cup {"experience", "education"}
    BY DEF Names
  <2> QED
    BY <2>1, <2>2
<1>6. IsFiniteSet(DOMAIN p)
  <2>1. DOMAIN p \subseteq Names
    BY <1>2
  <2> QED
    BY <1>5, <2>1, FS_Subset
<1>7. \A c \in DOMAIN p : p[c].score \in Percent /\ p[c].weight \in Nat
  BY <1>2, <1>3, <1>4
<1>8. PartsOK(p)
  BY <1>6, <1>7 DEF PartsOK
<1> QED
  BY <1>0, <1>8

LEMMA BlendBound ==
    ASSUME NEW j, JdOK(j), NEW skill, NEW e, NEW d, NEW f, Readings(skill, e, d, f)
    PROVE  Blend(j, skill, e, d, f) \in Percent
<1>1. (IF skill = None THEN 10000 ELSE skill) \in Percent
  BY FullIsPercent DEF Readings
<1>2. PICK z \in Percent : z = IF skill = None THEN 10000 ELSE skill
  BY <1>1
<1>3. PICK p : p = Components(j, skill, e, d, f)
  OBVIOUS
<1>4. PartsOK(p)
  BY <1>3, PartsWell
<1>5. Mean(p, z) \in Percent
  BY <1>4, MeanBound
<1> QED
  BY <1>2, <1>3, <1>5, BlendIsMean

\* Only education comes to count with what a resume gains, and then in full.
LEMMA BlendGrows ==
    ASSUME NEW j, JdOK(j), NEW skill, NEW e, NEW d, NEW f, Readings(skill, e, d, f),
           NEW e2, NEW d2, NEW f2, Readings(skill, e2, d2, f2),
           Better(e, e2), Better(d, d2), Better(f, f2),
           e2.applicable = e.applicable, f2.applicable = f.applicable
    PROVE  Blend(j, skill, e, d, f) <= Blend(j, skill, e2, d2, f2)
<1>1. (IF skill = None THEN 10000 ELSE skill) \in Percent
  BY FullIsPercent DEF Readings
<1>2. PICK z \in Percent : z = IF skill = None THEN 10000 ELSE skill
  BY <1>1
<1>3. PICK p, q : p = Components(j, skill, e, d, f) /\ q = Components(j, skill, e2, d2, f2)
  OBVIOUS
<1>4. PartsOK(p) /\ PartsOK(q)
  BY <1>3, PartsWell
<1>5. PICK a, b : a = All(skill, e, d, f) /\ b = All(skill, e2, d2, f2)
  OBVIOUS
<1>6. /\ DOMAIN p = {c \in Names : a[c].applicable} /\ DOMAIN q = {c \in Names : b[c].applicable}
      /\ \A c \in DOMAIN p : p[c].score = a[c].score /\ p[c].weight = IF c = "skills" THEN j.wSkills ELSE 15
      /\ \A c \in DOMAIN q : q[c].score = b[c].score /\ q[c].weight = IF c = "skills" THEN j.wSkills ELSE 15
  <2>1. PartsOf(p, a, j) /\ PartsOf(q, b, j)
    BY <1>3, <1>5, ComponentParts
  <2> QED
    BY <2>1 DEF PartsOf
<1>7. /\ a["functional"] = f /\ a["experience"] = e /\ a["education"] = d
      /\ (a["skills"].applicable <=> skill # None) /\ a["skills"].score = skill
      /\ b["functional"] = f2 /\ b["experience"] = e2 /\ b["education"] = d2
      /\ (b["skills"].applicable <=> skill # None) /\ b["skills"].score = skill
  BY <1>5, AllOfThem
<1>8. /\ \A c \in Names \ {"education"} : a[c].applicable <=> b[c].applicable
      /\ a["education"].applicable => b["education"].applicable
      /\ ~a["education"].applicable /\ b["education"].applicable => b["education"].score = 10000
  <2>1. (e.applicable <=> e2.applicable) /\ (f.applicable <=> f2.applicable)
    OBVIOUS
  <2>2. (d.applicable => d2.applicable) /\ (~d.applicable /\ d2.applicable => d2.score = 10000)
    BY DEF Better
  <2> QED
    BY <1>7, <2>1, <2>2 DEF Names
<1>9. \A c \in Names : a[c].applicable => a[c].score <= b[c].score
  <2>1. /\ e.applicable => e.score <= e2.score
        /\ d.applicable => d.score <= d2.score
        /\ f.applicable => f.score <= f2.score
    BY DEF Better
  <2>2. skill # None => skill <= skill
    BY FullIsPercent DEF Readings
  <2> QED
    BY <1>7, <2>1, <2>2 DEF Names
<1>10. DOMAIN p \subseteq DOMAIN q /\ DOMAIN q \subseteq DOMAIN p \cup {"education"}
  BY <1>6, <1>8 DEF Names
<1>11. \A c \in DOMAIN p : q[c].weight = p[c].weight /\ p[c].score <= q[c].score
  BY <1>6, <1>9, <1>10
<1>12. \/ DOMAIN q = DOMAIN p
       \/ \E x : x \notin DOMAIN p /\ DOMAIN q = DOMAIN p \cup {x} /\ InFull(q[x])
  <2>0. "education" \in DOMAIN q \ DOMAIN p \/ "education" \notin DOMAIN q \ DOMAIN p
    OBVIOUS
  <2>1. CASE "education" \in DOMAIN q \ DOMAIN p
    <3>1. DOMAIN q = DOMAIN p \cup {"education"}
      BY <1>10, <2>1
    <3>2. ~a["education"].applicable /\ b["education"].applicable
      BY <1>6, <2>1
    <3>3. q["education"].score = 10000
      BY <1>6, <1>8, <2>1, <3>2
    <3>4. q["education"].weight = 15
      BY <1>6, <2>1
    <3>5. InFull(q["education"])
      BY <3>3, <3>4 DEF InFull
    <3> QED
      BY <2>1, <3>1, <3>5
  <2>2. CASE "education" \notin DOMAIN q \ DOMAIN p
    BY <1>10, <2>2
  <2> QED
    BY <2>1, <2>2
<1>13. Improves(p, q)
  <2>1. \A c \in DOMAIN p : q[c].weight = p[c].weight /\ p[c].score <= q[c].score
    BY <1>11
  <2> QED
    BY <1>12, <2>1 DEF Improves
<1>14. Mean(p, z) <= Mean(q, z)
  BY <1>4, <1>13, MeanGrows
<1> QED
  BY <1>2, <1>3, <1>14, BlendIsMean

-----------------------------------------------------------------------------
(* The breakdown of a resume that shows more.                                   *)

LEMMA SkillsAlone ==
    ASSUME NEW j, NEW r, NEW q, q.skills = r.skills
    PROVE  Mandatory(j, q) = Mandatory(j, r) /\ PreferredSkills(j, q) = PreferredSkills(j, r)
<1>0. Held(q) = Held(r)
  BY DEF Held
<1>1. ASSUME NEW S PROVE Best(q, S) = Best(r, S)
  BY <1>0 DEF Best
<1>2. ASSUME NEW s PROVE Nearest(q, s) = Nearest(r, s)
  BY <1>0 DEF Nearest
<1>3. ASSUME NEW s, NEW a PROVE Tier(q, s, a) = Tier(r, s, a)
  BY <1>2 DEF Tier
<1>4. ASSUME NEW s, NEW a PROVE Match(q, s, a) = Match(r, s, a)
  BY <1>0, <1>1, <1>3 DEF Match
<1>5. ASSUME NEW s PROVE Entry(j, q, s) = Entry(j, r, s)
  BY <1>4 DEF Entry
<1>6. ASSUME NEW s PROVE PreferredEntry(j, q, s) = PreferredEntry(j, r, s)
  BY <1>1 DEF PreferredEntry
<1> QED
  BY <1>5, <1>6 DEF Mandatory, PreferredSkills

LEMMA ScoreFields ==
    ASSUME NEW j, NEW r
    PROVE  LET m == Mandatory(j, r)
           IN  /\ Score(j, r).score = Blend(j, Technical(j, m, PreferredSkills(j, r)),
                                            Experience(j, r), Education(j, r), Domain(j, r))
               /\ Score(j, r).passed =
                     (/\ CoreCoverage(m) >= j.coverage /\ MissingCore(m) <= j.maxMissing
                      /\ Experience(j, r).passed /\ Education(j, r).passed
                      /\ Score(j, r).score >= j.threshold)
BY DEF Score

LEMMA ScoreGrows ==
    ASSUME NEW j, JdOK(j), NEW r, NEW q, ResumeWell(j, r), ResumeWell(j, q), Grows(j, r, q)
    PROVE  /\ Score(j, r).score \in Percent /\ Score(j, q).score \in Percent
           /\ Score(j, r).score <= Score(j, q).score
           /\ Score(j, r).passed => Score(j, q).passed
<1>1. PICK m, p : m = Mandatory(j, r) /\ p = PreferredSkills(j, r)
  OBVIOUS
<1>2. Mandatory(j, q) = m /\ PreferredSkills(j, q) = p
  BY <1>1, SkillsAlone DEF Grows
<1>3. PICK skill : skill = Technical(j, m, p)
  OBVIOUS
<1>4. skill \in Percent \cup {None}
  BY <1>1, <1>3, TechnicalBound
<1>5. PICK e, d, f : e = Experience(j, r) /\ d = Education(j, r) /\ f = Domain(j, r)
  OBVIOUS
<1>6. PICK e2, d2, f2 : e2 = Experience(j, q) /\ d2 = Education(j, q) /\ f2 = Domain(j, q)
  OBVIOUS
<1>7. Better(e, e2) /\ Better(d, d2) /\ Better(f, f2) /\ e2.applicable = e.applicable /\ f2.applicable = f.applicable
  BY <1>5, <1>6, ExperienceGrows, EducationGrows, DomainGrows
<1>8. Readings(skill, e, d, f) /\ Readings(skill, e2, d2, f2)
  BY <1>4, <1>5, <1>6, ExperienceGrows, EducationWell, DomainGrows DEF Readings
<1>9. PICK b, c : b = Blend(j, skill, e, d, f) /\ c = Blend(j, skill, e2, d2, f2)
  OBVIOUS
<1>10. b \in Percent /\ c \in Percent /\ b <= c
  BY <1>7, <1>8, <1>9, BlendBound, BlendGrows
<1>11. Score(j, r).score = b /\ Score(j, q).score = c
  BY <1>1, <1>2, <1>3, <1>5, <1>6, <1>9, ScoreFields
<1>12. /\ Score(j, r).passed = (/\ CoreCoverage(m) >= j.coverage /\ MissingCore(m) <= j.maxMissing
                                 /\ e.passed /\ d.passed /\ b >= j.threshold)
       /\ Score(j, q).passed = (/\ CoreCoverage(m) >= j.coverage /\ MissingCore(m) <= j.maxMissing
                                 /\ e2.passed /\ d2.passed /\ c >= j.threshold)
  BY <1>1, <1>2, <1>5, <1>6, <1>11, ScoreFields
<1>13. b >= j.threshold => c >= j.threshold
  <2>1. b \in Nat /\ c \in Nat
    BY <1>10, FullIsPercent
  <2>2. j.threshold \in Nat
    <3>1. j.threshold \in Percent
      BY DEF JdOK
    <3> QED
      BY <3>1, FullIsPercent
  <2> QED
    BY <1>10, <2>1, <2>2
<1>14. (e.passed => e2.passed) /\ (d.passed => d2.passed)
  BY <1>7 DEF Better
<1>15. Score(j, r).passed => Score(j, q).passed
  BY <1>12, <1>13, <1>14
<1> QED
  BY <1>10, <1>11, <1>15

-----------------------------------------------------------------------------

RulesInv == jd \in Jds /\ ResumeWell(jd, resume) /\ outcome = Score(jd, resume)

\* What the property asks of a step before it speaks of it.
Alike ==
    /\ resume'.skills = resume.skills
    /\ resume'.years # resume.years => resume.years # None
    /\ resume'.degrees # resume.degrees => Ranked(resume) # {}
    /\ resume'.evidence # resume.evidence => resume.evidence # None

LEMMA ResumeChanged ==
    ASSUME NEW r, DOMAIN r = {"skills", "years", "degrees", "evidence"}, NEW v
    PROVE  /\ LET q == [r EXCEPT !.skills = v] IN DOMAIN q = DOMAIN r
                 /\ q.skills = v /\ q.years = r.years /\ q.degrees = r.degrees /\ q.evidence = r.evidence
           /\ LET q == [r EXCEPT !.years = v] IN DOMAIN q = DOMAIN r
                 /\ q.skills = r.skills /\ q.years = v /\ q.degrees = r.degrees /\ q.evidence = r.evidence
           /\ LET q == [r EXCEPT !.degrees = v] IN DOMAIN q = DOMAIN r
                 /\ q.skills = r.skills /\ q.years = r.years /\ q.degrees = v /\ q.evidence = r.evidence
           /\ LET q == [r EXCEPT !.evidence = v] IN DOMAIN q = DOMAIN r
                 /\ q.skills = r.skills /\ q.years = r.years /\ q.degrees = r.degrees /\ q.evidence = v
OBVIOUS

LEMMA GainStep ==
    ASSUME RulesInv, RulesNext
    PROVE  jd' = jd /\ ResumeWell(jd, resume') /\ outcome' = Score(jd, resume') /\ (Alike => Grows(jd, resume, resume'))
<1>0. JdOK(jd) /\ None \notin [jd.capabilities -> 0..100]
  BY RulesAssumption DEF RulesInv
<1>1. /\ DOMAIN resume = {"skills", "years", "degrees", "evidence"}
      /\ \A s \in DOMAIN resume.skills : s \in Skills /\ resume.skills[s] \in Grades
      /\ resume.years \in Years \cup {None} /\ resume.degrees \subseteq Ranks
      /\ resume.evidence = None \/ \A c \in jd.capabilities : resume.evidence[c] \in 0..100
  BY DEF RulesInv, ResumeWell
<1>2. CASE GainSkill
  <2>1. PICK s \in Skills \ Held(resume), g \in Grades :
           Rescored([resume EXCEPT !.skills =
                       [x \in Held(resume) \cup {s} |-> IF x = s THEN g ELSE @[x]]])
    BY <1>2 DEF GainSkill
  <2> DEFINE f == [x \in Held(resume) \cup {s} |-> IF x = s THEN g ELSE resume.skills[x]]
  <2>2. Rescored([resume EXCEPT !.skills = f])
    BY <2>1
  <2>3. DOMAIN f = Held(resume) \cup {s} /\ \A x \in DOMAIN f : x \in Skills /\ f[x] \in Grades
    BY <1>1 DEF Held
  <2>4. f # resume.skills
    <3>1. s \in DOMAIN f /\ s \notin DOMAIN resume.skills
      BY DEF Held
    <3> HIDE DEF f
    <3> QED
      BY <3>1
  <2> HIDE DEF f
  <2>5. jd' = jd /\ resume' = [resume EXCEPT !.skills = f] /\ outcome' = Score(jd, resume')
    BY <2>2 DEF Rescored
  <2>6. /\ DOMAIN resume' = DOMAIN resume /\ resume'.skills = f /\ resume'.years = resume.years
        /\ resume'.degrees = resume.degrees /\ resume'.evidence = resume.evidence
    BY <1>1, <2>5, ResumeChanged
  <2>7. ResumeWell(jd, resume')
    BY <1>1, <2>3, <2>6 DEF ResumeWell
  <2>8. ~Alike
    BY <2>4, <2>6 DEF Alike
  <2> QED
    BY <2>5, <2>7, <2>8
<1>3. CASE GainYears
  <2>1. PICK y \in IF resume.years = None THEN Years ELSE {y \in Years : y > resume.years} :
           Rescored([resume EXCEPT !.years = y])
    BY <1>3 DEF GainYears
  <2>2. y \in Years /\ (resume.years # None => y > resume.years)
    BY <2>1
  <2>3. jd' = jd /\ resume' = [resume EXCEPT !.years = y] /\ outcome' = Score(jd, resume')
    BY <2>1 DEF Rescored
  <2>4. /\ DOMAIN resume' = DOMAIN resume /\ resume'.skills = resume.skills /\ resume'.years = y
        /\ resume'.degrees = resume.degrees /\ resume'.evidence = resume.evidence
    BY <1>1, <2>3, ResumeChanged
  <2>5. ResumeWell(jd, resume')
    BY <1>1, <2>2, <2>4 DEF ResumeWell
  <2>6. y # None /\ (resume.years # None => resume.years <= y)
    <3>1. y \in Nat /\ (resume.years # None => resume.years \in Nat)
      BY <1>1, <2>2, RulesAssumption
    <3>2. None \notin Nat
      BY RulesAssumption
    <3> QED
      BY <2>2, <3>1, <3>2
  <2>7. Alike => Grows(jd, resume, resume')
    BY <2>4, <2>6 DEF Alike, Grows
  <2> QED
    BY <2>3, <2>5, <2>7
<1>4. CASE GainDegree
  <2>1. PICK d \in Ranks : Rescored([resume EXCEPT !.degrees = resume.degrees \cup {d}])
    BY <1>4 DEF GainDegree
  <2>2. jd' = jd /\ resume' = [resume EXCEPT !.degrees = resume.degrees \cup {d}] /\ outcome' = Score(jd, resume')
    BY <2>1 DEF Rescored
  <2>3. /\ DOMAIN resume' = DOMAIN resume /\ resume'.skills = resume.skills /\ resume'.years = resume.years
        /\ resume'.degrees = resume.degrees \cup {d} /\ resume'.evidence = resume.evidence
    BY <1>1, <2>2, ResumeChanged
  <2>4. ResumeWell(jd, resume')
    BY <1>1, <2>3 DEF ResumeWell
  <2>5. Alike => Grows(jd, resume, resume')
    BY <2>3 DEF Alike, Grows
  <2> QED
    BY <2>2, <2>4, <2>5
<1>5. CASE GainEvidence
  <2> DEFINE old(c) == IF resume.evidence = None THEN 0 ELSE resume.evidence[c]
  <2>1. PICK w \in [jd.capabilities -> Words] :
           Rescored([resume EXCEPT !.evidence = [c \in jd.capabilities |-> Max({old(c), w[c]})]])
    BY <1>5 DEF GainEvidence
  <2> DEFINE new == [c \in jd.capabilities |-> Max({old(c), w[c]})]
  <2>2. jd' = jd /\ resume' = [resume EXCEPT !.evidence = new] /\ outcome' = Score(jd, resume')
    BY <2>1 DEF Rescored
  <2>3. \A a, b \in 0..100 : Max({a, b}) \in 0..100 /\ a <= Max({a, b})
    <3> TAKE a, b \in 0..100
    <3>1. \E m \in {a, b} : \A x \in {a, b} : m >= x
      OBVIOUS
    <3>2. Max({a, b}) \in {a, b} /\ \A x \in {a, b} : Max({a, b}) >= x
      BY <3>1 DEF Max
    <3> QED
      BY <3>2
  <2>4. \A c \in jd.capabilities : old(c) \in 0..100 /\ w[c] \in 0..100
    <3> TAKE c \in jd.capabilities
    <3>1. w[c] \in 0..100
      BY RulesAssumption
    <3>2. old(c) \in 0..100
      BY <1>1
    <3> QED
      BY <3>1, <3>2
  <2>5. \A c \in jd.capabilities : new[c] \in 0..100 /\ old(c) <= new[c]
    BY <2>3, <2>4
  <2>6. new \in [jd.capabilities -> 0..100]
    BY <2>5
  <2>7. new # None
    <3> HIDE DEF new
    <3> QED
      BY <1>0, <2>6
  <2>8. resume.evidence # None => \A c \in jd.capabilities : resume.evidence[c] <= new[c]
    BY <2>5
  <2> HIDE DEF new, old
  <2>9. /\ DOMAIN resume' = DOMAIN resume /\ resume'.skills = resume.skills /\ resume'.years = resume.years
        /\ resume'.degrees = resume.degrees /\ resume'.evidence = new
    BY <1>1, <2>2, ResumeChanged
  <2>10. ResumeWell(jd, resume')
    BY <1>1, <2>5, <2>9 DEF ResumeWell
  <2>11. Alike => Grows(jd, resume, resume')
    BY <2>7, <2>8, <2>9 DEF Alike, Grows
  <2> QED
    BY <2>2, <2>10, <2>11
<1> QED
  BY <1>2, <1>3, <1>4, <1>5 DEF RulesNext

LEMMA RulesInvKept == RulesSpec => []RulesInv
<1>1. RulesInit => RulesInv
  <2> SUFFICES ASSUME RulesInit PROVE RulesInv
    OBVIOUS
  <2>1. jd \in Jds /\ resume = Blank /\ outcome = Score(jd, resume)
    BY DEF RulesInit
  <2>2. ResumeWell(jd, resume)
    BY <2>1 DEF ResumeWell, Blank
  <2> QED
    BY <2>1, <2>2 DEF RulesInv
<1>2. RulesInv /\ [RulesNext]_rulesVars => RulesInv'
  <2> SUFFICES ASSUME RulesInv, [RulesNext]_rulesVars PROVE RulesInv'
    OBVIOUS
  <2>1. CASE RulesNext
    <3>1. jd' = jd /\ ResumeWell(jd, resume') /\ outcome' = Score(jd, resume')
      BY <2>1, GainStep
    <3>2. jd' \in Jds /\ ResumeWell(jd', resume') /\ outcome' = Score(jd', resume')
      BY <3>1 DEF RulesInv
    <3> QED
      BY <3>2 DEF RulesInv
  <2>2. CASE UNCHANGED rulesVars
    BY <2>2 DEF RulesInv, rulesVars
  <2> QED
    BY <2>1, <2>2
<1> QED
  BY <1>1, <1>2, PTL DEF RulesSpec

\* What the deterministic layer gives a resume for: no weight, tier, threshold, requirement or
\* tolerance of any JD makes more years, another degree or a better sentence cost a candidate
\* points, or a pass (validate_experience, validate_education, _combine_deterministic_score).
THEOREM GainsNeverFail == RulesSpec => GainNeverFails
<1> DEFINE Step == Alike => outcome'.score >= outcome.score /\ (outcome.passed => outcome'.passed)
<1>1. RulesInv /\ RulesNext => Step
  <2> SUFFICES ASSUME RulesInv, RulesNext, Alike
               PROVE  outcome'.score >= outcome.score /\ (outcome.passed => outcome'.passed)
    OBVIOUS
  <2>1. JdOK(jd) /\ ResumeWell(jd, resume) /\ outcome = Score(jd, resume)
    BY RulesAssumption DEF RulesInv
  <2>2. ResumeWell(jd, resume') /\ outcome' = Score(jd, resume') /\ Grows(jd, resume, resume')
    BY GainStep
  <2>3. PICK r, q : r = resume /\ q = resume'
    OBVIOUS
  <2>4. /\ Score(jd, r).score \in Percent /\ Score(jd, q).score \in Percent
        /\ Score(jd, r).score <= Score(jd, q).score
        /\ Score(jd, r).passed => Score(jd, q).passed
    <3>1. ResumeWell(jd, r) /\ ResumeWell(jd, q) /\ Grows(jd, r, q)
      BY <2>1, <2>2, <2>3
    <3> QED
      BY <2>1, <3>1, ScoreGrows
  <2>5. \A x, y \in Percent : x <= y => y >= x
    BY DEF Percent
  <2> QED
    BY <2>1, <2>2, <2>3, <2>4, <2>5
<1>2. RulesInv /\ [RulesNext]_rulesVars => [Step]_rulesVars
  BY <1>1
<1>3. [][Step]_rulesVars => GainNeverFails
  BY PTL DEF GainNeverFails, Alike
<1> QED
  BY <1>2, <1>3, RulesInvKept, PTL DEF RulesSpec

LEMMA CoverageIsPercent ==
    ASSUME NEW j, JdOK(j), NEW r PROVE CoreCoverage(Mandatory(j, r)) \in Percent
<1>1. PICK m : m = Mandatory(j, r)
  OBVIOUS
<1>2. DOMAIN m = DOMAIN j.required
  BY <1>1 DEF Mandatory
<1>3. IsFiniteSet(DOMAIN m)
  <2>1. DOMAIN j.required \subseteq Skills
    BY DEF JdOK
  <2> QED
    BY <1>2, <2>1, RulesAssumption, FS_Subset
<1>4. GateSkills(m) \subseteq DOMAIN m
  BY DEF GateSkills
<1>5. PICK gate, met : gate = GateSkills(m) /\ met = gate \cap Covered(m)
  OBVIOUS
<1>6. IsFiniteSet(gate) /\ IsFiniteSet(met) /\ met \subseteq gate
  BY <1>3, <1>4, <1>5, FS_Subset
<1>7. PICK d \in Nat, n \in Nat : d = Cardinality(gate) /\ n = Cardinality(met)
  BY <1>6, FS_CardinalityType
<1>8. n <= d
  BY <1>6, <1>7, FS_Subset
<1>9. CASE gate = {}
  <2>1. CoreCoverage(m) = 10000
    BY <1>5, <1>9 DEF CoreCoverage
  <2> QED
    BY <1>1, <2>1, FullIsPercent
<1>10. CASE gate # {}
  <2>1. d > 0
    BY <1>6, <1>7, <1>10, FS_EmptySet
  <2>2. PICK x \in Nat : x = 10000 * n
    OBVIOUS
  <2>3. x <= 10000 * d
    BY <1>8, <2>2
  <2>4. Rounded(x, d) \in Percent
    BY <2>1, <2>3, RoundedPercent
  <2>5. CoreCoverage(m) = Rounded(10000 * n, d)
    BY <1>5, <1>7, <1>10 DEF CoreCoverage
  <2> QED
    BY <1>1, <2>2, <2>4, <2>5
<1> QED
  BY <1>9, <1>10

\* Every score and coverage the deterministic layer stores is a percentage: no contribution of a
\* skill or a capability exceeds the maximum it is divided by, whatever the weights, the importance
\* multipliers and the tiers (compute_technical_score, _combine_deterministic_score).
THEOREM ScoresArePercentages == RulesSpec => []RulesTypeOK
<1>1. RulesInv => RulesTypeOK
  <2> SUFFICES ASSUME RulesInv PROVE RulesTypeOK
    OBVIOUS
  <2>1. jd \in Jds /\ JdOK(jd) /\ ResumeWell(jd, resume) /\ outcome = Score(jd, resume)
    BY RulesAssumption DEF RulesInv
  <2>2. PICK m, b : /\ m = Mandatory(jd, resume)
                    /\ b = Blend(jd, Technical(jd, m, PreferredSkills(jd, resume)),
                                  Experience(jd, resume), Education(jd, resume), Domain(jd, resume))
    OBVIOUS
  <2>3. outcome.score = b
    BY <2>1, <2>2, ScoreFields
  <2>4. b \in Percent
    <3>1. Technical(jd, m, PreferredSkills(jd, resume)) \in Percent \cup {None}
      BY <2>1, <2>2, TechnicalBound
    <3>2. /\ ResultWell(Experience(jd, resume)) /\ ResultWell(Education(jd, resume))
          /\ ResultWell(Domain(jd, resume))
      BY <2>1, ExperienceGrows, EducationWell, DomainGrows
    <3>3. Readings(Technical(jd, m, PreferredSkills(jd, resume)),
                   Experience(jd, resume), Education(jd, resume), Domain(jd, resume))
      BY <3>1, <3>2 DEF Readings
    <3> QED
      BY <2>1, <2>2, <3>3, BlendBound
  <2>5. outcome.coverage = CoreCoverage(m)
    BY <2>1, <2>2 DEF Score
  <2>6. outcome.coverage \in Percent
    BY <2>1, <2>2, <2>5, CoverageIsPercent
  <2>7. outcome.passed \in BOOLEAN
    BY <2>1, ScoreFields
  <2>8. ResumeOK
    BY <2>1 DEF ResumeOK, ResumeWell, Held
  <2> QED
    BY <2>1, <2>3, <2>4, <2>6, <2>7, <2>8 DEF RulesTypeOK
<1> QED
  BY <1>1, RulesInvKept, PTL

-----------------------------------------------------------------------------
(* Counting.                                                                    *)

\* Those that g sends into U.
Class(S, g, U) == {x \in S : g[x] \in U}

\* What is counted group by group is counted once.
LEMMA GroupsAddUp ==
    ASSUME NEW S, IsFiniteSet(S), NEW g, NEW V, IsFiniteSet(V), NEW n,
           \A v \in V : n[v] = Cardinality(Class(S, g, {v}))
    PROVE  SumFunctionOnSet(n, V) = Cardinality(Class(S, g, V))
<1> DEFINE In(U) == Class(S, g, U)
           G == {U \in SUBSET V : SumFunctionOnSet(n, U) = Cardinality(In(U))}
<1>0. \A v \in V : n[v] \in Int
  <2> TAKE v \in V
  <2>1. IsFiniteSet(Class(S, g, {v}))
    BY FS_Subset DEF Class
  <2>2. Cardinality(Class(S, g, {v})) \in Nat
    BY <2>1, FS_CardinalityType
  <2> QED
    BY <2>2
<1>1. {} \in G
  <2>1. SumFunctionOnSet(n, {}) = 0
    BY <1>0, SumOfOneMore
  <2>2. In({}) = {}
    BY DEF Class
  <2> QED
    BY <2>1, <2>2, FS_EmptySet
<1>2. ASSUME NEW U \in SUBSET V, U # {}, \A x \in U : U \ {x} \in G PROVE U \in G
  <2>1. PICK v \in U : TRUE
    BY <1>2
  <2>2. SumFunctionOnSet(n, U) = n[v] + SumFunctionOnSet(n, U \ {v})
    <3>1. IsFiniteSet(U) /\ \A x \in U : n[x] \in Int
      BY <1>0, FS_Subset
    <3> QED
      BY <3>1, SumWithout
  <2>3. SumFunctionOnSet(n, U \ {v}) = Cardinality(In(U \ {v}))
    BY <1>2
  <2>4. n[v] = Cardinality(In({v}))
    OBVIOUS
  <2>5. In(U) = In({v}) \cup In(U \ {v}) /\ In({v}) \cap In(U \ {v}) = {}
    BY DEF Class
  <2>6. IsFiniteSet(In({v})) /\ IsFiniteSet(In(U \ {v}))
    BY FS_Subset DEF Class
  <2> HIDE DEF In
  <2>7. Cardinality(In(U)) = Cardinality(In({v})) + Cardinality(In(U \ {v})) - Cardinality({})
    <3> DEFINE A == In({v})
               B == In(U \ {v})
    <3>1. IsFiniteSet(A) /\ IsFiniteSet(B) /\ In(U) = A \cup B /\ A \cap B = {}
      BY <2>5, <2>6
    <3> HIDE DEF A, B
    <3>2. Cardinality(A \cup B) = Cardinality(A) + Cardinality(B) - Cardinality(A \cap B)
      BY <3>1, FS_Union
    <3>3. Cardinality(In(U)) = Cardinality(A) + Cardinality(B) - Cardinality({})
      BY <3>1, <3>2
    <3> QED
      BY <3>3 DEF A, B
  <2>8. Cardinality(In({v})) \in Int /\ Cardinality(In(U \ {v})) \in Int /\ Cardinality({}) = 0
    BY <2>6, FS_CardinalityType, FS_EmptySet
  <2>9. SumFunctionOnSet(n, U) = Cardinality(In(U))
    BY <2>2, <2>3, <2>4, <2>7, <2>8
  <2> QED
    BY <2>9
<1>3. V \in G
  <2>1. G \in SUBSET SUBSET V
    OBVIOUS
  <2> HIDE DEF G
  <2> QED
    BY <1>1, <1>2, <2>1, ByRemoval
<1> QED
  BY <1>3

\* Some of the members are at most the sum of what is at least one for each of them.
LEMMA CountAtMostSum ==
    ASSUME NEW S, IsFiniteSet(S), NEW W \in SUBSET S, NEW f,
           \A x \in S : f[x] \in Nat /\ (x \in W => f[x] >= 1)
    PROVE  Cardinality(W) <= SumFunctionOnSet(f, S)
<1> DEFINE G == {U \in SUBSET S : Cardinality(U \cap W) <= SumFunctionOnSet(f, U)}
<1>n. \A x \in S : f[x] \in Int
  OBVIOUS
<1>0. \A U \in SUBSET S : IsFiniteSet(U) /\ SumFunctionOnSet(f, U) \in Int
                          /\ IsFiniteSet(U \cap W) /\ Cardinality(U \cap W) \in Nat
  <2> TAKE U \in SUBSET S
  <2>1. IsFiniteSet(U) /\ \A x \in U : f[x] \in Int
    BY FS_Subset
  <2>2. SumFunctionOnSet(f, U) \in Int
    BY <2>1, SumOfOneMore
  <2>3. IsFiniteSet(U \cap W)
    BY <2>1, FS_Subset
  <2>4. Cardinality(U \cap W) \in Nat
    BY <2>3, FS_CardinalityType
  <2> QED
    BY <2>1, <2>2, <2>3, <2>4
<1>1. {} \in G
  <2>1. SumFunctionOnSet(f, {}) = 0
    BY <1>n, SumOfOneMore
  <2>2. {} \cap W = {}
    OBVIOUS
  <2> QED
    BY <2>1, <2>2, FS_EmptySet
<1>2. ASSUME NEW U \in SUBSET S, U # {}, \A x \in U : U \ {x} \in G PROVE U \in G
  <2>1. PICK v \in U : TRUE
    BY <1>2
  <2>2. SumFunctionOnSet(f, U) = f[v] + SumFunctionOnSet(f, U \ {v})
    <3>1. IsFiniteSet(U) /\ \A x \in U : f[x] \in Int
      BY <1>n, <1>0
    <3> QED
      BY <3>1, SumWithout
  <2> DEFINE A == (U \ {v}) \cap W
  <2>3. Cardinality(A) <= SumFunctionOnSet(f, U \ {v})
    BY <1>2
  <2>4. /\ IsFiniteSet(A) /\ Cardinality(A) \in Nat /\ SumFunctionOnSet(f, U \ {v}) \in Int
        /\ f[v] \in Nat /\ v \notin A
    BY <1>0
  <2>5. v \in W => U \cap W = A \cup {v} /\ f[v] >= 1
    OBVIOUS
  <2>6. v \notin W => U \cap W = A
    OBVIOUS
  <2> HIDE DEF A
  <2>7. Cardinality(A \cup {v}) = Cardinality(A) + 1
    BY <2>4, FS_AddElement
  <2>8. Cardinality(U \cap W) <= SumFunctionOnSet(f, U)
    BY <2>2, <2>3, <2>4, <2>5, <2>6, <2>7
  <2> QED
    BY <2>8
<1>3. S \in G
  <2>1. G \in SUBSET SUBSET S
    OBVIOUS
  <2> HIDE DEF G
  <2> QED
    BY <1>1, <1>2, <2>1, ByRemoval
<1>4. S \cap W = W
  OBVIOUS
<1> QED
  BY <1>3, <1>4

-----------------------------------------------------------------------------
(* The rows the figures are counted over.                                       *)

StageNames == Table!Stages
Before == Table!Stages \cup {Table!None}
CandRows == [stage : StageNames, prev : Before, touched : Nat \cup {NoValue}, since : Nat,
             added : Nat, rejections : Nat, out : BOOLEAN]
TaskStatus == {"QUEUED", "RUNNING", "RETRY", "SUCCESS", "DEAD", "PAUSED"}
TaskRows == [cand : Cands, type : Types, status : TaskStatus]
DeadRows == [type : Types, cand : Cands, replayed : BOOLEAN, resolved : BOOLEAN]

FiguresTypeOK ==
    /\ now \in Nat
    /\ cc \in [Cands -> CandRows \cup {Unknown}]
    /\ log \in Seq(TaskRows) /\ dlq \in Seq(DeadRows)
    /\ told \in [CampaignIds -> SUBSET Cands]
    /\ mix \in Mixes

\* Who is rejected at present has been rejected at least once.
RejectedOnce == \A c \in Cands : cc[c] # Unknown /\ cc[c].out => cc[c].rejections >= 1

FiguresInv == FiguresTypeOK /\ RejectedOnce

LEMMA StagesAre ==
    /\ {"UPLOADED", "SCREENING", "REJECTED", "SHORTLISTED"} \subseteq StageNames
    /\ StageNames \subseteq Before /\ Table!None \in Before
BY DEF StageNames, Before, Table!Stages

LEMMA UnknownIsNoRow == Unknown \notin CandRows
<1>1. SUFFICES ASSUME Unknown \in CandRows PROVE FALSE
  OBVIOUS
<1>2. "added" \in DOMAIN Unknown
  BY <1>1 DEF CandRows
<1>3. DOMAIN Unknown = {"stage"}
  BY DEF Unknown
<1> QED
  BY <1>2, <1>3

LEMMA NewIsRow == ASSUME now \in Nat PROVE New \in CandRows /\ ~New.out
<1>1. "UPLOADED" \in StageNames /\ Table!None \in Before
  BY StagesAre
<1> QED
  BY <1>1 DEF New, CandRows

\* A row's fields after it entered a stage, and after a score.
LEMMA EnteredIsRow ==
    ASSUME NEW r \in CandRows, NEW to \in StageNames, now \in Nat
    PROVE  /\ Entered(r, to) \in CandRows
           /\ Entered(r, to).out = r.out /\ Entered(r, to).rejections = r.rejections
<1>1. r.stage \in Before
  BY StagesAre DEF CandRows
<1> QED
  BY <1>1 DEF Entered, CandRows

LEMMA TouchedIsRow ==
    ASSUME NEW r \in CandRows, now \in Nat
    PROVE  /\ [r EXCEPT !.touched = now] \in CandRows
           /\ [r EXCEPT !.touched = now].out = r.out
           /\ [r EXCEPT !.touched = now].rejections = r.rejections
BY DEF CandRows

\* A step that changes one candidate's row, to one that fits.
LEMMA RowChanged ==
    ASSUME FiguresInv, NEW c \in Cands, NEW r \in CandRows, r.out => r.rejections >= 1,
           cc' = [cc EXCEPT ![c] = r]
    PROVE  cc' \in [Cands -> CandRows \cup {Unknown}] /\ RejectedOnce'
<1>1. cc \in [Cands -> CandRows \cup {Unknown}]
  BY DEF FiguresInv, FiguresTypeOK
<1>2. cc' \in [Cands -> CandRows \cup {Unknown}]
  BY <1>1
<1>3. \A d \in Cands : cc'[d] = IF d = c THEN r ELSE cc[d]
  BY <1>1
<1>4. Unknown' = Unknown
  BY DEF Unknown
<1>5. RejectedOnce'
  BY <1>3, <1>4 DEF RejectedOnce, FiguresInv
<1> QED
  BY <1>2, <1>5

LEMMA RowsStay ==
    ASSUME RejectedOnce, UNCHANGED cc PROVE RejectedOnce'
BY DEF RejectedOnce, Unknown

LEMMA PresentRow ==
    ASSUME FiguresInv, NEW c \in Present
    PROVE  c \in Cands /\ cc[c] \in CandRows /\ (cc[c].out => cc[c].rejections >= 1)
BY DEF FiguresInv, FiguresTypeOK, RejectedOnce, Present

LEMMA ScreenedStep == ASSUME FiguresInv, NEW c \in Cands, Screened(c) PROVE FiguresInv'
<1> DEFINE r == IF cc[c].stage = "UPLOADED" THEN Entered(cc[c], "SCREENING") ELSE cc[c]
           scored == [r EXCEPT !.touched = now]
           gone == Entered(scored, "REJECTED")
           rejected == [gone EXCEPT !.rejections = @ + 1, !.out = TRUE]
<1>0. now \in Nat /\ c \in Present
  BY DEF FiguresInv, FiguresTypeOK, Screened
<1>1. cc[c] \in CandRows /\ (cc[c].out => cc[c].rejections >= 1)
  BY <1>0, PresentRow
<1>2. {"UPLOADED", "SCREENING", "REJECTED", "SHORTLISTED"} \subseteq StageNames
  BY StagesAre
<1>3. r \in CandRows /\ r.out = cc[c].out /\ r.rejections = cc[c].rejections
  <2>1. /\ Entered(cc[c], "SCREENING") \in CandRows
        /\ Entered(cc[c], "SCREENING").out = cc[c].out
        /\ Entered(cc[c], "SCREENING").rejections = cc[c].rejections
    BY <1>0, <1>1, <1>2, EnteredIsRow
  <2> QED
    BY <1>1, <2>1
<1>s. cc' \in {[cc EXCEPT ![c] = scored], [cc EXCEPT ![c] = rejected]}
  BY Zenon DEF Screened
<1> HIDE DEF r
<1>4. scored \in CandRows /\ scored.out = r.out /\ scored.rejections = r.rejections
  BY <1>0, <1>3, TouchedIsRow
<1> HIDE DEF scored
<1>5. gone \in CandRows
  BY <1>0, <1>2, <1>4, EnteredIsRow
<1> HIDE DEF gone
<1>6. rejected \in CandRows /\ rejected.out /\ rejected.rejections >= 1
  <2>1. gone.rejections \in Nat /\ DOMAIN gone = {"stage", "prev", "touched", "since", "added", "rejections", "out"}
    BY <1>5 DEF CandRows
  <2>2. rejected.out /\ rejected.rejections = gone.rejections + 1
    BY <2>1
  <2>3. gone.rejections + 1 \in Nat /\ gone.rejections + 1 >= 1
    BY <2>1
  <2>4. rejected \in CandRows
    BY <1>5, <2>3 DEF CandRows
  <2> QED
    BY <2>2, <2>3, <2>4
<1> HIDE DEF rejected
<1>7. cc' \in [Cands -> CandRows \cup {Unknown}] /\ RejectedOnce'
  <2>1. CASE cc' = [cc EXCEPT ![c] = scored]
    BY <1>1, <1>3, <1>4, <2>1, RowChanged
  <2>2. CASE cc' = [cc EXCEPT ![c] = rejected]
    BY <1>6, <2>2, RowChanged
  <2> QED
    BY <1>s, <2>1, <2>2
<1>8. UNCHANGED <<log, dlq, told, now, mix>>
  BY DEF Screened, Writes
<1>9. Unknown' = Unknown
  BY DEF Unknown
<1> QED
  BY <1>7, <1>8, <1>9 DEF FiguresInv, FiguresTypeOK

LEMMA MovedStep == ASSUME FiguresInv, NEW c \in Cands, MovedByHand(c) PROVE FiguresInv'
<1>0. now \in Nat /\ c \in Present
  BY DEF FiguresInv, FiguresTypeOK, MovedByHand
<1>1. cc[c] \in CandRows /\ (cc[c].out => cc[c].rejections >= 1) /\ cc[c].out \in BOOLEAN
  <2>1. cc[c] \in CandRows /\ (cc[c].out => cc[c].rejections >= 1)
    BY <1>0, PresentRow
  <2> QED
    BY <2>1 DEF CandRows
<1>2. PICK to \in Table!Stages, kept \in {cc[c].out, FALSE} :
         cc' = [cc EXCEPT ![c] = [Entered(cc[c], to) EXCEPT !.out = kept]]
  BY DEF MovedByHand
<1> DEFINE e == Entered(cc[c], to)
           r == [e EXCEPT !.out = kept]
<1>3. e \in CandRows /\ e.rejections = cc[c].rejections
  BY <1>0, <1>1, EnteredIsRow DEF StageNames
<1> HIDE DEF e
<1>4. r \in CandRows /\ r.out = kept /\ r.rejections = e.rejections
  BY <1>1, <1>3 DEF CandRows
<1>5. r.out => r.rejections >= 1
  BY <1>1, <1>3, <1>4
<1>6. cc' = [cc EXCEPT ![c] = r]
  BY <1>2 DEF e
<1> HIDE DEF r
<1>7. cc' \in [Cands -> CandRows \cup {Unknown}] /\ RejectedOnce'
  BY <1>4, <1>5, <1>6, RowChanged
<1>8. UNCHANGED <<log, dlq, told, now, mix>>
  BY DEF MovedByHand, Writes
<1>9. Unknown' = Unknown
  BY DEF Unknown
<1> QED
  BY <1>7, <1>8, <1>9 DEF FiguresInv, FiguresTypeOK

LEMMA AddStep == ASSUME FiguresInv, NEW c \in Cands, AddCandidate(c) PROVE FiguresInv'
<1>1. now \in Nat
  BY DEF FiguresInv, FiguresTypeOK
<1>2. New \in CandRows /\ ~New.out
  BY <1>1, NewIsRow
<1>3. cc' = [cc EXCEPT ![c] = New]
  BY DEF AddCandidate
<1>4. cc' \in [Cands -> CandRows \cup {Unknown}] /\ RejectedOnce'
  BY <1>2, <1>3, RowChanged
<1>8. UNCHANGED <<log, dlq, told, now, mix>>
  BY DEF AddCandidate, Writes
<1>9. Unknown' = Unknown
  BY DEF Unknown
<1> QED
  BY <1>4, <1>8, <1>9 DEF FiguresInv, FiguresTypeOK

LEMMA TypesAre == IsFiniteSet(Types) /\ Replayable \subseteq Types
<1>1. IsFiniteSet({"AI_EVALUATE"}) /\ Types = ({"AI_EVALUATE"} \cup {"COMPOSITE_SCORE"}) \cup {"EMBED_RESUME"}
  BY FS_Singleton DEF Types
<1>2. IsFiniteSet({"AI_EVALUATE"} \cup {"COMPOSITE_SCORE"})
  BY <1>1, FS_AddElement
<1>3. IsFiniteSet(Types)
  BY <1>1, <1>2, FS_AddElement
<1>4. Replayable \subseteq Types
  BY DEF Types, Replayable
<1> QED
  BY <1>3, <1>4

LEMMA SequencesOf ==
    ASSUME NEW S, NEW s \in Seq(S), NEW t, DOMAIN t = DOMAIN s, t = [i \in DOMAIN s |-> t[i]],
           \A i \in DOMAIN s : t[i] \in S
    PROVE  t \in Seq(S)
<1>1. DOMAIN s = 1..Len(s) /\ Len(s) \in Nat
  OBVIOUS
<1>2. t \in [1..Len(s) -> S]
  BY <1>1
<1> QED
  BY <1>1, <1>2

LEMMA LogRow ==
    ASSUME FiguresInv, NEW i \in DOMAIN log
    PROVE  /\ log[i] \in TaskRows /\ log[i].cand \in Cands /\ log[i].type \in Types
           /\ \A s \in TaskStatus : [log[i] EXCEPT !.status = s] \in TaskRows
<1>1. log \in Seq(TaskRows)
  BY DEF FiguresInv, FiguresTypeOK
<1>2. log[i] \in TaskRows
  BY <1>1
<1> QED
  BY <1>2 DEF TaskRows

LEMMA DeadRow ==
    ASSUME FiguresInv, NEW i \in DOMAIN dlq
    PROVE  /\ dlq[i] \in DeadRows /\ dlq[i].cand \in Cands /\ dlq[i].type \in Types
           /\ dlq[i].replayed \in BOOLEAN /\ dlq[i].resolved \in BOOLEAN
           /\ [dlq[i] EXCEPT !.resolved = TRUE] \in DeadRows
           /\ [dlq[i] EXCEPT !.replayed = TRUE] \in DeadRows
<1>1. dlq \in Seq(DeadRows)
  BY DEF FiguresInv, FiguresTypeOK
<1>2. dlq[i] \in DeadRows
  BY <1>1
<1> QED
  BY <1>2 DEF DeadRows

\* One row of the log, or of the dead letters, changed.
LEMMA StatusSet ==
    ASSUME FiguresInv, NEW i \in DOMAIN log, NEW s \in TaskStatus
    PROVE  [log EXCEPT ![i].status = s] \in Seq(TaskRows)
<1>1. log \in Seq(TaskRows)
  BY DEF FiguresInv, FiguresTypeOK
<1>2. [log[i] EXCEPT !.status = s] \in TaskRows
  BY LogRow
<1> DEFINE row == [log[i] EXCEPT !.status = s]
<1>3. [log EXCEPT ![i].status = s] = [log EXCEPT ![i] = row]
  OBVIOUS
<1> HIDE DEF row
<1>4. [log EXCEPT ![i] = row] \in Seq(TaskRows)
  BY <1>1, <1>2 DEF row
<1> QED
  BY <1>3, <1>4

LEMMA LogWritten ==
    ASSUME FiguresInv, log' \in Seq(TaskRows), UNCHANGED <<cc, dlq, told, now, mix>>
    PROVE  FiguresInv'
BY RowsStay DEF FiguresInv, FiguresTypeOK, Unknown

LEMMA SubmitStep ==
    ASSUME FiguresInv, NEW c \in Cands, NEW t \in Types, Submit(c, t) PROVE FiguresInv'
<1>1. log \in Seq(TaskRows)
  BY DEF FiguresInv, FiguresTypeOK
<1>2. [cand |-> c, type |-> t, status |-> "QUEUED"] \in TaskRows
  BY DEF TaskRows, TaskStatus
<1>3. log' \in Seq(TaskRows)
  BY <1>1, <1>2 DEF Submit
<1>4. UNCHANGED <<cc, dlq, told, now, mix>>
  BY DEF Submit, Writes
<1> QED
  BY <1>3, <1>4, LogWritten

LEMMA StartTaskStep == ASSUME FiguresInv, NEW i \in DOMAIN log, StartTask(i) PROVE FiguresInv'
<1>1. log' \in Seq(TaskRows)
  BY StatusSet DEF StartTask, TaskStatus
<1>2. UNCHANGED <<cc, dlq, told, now, mix>>
  BY DEF StartTask, Writes
<1> QED
  BY <1>1, <1>2, LogWritten

LEMMA PauseStep == ASSUME FiguresInv, NEW k \in CampaignIds, PauseOrResume(k) PROVE FiguresInv'
<1>1. ASSUME NEW a \in TaskStatus, NEW b \in TaskStatus PROVE Flip(k, a, b) \in Seq(TaskRows)
  <2> DEFINE t == Flip(k, a, b)
  <2>1. DOMAIN t = DOMAIN log /\ t = [i \in DOMAIN log |-> t[i]]
    BY DEF Flip
  <2>2. ASSUME NEW i \in DOMAIN log PROVE t[i] \in TaskRows
    <3>1. log[i] \in TaskRows /\ [log[i] EXCEPT !.status = b] \in TaskRows
      BY LogRow
    <3>2. t[i] \in {log[i], [log[i] EXCEPT !.status = b]}
      BY DEF Flip
    <3> QED
      BY <3>1, <3>2
  <2>3. log \in Seq(TaskRows)
    BY DEF FiguresInv, FiguresTypeOK
  <2> HIDE DEF t
  <2> QED
    BY <2>1, <2>2, <2>3, SequencesOf DEF t
<1>2. Flip(k, "QUEUED", "PAUSED") \in Seq(TaskRows) /\ Flip(k, "PAUSED", "QUEUED") \in Seq(TaskRows)
  BY <1>1 DEF TaskStatus
<1>3. log' \in Seq(TaskRows)
  BY <1>2 DEF PauseOrResume
<1>4. UNCHANGED <<cc, dlq, told, now, mix>>
  BY DEF PauseOrResume, Writes
<1> QED
  BY <1>3, <1>4, LogWritten

LEMMA FailTaskStep == ASSUME FiguresInv, NEW i \in DOMAIN log, FailTask(i) PROVE FiguresInv'
<1>1. log' \in Seq(TaskRows)
  <2>1. [log EXCEPT ![i].status = "RETRY"] \in Seq(TaskRows) /\ [log EXCEPT ![i].status = "DEAD"] \in Seq(TaskRows)
    BY StatusSet DEF TaskStatus
  <2> QED
    BY <2>1 DEF FailTask
<1>2. dlq' \in Seq(DeadRows)
  <2> DEFINE row == [type |-> log[i].type, cand |-> log[i].cand, replayed |-> FALSE, resolved |-> FALSE]
  <2>1. row \in DeadRows /\ dlq \in Seq(DeadRows)
    BY LogRow DEF DeadRows, FiguresInv, FiguresTypeOK
  <2>2. dlq' = dlq \/ dlq' = Append(dlq, row)
    BY DEF FailTask
  <2> HIDE DEF row
  <2> QED
    BY <2>1, <2>2
<1>3. UNCHANGED <<cc, told, now, mix>>
  BY DEF FailTask, Writes
<1> QED
  BY <1>1, <1>2, <1>3, RowsStay DEF FiguresInv, FiguresTypeOK, Unknown

LEMMA ReplayStep ==
    ASSUME FiguresInv, NEW k, NEW i \in DOMAIN dlq, ReplayOne(k, i) PROVE FiguresInv'
<1>1. log \in Seq(TaskRows) /\ dlq \in Seq(DeadRows)
  BY DEF FiguresInv, FiguresTypeOK
<1>2. [cand |-> dlq[i].cand, type |-> dlq[i].type, status |-> "QUEUED"] \in TaskRows
  BY DeadRow DEF TaskRows, TaskStatus
<1>3. log' \in Seq(TaskRows)
  BY <1>1, <1>2 DEF ReplayOne
<1>4. dlq' \in Seq(DeadRows)
  <2> DEFINE row == [dlq[i] EXCEPT !.replayed = TRUE]
  <2>1. row \in DeadRows
    BY DeadRow
  <2>2. dlq' = [dlq EXCEPT ![i] = row]
    BY DEF ReplayOne
  <2> HIDE DEF row
  <2> QED
    BY <1>1, <2>1, <2>2
<1>5. UNCHANGED <<cc, told, now, mix>>
  BY DEF ReplayOne, Writes
<1> QED
  BY <1>3, <1>4, <1>5, RowsStay DEF FiguresInv, FiguresTypeOK, Unknown

LEMMA FinishStep == ASSUME FiguresInv, NEW i \in DOMAIN log, Finish(i) PROVE FiguresInv'
<1> DEFINE c == log[i].cand
           r == [cc[c] EXCEPT !.touched = now]
           e == Entered(r, "SHORTLISTED")
<1>1. log' \in Seq(TaskRows)
  <2>1. [log EXCEPT ![i].status = "SUCCESS"] \in Seq(TaskRows)
    BY StatusSet DEF TaskStatus
  <2> QED
    BY <2>1 DEF Finish
<1>2. dlq' \in Seq(DeadRows)
  <2> DEFINE t == Resolved(log[i])
  <2>1. DOMAIN t = DOMAIN dlq /\ t = [j \in DOMAIN dlq |-> t[j]]
    BY DEF Resolved
  <2>2. ASSUME NEW j \in DOMAIN dlq PROVE t[j] \in DeadRows
    <3>1. dlq[j] \in DeadRows /\ [dlq[j] EXCEPT !.resolved = TRUE] \in DeadRows
      BY DeadRow
    <3>2. t[j] \in {dlq[j], [dlq[j] EXCEPT !.resolved = TRUE]}
      BY DEF Resolved
    <3> QED
      BY <3>1, <3>2
  <2>3. dlq \in Seq(DeadRows) /\ dlq' = t
    BY DEF FiguresInv, FiguresTypeOK, Finish
  <2> HIDE DEF t
  <2>4. t \in Seq(DeadRows)
    BY <2>1, <2>2, <2>3, SequencesOf
  <2> QED
    BY <2>3, <2>4
<1>3. UNCHANGED <<told, now, mix>>
  BY DEF Finish, Writes
<1>4. cc' \in [Cands -> CandRows \cup {Unknown}] /\ RejectedOnce'
  <2>1. c \in Cands /\ now \in Nat /\ cc \in [Cands -> CandRows \cup {Unknown}]
    BY LogRow DEF FiguresInv, FiguresTypeOK
  <2>2. CASE UNCHANGED cc
    BY <2>1, <2>2, RowsStay DEF FiguresInv
  <2>3. CASE cc' = [cc EXCEPT ![c].touched = now]
    <3>1. cc' = [cc EXCEPT ![c] = r]
      BY <2>3
    <3>2. CASE c \in Present
      <4>1. cc[c] \in CandRows /\ (cc[c].out => cc[c].rejections >= 1)
        BY <3>2, PresentRow
      <4>2. r \in CandRows /\ r.out = cc[c].out /\ r.rejections = cc[c].rejections
        BY <2>1, <4>1, TouchedIsRow
      <4> HIDE DEF r
      <4> QED
        BY <2>1, <3>1, <4>1, <4>2, RowChanged
    <3>3. CASE c \notin Present
      <4>1. cc[c] = Unknown
        BY <2>1, <3>3 DEF Present
      <4>2. r = cc[c]
        BY <4>1 DEF Unknown
      <4>3. cc' = cc
        BY <2>1, <3>1, <4>2
      <4> QED
        BY <2>1, <4>3, RowsStay DEF FiguresInv
    <3> QED
      BY <3>2, <3>3
  <2>4. CASE cc[c].stage = "SCREENING" /\ cc' = [[cc EXCEPT ![c].touched = now] EXCEPT ![c] = Entered(@, "SHORTLISTED")]
    <3>1. cc' = [cc EXCEPT ![c] = e]
      BY <2>1, <2>4
    <3>2. CASE c \in Present
      <4>1. cc[c] \in CandRows /\ (cc[c].out => cc[c].rejections >= 1)
        BY <3>2, PresentRow
      <4>2. r \in CandRows /\ r.out = cc[c].out /\ r.rejections = cc[c].rejections
        BY <2>1, <4>1, TouchedIsRow
      <4> HIDE DEF r
      <4>3. "SHORTLISTED" \in StageNames
        BY StagesAre
      <4>4. e \in CandRows /\ e.out = r.out /\ e.rejections = r.rejections
        BY <2>1, <4>2, <4>3, EnteredIsRow
      <4> HIDE DEF e
      <4> QED
        BY <2>1, <3>1, <4>1, <4>2, <4>4, RowChanged
    <3>3. CASE c \notin Present
      <4>1. cc[c] = Unknown
        BY <2>1, <3>3 DEF Present
      <4>2. NoValue # "SCREENING"
        BY StagesAre, FiguresAssumption DEF StageNames
      <4> QED
        BY <2>4, <4>1, <4>2 DEF Unknown
    <3> QED
      BY <3>2, <3>3
  <2> QED
    BY <2>2, <2>3, <2>4 DEF Finish
<1> QED
  BY <1>1, <1>2, <1>3, <1>4 DEF FiguresInv, FiguresTypeOK, Unknown

LEMMA SweepStep == ASSUME FiguresInv, StallSweep PROVE FiguresInv'
<1>1. UNCHANGED <<cc, log, dlq, now, mix>>
  BY DEF StallSweep, Writes
<1>2. told' \in [CampaignIds -> SUBSET Cands]
  <2>1. told \in [CampaignIds -> SUBSET Cands]
    BY DEF FiguresInv, FiguresTypeOK
  <2> DEFINE alerts == StallAlerts(Watched)
  <2>2. told' = [k \in CampaignIds |-> IF k \in alerts THEN StalledBatch(Watched)[k] ELSE told[k]]
    BY DEF StallSweep
  <2>3. ASSUME NEW k \in alerts PROVE StalledBatch(Watched)[k] \in SUBSET Cands
    <3>1. k \in DOMAIN StalledBatch(Watched)
      BY DEF StallAlerts
    <3> QED
      BY <3>1 DEF StalledBatch, Present
  <2> HIDE DEF alerts
  <2> QED
    BY <2>1, <2>2, <2>3
<1> QED
  BY <1>1, <1>2, RowsStay DEF FiguresInv, FiguresTypeOK, Unknown

LEMMA FiguresStart == FiguresInit => FiguresInv
<1> SUFFICES ASSUME FiguresInit PROVE FiguresInv
  OBVIOUS
<1>1. now \in Nat /\ mix \in Mixes
  BY DEF FiguresInit
<1>2. New \in CandRows /\ ~New.out
  BY <1>1, NewIsRow
<1>3. cc = [c \in Cands |-> IF c \in mix.present THEN New ELSE Unknown]
  BY DEF FiguresInit
<1>4. cc \in [Cands -> CandRows \cup {Unknown}] /\ RejectedOnce
  BY <1>2, <1>3 DEF RejectedOnce
<1>5. log \in Seq(TaskRows) /\ dlq \in Seq(DeadRows) /\ told \in [CampaignIds -> SUBSET Cands]
  BY DEF FiguresInit
<1> QED
  BY <1>1, <1>4, <1>5 DEF FiguresInv, FiguresTypeOK

LEMMA FiguresKept == FiguresInv /\ [FiguresNext]_figureVars => FiguresInv'
<1> SUFFICES ASSUME FiguresInv, [FiguresNext]_figureVars PROVE FiguresInv'
  OBVIOUS
<1>1. CASE UNCHANGED figureVars
  BY <1>1, RowsStay DEF figureVars, FiguresInv, FiguresTypeOK, Unknown
<1>2. ASSUME NEW c \in Cands, AddCandidate(c) \/ Screened(c) \/ MovedByHand(c) \/ \E t \in Types : Submit(c, t)
      PROVE FiguresInv'
  BY <1>2, AddStep, ScreenedStep, MovedStep, SubmitStep
<1>3. ASSUME NEW i \in DOMAIN log, StartTask(i) \/ Finish(i) \/ FailTask(i) PROVE FiguresInv'
  BY <1>3, StartTaskStep, FinishStep, FailTaskStep
<1>4. ASSUME NEW k \in CampaignIds, PauseOrResume(k) \/ \E i \in DOMAIN dlq : ReplayOne(k, i) PROVE FiguresInv'
  BY <1>4, PauseStep, ReplayStep
<1>5. CASE Tick
  BY <1>5, RowsStay DEF Tick, FiguresInv, FiguresTypeOK, Unknown
<1>6. CASE StallSweep
  BY <1>6, SweepStep
<1> QED
  BY <1>1, <1>2, <1>3, <1>4, <1>5, <1>6 DEF FiguresNext

LEMMA FiguresAlways == FiguresSpec => []FiguresInv
<1> QED
  BY FiguresStart, FiguresKept, PTL DEF FiguresSpec

\* AlertsTellSomethingNew: an alert counts more candidates than the one before told of, so one of
\* them is new.
THEOREM AlertsAreNews == FiguresSpec => AlertsTellSomethingNew
<1> DEFINE News == \A k \in CampaignIds : told'[k] # told[k] => ~(told'[k] \subseteq told[k])
<1>1. ASSUME FiguresInv, [FiguresNext]_figureVars PROVE [News]_told
  <2> SUFFICES ASSUME told' # told, NEW k \in CampaignIds, told'[k] # told[k], told'[k] \subseteq told[k]
               PROVE FALSE
    OBVIOUS
  <2>1. StallSweep
    BY <1>1 DEF FiguresNext, figureVars, AddCandidate, Screened, MovedByHand, Submit, StartTask, Finish,
                FailTask, PauseOrResume, ReplayOne, Tick
  <2> DEFINE batch == StalledBatch(Watched)
             new == batch[k]
             old == told[k]
  <2>2. k \in StallAlerts(Watched) /\ told'[k] = new
    BY <2>1 DEF StallSweep
  <2>3. Cardinality(new) > Cardinality(old)
    BY <2>2 DEF StallAlerts
  <2>4. IsFiniteSet(old)
    <3>1. old \in SUBSET Cands
      BY <1>1 DEF FiguresInv, FiguresTypeOK
    <3> QED
      BY <3>1, FS_Subset, FiguresAssumption
  <2>5. new \in SUBSET old
    BY <2>2
  <2> HIDE DEF new, old
  <2>6. IsFiniteSet(new) /\ Cardinality(new) <= Cardinality(old)
    BY <2>4, <2>5, FS_Subset
  <2>7. Cardinality(new) \in Nat /\ Cardinality(old) \in Nat
    BY <2>4, <2>6, FS_CardinalityType
  <2> QED
    BY <2>3, <2>6, <2>7
<1>2. FiguresSpec => [][News]_told
  BY <1>1, FiguresAlways, PTL DEF FiguresSpec
<1> QED
  BY <1>2 DEF AlertsTellSomethingNew

-----------------------------------------------------------------------------
(* One campaign's counts, and the batched ones.                                 *)

LEMMA OnesCampaign ==
    ASSUME FiguresInv, NEW k
    PROVE  /\ IsFiniteSet(Present) /\ IsFiniteSet(OfCampaign(k))
           /\ OfCampaign(k) \subseteq Present /\ Present \subseteq Cands
           /\ \A c \in Present : CampaignOf[c] \in CampaignIds
<1>1. OfCampaign(k) \subseteq Present /\ Present \subseteq Cands
  BY DEF OfCampaign, Present
<1>2. IsFiniteSet(Present)
  BY <1>1, FiguresAssumption, FS_Subset
<1>3. IsFiniteSet(OfCampaign(k))
  BY <1>1, <1>2, FS_Subset
<1>4. \A c \in Present : CampaignOf[c] \in CampaignIds
  BY <1>1, FiguresAssumption
<1> QED
  BY <1>1, <1>2, <1>3, <1>4

\* The query of one campaign and the GROUP BY of all count alike; nobody there, no row, is zero.
LEMMA CountsAgree ==
    ASSUME FiguresInv, NEW k, NEW rows, rows \subseteq Present
    PROVE  /\ CountOf(k, rows) \in Nat
           /\ CountOf(k, rows) = Cardinality({c \in OfCampaign(k) : c \in rows})
           /\ k \in DOMAIN Counts(rows) => Counts(rows)[k] = CountOf(k, rows)
           /\ Lookup(Counts(rows), k, 0) = CountOf(k, rows)
           /\ CountOf(k, rows) > 0 <=> \E c \in rows : CampaignOf[c] = k
           /\ CountOf(k, rows) <= CountOf(k, Present)
<1> DEFINE here == {c \in OfCampaign(k) : c \in rows}
           all == {c \in OfCampaign(k) : c \in Present}
<1>1. here = {c \in rows : CampaignOf[c] = k} /\ here \subseteq all /\ all \subseteq OfCampaign(k)
  BY DEF OfCampaign
<1>2. IsFiniteSet(here) /\ IsFiniteSet(all)
  BY <1>1, OnesCampaign, FS_Subset
<1>3. CountOf(k, rows) = Cardinality(here) /\ CountOf(k, Present) = Cardinality(all)
  BY DEF CountOf
<1>4. k \in DOMAIN Counts(rows) <=> here # {}
  BY <1>1 DEF Counts
<1>5. k \in DOMAIN Counts(rows) => Counts(rows)[k] = Cardinality(here)
  BY <1>1 DEF Counts
<1>m. (\E c \in rows : CampaignOf[c] = k) <=> here # {}
  BY <1>1
<1> HIDE DEF here, all
<1>6. Cardinality(here) \in Nat /\ Cardinality(all) \in Nat /\ (Cardinality(here) = 0 <=> here = {})
  BY <1>2, FS_CardinalityType, FS_EmptySet
<1>7. Cardinality(here) <= Cardinality(all)
  BY <1>1, <1>2, FS_Subset
<1>8. Lookup(Counts(rows), k, 0) = CountOf(k, rows)
  BY <1>3, <1>4, <1>5, <1>6 DEF Lookup
<1>9. CountOf(k, rows) > 0 <=> here # {}
  BY <1>3, <1>6
<1>10. CountOf(k, rows) = Cardinality({c \in OfCampaign(k) : c \in rows})
  BY DEF CountOf
<1>11. k \in DOMAIN Counts(rows) => Counts(rows)[k] = CountOf(k, rows)
  BY <1>3, <1>5
<1> QED
  BY <1>m, <1>3, <1>6, <1>7, <1>8, <1>9, <1>10, <1>11

LEMMA Selections ==
    /\ Shortlisted \subseteq Present /\ Selected \subseteq Present /\ InReview \subseteq Present
    /\ Overdue \subseteq InReview /\ RejectedNow \subseteq Present /\ Present \subseteq Present
    /\ \A s : InStage(s) \subseteq Present
BY DEF Shortlisted, Selected, InReview, Overdue, RejectedNow, InStage

\* The row of the list and the campaign's own page.
LEMMA RowAgrees ==
    ASSUME FiguresInv, NEW k \in CampaignIds
    PROVE  /\ ListRow(k).candidates = DetailPage(k).candidates
           /\ ListRow(k).shortlisted = CountOf(k, Shortlisted)
           /\ ListRow(k).overdueReview => CountOf(k, InReview) > 0
           /\ AllPositionsFilled(k) => ListRow(k).approachingCap
<1>1. ListRow(k).candidates = DetailPage(k).candidates
  BY Selections, CountsAgree DEF ListRow, DetailPage
<1>2. ListRow(k).shortlisted = CountOf(k, Shortlisted)
  BY Selections, CountsAgree DEF ListRow
<1>3. ASSUME ListRow(k).overdueReview PROVE CountOf(k, InReview) > 0
  <2>1. Overdue \subseteq Present /\ Overdue \subseteq InReview /\ InReview \subseteq Present
    BY Selections
  <2>2. CountOf(k, Overdue) > 0
    BY <1>3, <2>1, CountsAgree DEF ListRow
  <2>3. \E c \in Overdue : CampaignOf[c] = k
    BY <2>1, <2>2, CountsAgree
  <2>4. \E c \in InReview : CampaignOf[c] = k
    BY <2>1, <2>3
  <2> QED
    BY <2>1, <2>4, CountsAgree
<1>4. ASSUME AllPositionsFilled(k) PROVE ListRow(k).approachingCap
  <2>1. Openings[k] # NoValue /\ CountOf(k, Selected) >= Openings[k]
    BY <1>4 DEF AllPositionsFilled
  <2>2. Openings[k] \in Nat
    BY <2>1, FiguresAssumption
  <2>3. CountOf(k, Selected) \in Nat /\ Lookup(Counts(Selected), k, 0) = CountOf(k, Selected)
    BY Selections, CountsAgree
  <2>4. 5 * CountOf(k, Selected) >= 4 * Openings[k]
    BY <2>1, <2>2, <2>3
  <2> QED
    BY <2>1, <2>3, <2>4 DEF ListRow
<1> QED
  BY <1>1, <1>2, <1>3, <1>4

\* The latest of several numbers is past a day when every one of them is.
LEMMA LatestOf ==
    ASSUME NEW T, IsFiniteSet(T), T # {}, \A t \in T : t \in Int
    PROVE  Max(T) \in T /\ \A t \in T : t <= Max(T)
<1> DEFINE G == {U \in SUBSET T : U # {} => \E m \in U : \A t \in U : t <= m}
<1>1. {} \in G
  OBVIOUS
<1>2. ASSUME NEW U \in SUBSET T, U # {}, \A x \in U : U \ {x} \in G PROVE U \in G
  <2>1. PICK x \in U : TRUE
    BY <1>2
  <2>2. CASE U \ {x} = {}
    <3>1. \A t \in U : t = x /\ t \in Int
      BY <2>2
    <3> QED
      BY <3>1
  <2>3. CASE U \ {x} # {}
    <3>1. PICK m \in U \ {x} : \A t \in U \ {x} : t <= m
      BY <1>2, <2>3
    <3>2. x \in Int /\ m \in Int /\ m \in U /\ \A t \in U : t \in Int
      OBVIOUS
    <3>3. CASE x <= m
      <4>1. \A t \in U : t <= m
        BY <3>1, <3>3
      <4> QED
        BY <3>2, <4>1
    <3>4. CASE ~(x <= m)
      <4>1. \A t \in U : t <= x
        BY <3>1, <3>2, <3>4
      <4> QED
        BY <4>1
    <3> QED
      BY <3>3, <3>4
  <2> QED
    BY <2>2, <2>3
<1>3. T \in G
  <2>1. G \in SUBSET SUBSET T
    OBVIOUS
  <2> HIDE DEF G
  <2> QED
    BY <1>1, <1>2, <2>1, ByRemoval
<1>4. \E m \in T : \A t \in T : t <= m
  BY <1>3
<1>5. \E m \in T : \A t \in T : m >= t
  BY <1>4
<1>6. Max(T) \in T /\ \A t \in T : Max(T) >= t
  BY <1>5 DEF Max
<1> QED
  BY <1>6

LEMMA StalledFlagsAgree ==
    ASSUME FiguresInv, NEW k \in CampaignIds
    PROVE  ListRow(k).pipelineStalled = IsPipelineStalled(k)
<1> DEFINE T == {cc[c].added : c \in OfCampaign(k)}
           limit == now - StaleAfter
           all == \A c \in Present : CampaignOf[c] = k => cc[c].added <= limit
<1>1. limit \in Int
  BY FiguresAssumption DEF FiguresInv, FiguresTypeOK
<1>2. \A c \in Present : cc[c].added \in Int
  BY PresentRow DEF CandRows
<1>3. ListRow(k).pipelineStalled = Lookup(PipelineStalledMap, k, FALSE)
  BY DEF ListRow
<1>4. k \in DOMAIN PipelineStalledMap <=> OfCampaign(k) # {}
  BY DEF PipelineStalledMap, OfCampaign
<1>5. CASE OfCampaign(k) = {}
  BY <1>3, <1>4, <1>5 DEF Lookup, IsPipelineStalled
<1>6. CASE OfCampaign(k) # {}
  <2>1. ListRow(k).pipelineStalled = all
    BY <1>3, <1>4, <1>6 DEF Lookup, PipelineStalledMap
  <2>2. IsPipelineStalled(k) = (Max(T) <= limit)
    BY <1>6 DEF IsPipelineStalled
  <2>3. all <=> \A t \in T : t <= limit
    BY DEF OfCampaign
  <2>4. T # {} /\ \A t \in T : t \in Int
    BY <1>2, <1>6, OnesCampaign
  <2>5. IsFiniteSet(T)
    <3>1. IsFiniteSet(OfCampaign(k))
      BY OnesCampaign
    <3> DEFINE f == [c \in OfCampaign(k) |-> cc[c].added]
    <3>2. f \in Surjection(OfCampaign(k), T)
      BY DEF Surjection
    <3> HIDE DEF f, T
    <3> QED
      BY <3>1, <3>2, FS_Surjection
  <2> HIDE DEF T, limit, all
  <2>6. Max(T) \in T /\ \A t \in T : t <= Max(T)
    BY <2>4, <2>5, LatestOf
  <2>7. (\A t \in T : t <= limit) <=> Max(T) <= limit
    BY <1>1, <2>4, <2>6
  <2>8. all \in BOOLEAN
    BY DEF all
  <2> QED
    BY <2>1, <2>2, <2>3, <2>7, <2>8
<1> QED
  BY <1>5, <1>6

\* Every candidate of a campaign is in one stage: the stages' counts add up to all of them.
LEMMA TotalAgrees ==
    ASSUME FiguresInv, NEW k \in CampaignIds
    PROVE  PipelineSummary(k).total = DetailPage(k).candidates
<1> DEFINE S == OfCampaign(k)
           g == [c \in S |-> cc[c].stage]
           V == {cc[c].stage : c \in S}
           n == StageCounts(k)
<1>1. PipelineSummary(k).total = SumFunctionOnSet(n, V)
  BY DEF PipelineSummary, SumFunction, StageCounts
<1>2. IsFiniteSet(S) /\ S \subseteq Present
  BY OnesCampaign
<1>3. IsFiniteSet(V)
  <2>1. g \in Surjection(S, V)
    BY DEF Surjection
  <2> HIDE DEF S, g, V
  <2> QED
    BY <1>2, <2>1, FS_Surjection
<1>4. \A v \in V : n[v] = Cardinality(Class(S, g, {v}))
  <2> TAKE v \in V
  <2>1. n[v] = Cardinality({c \in OfCampaign(k) : c \in InStage(v)})
    BY DEF StageCounts, CountOf
  <2>2. {c \in OfCampaign(k) : c \in InStage(v)} = Class(S, g, {v})
    BY <1>2 DEF InStage, Class
  <2> QED
    BY <2>1, <2>2
<1>5. Class(S, g, V) = S /\ {c \in OfCampaign(k) : c \in Present} = S
  BY <1>2 DEF Class
<1>6. DetailPage(k).candidates = Cardinality(S)
  BY <1>5 DEF DetailPage, CountOf
<1> HIDE DEF S, g, V, n
<1>7. SumFunctionOnSet(n, V) = Cardinality(Class(S, g, V))
  BY <1>2, <1>3, <1>4, GroupsAddUp
<1> QED
  BY <1>1, <1>5, <1>6, <1>7

\* The batched queries, looked up for one campaign, are that campaign's own.
LEMMA StalledAgree ==
    ASSUME FiguresInv, NEW k \in CampaignIds
    PROVE  Lookup(StalledBatch(CampaignIds), k, {}) = Stalled(k)
<1> DEFINE rows == {c \in Present : CampaignOf[c] \in CampaignIds /\ PastLimit(cc[c])}
<1>1. Stalled(k) = {c \in rows : CampaignOf[c] = k}
  BY DEF Stalled, OfCampaign
<1>2. StalledBatch(CampaignIds) = [j \in {CampaignOf[c] : c \in rows} |-> {c \in rows : CampaignOf[c] = j}]
  BY DEF StalledBatch
<1> HIDE DEF rows
<1>3. CASE k \in {CampaignOf[c] : c \in rows}
  BY <1>1, <1>2, <1>3 DEF Lookup
<1>4. CASE k \notin {CampaignOf[c] : c \in rows}
  <2>1. {c \in rows : CampaignOf[c] = k} = {}
    BY <1>4
  <2> QED
    BY <1>1, <1>2, <1>4, <2>1 DEF Lookup
<1> QED
  BY <1>3, <1>4

LEMMA StagesAgree ==
    ASSUME FiguresInv, NEW k \in CampaignIds
    PROVE  Lookup(StageCountsBatch, k, NoCounts) = StageCounts(k)
<1> DEFINE V == {cc[c].stage : c \in OfCampaign(k)}
<1>1. StageCounts(k) = [s \in V |-> CountOf(k, InStage(s))]
  BY DEF StageCounts
<1>2. k \in DOMAIN StageCountsBatch <=> OfCampaign(k) # {}
  BY DEF StageCountsBatch, OfCampaign
<1>3. CASE OfCampaign(k) = {}
  <2>1. V = {}
    BY <1>3
  <2>2. StageCounts(k) = [s \in {} |-> 0]
    BY <1>1, <2>1
  <2> QED
    BY <1>2, <1>3, <2>2 DEF Lookup, NoCounts
<1>4. CASE OfCampaign(k) # {}
  <2>1. Lookup(StageCountsBatch, k, NoCounts) = [s \in V |-> Counts(InStage(s))[k]]
    BY <1>2, <1>4 DEF Lookup, StageCountsBatch
  <2>2. ASSUME NEW s \in V PROVE Counts(InStage(s))[k] = CountOf(k, InStage(s))
    <3>1. PICK c \in OfCampaign(k) : cc[c].stage = s
      OBVIOUS
    <3>2. c \in InStage(s) /\ CampaignOf[c] = k
      BY <3>1 DEF InStage, OfCampaign
    <3>3. k \in DOMAIN Counts(InStage(s))
      BY <3>2 DEF Counts
    <3>4. InStage(s) \subseteq Present
      BY DEF InStage
    <3> QED
      BY <3>3, <3>4, CountsAgree
  <2> HIDE DEF V
  <2> QED
    BY <1>1, <2>1, <2>2
<1> QED
  BY <1>3, <1>4

LEMMA TasksAgree ==
    ASSUME FiguresInv, NEW k \in CampaignIds
    PROVE  Lookup(TaskCountsBatch, k, NoCounts) = TaskCounts(k)
<1> DEFINE rows == {i \in DOMAIN log : ~OfResume(log[i].type)}
           here == {i \in rows : CampaignOf[log[i].cand] = k}
<1>1. TasksOf(k) = here
  BY DEF TasksOf
<1>2. TaskCounts(k) = [s \in {log[i].status : i \in here} |-> Cardinality({i \in here : log[i].status = s})]
  BY <1>1 DEF TaskCounts
<1>3. DOMAIN TaskCountsBatch = {CampaignOf[log[i].cand] : i \in rows}
  BY DEF TaskCountsBatch
<1>4. k \in DOMAIN TaskCountsBatch =>
        TaskCountsBatch[k] = [s \in {log[i].status : i \in here} |-> Cardinality({i \in here : log[i].status = s})]
  BY DEF TaskCountsBatch
<1>5. k \notin DOMAIN TaskCountsBatch => here = {}
  BY <1>3
<1> HIDE DEF here, rows
<1>6. CASE k \in DOMAIN TaskCountsBatch
  BY <1>2, <1>4, <1>6 DEF Lookup
<1>7. CASE k \notin DOMAIN TaskCountsBatch
  <2>1. {log[i].status : i \in here} = {}
    BY <1>5, <1>7
  <2>2. TaskCounts(k) = [s \in {} |-> 0]
    BY <1>2, <2>1
  <2> QED
    BY <1>7, <2>2 DEF Lookup, NoCounts
<1> QED
  BY <1>6, <1>7

LEMMA ScreeningTimesAgree ==
    ASSUME FiguresInv, NEW k \in CampaignIds
    PROVE  Lookup(ScreeningTimeBatch, k, [sum |-> 0, n |-> 0]) = ScreeningTime(k)
<1> DEFINE there == {c \in Present : cc[c].stage = "SCREENING"}
           here == {c \in there : CampaignOf[c] = k}
<1>1. ScreeningTime(k) = TimeThere(here)
  <2>1. {c \in OfCampaign(k) : cc[c].stage = "SCREENING"} = here
    BY DEF OfCampaign
  <2> QED
    BY <2>1 DEF ScreeningTime
<1>2. DOMAIN ScreeningTimeBatch = {CampaignOf[c] : c \in there}
  BY DEF ScreeningTimeBatch
<1>3. k \in DOMAIN ScreeningTimeBatch => ScreeningTimeBatch[k] = TimeThere(here)
  BY DEF ScreeningTimeBatch
<1>4. k \notin DOMAIN ScreeningTimeBatch => here = {}
  BY <1>2
<1> HIDE DEF here, there
<1>5. TimeThere({}) = [sum |-> 0, n |-> 0]
  <2> DEFINE f == [c \in {} |-> now - cc[c].since]
  <2>1. DOMAIN f = {} /\ IsFiniteSet({}) /\ Cardinality({}) = 0
    BY FS_EmptySet
  <2>2. TimeThere({}) = [sum |-> SumFunctionOnSet(f, {}), n |-> 0]
    BY <2>1 DEF TimeThere, SumFunction
  <2> HIDE DEF f
  <2>3. SumFunctionOnSet(f, {}) = 0
    BY <2>1, SumOfOneMore
  <2> QED
    BY <2>2, <2>3
<1>6. CASE k \in DOMAIN ScreeningTimeBatch
  BY <1>1, <1>3, <1>6 DEF Lookup
<1>7. CASE k \notin DOMAIN ScreeningTimeBatch
  BY <1>1, <1>4, <1>5, <1>7 DEF Lookup
<1> QED
  BY <1>6, <1>7

LEMMA RejectionRatesAgree ==
    ASSUME FiguresInv, NEW k \in CampaignIds
    PROVE  Lookup(RejectionRateBatch, k, Rate(0, 0)) = RejectionRate(k)
<1>1. /\ RejectedNow \subseteq Present /\ Present \subseteq Present
      /\ DOMAIN RejectionRateBatch = DOMAIN Counts(Present)
  BY Selections DEF RejectionRateBatch
<1>2. /\ Lookup(Counts(RejectedNow), k, 0) = CountOf(k, RejectedNow)
      /\ Lookup(Counts(Present), k, 0) = CountOf(k, Present)
      /\ CountOf(k, RejectedNow) \in Nat /\ CountOf(k, RejectedNow) <= CountOf(k, Present)
      /\ k \in DOMAIN Counts(Present) => Counts(Present)[k] = CountOf(k, Present)
  BY <1>1, CountsAgree
<1>3. CASE k \in DOMAIN Counts(Present)
  BY <1>1, <1>2, <1>3 DEF Lookup, RejectionRateBatch, RejectionRate
<1>4. CASE k \notin DOMAIN Counts(Present)
  <2>1. CountOf(k, Present) = 0
    BY <1>2, <1>4 DEF Lookup
  <2>2. CountOf(k, RejectedNow) = 0
    BY <1>2, <2>1
  <2>3. Lookup(RejectionRateBatch, k, Rate(0, 0)) = Rate(0, 0)
    BY <1>1, <1>4 DEF Lookup
  <2> QED
    BY <2>1, <2>2, <2>3 DEF RejectionRate
<1> QED
  BY <1>3, <1>4

LEMMA TasksFinite ==
    ASSUME FiguresInv, NEW k
    PROVE  IsFiniteSet(TasksOf(k)) /\ TasksOf(k) \subseteq DOMAIN log /\ IsFiniteSet(DOMAIN log)
<1>1. DOMAIN log = 1..Len(log) /\ Len(log) \in Nat
  BY DEF FiguresInv, FiguresTypeOK
<1>2. IsFiniteSet(DOMAIN log)
  BY <1>1, FS_Interval
<1>3. TasksOf(k) \subseteq DOMAIN log
  BY DEF TasksOf
<1> QED
  BY <1>2, <1>3, FS_Subset

\* What a campaign's tasks are counted as, by their status.
WithStatus(k, s) == {i \in TasksOf(k) : log[i].status = s}

LEMMA StatusCount ==
    ASSUME FiguresInv, NEW k \in CampaignIds, NEW s
    PROVE  /\ Lookup(TaskCounts(k), s, 0) = Cardinality(WithStatus(k, s))
           /\ IsFiniteSet(WithStatus(k, s)) /\ Cardinality(WithStatus(k, s)) \in Nat
<1>1. s \in DOMAIN TaskCounts(k) => TaskCounts(k)[s] = Cardinality(WithStatus(k, s))
  BY DEF TaskCounts, WithStatus
<1>2. s \notin DOMAIN TaskCounts(k) => WithStatus(k, s) = {}
  BY DEF TaskCounts, WithStatus
<1>3. WithStatus(k, s) \subseteq TasksOf(k)
  BY DEF WithStatus
<1>4. IsFiniteSet(WithStatus(k, s))
  BY <1>3, TasksFinite, FS_Subset
<1>5. Cardinality(WithStatus(k, s)) \in Nat
  BY <1>4, FS_CardinalityType
<1>6. Lookup(TaskCounts(k), s, 0) = Cardinality(WithStatus(k, s))
  BY <1>1, <1>2, FS_EmptySet DEF Lookup
<1> QED
  BY <1>4, <1>5, <1>6

\* The tasks under way, by status on the one side and by type on the other.
LEMMA ActiveAddUp ==
    ASSUME FiguresInv, NEW k \in CampaignIds
    PROVE  /\ Estimate(k, TRUE).left = Cardinality({i \in TasksOf(k) : log[i].status \in Active})
           /\ Estimate(k, FALSE).left = Estimate(k, TRUE).left
<1> DEFINE S == {i \in TasksOf(k) : log[i].status \in Active}
           g == [i \in S |-> log[i].type]
           n == [t \in Types |-> Remaining(k, t)]
<1>1. /\ Estimate(k, TRUE).left = SumFunctionOnSet(n, Types)
      /\ Estimate(k, FALSE).left = SumFunctionOnSet(n, Types)
  BY DEF Estimate, SumFunction
<1>2. IsFiniteSet(S)
  <2>1. S \subseteq TasksOf(k)
    OBVIOUS
  <2> HIDE DEF S
  <2> QED
    BY <2>1, TasksFinite, FS_Subset
<1>3. \A t \in Types : n[t] = Cardinality(Class(S, g, {t}))
  <2> TAKE t \in Types
  <2>1. n[t] = Cardinality({i \in TasksOf(k) : log[i].type = t /\ log[i].status \in Active})
    BY DEF Remaining
  <2>2. {i \in TasksOf(k) : log[i].type = t /\ log[i].status \in Active} = Class(S, g, {t})
    BY DEF Class
  <2> QED
    BY <2>1, <2>2
<1>4. Class(S, g, Types) = S
  <2>1. \A i \in S : log[i].type \in Types
    BY TasksFinite, LogRow
  <2> QED
    BY <2>1 DEF Class
<1> HIDE DEF S, g, n
<1>5. SumFunctionOnSet(n, Types) = Cardinality(Class(S, g, Types))
  BY <1>2, <1>3, TypesAre, GroupsAddUp
<1>6. SumFunctionOnSet(n, Types) = Cardinality(S)
  BY <1>4, <1>5
<1> QED
  BY <1>1, <1>6 DEF S

LEMMA DisjointCount ==
    ASSUME NEW S, NEW T, IsFiniteSet(S), IsFiniteSet(T), S \cap T = {}
    PROVE  IsFiniteSet(S \cup T) /\ Cardinality(S \cup T) = Cardinality(S) + Cardinality(T)
<1>1. Cardinality(S \cup T) = Cardinality(S) + Cardinality(T) - Cardinality(S \cap T) /\ IsFiniteSet(S \cup T)
  BY FS_Union
<1>2. Cardinality(S) \in Nat /\ Cardinality(T) \in Nat /\ Cardinality(S \cap T) = 0
  BY FS_CardinalityType, FS_EmptySet
<1> QED
  BY <1>1, <1>2

LEMMA QueueAgrees ==
    ASSUME FiguresInv, NEW k \in CampaignIds, NEW open \in BOOLEAN
    PROVE  LET p == ProcessingStatus(k, open)
           IN  p.tasks["QUEUED"] + p.tasks["RUNNING"] + p.tasks["RETRY"] = p.estimate.left
<1> DEFINE p == ProcessingStatus(k, open)
           A == WithStatus(k, "QUEUED")
           B == WithStatus(k, "RUNNING")
           C == WithStatus(k, "RETRY")
           S == {i \in TasksOf(k) : log[i].status \in Active}
<1>1. \A s \in Active : p.tasks[s] = Lookup(TaskCounts(k), s, 0)
  BY DEF ProcessingStatus
<1>2. /\ p.tasks["QUEUED"] = Cardinality(A) /\ p.tasks["RUNNING"] = Cardinality(B)
      /\ p.tasks["RETRY"] = Cardinality(C)
  <2>1. {"QUEUED", "RUNNING", "RETRY"} = Active
    BY DEF Active
  <2> HIDE DEF p
  <2> QED
    BY <1>1, <2>1, StatusCount
<1>3. p.estimate.left = Cardinality(S)
  <2>1. p.estimate = Estimate(k, open)
    BY DEF ProcessingStatus
  <2>2. Estimate(k, open).left = Cardinality(S)
    <3>1. open = TRUE \/ open = FALSE
      OBVIOUS
    <3> QED
      BY <3>1, ActiveAddUp
  <2> QED
    BY <2>1, <2>2
<1>4. S = (A \cup B) \cup C /\ A \cap B = {} /\ (A \cup B) \cap C = {}
  BY DEF WithStatus, Active
<1>5. IsFiniteSet(A) /\ IsFiniteSet(B) /\ IsFiniteSet(C)
  BY StatusCount
<1> HIDE DEF p, A, B, C, S
<1>6. IsFiniteSet(A \cup B) /\ Cardinality(A \cup B) = Cardinality(A) + Cardinality(B)
  BY <1>4, <1>5, DisjointCount
<1>7. Cardinality((A \cup B) \cup C) = Cardinality(A \cup B) + Cardinality(C)
  BY <1>4, <1>5, <1>6, DisjointCount
<1>8. p.tasks["QUEUED"] + p.tasks["RUNNING"] + p.tasks["RETRY"] = p.estimate.left
  BY <1>2, <1>3, <1>4, <1>6, <1>7
<1> QED
  BY <1>8 DEF p

\* Every chain on the dead-letter page is one of the open chains of the campaign.
LEMMA PageWithinChains ==
    ASSUME FiguresInv, NEW k \in CampaignIds
    PROVE  Cardinality(DeadLetterPage(k, FALSE)) <= Cardinality(OpenChains(k))
<1> DEFINE shown == {h \in Heads(k, Replayable) : FALSE \/ ~dlq[h].resolved}
           entry == [i \in shown |-> [id |-> i, status |-> ChainStatus(i), history |-> Chain(i) \ {i}]]
           page == DeadLetterPage(k, FALSE)
<1>1. shown \subseteq OpenChains(k)
  <2> SUFFICES ASSUME NEW h \in shown PROVE h \in OpenChains(k)
    OBVIOUS
  <2>1. /\ h \in Linked(k) /\ dlq[h].type \in Replayable /\ ~dlq[h].resolved
        /\ \A j \in Linked(k) : dlq[j].type \in Replayable /\ SameChain(dlq[h], dlq[j]) => j <= h
    BY DEF Heads
  <2>2. \A j \in Linked(k) : SameChain(dlq[h], dlq[j]) => j <= h
    BY <2>1 DEF SameChain
  <2>3. dlq[h].type \in Types
    BY <2>1, TypesAre
  <2> QED
    BY <2>1, <2>2, <2>3 DEF OpenChains, Heads
<1>2. OpenChains(k) \subseteq DOMAIN dlq
  BY DEF OpenChains, Heads, Linked
<1>3. IsFiniteSet(DOMAIN dlq)
  <2>1. DOMAIN dlq = 1..Len(dlq) /\ Len(dlq) \in Nat
    BY DEF FiguresInv, FiguresTypeOK
  <2> QED
    BY <2>1, FS_Interval
<1>4. page = {entry[i] : i \in shown}
  BY DEF DeadLetterPage
<1>5. IsFiniteSet(OpenChains(k))
  BY <1>2, <1>3, FS_Subset
<1> HIDE DEF shown
<1>6. IsFiniteSet(shown) /\ Cardinality(shown) <= Cardinality(OpenChains(k))
  BY <1>1, <1>5, FS_Subset
<1>7. DOMAIN entry = shown
  OBVIOUS
<1> HIDE DEF page
<1>8. entry \in Surjection(shown, page)
  <2>1. entry \in [shown -> page]
    BY <1>4
  <2> HIDE DEF entry
  <2> QED
    BY <1>4, <1>7, <2>1 DEF Surjection
<1> HIDE DEF entry
<1>9. IsFiniteSet(page) /\ Cardinality(page) <= Cardinality(shown)
  BY <1>6, <1>8, FS_Surjection
<1>10. Cardinality(page) \in Nat /\ Cardinality(shown) \in Nat /\ Cardinality(OpenChains(k)) \in Nat
  BY <1>5, <1>6, <1>9, FS_CardinalityType
<1>11. Cardinality(page) <= Cardinality(OpenChains(k))
  BY <1>6, <1>9, <1>10
<1> QED
  BY <1>11 DEF page

\* Of the candidates whose current decision is a rejection, each has been rejected at least once.
LEMMA RejectedAtMost ==
    ASSUME FiguresInv, NEW k \in CampaignIds
    PROVE  /\ RejectionRate(k).part = CountOf(k, RejectedNow) /\ RejectionRate(k).whole = CountOf(k, Present)
           /\ Rejections(k) \in Nat /\ RejectionRate(k).part <= Rejections(k)
<1> DEFINE S == OfCampaign(k)
           W == {c \in S : c \in RejectedNow}
           f == [c \in S |-> cc[c].rejections]
<1>1. RejectionRate(k).part = CountOf(k, RejectedNow) /\ RejectionRate(k).whole = CountOf(k, Present)
  BY DEF RejectionRate, Rate
<1>2. CountOf(k, RejectedNow) = Cardinality(W)
  BY DEF CountOf
<1>3. Rejections(k) = SumFunctionOnSet(f, S)
  BY DEF Rejections, SumFunction
<1>4. IsFiniteSet(S) /\ S \subseteq Present
  BY OnesCampaign
<1>5. \A c \in S : f[c] \in Nat /\ (c \in W => f[c] >= 1)
  <2> TAKE c \in S
  <2>1. cc[c] \in CandRows /\ (cc[c].out => cc[c].rejections >= 1)
    BY <1>4, PresentRow
  <2>2. cc[c].rejections \in Nat
    BY <2>1 DEF CandRows
  <2>3. c \in W => cc[c].out
    BY DEF RejectedNow
  <2> QED
    BY <2>1, <2>2, <2>3
<1>6. W \in SUBSET S
  OBVIOUS
<1> HIDE DEF S, W, f
<1>7. Cardinality(W) <= SumFunctionOnSet(f, S)
  BY <1>4, <1>5, <1>6, CountAtMostSum
<1>8. SumFunctionOnSet(f, S) \in Nat
  <2>1. \A c \in S : f[c] \in Nat
    BY <1>5
  <2> QED
    BY <1>4, <2>1, SumOfNaturals
<1> QED
  BY <1>1, <1>2, <1>3, <1>7, <1>8

\* A campaign alerted of its rejections is advised to review its job description.
LEMMA AlertedIsAdvised ==
    ASSUME FiguresInv, NEW k \in CampaignIds,
           <<k, "DETERMINISTIC_REJECTION_RATE_EXCEEDED">> \in HealthAlerts,
           Limits.advice <= Limits.rate, CountOf(k, Present) >= Limits.many
    PROVE  Advised(k)
<1> DEFINE part == RejectionRate(k).part
           n == CountOf(k, Present)
           all == Rejections(k)
<1>1. Exceeds(RejectionRate(k), Limits.rate)
  <2>1. Exceeds(Lookup(RejectionRateBatch, k, Rate(0, 0)), Limits.rate)
    BY DEF HealthAlerts
  <2> QED
    BY <2>1, RejectionRatesAgree
<1>2. RejectionRate(k).whole = n /\ part = CountOf(k, RejectedNow)
      /\ all \in Nat /\ part <= all
  BY RejectedAtMost
<1>3. n \in Nat /\ part \in Nat /\ part <= n
  <2>1. RejectedNow \subseteq Present /\ Present \subseteq Present
    BY Selections
  <2>2. CountOf(k, RejectedNow) \in Nat /\ CountOf(k, RejectedNow) <= CountOf(k, Present)
    BY <2>1, CountsAgree
  <2>3. CountOf(k, Present) \in Nat
    BY <2>1, CountsAgree
  <2> HIDE DEF part
  <2> QED
    BY <1>2, <2>2, <2>3
<1>4. 100 * part > Limits.rate * n
  BY <1>1, <1>2 DEF Exceeds
<1>5. Limits.rate \in Nat /\ Limits.advice \in Nat
  BY FiguresAssumption
<1>6. Exceeds(Rate(all, n), Limits.advice) <=> 100 * all > Limits.advice * n
  BY DEF Exceeds, Rate
<1>7. Advised(k) <=> n > 0 /\ n >= Limits.many /\ Exceeds(Rate(all, n), Limits.advice)
  BY DEF Advised
<1> HIDE DEF part, n, all
<1>8. \A a, b, m \in Nat : a <= b => a * m <= b * m
  <2> TAKE a \in Nat, b \in Nat, m \in Nat
  <2>1. ASSUME a <= b PROVE a * m <= b * m
    <3>1. (b - a) * m \in Nat /\ (b - a) * m = b * m - a * m
      BY <2>1
    <3>2. a * m \in Nat /\ b * m \in Nat
      OBVIOUS
    <3> QED
      BY <3>1, <3>2
  <2> QED
    BY <2>1
<1>9. Limits.advice * n <= Limits.rate * n
  BY <1>3, <1>5, <1>8
<1>10. Limits.advice * n \in Nat /\ Limits.rate * n \in Nat
  BY <1>3, <1>5
<1>11. 100 * all > Limits.advice * n
  BY <1>2, <1>3, <1>4, <1>9, <1>10
<1>12. n > 0
  <2>1. part > 0
    BY <1>3, <1>4, <1>10
  <2> QED
    BY <1>3, <2>1
<1>13. n >= Limits.many
  BY DEF n
<1> QED
  BY <1>6, <1>7, <1>11, <1>12, <1>13

\* The page's word for a chain and the replay's own test, over the same rows.
LEMMA OpenMeansReplayable == ASSUME FiguresInv PROVE OpenIsReplayable
<1> SUFFICES ASSUME NEW k \in CampaignIds, NEW e \in DeadLetterPage(k, TRUE)
             PROVE  Accepted(k, e.id) <=> (e.status = "OPEN" /\ ~Embedded(e.id))
  BY DEF OpenIsReplayable
<1>1. PICK i \in Heads(k, Replayable) : e = [id |-> i, status |-> ChainStatus(i), history |-> Chain(i) \ {i}]
  BY DEF DeadLetterPage
<1>2. e.id = i /\ e.status = ChainStatus(i)
  BY <1>1
<1>3. i \in Linked(k) /\ dlq[i].type \in Replayable /\ i \in DOMAIN dlq
  BY DEF Heads, Linked
<1>4. Replays(i) \in Nat
  <2>1. DOMAIN dlq = 1..Len(dlq) /\ Len(dlq) \in Nat
    BY DEF FiguresInv, FiguresTypeOK
  <2>2. IsFiniteSet(DOMAIN dlq)
    BY <2>1, FS_Interval
  <2> DEFINE spent == {j \in Chain(i) : dlq[j].replayed}
  <2>3. spent \subseteq DOMAIN dlq /\ Replays(i) = Cardinality(spent)
    BY DEF Chain, Replays
  <2> HIDE DEF spent
  <2> QED
    BY <2>2, <2>3, FS_Subset, FS_CardinalityType
<1>5. MaxReplays \in Nat
  BY FiguresAssumption
<1>6. ChainStatus(i) = "OPEN" <=> ~dlq[i].resolved /\ ~dlq[i].replayed /\ Replays(i) < MaxReplays
  BY <1>4, <1>5 DEF ChainStatus
<1> QED
  BY <1>2, <1>3, <1>6 DEF Accepted

LEMMA ScreensAgree == ASSUME FiguresInv PROVE FiguresAgree
<1> SUFFICES ASSUME NEW k \in CampaignIds
             PROVE  /\ ListRow(k).candidates = DetailPage(k).candidates
                    /\ PipelineSummary(k).total = DetailPage(k).candidates
                    /\ ListRow(k).shortlisted = CountOf(k, Shortlisted)
                    /\ ListRow(k).overdueReview => CountOf(k, InReview) > 0
                    /\ ListRow(k).pipelineStalled = IsPipelineStalled(k)
                    /\ AllPositionsFilled(k) => ListRow(k).approachingCap
                    /\ Lookup(StalledBatch(CampaignIds), k, {}) = Stalled(k)
                    /\ Lookup(StageCountsBatch, k, NoCounts) = StageCounts(k)
                    /\ Lookup(TaskCountsBatch, k, NoCounts) = TaskCounts(k)
                    /\ Lookup(ScreeningTimeBatch, k, [sum |-> 0, n |-> 0]) = ScreeningTime(k)
                    /\ Lookup(RejectionRateBatch, k, Rate(0, 0)) = RejectionRate(k)
                    /\ \A open \in BOOLEAN :
                          LET p == ProcessingStatus(k, open)
                          IN  /\ p.tasks["QUEUED"] + p.tasks["RUNNING"] + p.tasks["RETRY"] = p.estimate.left
                              /\ p.dlq >= Cardinality(DeadLetterPage(k, FALSE))
                    /\ PauseImpact(k).queued = ClosureImpact(k).running
                    /\ RejectionRate(k).part <= Rejections(k)
                    /\ /\ <<k, "DETERMINISTIC_REJECTION_RATE_EXCEEDED">> \in HealthAlerts
                       /\ Limits.advice <= Limits.rate /\ CountOf(k, Present) >= Limits.many
                       => Advised(k)
  BY Zenon DEF FiguresAgree
<1>1. \A open \in BOOLEAN :
         LET p == ProcessingStatus(k, open)
         IN  /\ p.tasks["QUEUED"] + p.tasks["RUNNING"] + p.tasks["RETRY"] = p.estimate.left
             /\ p.dlq >= Cardinality(DeadLetterPage(k, FALSE))
  <2> SUFFICES ASSUME NEW open \in BOOLEAN
               PROVE  LET p == ProcessingStatus(k, open)
                      IN  /\ p.tasks["QUEUED"] + p.tasks["RUNNING"] + p.tasks["RETRY"] = p.estimate.left
                          /\ p.dlq >= Cardinality(DeadLetterPage(k, FALSE))
    OBVIOUS
  <2>1. ProcessingStatus(k, open).dlq = Cardinality(OpenChains(k))
    BY DEF ProcessingStatus
  <2>2. Cardinality(DeadLetterPage(k, FALSE)) <= Cardinality(OpenChains(k))
    BY PageWithinChains
  <2>3. ProcessingStatus(k, open).dlq >= Cardinality(DeadLetterPage(k, FALSE))
    BY <2>1, <2>2
  <2> QED
    BY <2>3, QueueAgrees
<1>2. PauseImpact(k).queued = ClosureImpact(k).running
  BY DEF PauseImpact, ClosureImpact
<1> QED
  BY <1>1, <1>2, RowAgrees, TotalAgrees, StalledFlagsAgree, StalledAgree, StagesAgree, TasksAgree,
     ScreeningTimesAgree, RejectionRatesAgree, RejectedAtMost, AlertedIsAdvised

\* FiguresAndPagesAgree: the queries of one campaign and of all give the same, the queue's numbers
\* add up, and what the dead-letter page offers a replay accepts.
THEOREM FiguresAlwaysAgree == FiguresSpec => []FiguresAndPagesAgree
<1>1. FiguresInv => FiguresAndPagesAgree
  BY ScreensAgree, OpenMeansReplayable DEF FiguresAndPagesAgree
<1> QED
  BY <1>1, FiguresAlways, PTL
=============================================================================
