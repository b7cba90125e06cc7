------------------------ MODULE CandidateStages_proofs ------------------------
(***************************************************************************)
(* Proofs about CandidateStages and CandidateReports, for any campaign,    *)
(* any number of sessions and requests, and any mix of the kinds of        *)
(* request.                                                                *)
(***************************************************************************)
EXTENDS CandidateStages, CandidateReports, FiniteSetTheorems, SequenceTheorems, TLAPS

Ops == Requests \cup Layers \cup {"none"}
Ats == {"idle", "reread", "write", "count", "commit", "after", "judge"}
Views == UNION {[D -> Row] : D \in SUBSET Candidates}
Session == [op : Ops, at : Ats, seen : Views, next : Views, to : Stages \cup {None},
            camp : {"free", "held", "close"}]

TypeInv ==
    /\ row \in [Candidates -> Row]
    /\ round \in [Candidates -> Rounds]
    /\ status \in {"ACTIVE", "CLOSED"}
    /\ tasks \in [Candidates -> SUBSET Layers]
    /\ sess \in [Sessions -> Session]
    /\ used \subseteq Requests /\ requests \in 0..MaxRequests

\* A session that may still write is a request's, and knows where it moves to; one that
\* judges is a scoring layer's.
InPhase(s) ==
    /\ sess[s].at \in {"reread", "write", "count"} =>
          sess[s].op \in Requests /\ sess[s].to \in Stages
    /\ sess[s].at = "judge" => sess[s].op \in Layers

\* Only the requests with the INTERVIEW-entry hook move anyone to INTERVIEW.
EntersHooked(s) == sess[s].to = "INTERVIEW" => sess[s].op \in Hooked

\* A row flushed at INTERVIEW has a round, or belongs to a move that creates one.
PendingHasRound(s) ==
    \A c \in DOMAIN sess[s].next :
        sess[s].next[c].stage = "INTERVIEW" => round[c] # "none" \/ sess[s].to = "INTERVIEW"

SessionsInv == \A s \in Sessions : InPhase(s) /\ EntersHooked(s) /\ PendingHasRound(s)

Inv == TypeInv /\ SessionsInv /\ InterviewHasRound
---------------------------------------------------------------------------
(* Views and rows. *)

\* A set of loaded rows is a view: what a session keeps of SELECTs and flushes.
LEMMA ViewIntro ==
    ASSUME NEW D \in SUBSET Candidates, NEW f \in [D -> Row] PROVE f \in Views
BY DEF Views

\* A view maps some of the candidates to rows.
LEMMA ViewElim ==
    ASSUME NEW v \in Views PROVE DOMAIN v \in SUBSET Candidates /\ v \in [DOMAIN v -> Row]
BY DEF Views

\* A session without rows.
LEMMA IdleSession == Idle \in Session /\ DOMAIN Idle.next = {}
<1>1. <<>> \in [{} -> Row] OBVIOUS
<1>2. <<>> \in Views BY <1>1, ViewIntro
<1> QED BY <1>1, <1>2 DEF Idle, Session, Ops, Ats

\* A flush of changed columns makes a row, whose stage is the one under the lock or the
\* changed one.
LEMMA MergeRow ==
    ASSUME NEW current \in Row, NEW loaded \in Row, NEW changed \in Row
    PROVE  /\ Merge(current, loaded, changed) \in Row
           /\ Merge(current, loaded, changed).stage \in {current.stage, changed.stage}
           /\ changed.stage = loaded.stage
              => Merge(current, loaded, changed).stage = current.stage
<1> DEFINE m == Merge(current, loaded, changed)
<1>1. DOMAIN current = {"stage", "prev", "decision", "by", "orig", "det", "sem"}
  BY DEF Row
<1>2. m = [f \in {"stage", "prev", "decision", "by", "orig", "det", "sem"} |->
              IF changed[f] = loaded[f] THEN current[f] ELSE changed[f]]
  BY <1>1 DEF Merge
<1>3. m = [stage |-> m.stage, prev |-> m.prev, decision |-> m.decision, by |-> m.by,
           orig |-> m.orig, det |-> m.det, sem |-> m.sem]
  BY <1>2
<1>4. m \in Row
  <2>1. m.stage \in Stages /\ m.prev \in Stages \cup {None} BY <1>2 DEF Row
  <2>2. m.decision \in Decisions /\ m.by \in Sources BY <1>2 DEF Row
  <2>3. m.orig \in Decisions \X Sources BY <1>2 DEF Row
  <2>4. m.det \in BOOLEAN /\ m.sem \in BOOLEAN BY <1>2 DEF Row
  <2> QED BY <1>3, <2>1, <2>2, <2>3, <2>4 DEF Row
<1> QED BY <1>2, <1>4

\* The columns a decision, and a rescoring, changes.
LEMMA DecidedRow ==
    ASSUME NEW r \in Row, NEW decision \in Decisions, NEW by \in Sources
    PROVE  /\ Decided(r, decision, by) \in Row /\ Decided(r, decision, by).stage = r.stage
           /\ Cleared(r) \in Row /\ Cleared(r).stage = r.stage
<1>1. NoOrig \in Decisions \X Sources BY DEF NoOrig, Decisions, Sources
<1>2. None \in Decisions /\ None \in Sources BY DEF Decisions, Sources
<1> QED BY <1>1, <1>2 DEF Decided, Cleared, Row

\* Both engines make a row that stays, or is where they move it.
LEMMA MovedRow ==
    ASSUME NEW current \in Row, NEW loaded \in Row, NEW to \in Stages
    PROVE  /\ Moved(current, loaded, to) \in Row
           /\ Moved(current, loaded, to).stage \in {current.stage, to}
<1> DEFINE changed == [loaded EXCEPT !.prev = loaded.stage, !.stage = to]
<1>1. changed \in Row /\ changed.stage = to BY DEF Row
<1>2. Moved(current, loaded, to) = Merge(current, loaded, changed) BY DEF Moved
<1> HIDE DEF changed
<1> QED BY <1>1, <1>2, MergeRow

\* So do the override and the flag.
LEMMA ForcedRow ==
    ASSUME NEW current \in Row, NEW loaded \in Row, NEW to \in Stages
    PROVE  /\ Forced(current, loaded, to) \in Row
           /\ Forced(current, loaded, to).stage \in {current.stage, to}
<1> DEFINE changed == [loaded EXCEPT !.stage = to]
<1>1. changed \in Row /\ changed.stage = to BY DEF Row
<1>2. Forced(current, loaded, to) = Merge(current, loaded, changed) BY DEF Forced
<1> HIDE DEF changed
<1> QED BY <1>1, <1>2, MergeRow

\* An HR override moves to SCREENING.
LEMMA OverriddenRow ==
    ASSUME NEW current \in Row, NEW base \in Row
    PROVE  /\ Overridden(current, base) \in Row
           /\ Overridden(current, base).stage \in {current.stage, "SCREENING"}
<1> DEFINE changed == [base EXCEPT !.prev = base.stage, !.stage = "SCREENING",
                                   !.decision = "RESET", !.by = "RECRUITER", !.det = TRUE,
                                   !.orig = <<base.decision, base.by>>]
<1>1. <<base.decision, base.by>> \in Decisions \X Sources BY DEF Row
<1>2. changed \in Row /\ changed.stage = "SCREENING"
  BY <1>1 DEF Row, Stages, Decisions, Sources
<1>3. Overridden(current, base) = Merge(current, base, changed) BY DEF Overridden
<1> HIDE DEF changed
<1> QED BY <1>2, <1>3, MergeRow

\* Its revert moves back to REJECTED.
LEMMA RevertedRow ==
    ASSUME NEW current \in Row, NEW loaded \in Row
    PROVE  /\ Reverted(current, loaded) \in Row
           /\ Reverted(current, loaded).stage \in {current.stage, "REJECTED"}
<1> DEFINE changed == [loaded EXCEPT !.stage = "REJECTED", !.orig = NoOrig,
                         !.decision = loaded.orig[1], !.by = loaded.orig[2],
                         !.det = loaded.orig[2] # "DETERMINISTIC" /\ loaded.det]
<1>1. NoOrig \in Decisions \X Sources BY DEF NoOrig, Decisions, Sources
<1>2. loaded.orig[1] \in Decisions /\ loaded.orig[2] \in Sources BY DEF Row
<1>3. (loaded.orig[2] # "DETERMINISTIC" /\ loaded.det) \in BOOLEAN OBVIOUS
<1>4. changed \in Row /\ changed.stage = "REJECTED"
  BY <1>1, <1>2, <1>3 DEF Row, Stages
<1>5. Reverted(current, loaded) = Merge(current, loaded, changed) BY DEF Reverted
<1> HIDE DEF changed
<1> QED BY <1>4, <1>5, MergeRow

\* A verdict changes the stage only along an edge of the table, to the verdict's stage.
LEMMA VerdictRow ==
    ASSUME NEW r \in Row, NEW to \in {"REJECTED", "SHORTLISTED", "HOLD"}, NEW by \in Sources
    PROVE  /\ Verdict(r, to, by) \in Row
           /\ Verdict(r, to, by).stage \in {r.stage, to}
           /\ Verdict(r, to, by).stage # r.stage
              => IsAllowed(r.prev, r.stage, Verdict(r, to, by).stage)
<1> DEFINE moved == [r EXCEPT !.prev = r.stage, !.stage = to]
<1>1. moved \in Row /\ moved.stage = to BY DEF Row, Stages
<1>2. to \in Decisions BY DEF Decisions
<1>3. Verdict(r, to, by) = IF IsAllowed(r.prev, r.stage, to) THEN Decided(moved, to, by) ELSE r
  BY DEF Verdict
<1> HIDE DEF moved
<1>4. Decided(moved, to, by) \in Row /\ Decided(moved, to, by).stage = to
  BY <1>1, <1>2, DecidedRow
<1> QED BY <1>3, <1>4

---------------------------------------------------------------------------
(* What a session holds. *)

\* The fields of a session, and the rows in it.
LEMMA SessionFields ==
    ASSUME TypeInv, NEW s \in Sessions
    PROVE  /\ sess[s] \in Session
           /\ DOMAIN sess[s].seen \subseteq Candidates /\ DOMAIN sess[s].next \subseteq Candidates
           /\ \A c \in DOMAIN sess[s].seen : sess[s].seen[c] \in Row
           /\ \A c \in DOMAIN sess[s].next : sess[s].next[c] \in Row
<1>1. sess[s] \in Session BY DEF TypeInv
<1>2. sess[s].seen \in Views /\ sess[s].next \in Views BY <1>1 DEF Session
<1> QED BY <1>1, <1>2, ViewElim

\* Whatever a request writes to a row, it is a row, at the stage of the row under the lock
\* or where the request goes.
LEMMA WrittenRow ==
    ASSUME TypeInv, NEW s \in Sessions, InPhase(s), sess[s].at = "write",
           NEW c \in DOMAIN sess[s].seen, NEW r \in Written(s, c)
    PROVE  /\ r \in Row
           /\ r.stage \in {row[c].stage, sess[s].to, "SCREENING", "REJECTED"}
<1> DEFINE cur == row[c]
           old == sess[s].seen[c]
           to == sess[s].to
           base == IF old.det THEN old ELSE cur
<1>1. sess[s].op \in Requests /\ to \in Stages BY DEF InPhase
<1>2. c \in Candidates /\ old \in Row /\ cur \in Row BY SessionFields DEF TypeInv
<1>3. base \in Row BY <1>2
<1> HIDE DEF cur, old, to, base
<1>4. CASE sess[s].op \in {"engine", "drag"}
  <2>1. r = Moved(cur, old, to) BY <1>4 DEF Written, cur, old, to
  <2> QED BY <2>1, <1>1, <1>2, MovedRow DEF cur, to
<1>5. CASE sess[s].op = "bulk"
  <2>1. r \in {Moved(cur, old, to), Decided(Moved(cur, old, to), to, "HR_ADMIN")}
    BY <1>5 DEF Written, cur, old, to
  <2>2. r = Moved(cur, old, to) \/ to \in DecisionStages
    BY <1>5 DEF Written, cur, old, to
  <2>3. Moved(cur, old, to) \in Row /\ Moved(cur, old, to).stage \in {cur.stage, to}
    BY <1>1, <1>2, MovedRow
  <2>4. CASE r = Moved(cur, old, to) BY <2>3, <2>4 DEF cur, to
  <2>5. CASE to \in DecisionStages /\ r = Decided(Moved(cur, old, to), to, "HR_ADMIN")
    <3>1. to \in Decisions /\ "HR_ADMIN" \in Sources
      BY <2>5 DEF Decisions, DecisionStages, Sources
    <3>2. r \in Row /\ r.stage = Moved(cur, old, to).stage BY <2>3, <2>5, <3>1, DecidedRow
    <3> QED BY <2>3, <3>2 DEF cur, to
  <2> QED BY <2>1, <2>2, <2>4, <2>5
<1>6. CASE sess[s].op = "resubmit"
  <2>1. r = Cleared(Moved(cur, old, to)) BY <1>6 DEF Written, cur, old, to
  <2>2. Moved(cur, old, to) \in Row /\ Moved(cur, old, to).stage \in {cur.stage, to}
    BY <1>1, <1>2, MovedRow
  <2>3. None \in Decisions /\ None \in Sources BY DEF Decisions, Sources
  <2>4. r \in Row /\ r.stage = Moved(cur, old, to).stage BY <2>1, <2>2, <2>3, DecidedRow
  <2> QED BY <2>2, <2>4 DEF cur, to
<1>7. CASE sess[s].op \in {"override", "flag"}
  <2>1. r = Forced(cur, old, to) BY <1>7 DEF Written, cur, old, to
  <2> QED BY <2>1, <1>1, <1>2, ForcedRow DEF cur, to
<1>8. CASE sess[s].op = "revert"
  <2>1. r = Reverted(cur, old) BY <1>8 DEF Written, cur, old
  <2> QED BY <2>1, <1>2, RevertedRow DEF cur
<1>9. CASE sess[s].op = "hr"
  <2>1. r = Overridden(cur, base) BY <1>9 DEF Written, cur, old, base
  <2> QED BY <2>1, <1>2, <1>3, OverriddenRow DEF cur
<1> QED BY <1>1, <1>4, <1>5, <1>6, <1>7, <1>8, <1>9 DEF Requests

\* A step of one session that takes no round away leaves the other sessions in order.
LEMMA OwnStep ==
    ASSUME TypeInv, SessionsInv, NEW s \in Sessions,
           \A t \in Sessions \ {s} : sess'[t] = sess[t],
           \A c \in Candidates : round[c] # "none" => round'[c] # "none",
           InPhase(s)', EntersHooked(s)', PendingHasRound(s)'
    PROVE  SessionsInv'
<1> SUFFICES ASSUME NEW t \in Sessions, t # s
             PROVE  InPhase(t)' /\ EntersHooked(t)' /\ PendingHasRound(t)'
  BY DEF SessionsInv
<1>1. sess'[t] = sess[t] /\ InPhase(t) /\ EntersHooked(t) /\ PendingHasRound(t)
  BY DEF SessionsInv
<1>2. InPhase(t)' BY <1>1 DEF InPhase
<1>3. EntersHooked(t)' BY <1>1 DEF EntersHooked
<1>4. PendingHasRound(t)' BY <1>1, SessionFields DEF PendingHasRound
<1> QED BY <1>2, <1>3, <1>4

\* A session that ends is in order.
LEMMA IdleInOrder ==
    ASSUME NEW s \in Sessions, sess'[s] = Idle
    PROVE  InPhase(s)' /\ EntersHooked(s)' /\ PendingHasRound(s)'
<1>1. Idle.at = "idle" /\ Idle.to = None BY DEF Idle
<1>2. InPhase(s)' BY <1>1 DEF InPhase
<1>3. EntersHooked(s)' BY <1>1 DEF EntersHooked, None
<1>4. PendingHasRound(s)' BY IdleSession DEF PendingHasRound
<1> QED BY <1>2, <1>3, <1>4

---------------------------------------------------------------------------
(* The initial situations. *)

\* Every starting situation of StartsAssumption satisfies the invariant.
LEMMA InitInv == Init => Inv
<1> SUFFICES ASSUME Init PROVE Inv OBVIOUS
<1> USE DEF Init
<1>1. PICK start \in Starts :
          /\ row = [c \in Candidates |-> start[c].row]
          /\ round = [c \in Candidates |-> start[c].round]
          /\ tasks = [c \in Candidates |-> start[c].tasks]
  OBVIOUS
<1>2. \A c \in Candidates :
          /\ start[c] \in [row : Row, round : Rounds, tasks : SUBSET Layers]
          /\ start[c].row.stage = "INTERVIEW" => start[c].round # "none"
  BY StartsAssumption
<1>3. row \in [Candidates -> Row] BY <1>1, <1>2
<1>4. round \in [Candidates -> Rounds] /\ tasks \in [Candidates -> SUBSET Layers]
  BY <1>1, <1>2
<1>5. sess \in [Sessions -> Session] BY IdleSession
<1>6. TypeInv BY <1>3, <1>4, <1>5, SizesAssumption DEF TypeInv
<1>7. InterviewHasRound BY <1>1, <1>2 DEF InterviewHasRound
<1>8. SessionsInv
  BY IdleSession DEF SessionsInv, InPhase, EntersHooked, PendingHasRound, Idle, None
<1> QED BY <1>6, <1>7, <1>8 DEF Inv

---------------------------------------------------------------------------
(* Requests. *)

\* A request that begins loads rows and writes nothing yet.
LEMMA BeginStep ==
    ASSUME Inv, NEW s \in Sessions, NEW op \in Requests, NEW cs \in SUBSET Candidates,
           NEW to \in Stages, NEW at \in {"write", "reread"},
           MayBegin(s, op), Begin(s, op, cs, to, at), to = "INTERVIEW" => op \in Hooked
    PROVE  Inv'
<1> DEFINE x == [op |-> op, at |-> at, seen |-> [c \in cs |-> row[c]], next |-> <<>>,
                 to |-> to, camp |-> "free"]
<1>1. TypeInv /\ SessionsInv /\ InterviewHasRound BY DEF Inv
<1>2. [c \in cs |-> row[c]] \in [cs -> Row] BY <1>1 DEF TypeInv
<1>3. [c \in cs |-> row[c]] \in Views BY <1>2, ViewIntro
<1>4. <<>> \in Views /\ DOMAIN x.next = {} BY IdleSession DEF Idle, Session
<1>5. x \in Session BY <1>3, <1>4 DEF Session, Ops, Ats
<1>6. sess' = [sess EXCEPT ![s] = x] /\ UNCHANGED <<row, round, status, tasks>>
  BY DEF Begin
<1>7. requests' \in 0..MaxRequests /\ used' \subseteq Requests
  BY <1>1, SizesAssumption DEF Begin, MayBegin, TypeInv
<1>8. x.op = op /\ x.at = at /\ x.to = to OBVIOUS
<1> HIDE DEF x
<1>9. TypeInv' BY <1>1, <1>5, <1>6, <1>7 DEF TypeInv
<1>10. sess'[s] = x /\ \A t \in Sessions \ {s} : sess'[t] = sess[t]
  BY <1>1, <1>6 DEF TypeInv
<1>11. InPhase(s)' BY <1>8, <1>10 DEF InPhase
<1>12. EntersHooked(s)' BY <1>8, <1>10 DEF EntersHooked
<1>13. PendingHasRound(s)' BY <1>4, <1>10 DEF PendingHasRound
<1>14. SessionsInv' BY <1>1, <1>6, <1>10, <1>11, <1>12, <1>13, OwnStep
<1>15. InterviewHasRound' BY <1>1, <1>6 DEF InterviewHasRound
<1> QED BY <1>9, <1>14, <1>15 DEF Inv

\* Every kind of request is of that form.
LEMMA RequestStep == ASSUME Inv, NEW s \in Sessions, Request(s) PROVE Inv'
<1> USE DEF Requests, Stages
<1>1. CASE Transition(s) BY <1>1, BeginStep DEF Transition, Hooked
<1>2. CASE Drag(s) BY <1>2, BeginStep DEF Drag, Hooked
<1>3. CASE BulkMove(s) BY <1>3, BeginStep DEF BulkMove, Hooked
<1>4. CASE Resubmit(s) BY <1>4, BeginStep DEF Resubmit, Hooked
<1>5. CASE Override(s) BY <1>5, BeginStep DEF Override, Hooked
<1>6. CASE Flag(s) BY <1>6, BeginStep DEF Flag
<1>7. CASE HrOverride(s) BY <1>7, BeginStep DEF HrOverride
<1>8. CASE Revert(s) BY <1>8, BeginStep DEF Revert
<1> QED BY <1>1, <1>2, <1>3, <1>4, <1>5, <1>6, <1>7, <1>8 DEF Request

---------------------------------------------------------------------------
(* Work: the steps of a request up to its commit, and after it. *)

\* A step that changes one session only, to one with the same flushed rows and purpose.
LEMMA SessionStep ==
    ASSUME Inv, NEW s \in Sessions, NEW x \in Session, sess' = [sess EXCEPT ![s] = x],
           x.next = sess[s].next \/ DOMAIN x.next = {},
           x.op = sess[s].op, x.to = sess[s].to,
           x.at # "judge", InPhase(s),
           x.at \in {"reread", "write", "count"} => sess[s].at \in {"reread", "write", "count"},
           UNCHANGED <<row, round, status, tasks, used, requests>>
    PROVE  Inv'
<1>1. TypeInv /\ SessionsInv /\ InterviewHasRound BY DEF Inv
<1>2. TypeInv' BY <1>1 DEF TypeInv
<1>3. sess'[s] = x /\ \A t \in Sessions \ {s} : sess'[t] = sess[t] BY <1>1 DEF TypeInv
<1>4. EntersHooked(s) /\ PendingHasRound(s) BY <1>1 DEF SessionsInv
<1>5. InPhase(s)' BY <1>3 DEF InPhase
<1>6. EntersHooked(s)' BY <1>3, <1>4 DEF EntersHooked
<1>7. PendingHasRound(s)' BY <1>3, <1>4 DEF PendingHasRound
<1>8. SessionsInv' BY <1>1, <1>3, <1>5, <1>6, <1>7, OwnStep
<1>9. InterviewHasRound' BY <1>1 DEF InterviewHasRound
<1> QED BY <1>2, <1>8, <1>9 DEF Inv

\* A session that ends without changing a row.
LEMMA EndStep ==
    ASSUME Inv, NEW s \in Sessions, sess' = [sess EXCEPT ![s] = Idle],
           tasks' \in [Candidates -> SUBSET Layers],
           UNCHANGED <<row, round, status, used, requests>>
    PROVE  Inv'
<1>1. TypeInv /\ SessionsInv /\ InterviewHasRound BY DEF Inv
<1>2. TypeInv' BY <1>1, IdleSession DEF TypeInv
<1>3. sess'[s] = Idle /\ \A t \in Sessions \ {s} : sess'[t] = sess[t] BY <1>1 DEF TypeInv
<1>4. SessionsInv' BY <1>1, <1>3, IdleInOrder, OwnStep
<1>5. InterviewHasRound' BY <1>1 DEF InterviewHasRound
<1> QED BY <1>2, <1>4, <1>5 DEF Inv

\* The steps of a request: each keeps the invariant.
LEMMA RereadStep == ASSUME Inv, NEW s \in Sessions, Reread(s) PROVE Inv'
<1> DEFINE D == DOMAIN sess[s].seen
           x == [sess[s] EXCEPT !.seen = [c \in D |-> row[c]], !.at = "write"]
<1>1. TypeInv /\ InPhase(s) BY DEF Inv, SessionsInv
<1>2. sess[s] \in Session /\ D \in SUBSET Candidates BY <1>1, SessionFields
<1>3. [c \in D |-> row[c]] \in [D -> Row] BY <1>1, <1>2 DEF TypeInv
<1>4. [c \in D |-> row[c]] \in Views BY <1>2, <1>3, ViewIntro
<1>5. x \in Session BY <1>2, <1>4 DEF Session, Ats
<1>6. sess' = [sess EXCEPT ![s] = x] BY <1>1 DEF Reread, TypeInv
<1>7. x.next = sess[s].next /\ x.op = sess[s].op /\ x.to = sess[s].to /\ x.at = "write"
  BY <1>2 DEF Session
<1> HIDE DEF x, D
<1> QED BY <1>1, <1>5, <1>6, <1>7, SessionStep DEF Reread

\* The count under the campaign lock.
LEMMA CountStep == ASSUME Inv, NEW s \in Sessions, Count(s) PROVE Inv'
<1>1. TypeInv /\ InPhase(s) BY DEF Inv, SessionsInv
<1>2. sess[s] \in Session BY <1>1, SessionFields
<1>3. PICK camp \in {"held", "close"}, at \in {"commit", "write"} :
          sess' = [sess EXCEPT ![s].camp = camp, ![s].at = at]
  BY DEF Count
<1> DEFINE x == [sess[s] EXCEPT !.camp = camp, !.at = at]
<1>4. x \in Session /\ x.at = at BY <1>2 DEF Session, Ats
<1>5. sess' = [sess EXCEPT ![s] = x] BY <1>1, <1>3 DEF TypeInv
<1>6. x.next = sess[s].next /\ x.op = sess[s].op /\ x.to = sess[s].to
  BY <1>2 DEF Session
<1>7. sess[s].at = "count" /\ UNCHANGED <<row, round, status, tasks, used, requests>>
  BY DEF Count
<1> HIDE DEF x
<1> QED BY <1>1, <1>4, <1>5, <1>6, <1>7, SessionStep

\* The flush of one row: at INTERVIEW only if the row was there or the request goes there.
LEMMA WriteStep == ASSUME Inv, NEW s \in Sessions, Write(s) PROVE Inv'
<1>1. /\ TypeInv /\ SessionsInv /\ InterviewHasRound
      /\ InPhase(s) /\ EntersHooked(s) /\ PendingHasRound(s)
  BY DEF Inv, SessionsInv
<1>2. sess[s] \in Session /\ DOMAIN sess[s].seen \subseteq Candidates
      /\ DOMAIN sess[s].next \subseteq Candidates
      /\ \A d \in DOMAIN sess[s].next : sess[s].next[d] \in Row
  BY <1>1, SessionFields
<1>2a. PICK c \in DOMAIN sess[s].seen \ DOMAIN sess[s].next :
        \E r \in Written(s, c), at \in {"count", "commit", "write"} :
          sess' = [sess EXCEPT
              ![s].next = [d \in DOMAIN sess[s].next \cup {c} |->
                              IF d = c THEN r ELSE sess[s].next[d]],
              ![s].at = at]
  <2> DEFINE After(c) == IF sess[s].to = "SELECTED" /\ sess[s].op # "engine" THEN "count"
                         ELSE IF DOMAIN sess[s].next \cup {c} = DOMAIN sess[s].seen THEN "commit"
                         ELSE "write"
  <2>1. PICK c \in DOMAIN sess[s].seen \ DOMAIN sess[s].next : \E r \in Written(s, c) :
          sess' = [sess EXCEPT
              ![s].next = [d \in DOMAIN sess[s].next \cup {c} |->
                              IF d = c THEN r ELSE sess[s].next[d]],
              ![s].at = After(c)]
    BY DEF Write
  <2>2. After(c) \in {"count", "commit", "write"}
    OBVIOUS
  <2> DEFINE Left(r, at) == sess' = [sess EXCEPT
                              ![s].next = [d \in DOMAIN sess[s].next \cup {c} |->
                                              IF d = c THEN r ELSE sess[s].next[d]],
                              ![s].at = at]
  <2>3. \E r \in Written(s, c) : Left(r, After(c))
    BY <2>1
  <2> HIDE DEF After, Left
  <2>4. \E r \in Written(s, c), at \in {"count", "commit", "write"} : Left(r, at)
    BY <2>2, <2>3
  <2> QED
    BY <2>4 DEF Left
<1>3. PICK r \in Written(s, c), at \in {"count", "commit", "write"} :
          sess' = [sess EXCEPT
              ![s].next = [d \in DOMAIN sess[s].next \cup {c} |->
                              IF d = c THEN r ELSE sess[s].next[d]],
              ![s].at = at]
  BY <1>2a
<1>4. sess[s].at = "write" /\ UNCHANGED <<row, round, status, tasks, used, requests>>
  BY DEF Write
<1>5. c \in Candidates /\ c \in DOMAIN sess[s].seen BY <1>2
<1>6. r \in Row /\ r.stage \in {row[c].stage, sess[s].to, "SCREENING", "REJECTED"}
  BY <1>1, <1>4, <1>5, WrittenRow
<1> DEFINE D == DOMAIN sess[s].next \cup {c}
           n == [d \in D |-> IF d = c THEN r ELSE sess[s].next[d]]
           x == [sess[s] EXCEPT !.next = n, !.at = at]
<1>7. D \in SUBSET Candidates /\ n \in [D -> Row] BY <1>2, <1>5, <1>6
<1>8. n \in Views BY <1>7, ViewIntro
<1>9. DOMAIN n = D /\ \A d \in D : n[d] = IF d = c THEN r ELSE sess[s].next[d] OBVIOUS
<1>10. sess' = [sess EXCEPT ![s] = x] BY <1>1, <1>3 DEF TypeInv
<1> HIDE DEF n
<1>11. x \in Session /\ x.next = n /\ x.at = at /\ x.op = sess[s].op /\ x.to = sess[s].to
  BY <1>2, <1>8 DEF Session, Ats
<1> HIDE DEF x
<1>12. TypeInv' BY <1>1, <1>4, <1>10, <1>11 DEF TypeInv
<1>13. sess'[s] = x /\ \A t \in Sessions \ {s} : sess'[t] = sess[t]
  BY <1>1, <1>10 DEF TypeInv
<1>14. InPhase(s)' BY <1>1, <1>4, <1>11, <1>13 DEF InPhase
<1>15. EntersHooked(s)' BY <1>1, <1>11, <1>13 DEF EntersHooked
<1>16. PendingHasRound(s)'
  <2> SUFFICES ASSUME NEW d \in D, n[d].stage = "INTERVIEW", sess[s].to # "INTERVIEW"
               PROVE  round[d] # "none"
    BY <1>4, <1>9, <1>11, <1>13 DEF PendingHasRound
  <2>1. CASE d = c BY <2>1, <1>1, <1>5, <1>6, <1>9 DEF InterviewHasRound
  <2>2. CASE d # c BY <2>2, <1>1, <1>9 DEF PendingHasRound
  <2> QED BY <2>1, <2>2
<1>17. SessionsInv' BY <1>1, <1>4, <1>13, <1>14, <1>15, <1>16, OwnStep
<1>18. InterviewHasRound' BY <1>1, <1>4 DEF InterviewHasRound
<1> QED BY <1>12, <1>17, <1>18 DEF Inv

\* The commit publishes the flushed rows with the rounds their hooks left.
LEMMA CommitStep == ASSUME Inv, NEW s \in Sessions, Commit(s) PROVE Inv'
<1>1. /\ TypeInv /\ SessionsInv /\ InterviewHasRound
      /\ EntersHooked(s) /\ PendingHasRound(s)
  BY DEF Inv, SessionsInv
<1>2. sess[s] \in Session /\ DOMAIN sess[s].next \subseteq Candidates
      /\ \A d \in DOMAIN sess[s].next : sess[s].next[d] \in Row
  BY <1>1, SessionFields
<1>3. row' \in [Candidates -> Row] BY <1>1, <1>2 DEF Commit, View, TypeInv
<1>4. \A c \in Candidates : RoundAfter(s, c) \in Rounds
  BY <1>1 DEF RoundAfter, Rounds, TypeInv
<1>5. round' \in [Candidates -> Rounds] BY <1>1, <1>4 DEF Commit, TypeInv
<1>6. \A c \in Candidates : round[c] # "none" => round'[c] # "none"
  BY DEF Commit, RoundAfter
<1> DEFINE kept == [sess[s] EXCEPT !.at = "after", !.next = <<>>, !.camp = "free"]
<1>7. <<>> \in Views /\ DOMAIN <<>> = {} BY IdleSession DEF Idle, Session
<1>8. kept \in Session BY <1>2, <1>7 DEF Session, Ats
<1>9. kept.at = "after" /\ DOMAIN kept.next = {} /\ kept.op = sess[s].op /\ kept.to = sess[s].to
  BY <1>2, <1>7 DEF Session
<1>10. PICK x \in {Idle, kept} : sess' = [sess EXCEPT ![s] = x]
  BY DEF Commit
<1> HIDE DEF kept
<1>11. sess' \in [Sessions -> Session] /\ sess'[s] = x
       /\ \A t \in Sessions \ {s} : sess'[t] = sess[t]
  BY <1>1, <1>8, <1>10, IdleSession DEF TypeInv
<1>12. TypeInv' BY <1>1, <1>3, <1>5, <1>11 DEF Commit, TypeInv
<1>13. InPhase(s)' /\ EntersHooked(s)' /\ PendingHasRound(s)'
  <2>1. CASE x = Idle BY <2>1, <1>11, IdleInOrder
  <2>2. CASE x = kept
    BY <2>2, <1>1, <1>9, <1>11 DEF InPhase, EntersHooked, PendingHasRound
  <2> QED BY <2>1, <2>2
<1>14. SessionsInv' BY <1>1, <1>6, <1>11, <1>13, OwnStep
<1>15. InterviewHasRound'
  <2> SUFFICES ASSUME NEW c \in Candidates, row'[c].stage = "INTERVIEW"
               PROVE  round'[c] # "none"
    BY DEF InterviewHasRound
  <2>1. CASE c \notin DOMAIN sess[s].next
    BY <2>1, <1>1, <1>6 DEF Commit, View, InterviewHasRound
  <2>2. CASE c \in DOMAIN sess[s].next
    <3>1. sess[s].next[c].stage = "INTERVIEW" BY <2>2 DEF Commit, View
    <3>2. round[c] # "none" \/ sess[s].to = "INTERVIEW"
      BY <2>2, <3>1, <1>1 DEF PendingHasRound
    <3>3. CASE round[c] # "none" BY <3>3, <1>6
    <3>4. CASE round[c] = "none" /\ sess[s].to = "INTERVIEW"
      <4>1. sess[s].op \in Hooked BY <3>4, <1>1 DEF EntersHooked
      <4>2. round'[c] = RoundAfter(s, c) BY <4>1, <2>2 DEF Commit
      <4> QED BY <4>2, <3>4 DEF RoundAfter
    <3> QED BY <3>2, <3>3, <3>4
  <2> QED BY <2>1, <2>2
<1> QED BY <1>12, <1>14, <1>15 DEF Inv

\* What follows the commit, one candidate at a time, keeps the stages and the rounds.
LEMMA ForgetStep ==
    ASSUME Inv, NEW s \in Sessions, sess[s].at = "after", NEW c \in DOMAIN sess[s].seen,
           Forget(s, c), row' \in [Candidates -> Row], tasks' \in [Candidates -> SUBSET Layers],
           \A d \in Candidates : row'[d].stage = row[d].stage,
           UNCHANGED <<round, status, used, requests>>
    PROVE  Inv'
<1> DEFINE rest == DOMAIN sess[s].seen \ {c}
           seen == [d \in rest |-> sess[s].seen[d]]
           kept == [sess[s] EXCEPT !.seen = seen]
<1>1. /\ TypeInv /\ SessionsInv /\ InterviewHasRound
      /\ EntersHooked(s) /\ PendingHasRound(s)
  BY DEF Inv, SessionsInv
<1>2. sess[s] \in Session /\ DOMAIN sess[s].seen \subseteq Candidates
      /\ \A d \in DOMAIN sess[s].seen : sess[s].seen[d] \in Row
  BY <1>1, SessionFields
<1>3. rest \in SUBSET Candidates /\ seen \in [rest -> Row] BY <1>2
<1>4. seen \in Views BY <1>3, ViewIntro
<1>5. kept \in Session /\ kept.at = "after" /\ kept.next = sess[s].next
      /\ kept.op = sess[s].op /\ kept.to = sess[s].to
  BY <1>2, <1>4 DEF Session
<1>6. PICK x \in {Idle, kept} : sess' = [sess EXCEPT ![s] = x]
  BY DEF Forget
<1> HIDE DEF kept
<1>7. sess' \in [Sessions -> Session] /\ sess'[s] = x
       /\ \A t \in Sessions \ {s} : sess'[t] = sess[t]
  BY <1>1, <1>5, <1>6, IdleSession DEF TypeInv
<1>8. TypeInv' BY <1>1, <1>7 DEF TypeInv
<1>9. InPhase(s)' /\ EntersHooked(s)' /\ PendingHasRound(s)'
  <2>1. CASE x = Idle BY <2>1, <1>7, IdleInOrder
  <2>2. CASE x = kept
    BY <2>2, <1>1, <1>5, <1>7 DEF InPhase, EntersHooked, PendingHasRound
  <2> QED BY <2>1, <2>2
<1>10. SessionsInv' BY <1>1, <1>7, <1>9, OwnStep
<1>11. InterviewHasRound' BY <1>1 DEF InterviewHasRound
<1> QED BY <1>8, <1>10, <1>11 DEF Inv

\* A queued layer is a layer.
LEMMA QueueTasks ==
    ASSUME TypeInv, NEW c \in Candidates, NEW layer \in Layers, Queue(c, layer)
    PROVE  tasks' \in [Candidates -> SUBSET Layers]
BY DEF TypeInv, Queue

\* A rescoring clears what the layers decided, and leaves the stages.
LEMMA RescoreRow ==
    ASSUME TypeInv, NEW s \in Sessions, Rescore(s)
    PROVE  row' \in [Candidates -> Row] /\ \A d \in Candidates : row'[d].stage = row[d].stage
<1>1. PICK c \in Rescored(s) :
          row' = [row EXCEPT ![c] = [Cleared(@) EXCEPT !.sem = FALSE]] \/ row' = row
  BY DEF Rescore
<1>2. c \in Candidates BY SessionFields DEF Rescored
<1> DEFINE r == [Cleared(row[c]) EXCEPT !.sem = FALSE]
<1>3. row[c] \in Row /\ None \in Decisions /\ None \in Sources
  BY <1>2 DEF TypeInv, Decisions, Sources
<1>4. Cleared(row[c]) \in Row /\ Cleared(row[c]).stage = row[c].stage
  BY <1>3, DecidedRow
<1>5. r \in Row /\ r.stage = row[c].stage BY <1>4 DEF Row
<1> HIDE DEF r
<1>6. row' = [row EXCEPT ![c] = r] \/ row' = row BY <1>1 DEF r
<1> QED BY <1>2, <1>5, <1>6 DEF TypeInv

\* The manual re-score after a move back to SCREENING.
LEMMA RescoreStep == ASSUME Inv, NEW s \in Sessions, Rescore(s) PROVE Inv'
<1>1. TypeInv BY DEF Inv
<1>2. PICK c \in Rescored(s) : (Queue(c, "det") \/ UNCHANGED tasks) /\ Forget(s, c)
  BY DEF Rescore
<1>3. c \in DOMAIN sess[s].seen /\ c \in Candidates
  BY <1>1, SessionFields DEF Rescored
<1>4. tasks' \in [Candidates -> SUBSET Layers]
  <2>1. CASE Queue(c, "det") BY <2>1, <1>1, <1>3, QueueTasks DEF Layers
  <2>2. CASE UNCHANGED tasks BY <2>2, <1>1 DEF TypeInv
  <2> QED BY <1>2, <2>1, <2>2
<1>5. row' \in [Candidates -> Row] /\ \A d \in Candidates : row'[d].stage = row[d].stage
  BY <1>1, RescoreRow
<1> QED BY <1>2, <1>3, <1>4, <1>5, ForgetStep DEF Rescore

\* The evaluation queued after an HR override.
LEMMA QueueOverrideStep == ASSUME Inv, NEW s \in Sessions, QueueOverride(s) PROVE Inv'
<1>1. TypeInv BY DEF Inv
<1>2. PICK c \in DOMAIN sess[s].seen : (\E layer \in Layers : Queue(c, layer)) /\ Forget(s, c)
  BY DEF QueueOverride, Layers
<1>3. c \in Candidates BY <1>1, SessionFields
<1>4. tasks' \in [Candidates -> SUBSET Layers] BY <1>1, <1>2, <1>3, QueueTasks
<1>5. row' \in [Candidates -> Row] /\ row' = row BY <1>1 DEF QueueOverride, TypeInv
<1> QED BY <1>2, <1>4, <1>5, ForgetStep DEF QueueOverride

\* The first layer queued after a resubmission.
LEMMA QueueResubmissionStep ==
    ASSUME Inv, NEW s \in Sessions, QueueResubmission(s) PROVE Inv'
<1>1. TypeInv BY DEF Inv
<1>2. PICK c \in DOMAIN sess[s].seen : Queue(c, "det") /\ Forget(s, c)
  BY DEF QueueResubmission
<1>3. c \in Candidates BY <1>1, SessionFields
<1>4. tasks' \in [Candidates -> SUBSET Layers] BY <1>1, <1>2, <1>3, QueueTasks DEF Layers
<1>5. row' \in [Candidates -> Row] /\ row' = row BY <1>1 DEF QueueResubmission, TypeInv
<1> QED BY <1>2, <1>4, <1>5, ForgetStep DEF QueueResubmission

\* Every step of a request after its beginning keeps the invariant.
LEMMA WorkStep == ASSUME Inv, NEW s \in Sessions, Work(s) PROVE Inv'
<1>1. CASE Abandon(s)
  <2>1. tasks' \in [Candidates -> SUBSET Layers] BY <1>1 DEF Abandon, Inv, TypeInv
  <2> QED BY <2>1, <1>1, EndStep DEF Abandon
<1> QED BY <1>1, RereadStep, WriteStep, CountStep, CommitStep, RescoreStep,
           QueueOverrideStep, QueueResubmissionStep DEF Work

---------------------------------------------------------------------------
(* Scoring. *)

\* A worker that takes a message loads one row and writes none.
LEMMA TakeTaskStep == ASSUME Inv, NEW s \in Sessions, TakeTask(s) PROVE Inv'
<1>1. TypeInv /\ SessionsInv /\ InterviewHasRound BY DEF Inv
<1>2. PICK c \in Candidates : \E layer \in tasks[c] :
        /\ sess' = IF Applies(c, layer)
                   THEN [sess EXCEPT ![s] = [Idle EXCEPT !.op = layer, !.at = "judge",
                                                         !.seen = [d \in {c} |-> row[d]]]]
                   ELSE sess
        /\ tasks' = [tasks EXCEPT ![c] = @ \ {layer}]
  BY DEF TakeTask
<1>3. PICK layer \in tasks[c] :
        /\ sess' = IF Applies(c, layer)
                   THEN [sess EXCEPT ![s] = [Idle EXCEPT !.op = layer, !.at = "judge",
                                                         !.seen = [d \in {c} |-> row[d]]]]
                   ELSE sess
        /\ tasks' = [tasks EXCEPT ![c] = @ \ {layer}]
  BY <1>2
<1>4. layer \in Layers /\ tasks' \in [Candidates -> SUBSET Layers] BY <1>1, <1>3 DEF TypeInv
<1>5. UNCHANGED <<row, round, status, used, requests>> BY DEF TakeTask
<1> DEFINE seen == [d \in {c} |-> row[d]]
           x == [Idle EXCEPT !.op = layer, !.at = "judge", !.seen = seen]
<1>6. seen \in [{c} -> Row] BY <1>1 DEF TypeInv
<1>7. seen \in Views BY <1>6, ViewIntro
<1>8. x \in Session BY <1>4, <1>7, IdleSession DEF Session, Ops, Ats
<1>9. x.at = "judge" /\ x.op = layer /\ x.to = None /\ DOMAIN x.next = {}
  BY IdleSession DEF Idle
<1>10. sess' = sess \/ sess' = [sess EXCEPT ![s] = x] BY <1>3
<1> HIDE DEF x
<1>11. TypeInv' BY <1>1, <1>4, <1>5, <1>8, <1>10 DEF TypeInv
<1>12. InterviewHasRound' BY <1>1, <1>5 DEF InterviewHasRound
<1>13. CASE sess' = sess
  <2>1. SessionsInv' BY <1>13, <1>1, <1>5
    DEF SessionsInv, InPhase, EntersHooked, PendingHasRound
  <2> QED BY <2>1, <1>11, <1>12 DEF Inv
<1>14. CASE sess' = [sess EXCEPT ![s] = x]
  <2>1. sess'[s] = x /\ \A t \in Sessions \ {s} : sess'[t] = sess[t]
    BY <1>1, <1>14 DEF TypeInv
  <2>2. InPhase(s)' BY <1>4, <1>9, <2>1 DEF InPhase
  <2>3. EntersHooked(s)' BY <2>1, <1>9 DEF EntersHooked, None
  <2>4. PendingHasRound(s)' BY <2>1, <1>9 DEF PendingHasRound
  <2>5. SessionsInv' BY <1>1, <1>5, <2>1, <2>2, <2>3, <2>4, OwnStep
  <2> QED BY <2>5, <1>11, <1>12 DEF Inv
<1> QED BY <1>10, <1>13, <1>14

\* A judgement that brings nobody to INTERVIEW.
LEMMA JudgeStep ==
    ASSUME Inv, NEW s \in Sessions, NEW layer, NEW c \in Candidates, NEW r \in Row,
           NEW queued \in SUBSET Layers, Judge(s, layer, c, r, queued),
           r.stage = "INTERVIEW" => row[c].stage = "INTERVIEW"
    PROVE  Inv'
<1>1. TypeInv /\ SessionsInv /\ InterviewHasRound BY DEF Inv
<1>2. row' = [row EXCEPT ![c] = r] /\ tasks' = [tasks EXCEPT ![c] = @ \cup queued]
      /\ sess' = [sess EXCEPT ![s] = Idle] /\ UNCHANGED <<round, status, used, requests>>
  BY DEF Judge
<1>3. TypeInv' BY <1>1, <1>2, IdleSession DEF TypeInv
<1>4. sess'[s] = Idle /\ \A t \in Sessions \ {s} : sess'[t] = sess[t]
  BY <1>1, <1>2 DEF TypeInv
<1>5. SessionsInv' BY <1>1, <1>2, <1>4, IdleInOrder, OwnStep
<1>6. InterviewHasRound' BY <1>1, <1>2 DEF InterviewHasRound, TypeInv
<1> QED BY <1>3, <1>5, <1>6 DEF Inv

\* The note of a missing embedding leaves the stage.
LEMMA NotedRow ==
    ASSUME NEW current \in Row, NEW loaded \in Row
    PROVE  LET noted == Merge(current, loaded, [loaded EXCEPT !.by = "SEMANTIC"])
           IN  /\ [noted EXCEPT !.orig = NoOrig] \in Row
               /\ [noted EXCEPT !.orig = NoOrig].stage = current.stage
<1> DEFINE changed == [loaded EXCEPT !.by = "SEMANTIC"]
           noted == Merge(current, loaded, changed)
<1>1. changed \in Row /\ changed.stage = loaded.stage BY DEF Row, Sources
<1>2. NoOrig \in Decisions \X Sources BY DEF NoOrig, Decisions, Sources
<1> HIDE DEF changed
<1>3. noted \in Row /\ noted.stage = current.stage BY <1>1, MergeRow
<1> HIDE DEF noted
<1>4. [noted EXCEPT !.orig = NoOrig] \in Row
      /\ [noted EXCEPT !.orig = NoOrig].stage = current.stage
  BY <1>2, <1>3 DEF Row
<1> QED BY <1>4 DEF noted, changed

\* The deterministic layer's first write brings an uploaded candidate to SCREENING.
LEMMA ScreenedRow ==
    ASSUME NEW current \in Row, NEW loaded \in Row
    PROVE  /\ Screened(current, loaded) \in Row
           /\ Screened(current, loaded).stage \in {current.stage, "SCREENING"}
BY MovedRow DEF Screened, Stages

\* What the deterministic layer makes of a row.
LEMMA JudgeDeterministicRow ==
    ASSUME TypeInv, NEW s \in Sessions, JudgeDeterministic(s)
    PROVE  \E c \in Candidates, r \in Row, queued \in SUBSET Layers :
              /\ Judge(s, "det", c, r, queued)
              /\ r.stage \in {row[c].stage, "SCREENING", "REJECTED"}
<1>1. PICK c \in DOMAIN sess[s].seen :
        LET r == Screened(row[c], sess[s].seen[c])
        IN  \/ \E queued \in {{}, {"sem"}} :
                  Judge(s, "det", c, [r EXCEPT !.det = TRUE], queued)
            \/ Judge(s, "det", c, Verdict([r EXCEPT !.det = FALSE], "REJECTED", "DETERMINISTIC"), {})
  BY DEF JudgeDeterministic
<1> DEFINE r == Screened(row[c], sess[s].seen[c])
           passed == [r EXCEPT !.det = TRUE]
           failed == [r EXCEPT !.det = FALSE]
           verdict == Verdict(failed, "REJECTED", "DETERMINISTIC")
<1>2. c \in Candidates /\ row[c] \in Row /\ sess[s].seen[c] \in Row
  BY SessionFields DEF TypeInv
<1>3. r \in Row /\ r.stage \in {row[c].stage, "SCREENING"} BY <1>2, ScreenedRow
<1>4. \/ \E queued \in {{}, {"sem"}} : Judge(s, "det", c, passed, queued)
      \/ Judge(s, "det", c, verdict, {})
  BY <1>1
<1> HIDE DEF r
<1>5. passed \in Row /\ failed \in Row /\ passed.stage = r.stage /\ failed.stage = r.stage
  BY <1>3 DEF Row
<1> HIDE DEF passed, failed
<1>6. verdict \in Row /\ verdict.stage \in {failed.stage, "REJECTED"}
  BY <1>5, VerdictRow DEF Sources
<1> HIDE DEF verdict
<1> QED BY <1>2, <1>3, <1>4, <1>5, <1>6 DEF Layers

\* What the semantic and the AI layer make of a row: the stage stays, or a verdict moves it.
LEMMA JudgeSemanticRow ==
    ASSUME TypeInv, NEW s \in Sessions, JudgeSemantic(s) \/ NoteMissingEmbedding(s) \/ JudgeAi(s)
    PROVE  \E c \in Candidates, r \in Row, queued \in SUBSET Layers, layer \in {"sem", "ai"} :
              /\ Judge(s, layer, c, r, queued)
              /\ r.stage \in {row[c].stage, "REJECTED", "SHORTLISTED", "HOLD"}
              /\ r.stage # row[c].stage => IsAllowed(row[c].prev, row[c].stage, r.stage)
<1>1. \A c \in DOMAIN sess[s].seen :
          c \in Candidates /\ row[c] \in Row /\ sess[s].seen[c] \in Row
  BY SessionFields DEF TypeInv
<1>2. CASE JudgeSemantic(s)
  <2>1. PICK c \in DOMAIN sess[s].seen :
        \/ \E queued \in {{}, {"ai"}} : Judge(s, "sem", c, [row[c] EXCEPT !.sem = TRUE], queued)
        \/ Judge(s, "sem", c, Verdict([row[c] EXCEPT !.sem = FALSE], "REJECTED", "SEMANTIC"), {})
    BY <1>2 DEF JudgeSemantic
  <2> DEFINE passed == [row[c] EXCEPT !.sem = TRUE]
             failed == [row[c] EXCEPT !.sem = FALSE]
  <2>2. /\ passed \in Row /\ passed.stage = row[c].stage
        /\ failed \in Row /\ failed.stage = row[c].stage /\ failed.prev = row[c].prev
    BY <1>1 DEF Row
  <2> HIDE DEF passed, failed
  <2>3. CASE \E queued \in {{}, {"ai"}} : Judge(s, "sem", c, passed, queued)
    BY <2>3, <2>2, <1>1 DEF Layers
  <2>4. CASE Judge(s, "sem", c, Verdict(failed, "REJECTED", "SEMANTIC"), {})
    <3> DEFINE r == Verdict(failed, "REJECTED", "SEMANTIC")
    <3>1. r \in Row /\ r.stage \in {failed.stage, "REJECTED"}
          /\ (r.stage # failed.stage => IsAllowed(failed.prev, failed.stage, r.stage))
      BY <2>2, VerdictRow DEF Sources
    <3> HIDE DEF r
    <3>2. Judge(s, "sem", c, r, {}) BY <2>4 DEF r
    <3> QED BY <3>1, <3>2, <2>2, <1>1 DEF Layers
  <2> QED BY <2>1, <2>3, <2>4 DEF passed, failed
<1>3. CASE NoteMissingEmbedding(s)
  <2>1. PICK c \in DOMAIN sess[s].seen :
        LET noted == Merge(row[c], sess[s].seen[c], [sess[s].seen[c] EXCEPT !.by = "SEMANTIC"])
        IN  Judge(s, "sem", c, [noted EXCEPT !.orig = NoOrig], {})
    BY <1>3 DEF NoteMissingEmbedding
  <2> DEFINE noted == Merge(row[c], sess[s].seen[c], [sess[s].seen[c] EXCEPT !.by = "SEMANTIC"])
             r == [noted EXCEPT !.orig = NoOrig]
  <2>2. r \in Row /\ r.stage = row[c].stage BY <1>1, NotedRow
  <2>3. Judge(s, "sem", c, r, {}) BY <2>1
  <2> HIDE DEF r, noted
  <2> QED BY <2>2, <2>3, <1>1 DEF Layers
<1>4. CASE JudgeAi(s)
  <2>1. PICK c \in DOMAIN sess[s].seen, to \in {"REJECTED", "SHORTLISTED", "HOLD"} :
            Judge(s, "ai", c, Verdict(row[c], to, "AI"), {})
    BY <1>4 DEF JudgeAi
  <2> DEFINE r == Verdict(row[c], to, "AI")
  <2>2. r \in Row /\ r.stage \in {row[c].stage, to}
        /\ (r.stage # row[c].stage => IsAllowed(row[c].prev, row[c].stage, r.stage))
    <3>1. to \in {"HOLD", "REJECTED", "SHORTLISTED"} /\ "AI" \in Sources BY DEF Sources
    <3> QED BY <3>1, <1>1, VerdictRow
  <2>3. Judge(s, "ai", c, r, {}) BY <2>1
  <2> HIDE DEF r
  <2> QED BY <2>2, <2>3, <1>1 DEF Layers
<1> QED BY <1>2, <1>3, <1>4

\* Every step of a scoring task keeps the invariant.
LEMMA ScoringStep == ASSUME Inv, NEW s \in Sessions, Scoring(s) PROVE Inv'
<1>1. TypeInv BY DEF Inv
<1>2. CASE TaskFails(s)
  <2>1. PICK c \in DOMAIN sess[s].seen : Queue(c, sess[s].op) \/ UNCHANGED tasks
    BY <1>2 DEF TaskFails
  <2>2. c \in Candidates BY <1>1, SessionFields
  <2>3. sess[s].op \in Layers BY <1>2 DEF TaskFails, Inv, SessionsInv, InPhase
  <2>4. tasks' \in [Candidates -> SUBSET Layers]
    BY <1>1, <2>1, <2>2, <2>3, QueueTasks DEF TypeInv
  <2> QED BY <2>4, <1>2, EndStep DEF TaskFails
<1>3. CASE JudgeSemantic(s) \/ NoteMissingEmbedding(s) \/ JudgeAi(s)
  BY <1>1, <1>3, JudgeSemanticRow, JudgeStep
<1>4. CASE JudgeDeterministic(s) BY <1>1, <1>4, JudgeDeterministicRow, JudgeStep
<1> QED BY <1>2, <1>3, <1>4, TakeTaskStep DEF Scoring

---------------------------------------------------------------------------
(* The theorems. *)

\* Every step keeps the invariant.
LEMMA NextInv == Inv /\ [Next]_vars => Inv'
<1> SUFFICES ASSUME Inv, [Next]_vars PROVE Inv' OBVIOUS
<1>1. CASE UNCHANGED vars
  BY <1>1 DEF Inv, TypeInv, SessionsInv, InPhase, EntersHooked, PendingHasRound,
              InterviewHasRound, vars
<1>2. CASE Next BY <1>2, RequestStep, WorkStep, ScoringStep DEF Next
<1> QED BY <1>1, <1>2

\* The invariant holds in every reachable state.
LEMMA Invariance == Spec => []Inv
BY InitInv, NextInv, PTL DEF Spec

\* Every variable keeps its type, whatever requests and scoring tasks interleave.
THEOREM TypeCorrect == Spec => []TypeOK
<1>1. Inv => TypeOK
  <2> SUFFICES ASSUME Inv PROVE TypeOK OBVIOUS
  <2>1. TypeInv BY DEF Inv
  <2>2. ASSUME NEW s \in Sessions
        PROVE  /\ sess[s].op \in Requests \cup Layers \cup {"none"}
               /\ sess[s].at \in {"idle", "reread", "write", "count", "commit", "after", "judge"}
               /\ IsView(sess[s].seen) /\ IsView(sess[s].next)
               /\ sess[s].to \in Stages \cup {None}
               /\ sess[s].camp \in {"free", "held", "close"}
    <3>1. sess[s] \in Session BY <2>1 DEF TypeInv
    <3>2. IsView(sess[s].seen) /\ IsView(sess[s].next) BY <2>1, SessionFields DEF IsView
    <3> QED BY <3>1, <3>2 DEF Session, Ops, Ats
  <2> QED BY <2>1, <2>2 DEF TypeInv, TypeOK
<1> QED BY <1>1, Invariance, PTL

\* The INTERVIEW-entry hook: whichever writers interleave, and whatever each overwrites, a
\* candidate at INTERVIEW has an interview round.
THEOREM RoundForEveryInterview == Spec => []InterviewHasRound
<1>1. Inv => InterviewHasRound BY DEF Inv
<1> QED BY <1>1, Invariance, PTL

\* A step of one session leaves what the others hold.
LEMMA OthersKept ==
    ASSUME TypeInv, NEW t \in Sessions, NEW s \in Sessions, s # t,
           Request(t) \/ Work(t) \/ Scoring(t)
    PROVE  sess'[s] = sess[s]
<1> USE DEF TypeInv
<1>1. CASE Request(t)
  BY <1>1 DEF Request, Transition, Drag, BulkMove, Resubmit, Override, Flag, HrOverride,
              Revert, Begin
<1>2. CASE Work(t)
  BY <1>2 DEF Work, Reread, Write, Count, Commit, Rescore, QueueOverride,
              QueueResubmission, Abandon, Forget
<1>3. CASE Scoring(t)
  BY <1>3 DEF Scoring, TakeTask, TaskFails, JudgeDeterministic, JudgeSemantic,
              NoteMissingEmbedding, JudgeAi, Judge
<1> QED BY <1>1, <1>2, <1>3

\* The verdicts of the semantic and the AI layer follow the table from the stage the
\* candidate has when the verdict lands.
LEMMA VerdictStep ==
    ASSUME Inv, [Next]_vars, NEW s \in Sessions, NEW c \in Candidates,
           Judged(s, {"sem", "ai"}), row'[c].stage # row[c].stage
    PROVE  IsAllowed(row[c].prev, row[c].stage, row'[c].stage)
<1>1. TypeInv BY DEF Inv
<1>2. /\ sess[s].at = "judge" /\ sess[s].op \in {"sem", "ai"} /\ sess'[s].at = "idle"
      /\ row' # row
  BY DEF Judged
<1>3. PICK t \in Sessions : Request(t) \/ Work(t) \/ Scoring(t) BY <1>2 DEF Next, vars
<1>4. t = s BY <1>1, <1>2, <1>3, OthersKept
<1>5. ~Request(s)
  BY <1>2 DEF Request, Transition, Drag, BulkMove, Resubmit, Override, Flag, HrOverride,
              Revert, MayBegin
<1>6. ~Work(s)
  BY <1>2 DEF Work, Reread, Write, Count, Commit, Rescore, QueueOverride,
              QueueResubmission, Abandon
<1>7. ~(TakeTask(s) \/ TaskFails(s) \/ JudgeDeterministic(s))
  BY <1>2 DEF TakeTask, TaskFails, JudgeDeterministic, Judge
<1>8. JudgeSemantic(s) \/ NoteMissingEmbedding(s) \/ JudgeAi(s)
  BY <1>3, <1>4, <1>5, <1>6, <1>7 DEF Scoring
<1>9. PICK d \in Candidates, r \in Row, queued \in SUBSET Layers, layer \in {"sem", "ai"} :
              /\ Judge(s, layer, d, r, queued)
              /\ r.stage \in {row[d].stage, "REJECTED", "SHORTLISTED", "HOLD"}
              /\ r.stage # row[d].stage => IsAllowed(row[d].prev, row[d].stage, r.stage)
  BY <1>1, <1>8, JudgeSemanticRow
<1>10. row' = [row EXCEPT ![d] = r] BY <1>9 DEF Judge
<1> QED BY <1>1, <1>9, <1>10 DEF TypeInv

\* transition_to_rejected, transition_on_ai_success: a verdict that lands late still follows
\* an edge of the table out of the stage the candidate has by then.
THEOREM VerdictsFollowTable == Spec => VerdictFollowsTable
<1>1. Inv /\ [Next]_vars =>
        [\A s \in Sessions, c \in Candidates :
            Judged(s, {"sem", "ai"}) /\ row'[c].stage # row[c].stage
            => IsAllowed(row[c].prev, row[c].stage, row'[c].stage)]_vars
  BY VerdictStep
<1> QED BY <1>1, Invariance, PTL DEF Spec, VerdictFollowsTable

---------------------------------------------------------------------------
(* FilledCloses: the count a request makes under the campaign lock stays an upper bound   *)
(* until that request commits, because no one else's commit adds a selected candidate.    *)

\* Row locks and the campaign lock are exclusive.
Exclusive ==
    \A s, t \in Sessions : s # t =>
        /\ sess[s].camp = "free" \/ sess[t].camp = "free"
        /\ DOMAIN sess[s].next \cap DOMAIN sess[t].next = {}

\* A row flushed at SELECTED was there, or belongs to a move to SELECTED.
SelectsKnowingly(s) ==
    \A c \in DOMAIN sess[s].next :
        sess[s].next[c].stage = "SELECTED" => row[c].stage = "SELECTED" \/ sess[s].to = "SELECTED"

\* A selection that is about to commit has counted, and the count still holds.
Counted(s) ==
    sess[s].at = "commit" /\ sess[s].to = "SELECTED" =>
        /\ sess[s].camp # "free"
        /\ \/ sess[s].camp = "close" \/ status = "CLOSED"
           \/ Cardinality(Selected(View(s))) < Openings

\* While no request went through transition(), which does not count.
FillInv ==
    /\ Exclusive
    /\ \A s \in Sessions : SelectsKnowingly(s)
    /\ \/ "engine" \in used
       \/ /\ \A s \in Sessions : sess[s].op # "engine" /\ Counted(s)
          /\ Cardinality(Selected(row)) < Openings \/ status = "CLOSED"

\* Fewer selected candidates, of rows that are all the candidates'.
LEMMA FewerSelected ==
    ASSUME NEW v, NEW w, DOMAIN v = Candidates, DOMAIN w = Candidates,
           \A c \in Candidates : w[c].stage = "SELECTED" => v[c].stage = "SELECTED",
           Cardinality(Selected(v)) < Openings
    PROVE  Cardinality(Selected(w)) < Openings
<1>1. Selected(v) \subseteq Candidates /\ Selected(w) \subseteq Selected(v) BY DEF Selected
<1>2. IsFiniteSet(Selected(v)) BY <1>1, SizesAssumption, FS_Subset
<1>3. /\ Cardinality(Selected(w)) <= Cardinality(Selected(v)) /\ IsFiniteSet(Selected(w))
  BY <1>1, <1>2, FS_Subset
<1>4. Cardinality(Selected(v)) \in Nat /\ Cardinality(Selected(w)) \in Nat
  BY <1>2, <1>3, FS_CardinalityType
<1> QED BY <1>3, <1>4, SizesAssumption

\* A step that changes a row at all, and how.
Storing(t) == Commit(t) \/ Rescore(t) \/ JudgeDeterministic(t) \/ JudgeSemantic(t)
              \/ NoteMissingEmbedding(t) \/ JudgeAi(t)

\* Every other step leaves the committed rows and the campaign as they are.
LEMMA OnlyStoring ==
    ASSUME NEW t \in Sessions, Request(t) \/ Work(t) \/ Scoring(t), ~Storing(t)
    PROVE  UNCHANGED <<row, status>>
<1>1. CASE Request(t)
  BY <1>1 DEF Request, Transition, Drag, BulkMove, Resubmit, Override, Flag, HrOverride,
              Revert, Begin
<1>2. CASE Work(t)
  BY <1>2 DEF Storing, Work, Reread, Write, Count, QueueOverride, QueueResubmission, Abandon
<1>3. CASE Scoring(t) BY <1>3 DEF Storing, Scoring, TakeTask, TaskFails
<1> QED BY <1>1, <1>2, <1>3

\* Scoring and rescoring bring nobody to SELECTED.
LEMMA ScoredRows ==
    ASSUME TypeInv, NEW t \in Sessions, Storing(t), ~Commit(t)
    PROVE  /\ \A c \in Candidates : row'[c].stage = "SELECTED" => row[c].stage = "SELECTED"
           /\ status' = status
<1>1. CASE Rescore(t) BY <1>1, RescoreRow DEF Rescore
<1>2. CASE JudgeDeterministic(t)
  <2>1. PICK c \in Candidates, r \in Row, queued \in SUBSET Layers :
              /\ Judge(t, "det", c, r, queued)
              /\ r.stage \in {row[c].stage, "SCREENING", "REJECTED"}
    BY <1>2, JudgeDeterministicRow
  <2> QED BY <2>1 DEF Judge, TypeInv
<1>3. CASE JudgeSemantic(t) \/ NoteMissingEmbedding(t) \/ JudgeAi(t)
  <2>1. PICK c \in Candidates, r \in Row, queued \in SUBSET Layers, layer \in {"sem", "ai"} :
              /\ Judge(t, layer, c, r, queued)
              /\ r.stage \in {row[c].stage, "REJECTED", "SHORTLISTED", "HOLD"}
    BY <1>3, JudgeSemanticRow
  <2> QED BY <2>1 DEF Judge, TypeInv
<1> QED BY <1>1, <1>2, <1>3 DEF Storing

\* A commit that does not move to SELECTED brings nobody there.
LEMMA CommittedRows ==
    ASSUME TypeInv, NEW t \in Sessions, Commit(t), SelectsKnowingly(t)
    PROVE  /\ sess[t].to # "SELECTED" =>
                \A c \in Candidates : row'[c].stage = "SELECTED" => row[c].stage = "SELECTED"
           /\ status' \in {status, "CLOSED"}
<1>1. status' \in {status, "CLOSED"} BY DEF Commit
<1>2. row' = View(t) BY DEF Commit
<1> QED BY <1>1, <1>2 DEF View, SelectsKnowingly

\* A row that another session has flushed is not written.
LEMMA LockedRowKept ==
    ASSUME TypeInv, Exclusive, NEW s \in Sessions, NEW t \in Sessions, s # t,
           Request(t) \/ Work(t) \/ Scoring(t), NEW c \in DOMAIN sess[s].next
    PROVE  row'[c] = row[c]
<1>1. c \in Candidates BY SessionFields
<1>2. CASE ~Storing(t) BY <1>2, OnlyStoring
<1>3. CASE Commit(t) BY <1>1, <1>3 DEF Commit, View, Exclusive
<1>4. CASE Rescore(t)
  <2>1. PICK d : /\ Unlocked(t, d)
                 /\ \/ row' = [row EXCEPT ![d] = [Cleared(@) EXCEPT !.sem = FALSE]]
                    \/ row' = row
    BY <1>4 DEF Rescore
  <2>2. d # c BY <2>1 DEF Unlocked
  <2> QED BY <2>1, <2>2, <1>1 DEF TypeInv
<1>5. CASE JudgeDeterministic(t) \/ JudgeSemantic(t) \/ NoteMissingEmbedding(t) \/ JudgeAi(t)
  <2>1. PICK d, layer, r, queued : Judge(t, layer, d, r, queued)
    BY <1>5 DEF JudgeDeterministic, JudgeSemantic, NoteMissingEmbedding, JudgeAi
  <2> QED BY <2>1 DEF Judge, Unlocked, TypeInv
<1> QED BY <1>2, <1>3, <1>4, <1>5 DEF Storing

\* A session takes a row lock, or the campaign lock, only when nobody else holds it.
LEMMA OwnLocks ==
    ASSUME TypeInv, NEW t \in Sessions, Request(t) \/ Work(t) \/ Scoring(t)
    PROVE  /\ sess'[t].camp \in {"free", sess[t].camp} \/ CampaignFree(t)
           /\ \A c \in DOMAIN sess'[t].next : c \in DOMAIN sess[t].next \/ Unlocked(t, c)
<1> DEFINE Quiet == \/ sess'[t] = sess[t]
                    \/ sess'[t].camp = "free" /\ DOMAIN sess'[t].next = {}
<1>1. Quiet => /\ sess'[t].camp \in {"free", sess[t].camp}
               /\ \A c \in DOMAIN sess'[t].next : c \in DOMAIN sess[t].next
  OBVIOUS
<1>2. DOMAIN <<>> = {} BY IdleSession DEF Idle
<1>3. Idle.camp = "free" /\ DOMAIN Idle.next = {} BY <1>2 DEF Idle
<1>4. sess[t] \in Session BY SessionFields
<1>5. CASE Request(t)
  <2>1. PICK op, cs, to, at : Begin(t, op, cs, to, at)
    BY <1>5 DEF Request, Transition, Drag, BulkMove, Resubmit, Override, Flag, HrOverride, Revert
  <2>2. Quiet BY <2>1, <1>2 DEF Begin, TypeInv
  <2> QED BY <2>2, <1>1
<1>6. CASE Reread(t)
  BY <1>6, <1>4 DEF Reread, TypeInv, Session
<1>7. CASE Write(t)
  <2>1. PICK c \in DOMAIN sess[t].seen :
        \E r \in Written(t, c), at \in {"count", "commit", "write"} :
            /\ Unlocked(t, c)
            /\ sess' = [sess EXCEPT
                  ![t].next = [d \in DOMAIN sess[t].next \cup {c} |->
                                  IF d = c THEN r ELSE sess[t].next[d]],
                  ![t].at = at]
    BY <1>7 DEF Write
  <2> QED BY <2>1, <1>4 DEF TypeInv, Session
<1>8. CASE Count(t)
  <2>1. CampaignFree(t) BY <1>8 DEF Count
  <2>2. sess'[t].next = sess[t].next BY <1>4, <1>8 DEF Count, TypeInv, Session
  <2> QED BY <2>1, <2>2
<1>9. CASE Commit(t)
  <2>1. Quiet BY <1>2, <1>3, <1>4, <1>9 DEF Commit, TypeInv, Session
  <2> QED BY <2>1, <1>1
<1>10. CASE Rescore(t) \/ QueueOverride(t) \/ QueueResubmission(t)
  <2>1. PICK c : Forget(t, c) BY <1>10 DEF Rescore, QueueOverride, QueueResubmission
  <2>2. \/ sess'[t] = Idle
        \/ sess'[t].camp = sess[t].camp /\ sess'[t].next = sess[t].next
    BY <2>1, <1>4 DEF Forget, TypeInv, Session
  <2> QED BY <2>2, <1>3
<1>11. CASE Abandon(t) \/ TaskFails(t)
  <2>1. sess'[t] = Idle BY <1>11 DEF Abandon, TaskFails, TypeInv
  <2> QED BY <2>1, <1>1, <1>3
<1>12. CASE TakeTask(t)
  <2>1. Quiet BY <1>2, <1>12 DEF TakeTask, Idle, TypeInv
  <2> QED BY <2>1, <1>1
<1>13. CASE JudgeDeterministic(t) \/ JudgeSemantic(t) \/ NoteMissingEmbedding(t) \/ JudgeAi(t)
  <2>1. sess'[t] = Idle
    BY <1>13 DEF JudgeDeterministic, JudgeSemantic, NoteMissingEmbedding, JudgeAi, Judge, TypeInv
  <2> QED BY <2>1, <1>1, <1>3
<1> QED BY <1>5, <1>6, <1>7, <1>8, <1>9, <1>10, <1>11, <1>12, <1>13 DEF Work, Scoring

\* So the locks stay exclusive.
LEMMA ExclusiveStep ==
    ASSUME TypeInv, Exclusive, NEW t \in Sessions, Request(t) \/ Work(t) \/ Scoring(t)
    PROVE  Exclusive'
<1>1. \A s \in Sessions \ {t} : sess'[s] = sess[s] BY OthersKept
<1>2. \A s \in Sessions \ {t} :
          /\ sess'[s].camp = "free" \/ sess'[t].camp = "free"
          /\ DOMAIN sess'[s].next \cap DOMAIN sess'[t].next = {}
  <2> SUFFICES ASSUME NEW s \in Sessions \ {t}
               PROVE  /\ sess[s].camp = "free" \/ sess'[t].camp = "free"
                      /\ DOMAIN sess[s].next \cap DOMAIN sess'[t].next = {}
    BY <1>1
  <2>1. sess[s].camp = "free" \/ sess'[t].camp = "free"
    BY OwnLocks DEF Exclusive, CampaignFree
  <2>2. DOMAIN sess[s].next \cap DOMAIN sess'[t].next = {}
    BY OwnLocks DEF Exclusive, Unlocked
  <2> QED BY <2>1, <2>2
<1> QED BY <1>1, <1>2 DEF Exclusive

\* Every request begins the same way.
LEMMA RequestBegins ==
    ASSUME NEW s \in Sessions, Request(s)
    PROVE  \E op \in Requests, cs \in SUBSET Candidates, to \in Stages, at \in {"write", "reread"} :
              Begin(s, op, cs, to, at)
<1> USE DEF Requests, Stages
<1>1. CASE Transition(s) BY <1>1 DEF Transition
<1>2. CASE Drag(s) BY <1>2 DEF Drag
<1>3. CASE BulkMove(s) BY <1>3 DEF BulkMove
<1>4. CASE Resubmit(s) BY <1>4 DEF Resubmit
<1>5. CASE Override(s) BY <1>5 DEF Override
<1>6. CASE Flag(s) BY <1>6 DEF Flag
<1>7. CASE HrOverride(s) BY <1>7 DEF HrOverride
<1>8. CASE Revert(s) BY <1>8 DEF Revert
<1> QED BY <1>1, <1>2, <1>3, <1>4, <1>5, <1>6, <1>7, <1>8 DEF Request

\* Once transition() has been used, it stays known; a session serves it only then.
LEMMA EngineKnown ==
    ASSUME TypeInv, NEW t \in Sessions, Request(t) \/ Work(t) \/ Scoring(t)
    PROVE  /\ used \subseteq used'
           /\ sess'[t].op = "engine" => sess[t].op = "engine" \/ "engine" \in used'
<1>1. Idle.op = "none" BY DEF Idle
<1>2. sess[t] \in Session BY SessionFields
<1>3. CASE Request(t)
  <2>1. PICK op \in Requests, cs \in SUBSET Candidates, to \in Stages, at \in {"write", "reread"} :
            Begin(t, op, cs, to, at)
    BY <1>3, RequestBegins
  <2>2. sess'[t].op = op /\ used' = used \cup {op} BY <2>1 DEF Begin, TypeInv
  <2> QED BY <2>2
<1>4. CASE Reread(t) \/ Write(t) \/ Count(t)
  <2>1. used' = used BY <1>4 DEF Reread, Write, Count
  <2>2. CASE Reread(t) BY <2>1, <2>2, <1>2 DEF Reread, TypeInv, Session
  <2>3. CASE Count(t) BY <2>1, <2>3, <1>2 DEF Count, TypeInv, Session
  <2>4. CASE Write(t)
    <3>1. PICK next, at : sess' = [sess EXCEPT ![t].next = next, ![t].at = at]
      BY <2>4, ZenonT(40) DEF Write
    <3>2. sess'[t].op = sess[t].op BY <3>1, <1>2 DEF TypeInv, Session
    <3> QED BY <3>2, <2>1
  <2> QED BY <1>4, <2>2, <2>3, <2>4
<1>5. CASE Commit(t) BY <1>1, <1>2, <1>5 DEF Commit, TypeInv, Session
<1>6. CASE Rescore(t) \/ QueueOverride(t) \/ QueueResubmission(t)
  <2>1. PICK c : Forget(t, c) BY <1>6 DEF Rescore, QueueOverride, QueueResubmission
  <2>2. used' = used BY <1>6 DEF Rescore, QueueOverride, QueueResubmission
  <2>3. sess'[t] = Idle \/ sess'[t].op = sess[t].op
    BY <2>1, <1>2 DEF Forget, TypeInv, Session
  <2> QED BY <2>2, <2>3, <1>1
<1>7. CASE Abandon(t) \/ TaskFails(t) BY <1>1, <1>7 DEF Abandon, TaskFails, TypeInv
<1>8. CASE TakeTask(t)
  <2>1. PICK c \in Candidates, layer \in Layers :
            sess' \in {sess, [sess EXCEPT ![t] = [Idle EXCEPT !.op = layer, !.at = "judge",
                                                              !.seen = [d \in {c} |-> row[d]]]]}
    BY <1>8 DEF TakeTask, TypeInv
  <2>2. sess'[t] = sess[t] \/ sess'[t].op = layer BY <2>1 DEF Idle, TypeInv
  <2> QED BY <2>2, <1>8 DEF Layers, TakeTask
<1>9. CASE JudgeDeterministic(t) \/ JudgeSemantic(t) \/ NoteMissingEmbedding(t) \/ JudgeAi(t)
  BY <1>1, <1>9 DEF JudgeDeterministic, JudgeSemantic, NoteMissingEmbedding, JudgeAi, Judge, TypeInv
<1> QED BY <1>3, <1>4, <1>5, <1>6, <1>7, <1>8, <1>9 DEF Work, Scoring

\* A session that is not about to flush or commit keeps its flushed rows and its purpose, or
\* has none; only a flush and a count lead to a commit.
LEMMA OwnRows ==
    ASSUME TypeInv, NEW t \in Sessions, Request(t) \/ Work(t) \/ Scoring(t), ~Write(t)
    PROVE  /\ \/ DOMAIN sess'[t].next = {}
              \/ /\ sess'[t].next = sess[t].next /\ sess'[t].to = sess[t].to /\ ~Commit(t)
           /\ sess'[t].at = "commit" => Count(t) \/ sess'[t] = sess[t]
<1>1. Idle.at = "idle" /\ DOMAIN Idle.next = {} /\ DOMAIN <<>> = {} BY IdleSession DEF Idle
<1>2. sess[t] \in Session BY SessionFields
<1>3. CASE Request(t)
  <2>1. PICK op \in Requests, cs \in SUBSET Candidates, to \in Stages, at \in {"write", "reread"} :
            Begin(t, op, cs, to, at)
    BY <1>3, RequestBegins
  <2> QED BY <2>1, <1>1 DEF Begin, TypeInv
<1>4. CASE Reread(t) \/ Count(t)
  BY <1>2, <1>4 DEF Reread, Count, Commit, TypeInv, Session
<1>5. CASE Commit(t) BY <1>1, <1>2, <1>5 DEF Commit, TypeInv, Session
<1>6. CASE Rescore(t) \/ QueueOverride(t) \/ QueueResubmission(t)
  <2>1. PICK c : Forget(t, c) BY <1>6 DEF Rescore, QueueOverride, QueueResubmission
  <2>2. sess[t].at = "after" BY <1>6 DEF Rescore, QueueOverride, QueueResubmission
  <2>3. \/ sess'[t] = Idle
        \/ /\ sess'[t].next = sess[t].next /\ sess'[t].to = sess[t].to
           /\ sess'[t].at = sess[t].at
    BY <2>1, <1>2 DEF Forget, TypeInv, Session
  <2> QED BY <2>2, <2>3, <1>1 DEF Commit
<1>7. CASE Abandon(t) \/ TaskFails(t) BY <1>1, <1>7 DEF Abandon, TaskFails, TypeInv
<1>8. CASE TakeTask(t)
  <2>1. sess[t].at = "idle" BY <1>8 DEF TakeTask
  <2>2. \/ sess'[t] = sess[t]
        \/ sess'[t].at = "judge" /\ DOMAIN sess'[t].next = {}
    BY <1>1, <1>8 DEF TakeTask, Idle, TypeInv
  <2> QED BY <2>1, <2>2 DEF Commit
<1>9. CASE JudgeDeterministic(t) \/ JudgeSemantic(t) \/ NoteMissingEmbedding(t) \/ JudgeAi(t)
  <2>1. sess'[t] = Idle
    BY <1>9 DEF JudgeDeterministic, JudgeSemantic, NoteMissingEmbedding, JudgeAi, Judge, TypeInv
  <2> QED BY <2>1, <1>1
<1> QED BY <1>3, <1>4, <1>5, <1>6, <1>7, <1>8, <1>9 DEF Work, Scoring

\* Every step keeps flushed selections accounted for.
LEMMA SelectsStep ==
    ASSUME TypeInv, SessionsInv, Exclusive, NEW t \in Sessions, Request(t) \/ Work(t) \/ Scoring(t),
           \A s \in Sessions : SelectsKnowingly(s)
    PROVE  \A s \in Sessions : SelectsKnowingly(s)'
<1>1. ASSUME NEW s \in Sessions, s # t PROVE SelectsKnowingly(s)'
  <2>1. sess'[s] = sess[s] BY <1>1, OthersKept
  <2>2. \A c \in DOMAIN sess[s].next : row'[c] = row[c] BY <1>1, LockedRowKept
  <2> QED BY <2>1, <2>2 DEF SelectsKnowingly
<1>2. SelectsKnowingly(t)'
  <2>1. SelectsKnowingly(t) /\ InPhase(t) BY DEF SessionsInv
  <2>2. \A c \in DOMAIN sess[t].next : c \in Candidates BY SessionFields
  <2>3. CASE Write(t)
    <3>1. PICK c \in DOMAIN sess[t].seen :
        \E r \in Written(t, c), at \in {"count", "commit", "write"} :
            sess' = [sess EXCEPT
                  ![t].next = [d \in DOMAIN sess[t].next \cup {c} |->
                                  IF d = c THEN r ELSE sess[t].next[d]],
                  ![t].at = at]
      BY <2>3 DEF Write
    <3>2. PICK r \in Written(t, c), at \in {"count", "commit", "write"} :
            sess' = [sess EXCEPT
                  ![t].next = [d \in DOMAIN sess[t].next \cup {c} |->
                                  IF d = c THEN r ELSE sess[t].next[d]],
                  ![t].at = at]
      BY <3>1
    <3>3. sess[t].at = "write" /\ row' = row BY <2>3 DEF Write
    <3>4. r.stage \in {row[c].stage, sess[t].to, "SCREENING", "REJECTED"}
      BY <2>1, <3>3, WrittenRow
    <3>5. sess[t] \in Session BY SessionFields
    <3> DEFINE n == [d \in DOMAIN sess[t].next \cup {c} |-> IF d = c THEN r ELSE sess[t].next[d]]
    <3>6. sess'[t].next = n /\ sess'[t].to = sess[t].to
      BY <3>2, <3>5 DEF TypeInv, Session
    <3> QED BY <2>1, <3>3, <3>4, <3>6 DEF SelectsKnowingly
  <2>4. CASE ~Write(t) /\ DOMAIN sess'[t].next = {} BY <2>4 DEF SelectsKnowingly
  <2>5. CASE ~Write(t) /\ sess'[t].next = sess[t].next /\ sess'[t].to = sess[t].to /\ ~Commit(t)
    <3>1. \A c \in Candidates : row'[c].stage = row[c].stage \/ DOMAIN sess'[t].next = {}
      <4>1. CASE ~Storing(t) BY <4>1, OnlyStoring
      <4>2. CASE Rescore(t) BY <4>2, RescoreRow
      <4>3. CASE JudgeDeterministic(t) \/ JudgeSemantic(t) \/ NoteMissingEmbedding(t) \/ JudgeAi(t)
        BY <4>3, IdleSession
        DEF JudgeDeterministic, JudgeSemantic, NoteMissingEmbedding, JudgeAi, Judge, TypeInv
      <4> QED BY <2>5, <4>1, <4>2, <4>3 DEF Storing
    <3> QED BY <2>1, <2>2, <2>5, <3>1 DEF SelectsKnowingly
  <2> QED BY <2>3, <2>4, <2>5, OwnRows
<1> QED BY <1>1, <1>2

\* Nobody is selected behind the back of a session that holds the campaign, and nobody at
\* all except by a commit that moves to SELECTED; a closed campaign stays closed.
LEMMA SelectedRows ==
    ASSUME TypeInv, NEW t \in Sessions, Request(t) \/ Work(t) \/ Scoring(t), SelectsKnowingly(t)
    PROVE  /\ \/ Commit(t) /\ sess[t].to = "SELECTED"
              \/ \A c \in Candidates : row'[c].stage = "SELECTED" => row[c].stage = "SELECTED"
           /\ status' \in {status, "CLOSED"}
<1>1. CASE ~Storing(t) BY <1>1, OnlyStoring
<1>2. CASE Commit(t) BY <1>2, CommittedRows
<1>3. CASE Storing(t) /\ ~Commit(t) BY <1>3, ScoredRows
<1> QED BY <1>1, <1>2, <1>3

\* Every step keeps the count of a selection that is about to commit.
LEMMA CountedStep ==
    ASSUME TypeInv, Exclusive, NEW t \in Sessions, Request(t) \/ Work(t) \/ Scoring(t),
           SelectsKnowingly(t), \A s \in Sessions : sess[s].op # "engine" /\ Counted(s),
           NEW s \in Sessions
    PROVE  Counted(s)'
<1> DEFINE few == Cardinality(Selected(View(s))) < Openings
<1>1. CASE s # t
  <2>1. sess'[s] = sess[s] BY <1>1, OthersKept
  <2> SUFFICES ASSUME sess[s].at = "commit", sess[s].to = "SELECTED"
               PROVE  /\ sess[s].camp # "free"
                      /\ sess[s].camp = "close" \/ status' = "CLOSED" \/ few'
    BY <2>1 DEF Counted
  <2>2. sess[s].camp # "free" /\ (sess[s].camp = "close" \/ status = "CLOSED" \/ few)
    BY DEF Counted
  <2>3. ~(Commit(t) /\ sess[t].to = "SELECTED")
    BY <1>1, <2>2 DEF Commit, Counted, Exclusive
  <2>4. /\ \A c \in Candidates : row'[c].stage = "SELECTED" => row[c].stage = "SELECTED"
        /\ status' \in {status, "CLOSED"}
    BY <2>3, SelectedRows
  <2>5. ASSUME few PROVE few'
    <3>1. DOMAIN View(s) = Candidates /\ DOMAIN View(s)' = Candidates BY DEF View
    <3>2. \A c \in Candidates : View(s)'[c].stage = "SELECTED" => View(s)[c].stage = "SELECTED"
      BY <2>1, <2>4 DEF View
    <3>3. Cardinality(Selected(View(s)')) < Openings BY <2>5, <3>1, <3>2, FewerSelected
    <3> QED BY <3>3 DEF Selected
  <2> QED BY <2>2, <2>4, <2>5
<1>2. CASE s = t
  <2>1. sess[s] \in Session BY SessionFields
  <2>2. CASE Write(s)
    <3>1. \/ sess'[s].at # "commit" \/ sess[s].to # "SELECTED"
      BY <2>2, <2>1 DEF Write, TypeInv, Session
    <3>2. sess'[s].to = sess[s].to
      <4>1. PICK next, at : sess' = [sess EXCEPT ![s].next = next, ![s].at = at]
        BY <2>2, ZenonT(40) DEF Write
      <4> QED BY <4>1, <2>1 DEF TypeInv, Session
    <3> QED BY <3>1, <3>2 DEF Counted
  <2>3. CASE Count(s)
    <3> DEFINE filled == Cardinality(Selected(View(s))) >= Openings
               camp == IF sess[s].camp = "close" \/ (status = "ACTIVE" /\ filled)
                       THEN "close" ELSE "held"
    <3>1. /\ sess'[s].camp = camp /\ sess'[s].next = sess[s].next
          /\ row' = row /\ status' = status
      BY <2>3, <2>1 DEF Count, TypeInv, Session
    <3>2. View(s)' = View(s) BY <3>1 DEF View
    <3>3. few' <=> few BY <3>2 DEF Selected
    <3>4. ~filled => few
      <4>1. Selected(View(s)) \subseteq Candidates BY DEF Selected, View
      <4>2. Cardinality(Selected(View(s))) \in Nat
        BY <4>1, SizesAssumption, FS_Subset, FS_CardinalityType
      <4> QED BY <4>2, SizesAssumption
    <3>5. status \in {"ACTIVE", "CLOSED"} BY DEF TypeInv
    <3> QED BY <3>1, <3>3, <3>4, <3>5 DEF Counted
  <2>4. CASE ~Write(s) /\ ~Count(s)
    <3>1. sess'[s].at = "commit" => sess'[s] = sess[s] BY <1>2, <2>4, OwnRows
    <3> SUFFICES ASSUME sess'[s] = sess[s], sess[s].at = "commit" PROVE Counted(s)'
      BY <3>1 DEF Counted
    <3>2. ~(Request(s) \/ Scoring(s)) /\ ~Reread(s) /\ ~Rescore(s) /\ ~QueueOverride(s)
          /\ ~QueueResubmission(s)
      BY DEF Request, Transition, Drag, BulkMove, Resubmit, Override, Flag, HrOverride, Revert,
             MayBegin, Scoring, TakeTask, TaskFails, JudgeDeterministic, JudgeSemantic,
             NoteMissingEmbedding, JudgeAi, Judge, Reread, Rescore, QueueOverride, QueueResubmission
    <3>3. Commit(s) \/ Abandon(s) BY <1>2, <2>4, <3>2 DEF Work
    <3>4. sess'[s].at # "commit"
      <4>1. CASE Commit(s) BY <4>1, <2>1 DEF Commit, Idle, TypeInv, Session
      <4>2. CASE Abandon(s) BY <4>2 DEF Abandon, Idle, TypeInv
      <4> QED BY <3>3, <4>1, <4>2
    <3> QED BY <3>4
  <2> QED BY <2>2, <2>3, <2>4
<1> QED BY <1>1, <1>2

\* Every step leaves an opening free or the campaign closed.
LEMMA FilledStep ==
    ASSUME TypeInv, NEW t \in Sessions, Request(t) \/ Work(t) \/ Scoring(t),
           SelectsKnowingly(t), Counted(t),
           Cardinality(Selected(row)) < Openings \/ status = "CLOSED"
    PROVE  Cardinality(Selected(row')) < Openings \/ status' = "CLOSED"
<1>1. /\ \/ Commit(t) /\ sess[t].to = "SELECTED"
         \/ \A c \in Candidates : row'[c].stage = "SELECTED" => row[c].stage = "SELECTED"
      /\ status' \in {status, "CLOSED"}
  BY SelectedRows
<1>2. CASE Commit(t) /\ sess[t].to = "SELECTED"
  <2>1. sess[t].camp = "close" \/ status = "CLOSED" \/ Cardinality(Selected(View(t))) < Openings
    BY <1>2 DEF Counted, Commit
  <2>2. row' = View(t) /\ (sess[t].camp = "close" => status' = "CLOSED") BY <1>2 DEF Commit
  <2> QED BY <1>1, <2>1, <2>2
<1>3. CASE \A c \in Candidates : row'[c].stage = "SELECTED" => row[c].stage = "SELECTED"
  <2>1. DOMAIN row = Candidates BY DEF TypeInv
  <2>2. DOMAIN row' = Candidates
    <3>1. CASE ~Storing(t) BY <3>1, <2>1, OnlyStoring
    <3>2. CASE Commit(t) BY <3>2 DEF Commit, View
    <3>3. CASE Rescore(t) BY <3>3, RescoreRow
    <3>4. CASE JudgeDeterministic(t) \/ JudgeSemantic(t) \/ NoteMissingEmbedding(t) \/ JudgeAi(t)
      BY <3>4, <2>1
      DEF JudgeDeterministic, JudgeSemantic, NoteMissingEmbedding, JudgeAi, Judge
    <3> QED BY <3>1, <3>2, <3>3, <3>4 DEF Storing
  <2>3. Cardinality(Selected(row)) < Openings => Cardinality(Selected(row')) < Openings
    BY <1>3, <2>1, <2>2, FewerSelected
  <2> QED BY <1>1, <2>3
<1> QED BY <1>1, <1>2, <1>3

\* Every step keeps the strengthened invariant.
LEMMA FillStep == Inv /\ FillInv /\ [Next]_vars => FillInv'
<1> SUFFICES ASSUME Inv, FillInv, [Next]_vars PROVE FillInv' OBVIOUS
<1>1. /\ TypeInv /\ SessionsInv /\ Exclusive /\ \A s \in Sessions : SelectsKnowingly(s)
      /\ "engine" \notin used =>
            /\ \A s \in Sessions : sess[s].op # "engine" /\ Counted(s)
            /\ Cardinality(Selected(row)) < Openings \/ status = "CLOSED"
  BY DEF Inv, FillInv
<1>2. CASE UNCHANGED vars
  BY <1>1, <1>2 DEF FillInv, Exclusive, SelectsKnowingly, Counted, View, Selected, vars
<1>3. ASSUME NEW t \in Sessions, Request(t) \/ Work(t) \/ Scoring(t) PROVE FillInv'
  <2>1. Exclusive' BY <1>1, <1>3, ExclusiveStep
  <2>2. \A s \in Sessions : SelectsKnowingly(s)' BY <1>1, <1>3, SelectsStep
  <2>3. ASSUME "engine" \notin used'
        PROVE  /\ \A s \in Sessions : sess'[s].op # "engine" /\ Counted(s)'
               /\ Cardinality(Selected(row')) < Openings \/ status' = "CLOSED"
    <3>1. "engine" \notin used BY <2>3, <1>1, <1>3, EngineKnown
    <3>2. sess'[t].op # "engine" BY <2>3, <3>1, <1>1, <1>3, EngineKnown
    <3>3. \A s \in Sessions : sess'[s].op # "engine" BY <3>1, <3>2, <1>1, <1>3, OthersKept
    <3>4. \A s \in Sessions : Counted(s)' BY <3>1, <1>1, <1>3, CountedStep
    <3>5. Cardinality(Selected(row')) < Openings \/ status' = "CLOSED"
      BY <3>1, <1>1, <1>3, FilledStep
    <3> QED BY <3>3, <3>4, <3>5
  <2> QED BY <2>1, <2>2, <2>3 DEF FillInv, Selected
<1> QED BY <1>2, <1>3 DEF Next

\* It holds initially.
LEMMA FillInit == Init => FillInv
<1> SUFFICES ASSUME Init PROVE FillInv OBVIOUS
<1>1. \A s \in Sessions : sess[s] = Idle BY DEF Init
<1>2. DOMAIN Idle.next = {} /\ Idle.camp = "free" /\ Idle.op = "none" /\ Idle.at = "idle"
  BY IdleSession DEF Idle
<1>3. Cardinality(Selected(row)) < Openings \/ status = "CLOSED"
  <2>1. Selected(row) \subseteq Candidates BY DEF Init, Selected
  <2>2. Cardinality(Selected(row)) \in Nat BY <2>1, SizesAssumption, FS_Subset, FS_CardinalityType
  <2> QED BY <2>2, SizesAssumption DEF Init
<1> QED BY <1>1, <1>2, <1>3 DEF FillInv, Exclusive, SelectsKnowingly, Counted

\* _close_if_all_positions_filled: without transition(), a campaign whose openings are all
\* filled is closed, however drags, bulk moves and overrides select and deselect at once.
THEOREM FilledCampaignsClose == Spec => []FilledCloses
<1>1. FillInv => FilledCloses BY DEF FillInv, FilledCloses
<1> QED BY <1>1, Invariance, FillInit, FillStep, PTL DEF Spec

---------------------------------------------------------------------------
(* The reports. *)

ReadViews == {"none", "pages", "count", "rows", "read", "exported"}
OpenTx == [cand : Cands, kind : RequestKinds \ {"read"}, since : Nat]

ReportsTyped ==
    /\ cc \in [Cands -> ReportRow \cup {Gone}]
    /\ history \subseteq HistoryRow /\ IsFiniteSet(history)
    /\ tx \in [Writers -> OpenTx \cup {NoTx}]
    /\ now \in Nat
    /\ reader \in [view : ReadViews, q : Queries \cup {Null}, got : Seq(Cands), total : Nat,
                   clean : BOOLEAN]

\* What a scorecard can quote is in the history.
HistoryInv ==
    /\ \A e \in history : WithBreakdown(e)
    /\ \A c \in Cands : cc[c] # Gone => Backed(c, cc[c], history)

\* Undisturbed, what a client holds is the first pages of the one order there is.
HoldsPages(s, r) ==
    CASE r.view = "pages" ->
           \E m \in Nat : m * PageSize <= Len(s) /\ r.got = SubSeq(s, 1, m * PageSize)
      [] r.view = "count" -> r.got = <<>>
      [] r.view = "rows" -> r.total = Len(s)
      [] r.view \in {"read", "exported"} -> r.got = s
      [] OTHER -> TRUE
ReaderInv == reader.clean => \A s \in Ranked(reader.q) : HoldsPages(s, reader)

ReportsInv == ReportsTyped /\ HistoryInv /\ ReaderInv

---------------------------------------------------------------------------
\* What a write may leave of c, whose history is rows.
Lawful(c, rows, left, log) ==
    /\ left \in ReportRow /\ Backed(c, left, rows \cup log)
    /\ log \subseteq HistoryRow /\ IsFiniteSet(log)
    /\ \A e \in log : e.cand = c /\ WithBreakdown(e)
LawfulWrite(c, rows, o) == Lawful(c, rows, o.row, o.log)

LEMMA InSorts ==
    /\ Null \in Moment /\ Null \in GapSet /\ Null \in Grade /\ Null \in Overruled /\ Null \in Source
    /\ Nat \subseteq Moment /\ SUBSET Gaps \subseteq GapSet /\ 1 \in Grade /\ 2 \in Grade
    /\ {"DETERMINISTIC", "SEMANTIC", "AI", "RECRUITER", "HR_ADMIN"} \subseteq Source
BY DEF Moment, GapSet, Grade, Overruled, Source, OrNull

LEMMA NullIs == Null # "DETERMINISTIC" /\ Null \notin Stages
BY ReportsAssumption

\* The reason stays backed when the history grows.
LEMMA BackedGrows ==
    ASSUME NEW c, NEW r, NEW A, NEW B, A \subseteq B, Backed(c, r, A)
    PROVE  Backed(c, r, B)
BY DEF Backed, NamesOne, RejectionsOf

LEMMA PlainIs ==
    ASSUME NEW c \in Cands, NEW from \in Stages \cup {Null}, NEW to \in Stages, NEW at \in Nat
    PROVE  /\ Plain(c, from, to, at) \in HistoryRow /\ WithBreakdown(Plain(c, from, to, at))
           /\ Plain(c, from, to, at).cand = c
BY NullIs, InSorts DEF Plain, Entry, HistoryRow, OrNull, WithBreakdown

LEMMA EntryIs ==
    ASSUME NEW c \in Cands, NEW from \in Stages, NEW to \in Stages, NEW at \in Nat, NEW src \in Source,
           NEW why \in Moment, NEW gaps \in GapSet,
           to = "REJECTED" /\ src = "DETERMINISTIC" => gaps \in SUBSET Gaps
    PROVE  /\ Entry(c, from, to, at, src, why, gaps) \in HistoryRow
           /\ WithBreakdown(Entry(c, from, to, at, src, why, gaps))
           /\ Entry(c, from, to, at, src, why, gaps).cand = c
           /\ Entry(c, from, to, at, src, why, gaps).to = to
           /\ Entry(c, from, to, at, src, why, gaps).src = src
           /\ Entry(c, from, to, at, src, why, gaps).why = why
BY DEF Entry, HistoryRow, OrNull, WithBreakdown

LEMMA MovedIs ==
    ASSUME NEW r \in ReportRow, NEW to \in Stages
    PROVE  /\ MovedTo(r, to) \in ReportRow /\ MovedTo(r, to).src = r.src
           /\ MovedTo(r, to).why = r.why /\ MovedTo(r, to).orig = r.orig
           /\ MovedTo(r, to).stage = to
BY DEF MovedTo, ReportRow

LEMMA DecidedIs ==
    ASSUME NEW r \in ReportRow, NEW type \in Stages \cup {"RESET"}, NEW src \in Source,
           NEW why \in Moment, now \in Nat
    PROVE  /\ WithDecision(r, type, src, why) \in ReportRow
           /\ WithDecision(r, type, src, why).src = src
           /\ WithDecision(r, type, src, why).why = why
           /\ WithDecision(r, type, src, why).orig = Null
<1>1. type \in OrNull(Stages \cup {"RESET"}) /\ now \in Moment /\ Null \in Overruled
  BY InSorts DEF OrNull
<1> QED
  BY <1>1 DEF WithDecision, ReportRow

LEMMA FreshIs == Fresh \in ReportRow /\ Fresh.src = Null /\ Fresh.orig = Null
BY InSorts DEF Fresh, ReportRow, OrNull, Stages

\* A row without a quoted rejection.
LEMMA BackedAnyway ==
    ASSUME NEW c, NEW r, NEW rows, r.src # "DETERMINISTIC", r.orig = Null PROVE Backed(c, r, rows)
BY DEF Backed, NamesOne

\* A row that keeps what it quotes, moved within the same history or a longer one.
LEMMA SameQuotes ==
    ASSUME NEW c, NEW r, NEW d, NEW A, NEW B, A \subseteq B, Backed(c, r, A),
           d.src = r.src, d.why = r.why, d.orig = r.orig
    PROVE  Backed(c, d, B)
BY DEF Backed, NamesOne, RejectionsOf

LEMMA JudgementLawful ==
    ASSUME NEW c \in Cands, NEW rows, NEW left, NEW log, Lawful(c, rows, left, log),
           NEW at \in Nat, now \in Nat, NEW to \in Stages, NEW src \in Source, NEW gaps \in GapSet,
           src = "DETERMINISTIC" => to = "REJECTED" /\ gaps \in SUBSET Gaps
    PROVE  LawfulWrite(c, rows, Judgement(c, [row |-> left, log |-> log], at, to, src, gaps))
<1> DEFINE e == Entry(c, left.stage, to, at, src, now, gaps)
           d == WithDecision(MovedTo(left, to), to, src, now)
<1>1. CASE ~IsAllowed(left.prev, left.stage, to)
  BY <1>1 DEF Judgement, LawfulWrite
<1>2. CASE IsAllowed(left.prev, left.stage, to)
  <2>1. Judgement(c, [row |-> left, log |-> log], at, to, src, gaps) = [row |-> d, log |-> log \cup {e}]
    BY <1>2 DEF Judgement
  <2>2. left \in ReportRow /\ left.stage \in Stages /\ now \in Moment
    BY InSorts DEF Lawful, ReportRow
  <2>3. e \in HistoryRow /\ WithBreakdown(e) /\ e.cand = c /\ e.to = to /\ e.src = src /\ e.why = now
    <3> HIDE DEF e
    <3> QED
      BY <2>2, EntryIs DEF e
  <2>4. d \in ReportRow /\ d.src = src /\ d.why = now /\ d.orig = Null
    BY <2>2, MovedIs, DecidedIs
  <2> HIDE DEF e, d
  <2>5. log \subseteq HistoryRow /\ IsFiniteSet(log) /\ \A f \in log : f.cand = c /\ WithBreakdown(f)
    BY DEF Lawful
  <2>6. Backed(c, d, rows \cup (log \cup {e}))
    BY <2>3, <2>4 DEF Backed, NamesOne, RejectionsOf
  <2>7. IsFiniteSet(log \cup {e})
    BY <2>5, FS_AddElement
  <2>8. Lawful(c, rows, d, log \cup {e})
    BY <2>3, <2>4, <2>5, <2>6, <2>7 DEF Lawful
  <2> QED
    <3> DEFINE o == Judgement(c, [row |-> left, log |-> log], at, to, src, gaps)
    <3>1. o.row = d /\ o.log = log \cup {e}
      BY <2>1
    <3> QED
      BY <2>8, <3>1 DEF LawfulWrite
<1> QED
  BY <1>1, <1>2

LEMMA ToScreeningLawful ==
    ASSUME NEW c \in Cands, NEW r \in ReportRow, NEW rows, Backed(c, r, rows), NEW at \in Nat
    PROVE  LawfulWrite(c, rows, ToScreening(c, r, at))
<1>1. CASE r.stage = "UPLOADED"
  <2> DEFINE e == Plain(c, "UPLOADED", "SCREENING", at)
             d == MovedTo(r, "SCREENING")
  <2>1. ToScreening(c, r, at) = [row |-> d, log |-> {e}]
    BY <1>1 DEF ToScreening
  <2>2. "UPLOADED" \in Stages /\ "SCREENING" \in Stages
    BY DEF Stages
  <2>3. e \in HistoryRow /\ WithBreakdown(e) /\ e.cand = c
    BY <2>2, PlainIs
  <2>4. d \in ReportRow /\ d.src = r.src /\ d.why = r.why /\ d.orig = r.orig
    BY <2>2, MovedIs
  <2> HIDE DEF e, d
  <2>5. Backed(c, d, rows \cup {e}) /\ IsFiniteSet({e})
    BY <2>4, SameQuotes, FS_Singleton
  <2>6. Lawful(c, rows, d, {e})
    BY <2>3, <2>4, <2>5 DEF Lawful
  <2> QED
    BY <2>1, <2>6 DEF LawfulWrite
<1>2. CASE r.stage # "UPLOADED"
  <2>1. ToScreening(c, r, at) = [row |-> r, log |-> {}]
    BY <1>2 DEF ToScreening
  <2> QED
    BY <2>1, FS_EmptySet DEF LawfulWrite, Lawful
<1> QED
  BY <1>1, <1>2

LEMMA ScreenedIs ==
    ASSUME NEW r \in ReportRow, NEW g \in SUBSET Gaps, NEW n \in 1..2
    PROVE  /\ WithScreening(r, g, n) \in ReportRow /\ WithScreening(r, g, n).src = r.src
           /\ WithScreening(r, g, n).why = r.why /\ WithScreening(r, g, n).orig = r.orig
<1>1. g \in GapSet /\ n \in Grade
  BY InSorts DEF Grade, OrNull
<1> QED
  BY <1>1 DEF WithScreening, ReportRow

\* A row that still quotes what it did.
LEMMA SameLawful ==
    ASSUME NEW c, NEW rows, NEW r, NEW log, Lawful(c, rows, r, log),
           NEW d \in ReportRow, d.src = r.src, d.why = r.why, d.orig = r.orig
    PROVE  Lawful(c, rows, d, log)
BY SameQuotes DEF Lawful

LEMMA ScreenLawful ==
    ASSUME NEW c \in Cands, NEW r \in ReportRow, NEW rows, Backed(c, r, rows), NEW at \in Nat, now \in Nat,
           NEW o \in Screen(c, r, at)
    PROVE  LawfulWrite(c, rows, o)
<1> DEFINE s == ToScreening(c, r, at)
<1>1. Lawful(c, rows, s.row, s.log)
  BY ToScreeningLawful DEF LawfulWrite
<1>2. ASSUME NEW g \in SUBSET Gaps, NEW n \in 1..2 PROVE Lawful(c, rows, WithScreening(s.row, g, n), s.log)
  <2>1. s.row \in ReportRow
    BY <1>1 DEF Lawful
  <2> HIDE DEF s
  <2> QED
    BY <1>1, <2>1, ScreenedIs, SameLawful
<1>3. CASE o = [row |-> WithScreening(s.row, {}, 2), log |-> s.log]
  <2>1. Lawful(c, rows, WithScreening(s.row, {}, 2), s.log)
    BY <1>2
  <2> QED
    BY <1>3, <2>1 DEF LawfulWrite
<1>4. ASSUME NEW g \in GapMixes,
             o = Judgement(c, [row |-> WithScreening(s.row, g, 1), log |-> s.log], at, "REJECTED", "DETERMINISTIC", g)
      PROVE  LawfulWrite(c, rows, o)
  <2>1. g \in SUBSET Gaps
    BY ReportsAssumption
  <2>2. Lawful(c, rows, WithScreening(s.row, g, 1), s.log)
    BY <1>2, <2>1
  <2>3. "REJECTED" \in Stages /\ "DETERMINISTIC" \in Source /\ g \in GapSet
    BY <2>1, InSorts DEF Stages
  <2> HIDE DEF s
  <2> QED
    BY <1>4, <2>1, <2>2, <2>3, JudgementLawful
<1> QED
  BY <1>3, <1>4 DEF Screen

LEMMA RowLawful ==
    ASSUME NEW c \in Cands, NEW rows, NEW r, Backed(c, r, rows),
           NEW d \in ReportRow, d.src = r.src, d.why = r.why, d.orig = r.orig
    PROVE  Lawful(c, rows, d, {})
BY SameQuotes, FS_EmptySet DEF Lawful

\* One history row, for a row that quotes no rejection, or those it did.
LEMMA EventLawful ==
    ASSUME NEW c \in Cands, NEW rows, NEW d \in ReportRow, Backed(c, d, rows),
           NEW e \in HistoryRow, e.cand = c, WithBreakdown(e)
    PROVE  Lawful(c, rows, d, {e})
<1>1. Backed(c, d, rows \cup {e}) /\ IsFiniteSet({e})
  BY BackedGrows, FS_Singleton
<1> QED
  BY <1>1 DEF Lawful

LEMMA SemanticLawful ==
    ASSUME NEW c \in Cands, NEW r \in ReportRow, NEW rows, Backed(c, r, rows), NEW at \in Nat, now \in Nat,
           NEW o \in SemanticFails(c, r, at)
    PROVE  LawfulWrite(c, rows, o)
<1> DEFINE d == [r EXCEPT !.sem = "failed"]
<1>1. d \in ReportRow /\ d.src = r.src /\ d.why = r.why /\ d.orig = r.orig
  BY DEF ReportRow
<1>2. o = Judgement(c, [row |-> d, log |-> {}], at, "REJECTED", "SEMANTIC", Null)
  BY DEF SemanticFails
<1>3. "REJECTED" \in Stages /\ "SEMANTIC" \in Source /\ Null \in GapSet
  BY InSorts DEF Stages
<1> HIDE DEF d
<1>4. Lawful(c, rows, d, {})
  BY <1>1, RowLawful
<1> QED
  BY <1>2, <1>3, <1>4, JudgementLawful

LEMMA NoteLawful ==
    ASSUME NEW c \in Cands, NEW r \in ReportRow, NEW rows, Backed(c, r, rows), NEW at \in Nat, now \in Nat,
           NEW o \in AwaitsEmbedding(c, r, at)
    PROVE  LawfulWrite(c, rows, o)
<1> DEFINE src == "SEMANTIC"
           m == WithDecision(r, r.type, src, now)
           d == [m EXCEPT !.ai = "MANUAL_REVIEW"]
<1>1. o.row = d /\ o.log = {}
  BY DEF AwaitsEmbedding
<1>2. src \in Source /\ now \in Moment /\ Null \in Overruled
  BY InSorts DEF OrNull
<1>3. src # "DETERMINISTIC"
  OBVIOUS
<1> HIDE DEF src
<1>4. m \in ReportRow /\ m.src = src /\ m.orig = Null
  BY <1>2 DEF WithDecision, ReportRow
<1> HIDE DEF m
<1>5. d \in ReportRow /\ d.src = src /\ d.orig = Null
  BY <1>4 DEF ReportRow
<1> HIDE DEF d
<1>6. Backed(c, d, rows)
  BY <1>3, <1>5 DEF Backed, NamesOne
<1> QED
  BY <1>1, <1>5, <1>6, FS_EmptySet DEF LawfulWrite, Lawful

LEMMA EvaluateLawful ==
    ASSUME NEW c \in Cands, NEW r \in ReportRow, NEW rows, Backed(c, r, rows), NEW at \in Nat, now \in Nat,
           NEW o \in Evaluate(c, r, at)
    PROVE  LawfulWrite(c, rows, o)
<1>1. ASSUME NEW rec \in {"SHORTLIST", "REJECT"}, NEW to \in {"SHORTLISTED", "REJECTED"},
             o = Judgement(c, [row |-> Recommended(r, rec), log |-> {}], at, to, "AI", Null)
      PROVE  LawfulWrite(c, rows, o)
  <2> DEFINE d == Recommended(r, rec)
  <2>1. rec \in OrNull({"SHORTLIST", "REJECT"})
    BY DEF OrNull
  <2>2. d \in ReportRow /\ d.src = r.src /\ d.why = r.why /\ d.orig = r.orig
    BY <2>1 DEF Recommended, ReportRow
  <2>3. to \in Stages /\ "AI" \in Source /\ Null \in GapSet
    BY InSorts DEF Stages
  <2> HIDE DEF d
  <2>4. Lawful(c, rows, d, {})
    BY <2>2, RowLawful
  <2>5. o = Judgement(c, [row |-> d, log |-> {}], at, to, "AI", Null)
    BY <1>1 DEF d
  <2> QED
    BY <2>3, <2>4, <2>5, JudgementLawful
<1>2. CASE o = [row |-> [r EXCEPT !.sem = "passed", !.ai = "FAILED"], log |-> {}]
  <2> DEFINE d == [r EXCEPT !.sem = "passed", !.ai = "FAILED"]
  <2>1. d \in ReportRow /\ d.src = r.src /\ d.why = r.why /\ d.orig = r.orig
    BY DEF ReportRow
  <2>2. o.row = d /\ o.log = {}
    BY <1>2
  <2> HIDE DEF d
  <2> QED
    BY <2>1, <2>2, RowLawful DEF LawfulWrite
<1> QED
  BY <1>1, <1>2 DEF Evaluate

LEMMA OverrideLawful ==
    ASSUME NEW c \in Cands, NEW r \in ReportRow, NEW rows, Backed(c, r, rows), NEW at \in Nat, now \in Nat,
           NEW o \in OverrideRejection(c, r, at)
    PROVE  LawfulWrite(c, rows, o)
<1> DEFINE m == WithDecision(MovedTo(r, "SCREENING"), "RESET", "RECRUITER", now)
           old == [src |-> r.src, why |-> r.why, at |-> r.at]
           d == [m EXCEPT !.orig = old]
           e == Entry(c, "REJECTED", "SCREENING", at, "RECRUITER", now, Null)
<1>1. o.row = d /\ o.log = {e}
  BY DEF OverrideRejection
<1>2. "SCREENING" \in Stages /\ "REJECTED" \in Stages /\ "RECRUITER" \in Source /\ now \in Moment
      /\ Null \in GapSet
  BY InSorts DEF Stages
<1>3. m \in ReportRow /\ m.src = "RECRUITER"
  <2> DEFINE x == MovedTo(r, "SCREENING")
             src == "RECRUITER"
             type == "RESET"
  <2>1. x \in ReportRow /\ src \in Source /\ type \in Stages \cup {"RESET"}
    BY <1>2, MovedIs
  <2> HIDE DEF x, src, type, e, d, old
  <2>2. WithDecision(x, type, src, now) \in ReportRow /\ WithDecision(x, type, src, now).src = src
    <3>1. type \in OrNull(Stages \cup {"RESET"}) /\ now \in Moment /\ Null \in Overruled
      BY <1>2, <2>1, InSorts DEF OrNull
    <3> QED
      BY <2>1, <3>1 DEF WithDecision, ReportRow
  <2> QED
    BY <2>2 DEF x, src, type
<1>4. e \in HistoryRow /\ WithBreakdown(e) /\ e.cand = c
  <2> HIDE DEF e
  <2> QED
    BY <1>2, EntryIs DEF e
<1>5. old \in Overruled /\ old.src = r.src /\ old.why = r.why
  BY DEF Overruled, OrNull, ReportRow
<1> HIDE DEF m, e, old
<1>6. d \in ReportRow /\ d.src = "RECRUITER" /\ d.orig = old
  BY <1>3, <1>5 DEF ReportRow
<1> HIDE DEF d
<1>7. Backed(c, d, rows)
  BY <1>5, <1>6 DEF Backed, NamesOne
<1> QED
  BY <1>1, <1>4, <1>6, <1>7, EventLawful DEF LawfulWrite

LEMMA RevertLawful ==
    ASSUME NEW c \in Cands, NEW r \in ReportRow, NEW rows, Backed(c, r, rows), NEW at \in Nat, now \in Nat,
           r.orig # Null, NEW o \in RevertOverride(c, r, at)
    PROVE  LawfulWrite(c, rows, o)
<1> DEFINE m == [r EXCEPT !.stage = "REJECTED"]
           d == WithDecision(m, "REJECTED", r.orig.src, r.orig.why)
           e == Plain(c, "SCREENING", "REJECTED", at)
<1>1. o.row = d /\ o.log = {e}
  BY DEF RevertOverride
<1>2. "SCREENING" \in Stages /\ "REJECTED" \in Stages
  BY DEF Stages
<1>3. m \in ReportRow
  BY <1>2 DEF ReportRow
<1>4. r.orig.src \in Source /\ r.orig.why \in Moment
  BY DEF ReportRow, Overruled, OrNull
<1> HIDE DEF m
<1>5. d \in ReportRow /\ d.src = r.orig.src /\ d.why = r.orig.why /\ d.orig = Null
  BY <1>2, <1>3, <1>4, DecidedIs
<1>6. e \in HistoryRow /\ WithBreakdown(e) /\ e.cand = c
  BY <1>2, PlainIs
<1> HIDE DEF d, e
<1>7. Backed(c, d, rows)
  BY <1>5 DEF Backed, NamesOne
<1> QED
  BY <1>1, <1>5, <1>6, <1>7, EventLawful DEF LawfulWrite

LEMMA DragLawful ==
    ASSUME NEW c \in Cands, NEW r \in ReportRow, NEW rows, Backed(c, r, rows), NEW at \in Nat,
           NEW o \in DragCard(c, r, at)
    PROVE  LawfulWrite(c, rows, o)
<1>1. PICK to \in Stages : o = [row |-> MovedTo(r, to), log |-> {Plain(c, r.stage, to, at)}]
  BY DEF DragCard
<1> DEFINE d == MovedTo(r, to)
           e == Plain(c, r.stage, to, at)
<1>2. o.row = d /\ o.log = {e}
  BY <1>1
<1>3. d \in ReportRow /\ d.src = r.src /\ d.why = r.why /\ d.orig = r.orig
  BY MovedIs
<1>4. r.stage \in Stages
  BY DEF ReportRow
<1>5. e \in HistoryRow /\ WithBreakdown(e) /\ e.cand = c
  BY <1>4, PlainIs
<1> HIDE DEF d, e
<1>6. Backed(c, d, rows)
  BY <1>3, SameQuotes
<1> QED
  BY <1>2, <1>3, <1>5, <1>6, EventLawful DEF LawfulWrite

LEMMA BulkLawful ==
    ASSUME NEW c \in Cands, NEW r \in ReportRow, NEW rows, Backed(c, r, rows), NEW at \in Nat, now \in Nat,
           NEW o \in MoveInBulk(c, r, at)
    PROVE  LawfulWrite(c, rows, o)
<1>1. PICK to \in {"SHORTLISTED", "REJECTED", "HOLD"} :
        o = [row |-> WithDecision(MovedTo(r, to), to, "HR_ADMIN", now),
             log |-> {Entry(c, r.stage, to, at, "HR_ADMIN", now, Null)}]
  BY DEF MoveInBulk
<1> DEFINE d == WithDecision(MovedTo(r, to), to, "HR_ADMIN", now)
           e == Entry(c, r.stage, to, at, "HR_ADMIN", now, Null)
<1>2. o.row = d /\ o.log = {e}
  BY <1>1
<1>3. to \in Stages /\ "HR_ADMIN" \in Source /\ now \in Moment /\ Null \in GapSet /\ r.stage \in Stages
  BY InSorts DEF Stages, ReportRow
<1>4. d \in ReportRow /\ d.src = "HR_ADMIN" /\ d.orig = Null
  BY <1>3, MovedIs, DecidedIs
<1>5. e \in HistoryRow /\ WithBreakdown(e) /\ e.cand = c
  <2> DEFINE from == r.stage
             src == "HR_ADMIN"
  <2>1. from \in Stages /\ src \in Source /\ src # "DETERMINISTIC"
    BY <1>3
  <2> HIDE DEF e, from, src
  <2>2. /\ Entry(c, from, to, at, src, now, Null) \in HistoryRow
        /\ WithBreakdown(Entry(c, from, to, at, src, now, Null))
        /\ Entry(c, from, to, at, src, now, Null).cand = c
    BY <1>3, <2>1, EntryIs
  <2> QED
    BY <2>2 DEF e, from, src
<1> HIDE DEF d, e
<1>6. Backed(c, d, rows)
  BY <1>4, BackedAnyway
<1> QED
  BY <1>2, <1>4, <1>5, <1>6, EventLawful DEF LawfulWrite

LEMMA FlagLawful ==
    ASSUME NEW c \in Cands, NEW r \in ReportRow, NEW rows, Backed(c, r, rows), NEW at \in Nat,
           NEW o \in FlagFraud(c, r, at)
    PROVE  LawfulWrite(c, rows, o)
<1> DEFINE d == [r EXCEPT !.stage = "FRAUD_REVIEW", !.fraud = TRUE]
           e == Entry(c, r.stage, "FRAUD_REVIEW", at, r.src, r.why, r.gaps)
<1>1. o.row = d /\ o.log = {e}
  BY DEF FlagFraud
<1>2. "FRAUD_REVIEW" \in Stages /\ r.stage \in Stages /\ r.src \in Source /\ r.why \in Moment
      /\ r.gaps \in GapSet
  BY DEF Stages, ReportRow
<1>3. d \in ReportRow /\ d.src = r.src /\ d.why = r.why /\ d.orig = r.orig
  BY <1>2 DEF ReportRow
<1>4. e \in HistoryRow /\ WithBreakdown(e) /\ e.cand = c
  <2> HIDE DEF e
  <2> QED
    BY <1>2, EntryIs DEF e
<1> HIDE DEF d, e
<1>5. Backed(c, d, rows)
  BY <1>3, SameQuotes
<1> QED
  BY <1>1, <1>3, <1>4, <1>5, EventLawful DEF LawfulWrite

LEMMA ClearLawful ==
    ASSUME NEW c \in Cands, NEW r \in ReportRow, NEW rows, NEW at,
           NEW o \in ClearScores(c, r, at)
    PROVE  LawfulWrite(c, rows, o)
<1> DEFINE d == [Fresh EXCEPT !.stage = r.stage, !.prev = r.prev]
<1>1. o.row = d /\ o.log = {}
  BY DEF ClearScores
<1>2. r.stage \in Stages /\ r.prev \in Stages \cup {None}
  BY DEF ReportRow
<1>3. d \in ReportRow /\ d.src = Null /\ d.orig = Null
  BY <1>2, InSorts DEF Fresh, ReportRow, OrNull
<1> HIDE DEF d
<1>4. Backed(c, d, {}) /\ Backed(c, d, rows)
  BY <1>3, NullIs, BackedAnyway
<1> QED
  BY <1>1, <1>3, <1>4, RowLawful DEF LawfulWrite

LEMMA AddLawful ==
    ASSUME NEW c \in Cands, NEW rows, NEW at \in Nat
    PROVE  Lawful(c, rows, Fresh, {Plain(c, Null, "UPLOADED", at)})
<1> DEFINE e == Plain(c, Null, "UPLOADED", at)
<1>1. Fresh \in ReportRow /\ Backed(c, Fresh, rows)
  BY FreshIs, NullIs, BackedAnyway
<1>2. e \in HistoryRow /\ WithBreakdown(e) /\ e.cand = c
  <2>1. "UPLOADED" \in Stages
    BY DEF Stages
  <2> QED
    BY <2>1, PlainIs
<1> HIDE DEF e
<1> QED
  BY <1>1, <1>2, EventLawful DEF e

\* Every write but an addition and a deletion.
LEMMA OutcomesLawful ==
    ASSUME NEW kind \in RequestKinds \ {"add", "delete", "read"}, NEW c \in Cands, NEW r \in ReportRow,
           WriteFits(kind, r), NEW rows, Backed(c, r, rows), NEW at \in Nat, now \in Nat,
           NEW o \in Outcomes(kind, c, r, at)
    PROVE  LawfulWrite(c, rows, o)
<1>1. CASE kind = "screen"
  <2>1. o \in Screen(c, r, at) BY <1>1 DEF Outcomes
  <2> QED BY <2>1, ScreenLawful
<1>2. CASE kind = "semantic"
  <2>1. o \in SemanticFails(c, r, at) \/ o \in AwaitsEmbedding(c, r, at) BY <1>2 DEF Outcomes
  <2> QED BY <2>1, SemanticLawful, NoteLawful
<1>3. CASE kind = "evaluate"
  <2>1. o \in Evaluate(c, r, at) BY <1>3 DEF Outcomes
  <2> QED BY <2>1, EvaluateLawful
<1>4. CASE kind = "override"
  <2>1. o \in OverrideRejection(c, r, at) BY <1>4 DEF Outcomes
  <2> QED BY <2>1, OverrideLawful
<1>5. CASE kind = "revert"
  <2>1. o \in RevertOverride(c, r, at) BY <1>5 DEF Outcomes
  <2>2. r.orig # Null BY <1>5 DEF WriteFits
  <2> QED BY <2>1, <2>2, RevertLawful
<1>6. CASE kind = "drag"
  <2>1. o \in DragCard(c, r, at) BY <1>6 DEF Outcomes
  <2> QED BY <2>1, DragLawful
<1>7. CASE kind = "bulk"
  <2>1. o \in MoveInBulk(c, r, at) BY <1>7 DEF Outcomes
  <2> QED BY <2>1, BulkLawful
<1>8. CASE kind = "flag"
  <2>1. o \in FlagFraud(c, r, at) BY <1>8 DEF Outcomes
  <2> QED BY <2>1, FlagLawful
<1>9. CASE kind = "rescore"
  <2>1. o \in ClearScores(c, r, at) BY <1>9 DEF Outcomes
  <2> QED BY <2>1, ClearLawful
<1> QED
  BY <1>1, <1>2, <1>3, <1>4, <1>5, <1>6, <1>7, <1>8, <1>9 DEF RequestKinds

---------------------------------------------------------------------------
\* Another candidate's rejections are out of reach.
LEMMA OthersBacked ==
    ASSUME NEW d, NEW r, NEW A, NEW B, Backed(d, r, A), \A e \in A : e.cand = d => e \in B
    PROVE  Backed(d, r, B)
BY DEF Backed, NamesOne, RejectionsOf

LEMMA CommitKeeps ==
    ASSUME ReportsTyped, HistoryInv, NEW w \in Writers, CommitWrite(w)
    PROVE  ReportsTyped' /\ HistoryInv'
<1> DEFINE c == tx[w].cand
           kind == tx[w].kind
           at == tx[w].since
<1>1. tx[w] \in OpenTx /\ now' = now + 1 /\ tx' = [tx EXCEPT ![w] = NoTx]
      /\ reader' = [reader EXCEPT !.clean = FALSE]
  BY DEF CommitWrite, ReportsTyped, Touched
<1>2. c \in Cands /\ kind \in RequestKinds \ {"read"} /\ at \in Nat
  BY <1>1 DEF OpenTx
<1>3. PICK o \in Outcomes(kind, c, cc[c], at) :
        /\ cc' = [cc EXCEPT ![c] = o.row]
        /\ history' = IF kind = "delete" THEN {e \in history : e.cand # c} ELSE history \cup o.log
  BY DEF CommitWrite
<1>4. (kind = "add") = (cc[c] = Gone) /\ (kind # "add" => WriteFits(kind, cc[c]))
  BY DEF CommitWrite
<1>5. tx' \in [Writers -> OpenTx \cup {NoTx}] /\ now' \in Nat
  BY <1>1 DEF ReportsTyped
<1>6. reader' \in [view : ReadViews, q : Queries \cup {Null}, got : Seq(Cands), total : Nat,
                   clean : BOOLEAN]
  BY <1>1 DEF ReportsTyped
<1>7. Gone \notin ReportRow
  BY NullIs DEF Gone, ReportRow
<1> HIDE DEF c, kind, at
<1>8. cc \in [Cands -> ReportRow \cup {Gone}] /\ history \subseteq HistoryRow /\ IsFiniteSet(history) /\ now \in Nat
  BY DEF ReportsTyped
<1>9. CASE kind = "delete"
  <2>1. o.row = Gone
    BY <1>3, <1>9 DEF Outcomes
  <2>2. history' = {e \in history : e.cand # c}
    BY <1>3, <1>9
  <2>3. history' \subseteq HistoryRow /\ IsFiniteSet(history') /\ cc' \in [Cands -> ReportRow \cup {Gone}]
    BY <1>2, <1>3, <1>8, <2>1, <2>2, FS_Subset
  <2>4. \A e \in history' : WithBreakdown(e)
    BY <2>2 DEF HistoryInv
  <2>5. ASSUME NEW d \in Cands, cc'[d] # Gone PROVE Backed(d, cc'[d], history')
    <3>1. d # c /\ cc'[d] = cc[d]
      BY <1>2, <1>3, <1>8, <2>1, <2>5
    <3>2. Backed(d, cc[d], history)
      BY <2>5, <3>1 DEF HistoryInv
    <3>3. \A e \in history : e.cand = d => e \in history'
      BY <2>2, <3>1
    <3>4. Backed(d, cc[d], history')
      BY <3>2, <3>3, OthersBacked
    <3> QED
      BY <3>1, <3>4
  <2> QED
    BY <1>5, <1>6, <2>3, <2>4, <2>5 DEF ReportsTyped, HistoryInv
<1>10. CASE kind # "delete"
  <2>1. Lawful(c, history, o.row, o.log)
    <3>1. CASE kind = "add"
      <4>1. o.row = Fresh /\ o.log = {Plain(c, Null, "UPLOADED", at)}
        BY <1>3, <3>1 DEF Outcomes
      <4> QED
        BY <1>2, <4>1, AddLawful
    <3>2. CASE kind # "add"
      <4>1. cc[c] # Gone /\ cc[c] \in ReportRow /\ WriteFits(kind, cc[c])
        BY <1>2, <1>4, <1>8, <3>2
      <4>2. Backed(c, cc[c], history)
        BY <1>2, <4>1 DEF HistoryInv
      <4>3. kind \in RequestKinds \ {"add", "delete", "read"}
        BY <1>2, <1>10, <3>2
      <4>4. LawfulWrite(c, history, o)
        BY <1>2, <1>3, <1>8, <4>1, <4>2, <4>3, OutcomesLawful
      <4> QED
        BY <4>4 DEF LawfulWrite
    <3> QED
      BY <3>1, <3>2
  <2>2. history' = history \cup o.log
    BY <1>3, <1>10
  <2>3. /\ history' \subseteq HistoryRow /\ IsFiniteSet(history') /\ cc' \in [Cands -> ReportRow \cup {Gone}]
        /\ cc'[c] = o.row
    <3>1. o.log \subseteq HistoryRow /\ IsFiniteSet(o.log) /\ o.row \in ReportRow
      BY <2>1 DEF Lawful
    <3>2. IsFiniteSet(history')
      BY <1>8, <2>2, <3>1, FS_Union
    <3>3. cc' \in [Cands -> ReportRow \cup {Gone}] /\ cc'[c] = o.row
      BY <1>2, <1>3, <1>8, <3>1
    <3> QED
      BY <1>8, <2>2, <3>1, <3>2, <3>3
  <2>4. \A e \in history' : WithBreakdown(e)
    BY <2>1, <2>2 DEF HistoryInv, Lawful
  <2>5. ASSUME NEW d \in Cands, cc'[d] # Gone PROVE Backed(d, cc'[d], history')
    <3>1. CASE d = c
      BY <2>1, <2>2, <2>3, <3>1 DEF Lawful
    <3>2. CASE d # c
      <4>1. cc'[d] = cc[d]
        BY <1>3, <1>8, <3>2
      <4>2. Backed(d, cc[d], history) /\ history \subseteq history'
        BY <2>2, <2>5, <4>1 DEF HistoryInv
      <4>3. Backed(d, cc[d], history')
        BY <4>2, BackedGrows
      <4> QED
        BY <4>1, <4>3
    <3> QED
      BY <3>1, <3>2
  <2> QED
    BY <1>5, <1>6, <2>3, <2>4, <2>5 DEF ReportsTyped, HistoryInv
<1> QED
  BY <1>9, <1>10

---------------------------------------------------------------------------
(* One order. *)

\* Who comes before k in the order ord of K.
Earlier(K, ord, k) == {x \in K : <<x, k>> \in ord}
InTheOrder(t, ord) == \A i, j \in DOMAIN t : i < j => <<t[j], t[i]>> \notin ord
Strict(K, ord) ==
    /\ \A x \in K : <<x, x>> \notin ord
    /\ \A x, y \in K : x # y => <<x, y>> \in ord \/ <<y, x>> \in ord
    /\ \A x, y, z \in K : <<x, y>> \in ord /\ <<y, z>> \in ord => <<x, z>> \in ord

LEMMA ListingHasAll ==
    ASSUME NEW K, IsFiniteSet(K), NEW t \in SetToSeqs(K)
    PROVE  /\ Cardinality(K) \in Nat /\ DOMAIN t = 1..Cardinality(K) /\ t \in [1..Cardinality(K) -> K]
           /\ \A i, j \in 1..Cardinality(K) : t[i] = t[j] => i = j
           /\ \A k \in K : \E i \in 1..Cardinality(K) : t[i] = k
<1> DEFINE n == Cardinality(K)
<1>1. n \in Nat
  BY FS_CardinalityType
<1>2. t \in [1..n -> K] /\ \A i, j \in 1..n : t[i] = t[j] => i = j
  BY DEF SetToSeqs
<1>3. IsFiniteSet(1..n) /\ Cardinality(1..n) = n
  BY <1>1, FS_Interval
<1>4. t \in Injection(1..n, K)
  <2>1. DOMAIN t = 1..n
    BY <1>2
  <2>2. IsInjective(t)
    BY <1>2, <2>1 DEF IsInjective
  <2> QED
    BY <1>2, <2>2 DEF Injection
<1>5. t \in Surjection(1..n, K)
  BY <1>3, <1>4, FS_Injection
<1>6. \A k \in K : \E i \in 1..n : t[i] = k
  BY <1>5 DEF Surjection
<1> QED
  BY <1>1, <1>2, <1>6

\* An entry of a list in the order has as many before it as the list.
LEMMA PlaceIs ==
    ASSUME NEW K, IsFiniteSet(K), NEW ord, Strict(K, ord), NEW t \in SetToSeqs(K), InTheOrder(t, ord),
           NEW i \in 1..Cardinality(K)
    PROVE  Cardinality(Earlier(K, ord, t[i])) = i - 1
<1> DEFINE n == Cardinality(K)
           A == Earlier(K, ord, t[i])
           g == [j \in 1..(i - 1) |-> t[j]]
<1>1. /\ n \in Nat /\ DOMAIN t = 1..n /\ \A j \in 1..n : t[j] \in K
      /\ \A j, l \in 1..n : t[j] = t[l] => j = l
      /\ \A x \in K : \E j \in 1..n : t[j] = x
  <2>1. /\ n \in Nat /\ DOMAIN t = 1..n /\ t \in [1..n -> K]
        /\ \A j, l \in 1..n : t[j] = t[l] => j = l
    BY ListingHasAll
  <2>2. \A x \in K : \E j \in 1..n : t[j] = x
    BY ListingHasAll
  <2> QED
    BY <2>1, <2>2
<1> HIDE DEF n
<1>2. i \in 1..n /\ i - 1 \in Nat /\ t[i] \in K /\ \A j \in 1..(i - 1) : j \in 1..n /\ j < i
  BY <1>1 DEF n
<1>3. ASSUME NEW j \in 1..(i - 1) PROVE t[j] \in A
  <2>1. t[j] \in K /\ t[j] # t[i] /\ j < i /\ j \in 1..n
    BY <1>1, <1>2
  <2>2. <<t[i], t[j]>> \notin ord
    BY <1>1, <1>2, <2>1 DEF InTheOrder
  <2>3. <<t[j], t[i]>> \in ord
    BY <1>2, <2>1, <2>2 DEF Strict
  <2> QED
    BY <2>1, <2>3 DEF Earlier
<1>4. ASSUME NEW x \in A PROVE \E j \in 1..(i - 1) : t[j] = x
  <2>1. x \in K /\ <<x, t[i]>> \in ord
    BY DEF Earlier
  <2>2. PICK j \in 1..n : t[j] = x
    BY <1>1, <2>1
  <2>3. j # i
    BY <1>2, <2>1, <2>2 DEF Strict
  <2>4. ~(i < j)
    BY <1>1, <1>2, <2>1, <2>2 DEF InTheOrder
  <2> QED
    BY <1>1, <1>2, <2>2, <2>3, <2>4
<1>5. g \in [1..(i - 1) -> A] /\ \A j \in 1..(i - 1) : g[j] = t[j]
  BY <1>3
<1> HIDE DEF A, g
<1>6. g \in Bijection(1..(i - 1), A)
  <2>1. DOMAIN g = 1..(i - 1)
    BY <1>5
  <2>2. IsInjective(g)
    BY <1>1, <1>2, <1>5, <2>1 DEF IsInjective
  <2>3. g \in Surjection(1..(i - 1), A)
    BY <1>4, <1>5 DEF Surjection
  <2> QED
    BY <1>5, <2>2, <2>3 DEF Bijection, Injection
<1>7. Cardinality(A) = i - 1
  BY <1>2, <1>6, FS_CountingElements DEF ExistsBijection
<1> QED
  BY <1>7 DEF A

LEMMA OneListing ==
    ASSUME NEW K, IsFiniteSet(K), NEW ord, Strict(K, ord), NEW t \in SetToSeqs(K), InTheOrder(t, ord),
           NEW u \in SetToSeqs(K), InTheOrder(u, ord)
    PROVE  t = u
<1> DEFINE n == Cardinality(K)
<1>1. /\ n \in Nat /\ t \in [1..n -> K] /\ u \in [1..n -> K]
      /\ \A k \in K : \E i \in 1..n : u[i] = k
  BY ListingHasAll
<1>2. ASSUME NEW i \in 1..n PROVE t[i] = u[i]
  <2>1. PICK j \in 1..n : u[j] = t[i]
    BY <1>1
  <2>2. Cardinality(Earlier(K, ord, t[i])) = i - 1
    BY PlaceIs
  <2>3. Cardinality(Earlier(K, ord, u[j])) = j - 1
    BY PlaceIs
  <2>4. i = j
    BY <1>1, <2>1, <2>2, <2>3
  <2> QED
    BY <2>1, <2>4
<1> QED
  BY <1>1, <1>2

LEMMA SomeListing ==
    ASSUME NEW K, IsFiniteSet(K), NEW ord, Strict(K, ord)
    PROVE  \E t \in SetToSeqs(K) : InTheOrder(t, ord)
<1> DEFINE n == Cardinality(K)
           Ahead(k) == Cardinality(Earlier(K, ord, k))
           place == [k \in K |-> Ahead(k) + 1]
<1>1. n \in Nat
  BY FS_CardinalityType
<1>2. ASSUME NEW k \in K PROVE IsFiniteSet(Earlier(K, ord, k)) /\ Ahead(k) \in Nat /\ Ahead(k) < n
  <2>1. Earlier(K, ord, k) \subseteq K \ {k}
    BY DEF Earlier, Strict
  <2>2. IsFiniteSet(K \ {k}) /\ Cardinality(K \ {k}) = n - 1
    BY FS_RemoveElement
  <2>3. IsFiniteSet(Earlier(K, ord, k)) /\ Ahead(k) <= n - 1
    BY <2>1, <2>2, FS_Subset
  <2> QED
    BY <1>1, <2>3, FS_CardinalityType
<1>3. ASSUME NEW x \in K, NEW y \in K, <<x, y>> \in ord PROVE Ahead(x) < Ahead(y)
  <2>1. Earlier(K, ord, x) \cup {x} \subseteq Earlier(K, ord, y) /\ x \notin Earlier(K, ord, x)
    BY <1>3 DEF Earlier, Strict
  <2>2. IsFiniteSet(Earlier(K, ord, x)) /\ IsFiniteSet(Earlier(K, ord, y)) /\ Ahead(x) \in Nat /\ Ahead(y) \in Nat
    BY <1>2
  <2>3. Cardinality(Earlier(K, ord, x) \cup {x}) = Ahead(x) + 1
    BY <2>1, <2>2, FS_AddElement
  <2>4. Cardinality(Earlier(K, ord, x) \cup {x}) <= Ahead(y)
    BY <2>1, <2>2, FS_Subset
  <2> QED
    BY <2>2, <2>3, <2>4
<1>4. place \in [K -> 1..n] /\ \A k \in K : place[k] = Ahead(k) + 1
  BY <1>1, <1>2
<1>5. \A x, y \in K : <<x, y>> \in ord => place[x] < place[y]
  BY <1>2, <1>3, <1>4
<1> HIDE DEF Ahead, place, n
<1>6. \A x, y \in K : place[x] = place[y] => x = y
  <2> SUFFICES ASSUME NEW x \in K, NEW y \in K, place[x] = place[y], x # y PROVE FALSE
    OBVIOUS
  <2>1. place[x] \in Int
    BY <1>1, <1>4
  <2>2. <<x, y>> \in ord \/ <<y, x>> \in ord
    BY DEF Strict
  <2>3. place[x] < place[y] \/ place[y] < place[x]
    BY <1>5, <2>2
  <2> QED
    BY <2>1, <2>3
<1>7. place \in Surjection(K, 1..n)
  <2>1. place \in Injection(K, 1..n)
    <3>1. IsInjective(place)
      BY <1>4, <1>6 DEF IsInjective
    <3> QED
      BY <1>4, <3>1 DEF Injection
  <2>2. IsFiniteSet(1..n) /\ Cardinality(1..n) = n
    BY <1>1, FS_Interval
  <2> QED
    BY <2>1, <2>2, FS_Injection DEF n
<1>8. \A i \in 1..n : \E k \in K : place[k] = i
  BY <1>7 DEF Surjection
<1> DEFINE t == [i \in 1..n |-> CHOOSE k \in K : place[k] = i]
<1>9. t \in [1..n -> K] /\ \A i \in 1..n : place[t[i]] = i
  BY <1>8
<1> HIDE DEF t
<1>10. t \in SetToSeqs(K)
  BY <1>9 DEF SetToSeqs, n
<1>11. InTheOrder(t, ord)
  <2>1. ASSUME NEW i \in 1..n, NEW j \in 1..n, i < j, <<t[j], t[i]>> \in ord PROVE FALSE
    BY <1>1, <1>5, <1>9, <2>1
  <2>2. DOMAIN t = 1..n
    BY <1>9
  <2> QED
    BY <2>1, <2>2 DEF InTheOrder
<1> QED
  BY <1>10, <1>11

---------------------------------------------------------------------------
LEMMA PrecedesBy3 ==
    ASSUME NEW a1 \in Int, NEW a2 \in Int, NEW a3 \in Int, NEW b1 \in Int, NEW b2 \in Int, NEW b3 \in Int
    PROVE  Precedes(<<a1, a2, a3>>, <<b1, b2, b3>>)
              <=> a1 < b1 \/ (a1 = b1 /\ (a2 < b2 \/ (a2 = b2 /\ a3 < b3)))
<1> DEFINE a == <<a1, a2, a3>>
           b == <<b1, b2, b3>>
           First(i) == a[i] < b[i] /\ \A j \in 1 .. i - 1 : a[j] = b[j]
<1>1. Precedes(a, b) <=> First(1) \/ First(2) \/ First(3)
  <2>1. DOMAIN a = {1, 2, 3}
    OBVIOUS
  <2> HIDE DEF a, b
  <2> QED
    BY <2>1 DEF Precedes
<1>2. First(1) <=> a1 < b1
  OBVIOUS
<1>3. First(2) <=> a1 = b1 /\ a2 < b2
  <2>1. 1 .. 2 - 1 = {1}
    OBVIOUS
  <2> QED
    BY <2>1
<1>4. First(3) <=> a1 = b1 /\ a2 = b2 /\ a3 < b3
  <2>1. 1 .. 3 - 1 = {1, 2}
    OBVIOUS
  <2> QED
    BY <2>1
<1> QED
  BY <1>1, <1>2, <1>3, <1>4

Lex4(a1, a2, a3, a4, b1, b2, b3, b4) ==
    a1 < b1 \/ (a1 = b1 /\ (a2 < b2 \/ (a2 = b2 /\ (a3 < b3 \/ (a3 = b3 /\ a4 < b4)))))

LEMMA PrecedesBy4 ==
    ASSUME NEW a1 \in Int, NEW a2 \in Int, NEW a3 \in Int, NEW a4 \in Int,
           NEW b1 \in Int, NEW b2 \in Int, NEW b3 \in Int, NEW b4 \in Int
    PROVE  Precedes(<<a1, a2, a3, a4>>, <<b1, b2, b3, b4>>)
              <=> Lex4(a1, a2, a3, a4, b1, b2, b3, b4)
<1> DEFINE a == <<a1, a2, a3, a4>>
           b == <<b1, b2, b3, b4>>
           First(i) == a[i] < b[i] /\ \A j \in 1 .. i - 1 : a[j] = b[j]
<1>1. Precedes(a, b) <=> First(1) \/ First(2) \/ First(3) \/ First(4)
  <2>1. DOMAIN a = {1, 2, 3, 4}
    OBVIOUS
  <2> HIDE DEF a, b
  <2> QED
    BY <2>1 DEF Precedes
<1>2. First(1) <=> a1 < b1
  OBVIOUS
<1>3. First(2) <=> a1 = b1 /\ a2 < b2
  <2>1. 1 .. 2 - 1 = {1}
    OBVIOUS
  <2> QED
    BY <2>1
<1>4. First(3) <=> a1 = b1 /\ a2 = b2 /\ a3 < b3
  <2>1. 1 .. 3 - 1 = {1, 2}
    OBVIOUS
  <2> QED
    BY <2>1
<1>5. First(4) <=> a1 = b1 /\ a2 = b2 /\ a3 = b3 /\ a4 < b4
  <2>1. 1 .. 4 - 1 = {1, 2, 3}
    OBVIOUS
  <2> QED
    BY <2>1
<1> QED
  BY <1>1, <1>2, <1>3, <1>4, <1>5 DEF Lex4

\* A row's columns: numbers, however NULLs are placed.
RowsTyped == cc \in [Cands -> ReportRow \cup {Gone}]

LEMMA PresentRow ==
    ASSUME RowsTyped, NEW c \in Present
    PROVE  c \in Cands /\ cc[c] \in ReportRow
BY DEF Present, RowsTyped

LEMMA Columns ==
    ASSUME RowsTyped, NEW c \in Present
    PROVE  /\ Descending(cc[c].comp, NullsLast) \in Int /\ Descending(cc[c].det, NullsFirst) \in Int
           /\ Descending(cc[c].det, NullsLast) \in Int
           /\ Created[c] \in Int /\ c \in Int
<1>1. cc[c].comp \in Grade /\ cc[c].det \in Grade /\ c \in Cands
  BY PresentRow DEF ReportRow
<1>2. Created[c] \in Int /\ c \in Int
  BY <1>1, ReportsAssumption
<1>3. NullsLast \in Int /\ NullsFirst \in Int
  BY DEF NullsLast, NullsFirst
<1>4. \A x \in Grade, n \in Int : Descending(x, n) \in Int
  BY DEF Descending, Grade, OrNull
<1> QED
  BY <1>1, <1>2, <1>3, <1>4

Before(q) == {p \in Matching(q) \X Matching(q) : Precedes(SortKey(q, p[1]), SortKey(q, p[2]))}

LEMMA MatchingIs ==
    ASSUME RowsTyped, NEW q
    PROVE  Matching(q) \subseteq Present /\ Matching(q) \subseteq Cands /\ IsFiniteSet(Matching(q))
<1>1. Matching(q) \subseteq Present /\ Present \subseteq Cands
  BY DEF Matching, Present
<1> QED
  BY <1>1, FS_Subset, ReportsAssumption

\* Created and id break every tie.
LEMMA KeysAreStrict ==
    ASSUME RowsTyped, NEW q
    PROVE  Strict(Matching(q), Before(q))
<1> DEFINE A(c) == Descending(cc[c].comp, NullsLast)
           B(c) == Descending(cc[c].det, NullsFirst)
           C(c) == Descending(cc[c].det, NullsLast)
           T(c) == Created[c]
           Pre(x, y) == Precedes(SortKey(q, x), SortKey(q, y))
<1>1. \A c \in Matching(q) : A(c) \in Int /\ B(c) \in Int /\ C(c) \in Int /\ T(c) \in Int /\ c \in Int
  BY MatchingIs, Columns
<1>2. \A x, y \in Matching(q) : <<x, y>> \in Before(q) <=> Pre(x, y)
  BY DEF Before
<1>3. CASE q.sort = "default"
  <2>1. \A c : SortKey(q, c) = <<A(c), B(c), T(c), c>>
    BY <1>3 DEF SortKey
  <2> HIDE DEF A, B, C, T
  <2>2. ASSUME NEW x \in Matching(q), NEW y \in Matching(q)
        PROVE  Pre(x, y) <=> Lex4(A(x), B(x), T(x), x, A(y), B(y), T(y), y)
    <3>1. /\ A(x) \in Int /\ B(x) \in Int /\ T(x) \in Int /\ x \in Int
          /\ A(y) \in Int /\ B(y) \in Int /\ T(y) \in Int /\ y \in Int
      BY <1>1
    <3>2. Precedes(<<A(x), B(x), T(x), x>>, <<A(y), B(y), T(y), y>>)
            <=> Lex4(A(x), B(x), T(x), x, A(y), B(y), T(y), y)
      BY <3>1, PrecedesBy4
    <3> QED
      BY <2>1, <3>2
  <2> HIDE DEF Pre
  <2>3. \A x \in Matching(q) : ~Pre(x, x)
    BY <1>1, <2>2 DEF Lex4
  <2>4. \A x, y \in Matching(q) : x # y => Pre(x, y) \/ Pre(y, x)
    BY <1>1, <2>2 DEF Lex4
  <2>5. \A x, y, z \in Matching(q) : Pre(x, y) /\ Pre(y, z) => Pre(x, z)
    BY <1>1, <2>2 DEF Lex4
  <2> QED
    BY <1>2, <2>3, <2>4, <2>5 DEF Strict
<1>4. CASE q.sort # "default"
  <2>1. \A c : SortKey(q, c) = <<C(c), T(c), c>>
    BY <1>4 DEF SortKey
  <2> HIDE DEF A, B, C, T
  <2>2. ASSUME NEW x \in Matching(q), NEW y \in Matching(q)
        PROVE  Pre(x, y) <=> C(x) < C(y) \/ (C(x) = C(y) /\ (T(x) < T(y) \/ (T(x) = T(y) /\ x < y)))
    <3>1. Precedes(<<C(x), T(x), x>>, <<C(y), T(y), y>>) <=>
            C(x) < C(y) \/ (C(x) = C(y) /\ (T(x) < T(y) \/ (T(x) = T(y) /\ x < y)))
      BY <1>1, PrecedesBy3
    <3> QED
      BY <2>1, <3>1
  <2> HIDE DEF Pre
  <2>3. \A x \in Matching(q) : ~Pre(x, x)
    BY <1>1, <2>2
  <2>4. \A x, y \in Matching(q) : x # y => Pre(x, y) \/ Pre(y, x)
    BY <1>1, <2>2
  <2>5. \A x, y, z \in Matching(q) : Pre(x, y) /\ Pre(y, z) => Pre(x, z)
    BY <1>1, <2>2
  <2> QED
    BY <1>2, <2>3, <2>4, <2>5 DEF Strict
<1> QED
  BY <1>3, <1>4

LEMMA RankedIs ==
    ASSUME RowsTyped, NEW q
    PROVE  /\ \A t \in Ranked(q) : t \in SetToSeqs(Matching(q)) /\ InTheOrder(t, Before(q))
           /\ \A t \in SetToSeqs(Matching(q)) : InTheOrder(t, Before(q)) => t \in Ranked(q)
<1>1. ASSUME NEW t \in SetToSeqs(Matching(q)), NEW i \in DOMAIN t, NEW j \in DOMAIN t
      PROVE  <<t[j], t[i]>> \in Before(q) <=> Precedes(SortKey(q, t[j]), SortKey(q, t[i]))
  <2>1. t \in [1..Cardinality(Matching(q)) -> Matching(q)]
    BY DEF SetToSeqs
  <2> QED
    BY <2>1 DEF Before
<1> QED
  BY <1>1 DEF Ranked, InTheOrder

\* There is one ranking, and it lists everyone once.
LEMMA OneRanking ==
    ASSUME RowsTyped, NEW q
    PROVE  \E t \in Seq(Cands) : /\ Ranked(q) = {t} /\ Len(t) = Cardinality(Matching(q))
                                 /\ Once(t) /\ ToSet(t) = Matching(q)
<1> DEFINE K == Matching(q)
           ord == Before(q)
<1>1. IsFiniteSet(K) /\ K \subseteq Cands /\ Strict(K, ord)
  BY MatchingIs, KeysAreStrict
<1> HIDE DEF K, ord
<1>2. PICK t \in SetToSeqs(K) : InTheOrder(t, ord)
  BY <1>1, SomeListing
<1>3. \A u \in SetToSeqs(K) : InTheOrder(u, ord) => u = t
  BY <1>1, <1>2, OneListing
<1>4. Ranked(q) = {t}
  BY <1>2, <1>3, RankedIs DEF K, ord
<1>5. /\ Cardinality(K) \in Nat /\ DOMAIN t = 1..Cardinality(K) /\ t \in [1..Cardinality(K) -> K]
      /\ \A i, j \in 1..Cardinality(K) : t[i] = t[j] => i = j
      /\ \A k \in K : \E i \in 1..Cardinality(K) : t[i] = k
  BY <1>1, <1>2, ListingHasAll
<1>6. t \in Seq(Cands) /\ Len(t) = Cardinality(K)
  BY <1>1, <1>5
<1>7. Once(t)
  BY <1>5 DEF Once
<1>8. ToSet(t) = K
  BY <1>5 DEF ToSet
<1> QED
  BY <1>4, <1>6, <1>7, <1>8 DEF K

---------------------------------------------------------------------------
(* Pages. *)

LEMMA MinOfTwo ==
    ASSUME NEW a \in Int, NEW b \in Int
    PROVE  Min({a, b}) = IF a <= b THEN a ELSE b
<1> DEFINE m == IF a <= b THEN a ELSE b
<1>1. m \in {a, b} /\ \A y \in {a, b} : m <= y
  OBVIOUS
<1>2. \A x \in {a, b} : (\A y \in {a, b} : x <= y) => x = m
  OBVIOUS
<1> HIDE DEF m
<1> QED
  BY <1>1, <1>2 DEF Min, m

LEMMA WholePages ==
    ASSUME NEW a \in Nat, NEW b \in Nat, b > 0
    PROVE  (a * b) \div b = a /\ a * b \in Nat
<1> DEFINE d == (a * b) \div b
<1>1. a * b \in Nat
  OBVIOUS
<1>2. d \in Int /\ d * b <= a * b /\ a * b < d * b + b
  BY <1>1
<1> HIDE DEF d
<1>3. ~(a < d)
  <2> SUFFICES ASSUME a < d PROVE FALSE
    OBVIOUS
  <2>1. d - a - 1 \in Nat
    BY <1>2
  <2>2. (d - a - 1) * b \in Nat /\ (d - a - 1) * b = d * b - a * b - b
    BY <1>2, <2>1
  <2> QED
    BY <1>1, <1>2, <2>2
<1>4. ~(d < a)
  <2> SUFFICES ASSUME d < a PROVE FALSE
    OBVIOUS
  <2>1. a - d - 1 \in Nat
    BY <1>2
  <2>2. (a - d - 1) * b \in Nat /\ (a - d - 1) * b = a * b - d * b - b
    BY <1>2, <2>1
  <2> QED
    BY <1>1, <1>2, <2>2
<1> QED
  BY <1>1, <1>2, <1>3, <1>4 DEF d

LEMMA QuotientIsNat ==
    ASSUME NEW a \in Nat, NEW b \in Nat, b > 0 PROVE a \div b \in Nat
<1> DEFINE d == a \div b
<1>1. d \in Int /\ a < d * b + b
  OBVIOUS
<1> HIDE DEF d
<1>2. ~(d < 0)
  <2> SUFFICES ASSUME d < 0 PROVE FALSE
    OBVIOUS
  <2>1. -1 - d \in Nat
    BY <1>1
  <2>2. (-1 - d) * b \in Nat /\ (-1 - d) * b = 0 - b - d * b
    BY <1>1, <2>1
  <2> QED
    BY <1>1, <2>2
<1> QED
  BY <1>1, <1>2 DEF d

LEMMA PageIs ==
    ASSUME NEW s \in Seq(Cands), NEW number \in Nat, number > 0, NEW size \in Nat
    PROVE  Page(s, number, size) \in Seq(Cands)
<1> DEFINE a == (number - 1) * size + 1
           b == Min({Len(s), number * size})
<1>1. a \in Nat /\ a >= 1 /\ number * size \in Nat /\ Len(s) \in Nat
  <2>1. number - 1 \in Nat
    OBVIOUS
  <2>2. (number - 1) * size \in Nat
    BY <2>1
  <2> QED
    BY <2>2
<1>2. b \in Nat /\ b <= Len(s)
  BY <1>1, MinOfTwo
<1> HIDE DEF a, b
<1>3. \A i \in a .. b : s[i] \in Cands
  BY <1>1, <1>2
<1>4. SubSeq(s, a, b) \in Seq(Cands)
  BY <1>1, <1>2, <1>3, SubSeqProperties
<1> QED
  BY <1>4 DEF Page, a, b

\* A further page of what was read so far.
LEMMA OnePageOn ==
    ASSUME NEW s \in Seq(Cands), NEW m \in Nat, m * PageSize <= Len(s)
    PROVE  LET got == SubSeq(s, 1, m * PageSize)
               page == Page(s, Len(got) \div PageSize + 1, PageSize)
           IN  /\ Len(page) < PageSize => got \o page = s
               /\ ~(Len(page) < PageSize) =>
                     /\ (m + 1) * PageSize <= Len(s)
                     /\ got \o page = SubSeq(s, 1, (m + 1) * PageSize)
<1> DEFINE n == m * PageSize
           e == Min({Len(s), n + PageSize})
           got == SubSeq(s, 1, n)
           page == SubSeq(s, n + 1, e)
<1>1. PageSize \in Nat /\ PageSize > 0
  BY ReportsAssumption
<1>2. n \in Nat /\ n \div PageSize = m /\ Len(s) \in Nat /\ n <= Len(s)
  BY <1>1, WholePages
<1>3. (m + 1) * PageSize = n + PageSize /\ (m + 1 - 1) * PageSize = n
  BY <1>1
<1> HIDE DEF n
<1>4. e = (IF Len(s) <= n + PageSize THEN Len(s) ELSE n + PageSize) /\ e \in Nat /\ n <= e /\ e <= Len(s)
  BY <1>1, <1>2, MinOfTwo
<1>5. got \in Seq(Cands) /\ Len(got) = n
  <2>1. \A i \in 1 .. n : s[i] \in Cands
    BY <1>2
  <2> QED
    BY <1>2, <2>1, SubSeqProperties
<1>6. Page(s, Len(got) \div PageSize + 1, PageSize) = page
  <2>1. Len(got) \div PageSize + 1 = m + 1
    BY <1>2, <1>5
  <2>2. Page(s, m + 1, PageSize) = page
    <3> DEFINE k == m + 1
    <3>1. (k - 1) * PageSize + 1 = n + 1 /\ k * PageSize = n + PageSize
      BY <1>1, <1>2, <1>3
    <3> HIDE DEF k
    <3>2. Page(s, k, PageSize) = page
      BY <3>1 DEF Page
    <3> QED
      BY <3>2 DEF k
  <2> QED
    BY <2>1, <2>2
<1> HIDE DEF e
<1>7. page \in Seq(Cands) /\ Len(page) = e - n
  <2>1. \A i \in n + 1 .. e : s[i] \in Cands
    BY <1>2, <1>4
  <2>2. page \in Seq(Cands) /\ Len(page) = IF n + 1 <= e THEN e - (n + 1) + 1 ELSE 0
    BY <1>2, <1>4, <2>1, SubSeqProperties
  <2> QED
    BY <1>2, <1>4, <2>2
<1>8. got \o page = SubSeq(s, 1, e)
  <2>1. 1 \in 1 .. Len(s) + 1 /\ n \in 1 - 1 .. Len(s) /\ e \in n .. Len(s)
    BY <1>2, <1>4
  <2> QED
    BY <2>1, ConcatAdjacentSubSeq
<1>9. SubSeq(s, 1, Len(s)) = s
  BY SubSeqFull
<1>10. Len(page) < PageSize => e = Len(s)
  BY <1>1, <1>2, <1>4, <1>7
<1>11. ~(Len(page) < PageSize) => e = n + PageSize /\ e <= Len(s)
  BY <1>1, <1>2, <1>4, <1>7
<1>12. Len(page) < PageSize => got \o page = s
  BY <1>8, <1>9, <1>10
<1>13. ~(Len(page) < PageSize) => /\ (m + 1) * PageSize <= Len(s)
                                 /\ got \o page = SubSeq(s, 1, (m + 1) * PageSize)
  BY <1>3, <1>8, <1>11
<1> HIDE DEF got, page
<1> QED
  BY <1>6, <1>12, <1>13 DEF n, got, page

---------------------------------------------------------------------------
(* The reader. *)

\* A ranking is of the rows, whoever asks.
LEMMA RankingKept == UNCHANGED cc => Ranked(reader.q)' = Ranked(reader'.q)
BY DEF Ranked, Matching, Matches, Present, SortKey, RankingStatus, IsOverride

LEMMA QuietReader ==
    ASSUME ReaderInv, UNCHANGED <<cc, reader>> PROVE ReaderInv'
BY RankingKept DEF ReaderInv

LEMMA TypedStay ==
    ASSUME ReportsTyped, HistoryInv, UNCHANGED <<cc, history, now, tx>>,
           reader' \in [view : ReadViews, q : Queries \cup {Null}, got : Seq(Cands), total : Nat,
                        clean : BOOLEAN]
    PROVE  ReportsTyped' /\ HistoryInv'
BY DEF ReportsTyped, HistoryInv

LEMMA BeginKeeps ==
    ASSUME ReportsInv, NEW w \in Writers, BeginWrite(w) PROVE ReportsInv'
<1>1. UNCHANGED <<cc, history, reader>> /\ now' = now + 1
  BY DEF BeginWrite
<1>2. tx' \in [Writers -> OpenTx \cup {NoTx}]
  <2>1. PICK kind \in (UNION RequestMixes) \ {"read"}, c \in Cands :
          tx' = [tx EXCEPT ![w] = [cand |-> c, kind |-> kind, since |-> now]]
    BY DEF BeginWrite
  <2>2. kind \in RequestKinds \ {"read"}
    BY ReportsAssumption
  <2>3. [cand |-> c, kind |-> kind, since |-> now] \in OpenTx
    BY <2>2 DEF OpenTx, ReportsInv, ReportsTyped
  <2> QED
    BY <2>1, <2>3 DEF ReportsInv, ReportsTyped
<1>3. ReaderInv'
  BY <1>1, QuietReader DEF ReportsInv
<1> QED
  BY <1>1, <1>2, <1>3 DEF ReportsInv, ReportsTyped, HistoryInv

LEMMA GiveUpKeeps ==
    ASSUME ReportsInv, NEW w \in Writers, GiveUpWrite(w) PROVE ReportsInv'
<1>1. UNCHANGED <<cc, history, reader, now>> /\ tx' \in [Writers -> OpenTx \cup {NoTx}]
  BY DEF GiveUpWrite, ReportsInv, ReportsTyped
<1>2. ReaderInv'
  BY <1>1, QuietReader DEF ReportsInv
<1> QED
  BY <1>1, <1>2 DEF ReportsInv, ReportsTyped, HistoryInv

LEMMA CommitInv ==
    ASSUME ReportsInv, NEW w \in Writers, CommitWrite(w) PROVE ReportsInv'
<1>1. ReportsTyped' /\ HistoryInv'
  BY CommitKeeps DEF ReportsInv
<1>2. ~reader'.clean
  BY DEF CommitWrite, Touched, ReportsInv, ReportsTyped
<1> QED
  BY <1>1, <1>2 DEF ReportsInv, ReaderInv

LEMMA AskKeeps == ASSUME ReportsInv, Ask PROVE ReportsInv'
<1>1. PICK q \in Queries, view \in {"pages", "count"} : reader' = [NoReader EXCEPT !.view = view, !.q = q]
  BY DEF Ask
<1>2. UNCHANGED <<cc, history, tx, now>>
  BY DEF Ask
<1>3. reader' = [view |-> view, q |-> q, got |-> <<>>, total |-> 0, clean |-> TRUE]
  BY <1>1 DEF NoReader
<1>4. reader' \in [view : ReadViews, q : Queries \cup {Null}, got : Seq(Cands), total : Nat, clean : BOOLEAN]
  BY <1>3 DEF ReadViews
<1>5. RowsTyped
  BY DEF ReportsInv, ReportsTyped, RowsTyped
<1>6. ReaderInv'
  <2>1. ASSUME NEW s \in Ranked(reader'.q) PROVE HoldsPages(s, reader')
    <3>1. s \in Seq(Cands)
      BY <1>5, OneRanking
    <3>2. 0 * PageSize = 0 /\ 0 * PageSize <= Len(s) /\ SubSeq(s, 1, 0 * PageSize) = <<>>
      <4>1. 0 * PageSize = 0 /\ Len(s) \in Nat
        BY <3>1, ReportsAssumption
      <4>2. SubSeq(s, 1, 0) = <<>>
        BY SubSeqEmpty
      <4> QED
        BY <4>1, <4>2
    <3> QED
      BY <1>3, <3>2 DEF HoldsPages
  <2> QED
    BY <1>2, <2>1, RankingKept DEF ReaderInv
<1> QED
  BY <1>2, <1>4, <1>6, TypedStay DEF ReportsInv

LEMMA NextPageKeeps == ASSUME ReportsInv, NextPage PROVE ReportsInv'
<1> DEFINE q == reader.q
           Reader == [view : ReadViews, q : Queries \cup {Null}, got : Seq(Cands), total : Nat, clean : BOOLEAN]
<1>1. RowsTyped /\ reader \in Reader
  BY DEF ReportsInv, ReportsTyped, RowsTyped
<1>2. PICK s \in Ranked(q) :
        LET page == Page(s, Len(reader.got) \div PageSize + 1, PageSize)
        IN  reader' = [reader EXCEPT !.got = @ \o page, !.total = Len(s),
                                     !.view = IF Len(page) < PageSize THEN "read" ELSE "pages"]
  BY DEF NextPage
<1>3. UNCHANGED <<cc, history, tx, now>> /\ reader.view = "pages"
  BY DEF NextPage
<1>4. PICK t \in Seq(Cands) : Ranked(q) = {t}
  BY <1>1, OneRanking
<1>5. s = t
  BY <1>2, <1>4
<1> DEFINE page == Page(s, Len(reader.got) \div PageSize + 1, PageSize)
<1>6. page \in Seq(Cands)
  <2>1. Len(reader.got) \div PageSize + 1 \in Nat /\ Len(reader.got) \div PageSize + 1 > 0
    <3>1. Len(reader.got) \in Nat /\ PageSize \in Nat /\ PageSize > 0
      BY <1>1, ReportsAssumption
    <3>2. Len(reader.got) \div PageSize \in Nat
      BY <3>1, QuotientIsNat
    <3> QED
      BY <3>2
  <2> QED
    BY <1>4, <1>5, <2>1, PageIs, ReportsAssumption
<1>7. /\ reader'.got = reader.got \o page /\ reader'.clean = reader.clean /\ reader'.q = q
      /\ reader'.view = IF Len(page) < PageSize THEN "read" ELSE "pages"
      /\ reader' \in Reader
  <2> DEFINE v == IF Len(page) < PageSize THEN "read" ELSE "pages"
             more == reader.got \o page
             n == Len(s)
  <2>1. reader' = [reader EXCEPT !.got = more, !.total = n, !.view = v]
    BY <1>2
  <2>2. v \in ReadViews /\ n \in Nat /\ more \in Seq(Cands)
    BY <1>1, <1>4, <1>5, <1>6 DEF ReadViews
  <2> HIDE DEF page, v, more, n
  <2>3. /\ reader'.got = more /\ reader'.clean = reader.clean /\ reader'.q = q
        /\ reader'.view = v /\ reader' \in Reader
    BY <1>1, <2>1, <2>2
  <2> QED
    BY <2>3 DEF v, more
<1>8. ReaderInv'
  <2>1. ASSUME reader.clean PROVE HoldsPages(s, reader')
    <3>1. PICK m \in Nat : m * PageSize <= Len(s) /\ reader.got = SubSeq(s, 1, m * PageSize)
      <4>1. HoldsPages(s, reader)
        BY <1>2, <2>1 DEF ReportsInv, ReaderInv
      <4> QED
        BY <1>3, <4>1 DEF HoldsPages
    <3>2. /\ Len(page) < PageSize => reader.got \o page = s
          /\ ~(Len(page) < PageSize) =>
                /\ (m + 1) * PageSize <= Len(s)
                /\ reader.got \o page = SubSeq(s, 1, (m + 1) * PageSize)
      BY <1>4, <1>5, <3>1, OnePageOn
    <3> HIDE DEF page
    <3>3. CASE Len(page) < PageSize
      BY <1>7, <3>2, <3>3 DEF HoldsPages
    <3>4. CASE ~(Len(page) < PageSize)
      <4>1. m + 1 \in Nat
        OBVIOUS
      <4> QED
        BY <1>7, <3>2, <3>4, <4>1 DEF HoldsPages
    <3> QED
      BY <3>3, <3>4
  <2>2. Ranked(reader.q)' = {s}
    <3>1. Ranked(reader'.q) = {s}
      BY <1>4, <1>5, <1>7
    <3> QED
      BY <1>3, <3>1, RankingKept
  <2> QED
    BY <1>7, <2>1, <2>2 DEF ReaderInv
<1> QED
  BY <1>3, <1>7, <1>8, TypedStay DEF ReportsInv

LEMMA CountKeeps == ASSUME ReportsInv, CountRows PROVE ReportsInv'
<1> DEFINE q == reader.q
           total == Cardinality(Matching(q))
           Reader == [view : ReadViews, q : Queries \cup {Null}, got : Seq(Cands), total : Nat, clean : BOOLEAN]
<1>1. RowsTyped /\ reader \in Reader
  BY DEF ReportsInv, ReportsTyped, RowsTyped
<1>2. reader' = [reader EXCEPT !.total = total, !.view = IF total = 0 THEN "read" ELSE "rows"]
      /\ UNCHANGED <<cc, history, tx, now>> /\ reader.view = "count"
  BY DEF CountRows
<1>3. PICK t \in Seq(Cands) : Ranked(q) = {t} /\ Len(t) = total
  BY <1>1, OneRanking
<1>4. total \in Nat
  BY <1>3
<1> HIDE DEF total
<1>5. /\ reader'.got = reader.got /\ reader'.clean = reader.clean /\ reader'.q = q /\ reader'.total = total
      /\ reader'.view = IF total = 0 THEN "read" ELSE "rows"
      /\ reader' \in Reader
  <2> DEFINE v == IF total = 0 THEN "read" ELSE "rows"
  <2>1. v \in ReadViews /\ reader' = [reader EXCEPT !.total = total, !.view = v]
    BY <1>2 DEF ReadViews
  <2> HIDE DEF v
  <2>2. reader'.got = reader.got /\ reader'.clean = reader.clean /\ reader'.q = q /\ reader'.total = total
        /\ reader'.view = v /\ reader' \in Reader
    BY <1>1, <1>4, <2>1
  <2> QED
    BY <2>2 DEF v
<1>6. ReaderInv'
  <2>1. ASSUME reader.clean PROVE HoldsPages(t, reader')
    <3>1. reader.got = <<>>
      <4>1. HoldsPages(t, reader)
        BY <1>3, <2>1 DEF ReportsInv, ReaderInv
      <4> QED
        BY <1>2, <4>1 DEF HoldsPages
    <3>2. CASE total = 0
      <4>1. t = <<>>
        BY <1>3, <3>2
      <4> QED
        BY <1>5, <3>1, <3>2, <4>1 DEF HoldsPages
    <3>3. CASE total # 0
      BY <1>3, <1>5, <3>3 DEF HoldsPages
    <3> QED
      BY <3>2, <3>3
  <2>2. Ranked(reader.q)' = {t}
    <3>1. Ranked(reader'.q) = {t}
      BY <1>3, <1>5
    <3> QED
      BY <1>2, <3>1, RankingKept
  <2> QED
    BY <1>5, <2>1, <2>2 DEF ReaderInv
<1> QED
  BY <1>2, <1>5, <1>6, TypedStay DEF ReportsInv

LEMMA ExportKeeps == ASSUME ReportsInv, ExportRows PROVE ReportsInv'
<1> DEFINE q == reader.q
           Reader == [view : ReadViews, q : Queries \cup {Null}, got : Seq(Cands), total : Nat, clean : BOOLEAN]
<1>1. RowsTyped /\ reader \in Reader
  BY DEF ReportsInv, ReportsTyped, RowsTyped
<1>2. PICK s \in Ranked(q) : reader' = [reader EXCEPT !.got = Page(s, 1, reader.total), !.view = "exported"]
  BY DEF ExportRows
<1>3. UNCHANGED <<cc, history, tx, now>> /\ reader.view = "rows"
  BY DEF ExportRows
<1>4. PICK t \in Seq(Cands) : Ranked(q) = {t}
  BY <1>1, OneRanking
<1>5. s = t
  BY <1>2, <1>4
<1>6. Page(s, 1, reader.total) \in Seq(Cands)
  BY <1>1, <1>4, <1>5, PageIs
<1>7. /\ reader'.got = Page(s, 1, reader.total) /\ reader'.clean = reader.clean /\ reader'.q = q
      /\ reader'.view = "exported" /\ reader' \in Reader
  BY <1>1, <1>2, <1>6 DEF ReadViews
<1>8. ReaderInv'
  <2>1. ASSUME reader.clean PROVE HoldsPages(s, reader')
    <3>1. reader.total = Len(s)
      <4>1. HoldsPages(s, reader)
        BY <1>2, <2>1 DEF ReportsInv, ReaderInv
      <4> QED
        BY <1>3, <4>1 DEF HoldsPages
    <3>2. Page(s, 1, Len(s)) = s
      <4>1. (1 - 1) * Len(s) + 1 = 1 /\ 1 * Len(s) = Len(s) /\ Len(s) \in Nat
        BY <1>4, <1>5
      <4>2. Min({Len(s), Len(s)}) = Len(s)
        BY <4>1, MinOfTwo
      <4>3. Page(s, 1, Len(s)) = SubSeq(s, 1, Len(s))
        BY <4>1, <4>2 DEF Page
      <4> QED
        BY <1>4, <1>5, <4>3, SubSeqFull
    <3> QED
      BY <1>7, <3>1, <3>2 DEF HoldsPages
  <2>2. Ranked(reader.q)' = {s}
    <3>1. Ranked(reader'.q) = {s}
      BY <1>4, <1>5, <1>7
    <3> QED
      BY <1>3, <3>1, RankingKept
  <2> QED
    BY <1>7, <2>1, <2>2 DEF ReaderInv
<1> QED
  BY <1>3, <1>7, <1>8, TypedStay DEF ReportsInv

LEMMA ReportsStart == ReportsInit => ReportsInv
<1> SUFFICES ASSUME ReportsInit PROVE ReportsInv
  OBVIOUS
<1>1. PICK s \in Situations : cc = s.cc /\ history = s.history /\ now = s.now
  BY DEF ReportsInit
<1>2. /\ s.now \in Nat /\ s.history \subseteq HistoryRow /\ IsFiniteSet(s.history)
      /\ \A e \in s.history : WithBreakdown(e)
      /\ s.cc \in [Cands -> ReportRow \cup {Gone}]
      /\ \A c \in Cands : s.cc[c] # Gone => Backed(c, s.cc[c], s.history)
  BY ReportsAssumption
<1>3. cc \in [Cands -> ReportRow \cup {Gone}]
  BY <1>1, <1>2
<1>4. tx \in [Writers -> OpenTx \cup {NoTx}]
  BY DEF ReportsInit
<1>5. reader \in [view : ReadViews, q : Queries \cup {Null}, got : Seq(Cands), total : Nat, clean : BOOLEAN]
  BY DEF ReportsInit, NoReader, ReadViews
<1>6. ReportsTyped /\ HistoryInv
  BY <1>1, <1>2, <1>3, <1>4, <1>5 DEF ReportsTyped, HistoryInv
<1>7. ReaderInv
  <2>1. reader.view = "none"
    BY DEF ReportsInit, NoReader
  <2> QED
    BY <2>1 DEF ReaderInv, HoldsPages
<1> QED
  BY <1>6, <1>7 DEF ReportsInv

LEMMA ReportsKept == ReportsInv /\ [ReportsNext]_reportVars => ReportsInv'
<1> SUFFICES ASSUME ReportsInv, [ReportsNext]_reportVars PROVE ReportsInv'
  OBVIOUS
<1>1. ASSUME NEW w \in Writers, BeginWrite(w) PROVE ReportsInv'
  BY <1>1, BeginKeeps
<1>2. ASSUME NEW w \in Writers, CommitWrite(w) PROVE ReportsInv'
  BY <1>2, CommitInv
<1>3. ASSUME NEW w \in Writers, GiveUpWrite(w) PROVE ReportsInv'
  BY <1>3, GiveUpKeeps
<1>4. CASE Ask
  BY <1>4, AskKeeps
<1>5. CASE NextPage
  BY <1>5, NextPageKeeps
<1>6. CASE CountRows
  BY <1>6, CountKeeps
<1>7. CASE ExportRows
  BY <1>7, ExportKeeps
<1>8. CASE UNCHANGED reportVars
  <2>1. UNCHANGED <<cc, history, tx, now, reader>>
    BY <1>8 DEF reportVars
  <2>2. ReaderInv'
    BY <2>1, QuietReader DEF ReportsInv
  <2> QED
    BY <2>1, <2>2 DEF ReportsInv, ReportsTyped, HistoryInv
<1> QED
  BY <1>1, <1>2, <1>3, <1>4, <1>5, <1>6, <1>7, <1>8 DEF ReportsNext

LEMMA ReportsAlways == ReportsSpec => []ReportsInv
<1> QED
  BY ReportsStart, ReportsKept, PTL DEF ReportsSpec

---------------------------------------------------------------------------
(* What is shown agrees. *)

LEMMA BannersAreBacked == ASSUME ReportsTyped, HistoryInv PROVE BannerNamesARejection
<1> SUFFICES ASSUME NEW c \in Present, Banner(cc[c]).why # Null
             PROVE  \E e \in HistoryOf(c) : e \in DeterministicRejections /\ e.why = Banner(cc[c]).why
  BY DEF BannerNamesARejection
<1>1. c \in Cands /\ Backed(c, cc[c], history)
  BY DEF Present, HistoryInv
<1>2. ASSUME NEW src, NEW why, src = "DETERMINISTIC", NamesOne(c, history, src, why), why = Banner(cc[c]).why
      PROVE  \E e \in HistoryOf(c) : e \in DeterministicRejections /\ e.why = Banner(cc[c]).why
  BY <1>2 DEF NamesOne, RejectionsOf, HistoryOf, DeterministicRejections
<1>3. CASE cc[c].stage = "REJECTED"
  <2>1. cc[c].src = "DETERMINISTIC" /\ Banner(cc[c]).why = cc[c].why
    BY <1>3 DEF Banner, NoBanner
  <2> QED
    BY <1>1, <1>2, <2>1 DEF Backed
<1>4. CASE cc[c].stage # "REJECTED"
  <2>1. cc[c].orig # Null /\ cc[c].orig.src = "DETERMINISTIC" /\ Banner(cc[c]).why = cc[c].orig.why
    BY <1>4 DEF Banner, NoBanner
  <2> QED
    BY <1>1, <1>2, <2>1 DEF Backed
<1> QED
  BY <1>3, <1>4

LEMMA ReadersAgree == ASSUME ReportsTyped, ReaderInv PROVE PagesTellOneOrder
<1> SUFFICES ASSUME reader.view \in {"read", "exported"}, reader.clean
             PROVE  /\ Once(reader.got) /\ ToSet(reader.got) = Matching(reader.q)
                    /\ Ranked(reader.q) = {reader.got}
  BY DEF PagesTellOneOrder
<1>1. RowsTyped
  BY DEF ReportsTyped, RowsTyped
<1>2. PICK t \in Seq(Cands) : Ranked(reader.q) = {t} /\ Once(t) /\ ToSet(t) = Matching(reader.q)
  BY <1>1, OneRanking
<1>3. HoldsPages(t, reader)
  BY <1>2 DEF ReaderInv
<1>4. reader.got = t
  BY <1>3 DEF HoldsPages
<1> QED
  BY <1>2, <1>4

\* A finite set in two parts.
LEMMA TwoParts ==
    ASSUME NEW A, NEW B, IsFiniteSet(A \cup B), \A x \in A : x \notin B
    PROVE  /\ Cardinality(A \cup B) = Cardinality(A) + Cardinality(B)
           /\ Cardinality(A) \in Nat /\ Cardinality(B) \in Nat /\ IsFiniteSet(A) /\ IsFiniteSet(B)
<1>1. A \in SUBSET (A \cup B) /\ B \in SUBSET (A \cup B) /\ A \cap B = {}
  OBVIOUS
<1>2. IsFiniteSet(A) /\ IsFiniteSet(B)
  BY <1>1, FS_Subset
<1>3. Cardinality(A \cup B) = Cardinality(A) + Cardinality(B) - Cardinality(A \cap B)
  BY <1>2, FS_Union
<1>4. Cardinality(A \cap B) = 0
  BY <1>1, FS_EmptySet
<1>5. Cardinality(A) \in Nat /\ Cardinality(B) \in Nat
  BY <1>2, FS_CardinalityType
<1> QED
  BY <1>2, <1>3, <1>4, <1>5

LEMMA PresentIsFinite == IsFiniteSet(Present)
<1>1. Present \in SUBSET Cands
  BY DEF Present
<1> QED
  BY <1>1, FS_Subset, ReportsAssumption

LEMMA BoardHoldsAll ==
    Cardinality(UNION {Board.columns[s] : s \in BoardStages}) + Board.other = Summary.total
<1> DEFINE A == {c \in Present : cc[c].stage \in BoardStages}
           B == {c \in Present : cc[c].stage \notin BoardStages}
<1>1. \A s \in BoardStages : Board.columns[s] = {c \in Present : cc[c].stage = s}
  BY DEF Board
<1>2. UNION {Board.columns[s] : s \in BoardStages} = A
  BY <1>1
<1>3. Board.other = Cardinality(B) /\ Summary.total = Cardinality(Present)
  BY DEF Board, Summary
<1>4. A \cup B = Present /\ \A x \in A : x \notin B
  OBVIOUS
<1> HIDE DEF A, B
<1>5. Cardinality(Present) = Cardinality(A) + Cardinality(B)
  BY <1>4, TwoParts, PresentIsFinite
<1> QED
  BY <1>2, <1>3, <1>5

LEMMA PendingIsTheRest ==
    /\ Summary.pending = Cardinality({c \in Present : RankingStatus(cc[c]) = "PENDING"})
    /\ FailedCount = Cardinality({c \in Present : RankingStatus(cc[c]) = "FAILED"})
<1> DEFINE P == {c \in Present : RankingStatus(cc[c]) = "PENDING"}
           F == {c \in Present : RankingStatus(cc[c]) = "FAILED"}
<1>1. F = {c \in Present \ Scored : cc[c].ai = "FAILED"}
  BY DEF RankingStatus, Scored
<1>2. FailedCount = Cardinality(F)
  BY <1>1 DEF FailedCount
<1>3. /\ Scored \cup (F \cup P) = Present
      /\ \A x \in Scored : x \notin F \cup P
      /\ \A x \in F : x \notin P
  BY DEF RankingStatus, Scored
<1> HIDE DEF P, F
<1>4. Cardinality(Present) = Cardinality(Scored) + Cardinality(F \cup P) /\ IsFiniteSet(F \cup P)
      /\ Cardinality(Scored) \in Nat
  BY <1>3, TwoParts, PresentIsFinite
<1>5. /\ Cardinality(F \cup P) = Cardinality(F) + Cardinality(P)
      /\ Cardinality(F) \in Nat /\ Cardinality(P) \in Nat
  BY <1>3, <1>4, TwoParts
<1>6. Summary.pending = Cardinality(Present) - Cardinality(Scored) - FailedCount
  BY DEF Summary
<1>7. Summary.pending = Cardinality(P)
  BY <1>2, <1>4, <1>5, <1>6
<1> QED
  BY <1>2, <1>7 DEF P, F

LEMMA RejectedAreCounted == Summary.rejected = Cardinality(RejectedNow)
<1>1. CASE "REJECTED" \in {cc[c].stage : c \in Present}
  BY <1>1 DEF Summary, StageCounts, RejectedNow
<1>2. CASE "REJECTED" \notin {cc[c].stage : c \in Present}
  <2>1. RejectedNow = {}
    BY <1>2 DEF RejectedNow, InStage
  <2>2. "REJECTED" \notin DOMAIN StageCounts
    BY <1>2 DEF StageCounts
  <2> QED
    BY <2>1, <2>2, FS_EmptySet DEF Summary
<1> QED
  BY <1>1, <1>2

LEMMA BannersAreRejected ==
    ASSUME ReportsTyped
    PROVE  \A c \in Present : Scorecard(cc[c]).banner.has =>
             /\ c \in Board.columns["REJECTED"] /\ Outcome(cc[c]) = "Rejected"
             /\ SemanticTab(cc[c]) # Null
<1> SUFFICES ASSUME NEW c \in Present, Scorecard(cc[c]).banner.has
             PROVE  /\ c \in Board.columns["REJECTED"] /\ Outcome(cc[c]) = "Rejected"
                    /\ SemanticTab(cc[c]) # Null
  OBVIOUS
<1>1. cc[c].sem \in {"none", "passed", "failed"}
  BY PresentRow DEF ReportsTyped, RowsTyped, ReportRow
<1>2. Banner(cc[c]).has
  BY DEF Scorecard
<1>3. cc[c].stage = "REJECTED" /\ cc[c].src = "DETERMINISTIC"
  BY <1>2 DEF Banner, NoBanner
<1>4. Board.columns["REJECTED"] = {d \in Present : cc[d].stage = "REJECTED"}
  BY DEF Board, BoardStages, Stages
<1>5. SemanticTab(cc[c]) \in {"PASSED", "FAILED", "NOT_APPLICABLE"}
  BY <1>1, <1>3 DEF SemanticTab
<1>6. SemanticTab(cc[c]) # Null
  BY <1>5, ReportsAssumption
<1>7. Outcome(cc[c]) = "Rejected"
  BY <1>3 DEF Outcome
<1> QED
  BY <1>3, <1>4, <1>6, <1>7

\* The rejections whose gaps are among some.
Among(M) == {e \in DeterministicRejections : e.gaps \in M}

LEMMA OneBucketMore ==
    ASSUME IsFiniteSet(history), NEW M, NEW g, g \notin M
    PROVE  /\ Cardinality(Among(M \cup {g})) = Cardinality(Among(M)) + Cardinality(Bucket(g))
           /\ Cardinality(Among(M)) \in Nat /\ Cardinality(Bucket(g)) \in Nat
<1>1. Among(M) \cup Bucket(g) = Among(M \cup {g}) /\ \A e \in Among(M) : e \notin Bucket(g)
  BY DEF Among, Bucket
<1>2. Among(M \cup {g}) \in SUBSET history
  BY DEF Among, DeterministicRejections
<1>3. IsFiniteSet(Among(M) \cup Bucket(g))
  BY <1>1, <1>2, FS_Subset
<1> QED
  BY <1>1, <1>3, TwoParts

LEMMA GapsAre ==
    ASSUME NEW g \in SUBSET Gaps
    PROVE  g \in {{"skills"}, {"experience"}, {"education"}, {"skills", "experience"},
                  {"skills", "education"}, {"experience", "education"}, Gaps, {}}
<1>1. g \subseteq {"skills", "experience", "education"}
  BY DEF Gaps
<1>2. CASE "skills" \in g /\ "experience" \in g
  <2>1. CASE "education" \in g BY <1>1, <1>2, <2>1 DEF Gaps
  <2>2. CASE "education" \notin g
    <3>1. g = {"skills", "experience"} BY <1>1, <1>2, <2>2
    <3> QED BY <3>1
  <2> QED BY <2>1, <2>2
<1>3. CASE "skills" \in g /\ "experience" \notin g
  <2>1. CASE "education" \in g
    <3>1. g = {"skills", "education"} BY <1>1, <1>3, <2>1
    <3> QED BY <3>1
  <2>2. CASE "education" \notin g
    <3>1. g = {"skills"} BY <1>1, <1>3, <2>2
    <3> QED BY <3>1
  <2> QED BY <2>1, <2>2
<1>4. CASE "skills" \notin g /\ "experience" \in g
  <2>1. CASE "education" \in g
    <3>1. g = {"experience", "education"} BY <1>1, <1>4, <2>1
    <3> QED BY <3>1
  <2>2. CASE "education" \notin g
    <3>1. g = {"experience"} BY <1>1, <1>4, <2>2
    <3> QED BY <3>1
  <2> QED BY <2>1, <2>2
<1>5. CASE "skills" \notin g /\ "experience" \notin g
  <2>1. CASE "education" \in g
    <3>1. g = {"education"} BY <1>1, <1>5, <2>1
    <3> QED BY <3>1
  <2>2. CASE "education" \notin g
    <3>1. g = {} BY <1>1, <1>5, <2>2
    <3> QED BY <3>1
  <2> QED BY <2>1, <2>2
<1> QED
  BY <1>2, <1>3, <1>4, <1>5

LEMMA BucketsHoldAll ==
    ASSUME ReportsTyped, HistoryInv
    PROVE  Cardinality(DeterministicRejections) = InBuckets + Cardinality(Bucket({}))
<1> DEFINE a == {"skills"}
           b == {"experience"}
           c == {"education"}
           d == {"skills", "experience"}
           e == {"skills", "education"}
           f == {"experience", "education"}
           N(g) == Cardinality(Bucket(g))
           K(M) == Cardinality(Among(M))
           Mo == {}
           Ma == Mo \cup {a}
           Mb == Ma \cup {b}
           Mc == Mb \cup {c}
           Md == Mc \cup {d}
           Me == Md \cup {e}
           Mf == Me \cup {f}
           Mg == Mf \cup {Gaps}
           Mh == Mg \cup {{}}
<1>1. /\ b \notin Ma /\ c \notin Mb /\ d \notin Mc /\ e \notin Md
      /\ f \notin Me /\ Gaps \notin Mf /\ {} \notin Mg
  BY DEF Gaps
<1>0. a \notin Mo
  OBVIOUS
<1>2. InBuckets = N(a) + N(b) + N(c) + N(d) + N(e) + N(f) + N(Gaps)
  <2>1. \A g \in (SUBSET Gaps) \ {{}} : Breakdown[g] = N(g)
    BY DEF Breakdown
  <2>2. ASSUME NEW g, g \subseteq Gaps, NEW y, y \in g PROVE Breakdown[g] = N(g)
    <3>1. g \in (SUBSET Gaps) \ {{}}
      BY <2>2
    <3> HIDE DEF N
    <3> QED
      BY <2>1, <3>1
  <2>3. Breakdown[a] = N(a)
    <3>1. a \subseteq Gaps /\ "skills" \in a
      BY DEF Gaps
    <3> HIDE DEF N
    <3> QED
      BY <2>2, <3>1
  <2>4. Breakdown[b] = N(b)
    <3>1. b \subseteq Gaps /\ "experience" \in b
      BY DEF Gaps
    <3> HIDE DEF N
    <3> QED
      BY <2>2, <3>1
  <2>5. Breakdown[c] = N(c)
    <3>1. c \subseteq Gaps /\ "education" \in c
      BY DEF Gaps
    <3> HIDE DEF N
    <3> QED
      BY <2>2, <3>1
  <2>6. Breakdown[d] = N(d)
    <3>1. d \subseteq Gaps /\ "skills" \in d
      BY DEF Gaps
    <3> HIDE DEF N
    <3> QED
      BY <2>2, <3>1
  <2>7. Breakdown[e] = N(e)
    <3>1. e \subseteq Gaps /\ "skills" \in e
      BY DEF Gaps
    <3> HIDE DEF N
    <3> QED
      BY <2>2, <3>1
  <2>8. Breakdown[f] = N(f)
    <3>1. f \subseteq Gaps /\ "experience" \in f
      BY DEF Gaps
    <3> HIDE DEF N
    <3> QED
      BY <2>2, <3>1
  <2>9. Breakdown[Gaps] = N(Gaps)
    <3>1. Gaps \subseteq Gaps /\ "skills" \in Gaps
      BY DEF Gaps
    <3> HIDE DEF N
    <3> QED
      BY <2>2, <3>1
  <2> HIDE DEF N
  <2> QED
    BY <2>3, <2>4, <2>5, <2>6, <2>7, <2>8, <2>9 DEF InBuckets
<1>3. \A g \in SUBSET Gaps : g \in Mh
  BY GapsAre
<1> HIDE DEF a, b, c, d, e, f
<1>4. DeterministicRejections = Among(Mh)
  <2>1. \A r \in DeterministicRejections : r.gaps \in SUBSET Gaps
    BY DEF HistoryInv, WithBreakdown, DeterministicRejections
  <2> HIDE DEF Mh
  <2> QED
    BY <1>3, <2>1 DEF Among
<1>5. ASSUME NEW M, NEW g, g \notin M
      PROVE  K(M \cup {g}) = K(M) + N(g) /\ K(M) \in Nat /\ N(g) \in Nat
  BY <1>5, OneBucketMore DEF ReportsTyped
<1>6. K(Mo) = 0
  <2>1. Among(Mo) = {}
    BY DEF Among
  <2> QED
    BY <2>1, FS_EmptySet
<1> HIDE DEF N, K, Mo
<1>7. K(Ma) = N(a) /\ N(a) \in Nat
  <2>1. K(Ma) = K(Mo) + N(a) /\ N(a) \in Nat
    BY <1>0, <1>5
  <2> QED
    BY <1>6, <2>1
<1> HIDE DEF Ma
<1>8. K(Mb) = K(Ma) + N(b) /\ N(b) \in Nat
  BY <1>1, <1>5
<1> HIDE DEF Mb
<1>9. K(Mc) = K(Mb) + N(c) /\ N(c) \in Nat
  BY <1>1, <1>5
<1> HIDE DEF Mc
<1>10. K(Md) = K(Mc) + N(d) /\ N(d) \in Nat
  BY <1>1, <1>5
<1> HIDE DEF Md
<1>11. K(Me) = K(Md) + N(e) /\ N(e) \in Nat
  BY <1>1, <1>5
<1> HIDE DEF Me
<1>12. K(Mf) = K(Me) + N(f) /\ N(f) \in Nat
  BY <1>1, <1>5
<1> HIDE DEF Mf
<1>13. K(Mg) = K(Mf) + N(Gaps) /\ N(Gaps) \in Nat
  BY <1>1, <1>5
<1> HIDE DEF Mg
<1>14. K(Mh) = K(Mg) + N({}) /\ N({}) \in Nat
  BY <1>1, <1>5
<1> HIDE DEF Mh
<1> QED
  <2>1. K(Mg) = InBuckets
    BY <1>2, <1>7, <1>8, <1>9, <1>10, <1>11, <1>12, <1>13
  <2>2. Cardinality(DeterministicRejections) = K(Mh) /\ Cardinality(Bucket({})) = N({})
    BY <1>4 DEF K, N
  <2> QED
    BY <1>14, <2>1, <2>2

LEMMA ScreensSayOne == ASSUME ReportsTyped, HistoryInv PROVE ScreensAgree
BY BoardHoldsAll, PendingIsTheRest, RejectedAreCounted, BannersAreRejected, BucketsHoldAll
   DEF ScreensAgree

\* However decisions are overridden, reverted and overwritten by other writers, and however many
\* candidates, pages and readers' questions there are: the reason a scorecard shows as the
\* deterministic rejection's is one this candidate had, an undisturbed reader ends up with every
\* match once in the order of the export, and the figures add up to the lists.
THEOREM ReportsAlwaysAgree == ReportsSpec => []ReportsAgree
<1>1. ReportsInv => ReportsAgree
  BY BannersAreBacked, ReadersAgree, ScreensSayOne DEF ReportsInv, ReportsAgree
<1> QED
  BY <1>1, ReportsAlways, PTL
=============================================================================
