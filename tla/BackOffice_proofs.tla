-------------------------- MODULE BackOffice_proofs --------------------------
(***************************************************************************)
(* For any number of documents, texts and administrators: no JD is verified *)
(* with an unknown skill left, and no raw skill of a document disappears.    *)
(* For any ontology that starts as a forest: it stays one while no two edits *)
(* overlap and nothing is imported.                                         *)
(* For any people, contents and campaigns: the queries of the talent pool   *)
(* say the same of eligibility, filter options and filters, and a walk      *)
(* through the pages of a search skips or repeats nobody without cause.     *)
(* For any scenes of a task: whenever a screen reads, what it shows is what  *)
(* the worker and the retry driver did.                                     *)
(***************************************************************************)
EXTENDS SkillCuration, SkillHierarchy, PoolSearch, StageProgress, FiniteSetTheorems, SequenceTheorems,
        WellFoundedInduction, TLAPS

-----------------------------------------------------------------------------
(* The types.                                                               *)

Progress == [at : {"new", "matched", "stored"}, matched : SUBSET (Bases \cup Texts), unmatched : SUBSET Texts]
Session == [at : {"idle", "read", "written", "committed", "done"}, seen : SUBSET Docs,
            lacking : SUBSET Docs, verify : SUBSET Jds, gone : BOOLEAN]

Typed ==
    /\ LinksOK
    /\ SkillsOK
    /\ doc \in [Docs -> Progress]
    /\ plan \in [Admins -> Request]
    /\ sess \in [Admins -> Session]
    /\ aliases \in [Bases -> SUBSET Texts]
    /\ verified \subseteq Jds

-----------------------------------------------------------------------------
(* Documents: an occurrence exists from the moment its document is stored,  *)
(* and matching has put every raw text on one side or the other.            *)

Stored(d) == doc[d].at = "stored"

\* The text is a skill of the set: under its own name, or mapped to a canonical skill.
Covers(held, t) == held \cap (Bases \cup {t}) # {}

DocInv(d) ==
    /\ ~Stored(d) => \A t \in Texts : link[d][t] = None
    /\ doc[d].at = "matched" => \A t \in RawOf[d] : t \in doc[d].unmatched \/ Covers(doc[d].matched, t)
    /\ Stored(d) => \A t \in RawOf[d] :
           \/ link[d][t] = "PENDING"
           \/ Covers(skills[d], t)
           \/ <<d, t>> \in removed \cup late
    /\ d \in verified => Stored(d) /\ \A t \in Texts : link[d][t] # "PENDING"

-----------------------------------------------------------------------------
(* A request under way: what it read is still so, or is only more resolved. *)

Open(s) == sess[s].at \in {"read", "written"}

ReadInv(s, d) ==
    /\ d \in sess[s].seen => Stored(d)
    /\ d \in sess[s].seen /\ Migrates(s) => Target(s) \in skills[d] \/ d \in sess[s].lacking
    /\ plan[s].op = "create" /\ link[d][plan[s].text] = "PENDING"
         => d \in sess[s].seen \/ <<d, plan[s].text>> \in late
    /\ sess[s].gone /\ d \in sess[s].seen => link[d][plan[s].text] # "PENDING"
    /\ d \in sess[s].verify /\ sess[s].at = "written" =>
           /\ d \in sess[s].seen /\ plan[s].op \in {"create", "resolve", "delete"}
           /\ \A u \in Texts \ {plan[s].text} : link[d][u] # "PENDING"

AccountInv ==
    /\ Typed
    /\ \A d \in Docs : DocInv(d)
    /\ \A s \in Admins, d \in Docs : Open(s) => ReadInv(s, d)

-----------------------------------------------------------------------------
(* The documents' side.                                                     *)

\* normalize_skills finds a canonical skill for what the catalog knows.
LEMMA MatchCovers ==
    ASSUME NEW c, NEW t \in Texts, Knows(c, t)
    PROVE  SkillFor(c, t) \in Bases \cup {t}
BY DEF Knows, SkillFor

LEMMA MatchStep == ASSUME AccountInv, NEW d \in Docs, Match(d) PROVE AccountInv'
<1> USE DEF AccountInv, Typed
<1>1. PICK c :
          doc' = [doc EXCEPT ![d] = [at |-> "matched", matched |-> {SkillFor(c, t) : t \in {u \in RawOf[d] : Knows(c, u)}},
                                     unmatched |-> RawOf[d] \ {u \in RawOf[d] : Knows(c, u)}]]
  BY ZenonT(40) DEF Match
<1> DEFINE hit == {u \in RawOf[d] : Knows(c, u)}
           found == {SkillFor(c, t) : t \in hit}
           missing == RawOf[d] \ hit
<1>2. RawOf[d] \subseteq Texts
  BY CurationAssumption
<1>3. found \subseteq Bases \cup Texts
  BY <1>2, MatchCovers
<1>4. \A t \in RawOf[d] : t \in missing \/ Covers(found, t)
  <2> SUFFICES ASSUME NEW t \in RawOf[d], t \in hit PROVE Covers(found, t)
    OBVIOUS
  <2>1. SkillFor(c, t) \in Bases \cup {t}
    BY <1>2, MatchCovers
  <2>2. SkillFor(c, t) \in found
    OBVIOUS
  <2> QED
    BY <2>1, <2>2 DEF Covers
<1>5. doc' = [doc EXCEPT ![d] = [at |-> "matched", matched |-> found, unmatched |-> missing]]
  BY <1>1
<1>6. missing \subseteq Texts
  BY <1>2
<1> HIDE DEF hit, found, missing
<1>7. /\ doc[d].at = "new" /\ ~Stored(d)
      /\ UNCHANGED <<link, skills, verified, aliases, plan, sess, late, removed>>
  BY DEF Match, Stored
<1>8. doc' \in [Docs -> Progress]
  BY <1>3, <1>5, <1>6 DEF Progress
<1>9. /\ doc'[d].at = "matched" /\ doc'[d].matched = found /\ doc'[d].unmatched = missing
      /\ \A e \in Docs \ {d} : doc'[e] = doc[e]
  BY <1>5
<1>10. \A e \in Docs : DocInv(e)'
  <2>1. DocInv(d)'
    BY <1>4, <1>7, <1>9 DEF DocInv, Stored
  <2>2. ASSUME NEW e \in Docs, e # d PROVE DocInv(e)'
    BY <1>7, <1>9, <2>2 DEF DocInv, Stored
  <2> QED
    BY <2>1, <2>2
<1>11. ASSUME NEW s \in Admins, NEW e \in Docs, Open(s)' PROVE ReadInv(s, e)'
  <2>1. Open(s) /\ ReadInv(s, e)
    BY <1>7, <1>11 DEF Open
  <2>2. Stored(e) => Stored(e)'
    BY <1>7, <1>9 DEF Stored
  <2> QED
    BY <1>7, <2>1, <2>2 DEF ReadInv, Migrates, Creates, Target
<1> QED
  BY <1>7, <1>8, <1>10, <1>11 DEF LinksOK, SkillsOK

LEMMA PersistStep == ASSUME AccountInv, NEW d \in Docs, Persist(d) PROVE AccountInv'
<1> USE DEF AccountInv, Typed
<1> DEFINE new == doc[d].unmatched
<1>1. /\ doc[d].at = "matched" /\ ~Stored(d)
      /\ UNCHANGED <<aliases, plan, sess, removed>>
      /\ \A t \in new : Writing(t) = {}
  BY DEF Persist, Stored
<1>2. /\ link' = [link EXCEPT ![d] = [t \in Texts |-> IF t \in new THEN "PENDING" ELSE None]]
      /\ skills' = [skills EXCEPT ![d] = doc[d].matched]
      /\ doc' = [doc EXCEPT ![d].at = "stored"]
      /\ late' = late \cup {<<d, t>> : t \in {u \in new :
                            \E s \in Admins : sess[s].at = "read" /\ plan[s].text = u}}
      /\ verified' = verified \cup (IF d \in Jds /\ new = {} THEN {d} ELSE {})
  BY DEF Persist
<1>3. doc[d] \in Progress
  OBVIOUS
<1>4. new \subseteq Texts /\ doc[d].matched \subseteq Bases \cup Texts
  BY <1>3 DEF Progress
<1>5. \A t \in RawOf[d] : t \in new \/ Covers(doc[d].matched, t)
  BY <1>1 DEF DocInv
<1>6. RawOf[d] \subseteq Texts
  BY CurationAssumption
<1> HIDE DEF new
<1>7. /\ link' \in [Docs -> [Texts -> LinkStatuses]] /\ skills' \in [Docs -> SUBSET (Bases \cup Texts)]
      /\ doc' \in [Docs -> Progress]
  BY <1>2, <1>4 DEF LinksOK, SkillsOK, LinkStatuses, Progress
<1>8. /\ doc'[d].at = "stored" /\ skills'[d] = doc[d].matched
      /\ \A t \in Texts : link'[d][t] = IF t \in new THEN "PENDING" ELSE None
      /\ \A e \in Docs \ {d} : doc'[e] = doc[e] /\ link'[e] = link[e] /\ skills'[e] = skills[e]
  BY <1>2 DEF LinksOK, SkillsOK
<1>9. late \subseteq late'
  BY <1>2
<1>10. \A e \in Docs \ {d} : e \in verified' => e \in verified
  BY <1>2
<1>11. d \in verified' => new = {}
  <2>1. d \notin verified
    BY <1>1 DEF DocInv
  <2> QED
    BY <1>2, <2>1
<1>12. \A e \in Docs : DocInv(e)'
  <2>1. DocInv(d)'
    BY <1>5, <1>6, <1>8, <1>11 DEF DocInv, Stored, None
  <2>2. ASSUME NEW e \in Docs, e # d PROVE DocInv(e)'
    BY <1>1, <1>8, <1>9, <1>10, <2>2 DEF DocInv, Stored
  <2> QED
    BY <2>1, <2>2
<1>13. ASSUME NEW s \in Admins, NEW e \in Docs, Open(s)' PROVE ReadInv(s, e)'
  <2>1. Open(s) /\ ReadInv(s, e)
    BY <1>1, <1>13 DEF Open
  <2>2. CASE e # d
    BY <1>1, <1>8, <1>9, <2>1, <2>2 DEF ReadInv, Migrates, Creates, Target, Stored
  <2>3. CASE e = d
    <3>1. d \notin sess[s].seen
      BY <1>1, <2>1, <2>3 DEF ReadInv
    <3>2. d \in sess[s].verify /\ sess[s].at = "written" => d \in sess[s].seen
      BY <2>1, <2>3 DEF ReadInv
    <3>3. link'[d][plan[s].text] = "PENDING" => <<d, plan[s].text>> \in late'
      <4> SUFFICES ASSUME link'[d][plan[s].text] = "PENDING" PROVE <<d, plan[s].text>> \in late'
        OBVIOUS
      <4>1. plan[s].text \in Texts
        BY DEF Request
      <4>2. plan[s].text \in new
        BY <1>8, <4>1 DEF None
      <4>3. s \notin Writing(plan[s].text)
        BY <1>1, <4>2
      <4>4. sess[s].at = "read"
        BY <2>1, <4>3 DEF Open, Writing
      <4> QED
        BY <1>2, <4>2, <4>4
    <3> QED
      BY <1>1, <2>3, <3>1, <3>2, <3>3 DEF ReadInv
  <2> QED
    BY <2>2, <2>3
<1> QED
  BY <1>1, <1>2, <1>7, <1>12, <1>13 DEF LinksOK, SkillsOK

-----------------------------------------------------------------------------
(* The administrators' side.                                                *)

LEMMA OccurrencesOf ==
    ASSUME Typed, NEW s \in Admins, NEW d \in Docs
    PROVE  /\ d \in Occurrences(s) => link[d][plan[s].text] # None
           /\ plan[s].op = "create" /\ link[d][plan[s].text] = "PENDING" => d \in Occurrences(s)
           /\ Occurrences(s) \subseteq Docs
BY DEF Typed, Occurrences, Reached, None, Docs, Request, Ops

LEMMA ReadStep == ASSUME AccountInv, NEW s \in Admins, Read(s) PROVE AccountInv'
<1> USE DEF AccountInv, Typed
<1> DEFINE missing == {d \in Occurrences(s) : Migrates(s) /\ Target(s) \notin skills[d]}
           mine == [Idle EXCEPT !.at = "read", !.seen = Occurrences(s), !.lacking = missing]
<1>1. sess' = [sess EXCEPT ![s] = mine] /\ UNCHANGED <<link, skills, verified, aliases, doc, plan, late, removed>>
  BY DEF Read
<1>2. mine \in Session
  <2>1. Occurrences(s) \subseteq Docs
    <3>1. plan[s].op \in Ops
      BY DEF Request
    <3>2. Reached(s) \subseteq Docs
      BY <3>1 DEF Reached, Docs, Ops
    <3> QED
      BY <3>2 DEF Occurrences
  <2>2. missing \subseteq Docs
    BY <2>1
  <2> HIDE DEF missing
  <2> QED
    BY <2>1, <2>2 DEF Idle, Session
<1>3. /\ mine.at = "read" /\ mine.seen = Occurrences(s) /\ mine.lacking = missing
      /\ mine.verify = {} /\ mine.gone = FALSE
  BY DEF Idle
<1>4. \A d \in Occurrences(s) : Migrates(s) => Target(s) \in skills[d] \/ d \in missing
  OBVIOUS
<1> HIDE DEF missing, mine
<1>5. /\ sess'[s] = mine /\ \A u \in Admins \ {s} : sess'[u] = sess[u]
      /\ sess' \in [Admins -> Session]
  BY <1>1, <1>2
<1>6. \A d \in Docs : DocInv(d)'
  BY <1>1 DEF DocInv, Stored
<1>7. ASSUME NEW d \in Docs PROVE ReadInv(s, d)'
  <2>1. d \in Occurrences(s) => Stored(d)
    <3>1. plan[s].text \in Texts
      BY DEF Request
    <3> QED
      BY <3>1, OccurrencesOf DEF DocInv
  <2>2. plan[s].op = "create" /\ link[d][plan[s].text] = "PENDING" => d \in Occurrences(s)
    BY OccurrencesOf
  <2> QED
    BY <1>1, <1>3, <1>4, <1>5, <2>1, <2>2 DEF ReadInv, Migrates, Creates, Target, Stored
<1>8. ASSUME NEW u \in Admins, u # s, NEW d \in Docs, Open(u)' PROVE ReadInv(u, d)'
  BY <1>1, <1>5, <1>8 DEF Open, ReadInv, Migrates, Creates, Target, Stored
<1> QED
  BY <1>1, <1>5, <1>6, <1>7, <1>8 DEF LinksOK, SkillsOK

\* mark_jd_verified_if_fully_resolved counts the other pending links of the JDs it read.
LEMMA WriteStep == ASSUME AccountInv, NEW s \in Admins, Write(s) PROVE AccountInv'
<1> USE DEF AccountInv, Typed
<1> DEFINE ripe == {j \in sess[s].seen \cap Jds : /\ plan[s].op \in {"create", "resolve", "delete"}
                                                  /\ FullyResolved(j, plan[s].text)}
<1>1. /\ sess[s].at = "read"
      /\ sess' = [sess EXCEPT ![s].at = "written", ![s].verify = ripe]
      /\ UNCHANGED <<link, skills, verified, aliases, doc, plan, late, removed>>
  BY DEF Write
<1>2. ripe \subseteq Jds
  OBVIOUS
<1>3. \A d \in ripe : /\ d \in sess[s].seen /\ plan[s].op \in {"create", "resolve", "delete"}
                      /\ \A u \in Texts \ {plan[s].text} : link[d][u] # "PENDING"
  BY DEF FullyResolved
<1> HIDE DEF ripe
<1>4. sess[s] \in Session
  OBVIOUS
<1>5. /\ sess'[s].at = "written" /\ sess'[s].verify = ripe /\ sess'[s].seen = sess[s].seen
      /\ sess'[s].lacking = sess[s].lacking /\ sess'[s].gone = sess[s].gone
      /\ \A u \in Admins \ {s} : sess'[u] = sess[u]
  BY <1>1, <1>4 DEF Session
<1>6. sess' \in [Admins -> Session]
  BY <1>1, <1>2, <1>4 DEF Session
<1>7. \A d \in Docs : DocInv(d)'
  BY <1>1 DEF DocInv, Stored
<1>8. ASSUME NEW d \in Docs PROVE ReadInv(s, d)'
  <2>1. ReadInv(s, d)
    BY <1>1 DEF Open
  <2> QED
    BY <1>1, <1>3, <1>5, <2>1 DEF ReadInv, Migrates, Creates, Target, Stored
<1>9. ASSUME NEW u \in Admins, u # s, NEW d \in Docs, Open(u)' PROVE ReadInv(u, d)'
  BY <1>1, <1>5, <1>9 DEF Open, ReadInv, Migrates, Creates, Target, Stored
<1> QED
  BY <1>1, <1>6, <1>7, <1>8, <1>9 DEF LinksOK, SkillsOK

\* Where a resolution leaves an occurrence of its text.
LEMMA LinkAfterIs ==
    ASSUME AccountInv, NEW s \in Admins, NEW d \in Docs, sess[s].at = "written"
    PROVE  /\ LinkAfter(s, d) \in LinkStatuses
           /\ LinkAfter(s, d) = "PENDING" => link[d][plan[s].text] = "PENDING"
           /\ ~Stored(d) => LinkAfter(s, d) = None
           /\ Erases(s) => LinkAfter(s, d) = None
           /\ d \in sess[s].verify => LinkAfter(s, d) # "PENDING"
           /\ link[d][plan[s].text] = "PENDING" =>
                  \/ LinkAfter(s, d) = "PENDING"
                  \/ plan[s].op = "delete" /\ Erases(s)
                  \/ Migrates(s) /\ d \in sess[s].seen
                  \/ <<d, plan[s].text>> \in late
<1>1. /\ plan[s].op \in Ops /\ plan[s].text \in Texts /\ link[d][plan[s].text] \in LinkStatuses
  BY DEF AccountInv, Typed, LinksOK, Request
<1>2. ReadInv(s, d) /\ DocInv(d)
  BY DEF AccountInv, Open
<1>3. Erases(s) <=> (plan[s].op \in {"create", "delete"} /\ ~sess[s].gone)
  BY DEF Erases
<1>4. /\ d \in sess[s].seen => Stored(d)
      /\ ~Stored(d) => link[d][plan[s].text] = None
  BY <1>1, <1>2 DEF ReadInv, DocInv
<1>5. CASE plan[s].op \in {"map", "promote"} /\ d \in sess[s].seen
  <2>1. LinkAfter(s, d) = "RESOLVED"
    BY <1>5 DEF LinkAfter, Erases
  <2>2. ~Erases(s) /\ Migrates(s) /\ d \notin sess[s].verify
    BY <1>2, <1>3, <1>5 DEF Migrates, ReadInv
  <2> QED
    BY <1>4, <1>5, <2>1, <2>2 DEF LinkStatuses
<1>6. CASE plan[s].op = "resolve" /\ d \in sess[s].seen
  <2>1. LinkAfter(s, d) = None /\ Migrates(s)
    BY <1>6 DEF LinkAfter, Migrates, Erases
  <2> QED
    BY <1>6, <2>1 DEF LinkStatuses, None
<1>7. CASE Erases(s)
  <2>1. LinkAfter(s, d) = None
    BY <1>3, <1>7 DEF LinkAfter
  <2>2. plan[s].op = "create" => Migrates(s)
    BY DEF Migrates
  <2> QED
    BY <1>2, <1>3, <1>7, <2>1, <2>2 DEF LinkStatuses, None, ReadInv
<1>8. CASE ~(plan[s].op \in {"map", "promote", "resolve"} /\ d \in sess[s].seen) /\ ~Erases(s)
  <2>1. LinkAfter(s, d) = link[d][plan[s].text]
    BY <1>8 DEF LinkAfter
  <2>2. d \in sess[s].verify => link[d][plan[s].text] # "PENDING"
    BY <1>2, <1>3, <1>8 DEF ReadInv
  <2> QED
    BY <1>1, <1>4, <1>8, <2>1, <2>2
<1> QED
  BY <1>5, <1>6, <1>7, <1>8

LEMMA CommitStep == ASSUME AccountInv, NEW s \in Admins, Commit(s) PROVE AccountInv'
<1> USE DEF AccountInv
<1> DEFINE p == plan[s]
<1>1. sess[s].at = "written" /\ UNCHANGED <<doc, plan, late>>
  BY DEF Commit
<1>2. p \in Request /\ p.text \in Texts /\ p.skill \in Bases /\ p.op \in Ops
  BY DEF Typed, Request
<1>3. /\ link' = [d \in Docs |-> [link[d] EXCEPT ![p.text] = LinkAfter(s, d)]]
      /\ skills' = [d \in Docs |-> skills[d] \cup (IF d \in sess[s].lacking THEN {Target(s)} ELSE {})]
      /\ verified' = verified \cup sess[s].verify
      /\ removed \subseteq removed'
  BY DEF Commit
<1>4. ASSUME p.op = "delete", Erases(s), NEW d \in Docs, link[d][p.text] # None
      PROVE  <<d, p.text>> \in removed'
  BY <1>4 DEF Commit
<1>5. /\ sess'[s].at = "committed"
      /\ \A u \in Admins \ {s} :
             /\ sess'[u].at = sess[u].at /\ sess'[u].seen = sess[u].seen
             /\ sess'[u].lacking = sess[u].lacking /\ sess'[u].verify = sess[u].verify
             /\ sess'[u].gone => sess[u].gone \/ (Erases(s) /\ plan[u].text = p.text)
      /\ sess' \in [Admins -> Session]
  <2>1. sess' = [u \in Admins |->
          IF u = s THEN [sess[s] EXCEPT !.at = "committed"]
          ELSE IF Erases(s) /\ sess[u].at = "read" /\ plan[u].text = p.text
               THEN [sess[u] EXCEPT !.gone = TRUE] ELSE sess[u]]
    BY DEF Commit
  <2>2. ASSUME NEW u \in Admins PROVE sess[u] \in Session
    BY DEF Typed
  <2>3. sess'[s] = [sess[s] EXCEPT !.at = "committed"] /\ sess'[s] \in Session
    BY <2>1, <2>2 DEF Session
  <2>4. ASSUME NEW u \in Admins, u # s
        PROVE  /\ sess'[u] \in Session
               /\ sess'[u].at = sess[u].at /\ sess'[u].seen = sess[u].seen
               /\ sess'[u].lacking = sess[u].lacking /\ sess'[u].verify = sess[u].verify
               /\ sess'[u].gone => sess[u].gone \/ (Erases(s) /\ plan[u].text = p.text)
    <3>1. CASE Erases(s) /\ sess[u].at = "read" /\ plan[u].text = p.text
      <4>1. sess'[u] = [sess[u] EXCEPT !.gone = TRUE]
        BY <2>1, <2>4, <3>1
      <4> QED
        BY <2>2, <3>1, <4>1 DEF Session
    <3>2. CASE ~(Erases(s) /\ sess[u].at = "read" /\ plan[u].text = p.text)
      <4>1. sess'[u] = sess[u]
        BY <2>1, <2>4, <3>2
      <4> QED
        BY <2>2, <4>1
    <3> QED
      BY <3>1, <3>2
  <2>5. sess[s].at = "written" /\ sess'[s].at = "committed"
    BY <1>1, <2>2, <2>3 DEF Session
  <2> QED
    BY <2>1, <2>3, <2>4, <2>5
<1>6. Target(s) \in Bases \cup {p.text}
  BY <1>2 DEF Target
<1>7. ASSUME NEW d \in Docs
      PROVE  /\ link'[d] \in [Texts -> LinkStatuses]
             /\ link'[d][p.text] = LinkAfter(s, d)
             /\ \A t \in Texts \ {p.text} : link'[d][t] = link[d][t]
             /\ \A t \in Texts : link'[d][t] = "PENDING" => link[d][t] = "PENDING"
             /\ skills[d] \subseteq skills'[d] /\ skills'[d] \subseteq Bases \cup Texts
             /\ d \in sess[s].lacking => Target(s) \in skills'[d]
  <2>1. link'[d] = [link[d] EXCEPT ![p.text] = LinkAfter(s, d)] /\ link[d] \in [Texts -> LinkStatuses]
    BY <1>3 DEF Typed, LinksOK
  <2>2. LinkAfter(s, d) \in LinkStatuses /\ (LinkAfter(s, d) = "PENDING" => link[d][p.text] = "PENDING")
    BY <1>1, LinkAfterIs
  <2>3. skills[d] \subseteq Bases \cup Texts
    BY DEF Typed, SkillsOK
  <2> QED
    BY <1>2, <1>3, <1>6, <2>1, <2>2, <2>3
<1>8. Typed'
  <2>1. link' \in [Docs -> [Texts -> LinkStatuses]]
    BY <1>3, <1>7
  <2>2. skills' \in [Docs -> SUBSET (Bases \cup Texts)]
    BY <1>3, <1>7
  <2>3. aliases' \in [Bases -> SUBSET Texts]
    BY <1>2 DEF Commit, Typed
  <2> QED
    BY <1>1, <1>3, <1>5, <2>1, <2>2, <2>3 DEF Typed, LinksOK, SkillsOK, Session
<1>9. ASSUME NEW d \in Docs PROVE DocInv(d)'
  <2>1. DocInv(d) /\ ReadInv(s, d) /\ (Stored(d)' <=> Stored(d))
    BY <1>1 DEF Open, Stored
  <2>2. ~Stored(d)' => \A t \in Texts : link'[d][t] = None
    <3> SUFFICES ASSUME ~Stored(d), NEW t \in Texts PROVE link'[d][t] = None
      BY <2>1
    <3>1. LinkAfter(s, d) = None
      BY <1>1, LinkAfterIs
    <3>2. link[d][t] = None
      BY <2>1 DEF DocInv
    <3> QED
      BY <1>7, <3>1, <3>2
  <2>3. ASSUME Stored(d), NEW t \in RawOf[d]
        PROVE  \/ link'[d][t] = "PENDING"
               \/ Covers(skills'[d], t)
               \/ <<d, t>> \in removed' \cup late'
    <3>1. t \in Texts
      BY CurationAssumption
    <3>2. CASE t # p.text \/ link[d][t] # "PENDING"
      BY <1>1, <1>3, <1>7, <2>1, <2>3, <3>1, <3>2 DEF DocInv, Covers
    <3>3. CASE t = p.text /\ link[d][t] = "PENDING"
      <4>1. \/ LinkAfter(s, d) = "PENDING"
            \/ p.op = "delete" /\ Erases(s)
            \/ Migrates(s) /\ d \in sess[s].seen
            \/ <<d, t>> \in late
        BY <1>1, <3>3, LinkAfterIs
      <4>2. CASE p.op = "delete" /\ Erases(s)
        BY <1>4, <3>3, <4>2 DEF None
      <4>3. CASE Migrates(s) /\ d \in sess[s].seen
        <5>1. Target(s) \in skills'[d]
          BY <1>7, <2>1, <4>3 DEF ReadInv
        <5> QED
          BY <1>6, <3>3, <5>1 DEF Covers
      <4> QED
        BY <1>1, <1>7, <3>3, <4>1, <4>2, <4>3
    <3> QED
      BY <3>2, <3>3
  <2>4. ASSUME d \in verified' PROVE Stored(d) /\ \A t \in Texts : link'[d][t] # "PENDING"
    <3>1. CASE d \in verified
      BY <1>7, <2>1, <3>1 DEF DocInv
    <3>2. CASE d \in sess[s].verify
      <4>1. /\ d \in sess[s].seen /\ Stored(d)
            /\ \A u \in Texts \ {p.text} : link[d][u] # "PENDING"
        BY <1>1, <2>1, <3>2 DEF ReadInv
      <4>2. LinkAfter(s, d) # "PENDING"
        BY <1>1, <3>2, LinkAfterIs
      <4> QED
        BY <1>7, <4>1, <4>2
    <3> QED
      BY <1>3, <2>4, <3>1, <3>2
  <2>5. doc'[d] = doc[d]
    BY <1>1
  <2> QED
    BY <2>1, <2>2, <2>3, <2>4, <2>5 DEF DocInv, Stored
<1>10. ASSUME NEW u \in Admins, NEW d \in Docs, Open(u)' PROVE ReadInv(u, d)'
  <2>1. u # s
    BY <1>5, <1>10 DEF Open
  <2>2. Open(u) /\ ReadInv(u, d)
    BY <1>5, <1>10, <2>1 DEF Open
  <2>3. plan[u].text \in Texts
    BY DEF Typed, Request
  <2>4. ASSUME sess'[u].gone, d \in sess[u].seen PROVE link'[d][plan[u].text] # "PENDING"
    <3>1. CASE sess[u].gone
      BY <1>7, <2>2, <2>3, <2>4, <3>1 DEF ReadInv
    <3>2. CASE Erases(s) /\ plan[u].text = p.text
      BY <1>1, <1>7, <3>2, LinkAfterIs DEF None
    <3> QED
      BY <1>5, <2>1, <2>4, <3>1, <3>2
  <2>5. /\ plan'[u] = plan[u] /\ (Migrates(u)' <=> Migrates(u)) /\ Target(u)' = Target(u)
        /\ Stored(d)' <=> Stored(d)
    BY <1>1 DEF Migrates, Target, Creates, Stored
  <2>6. /\ sess'[u].at = sess[u].at /\ sess'[u].seen = sess[u].seen
        /\ sess'[u].lacking = sess[u].lacking /\ sess'[u].verify = sess[u].verify
    BY <1>5, <2>1
  <2>7. /\ \A t \in Texts : link'[d][t] = "PENDING" => link[d][t] = "PENDING"
        /\ skills[d] \subseteq skills'[d] /\ late' = late
    BY <1>1, <1>7
  <2> QED
    BY <2>2, <2>3, <2>4, <2>5, <2>6, <2>7 DEF ReadInv
<1> QED
  BY <1>8, <1>9, <1>10

\* Everything else moves a request to its end, or a scoring task.
LEMMA QuietStep ==
    ASSUME AccountInv, UNCHANGED <<link, skills, verified, aliases, doc, plan, late, removed>>,
           \/ UNCHANGED sess
           \/ \E s \in Admins : \/ sess' = [sess EXCEPT ![s] = [Idle EXCEPT !.at = "done"]]
                                \/ sess' = [sess EXCEPT ![s].at = "done"]
    PROVE  AccountInv'
<1> USE DEF AccountInv
<1>1. sess' \in [Admins -> Session] /\ \A u \in Admins : sess'[u] = sess[u] \/ sess'[u].at = "done"
  <2>1. sess \in [Admins -> Session]
    BY DEF Typed
  <2>2. CASE UNCHANGED sess
    BY <2>1, <2>2
  <2>3. ASSUME NEW s \in Admins, sess' = [sess EXCEPT ![s] = [Idle EXCEPT !.at = "done"]]
        PROVE  sess' \in [Admins -> Session] /\ \A u \in Admins : sess'[u] = sess[u] \/ sess'[u].at = "done"
    <3>1. [Idle EXCEPT !.at = "done"] \in Session /\ [Idle EXCEPT !.at = "done"].at = "done"
      BY DEF Idle, Session
    <3> QED
      BY <2>1, <2>3, <3>1
  <2>4. ASSUME NEW s \in Admins, sess' = [sess EXCEPT ![s].at = "done"]
        PROVE  sess' \in [Admins -> Session] /\ \A u \in Admins : sess'[u] = sess[u] \/ sess'[u].at = "done"
    BY <2>1, <2>4 DEF Session
  <2> QED
    BY <2>2, <2>3, <2>4
<1>2. Typed'
  BY <1>1 DEF Typed, LinksOK, SkillsOK
<1>3. \A d \in Docs : DocInv(d)'
  BY DEF DocInv, Stored
<1>4. ASSUME NEW u \in Admins, NEW d \in Docs, Open(u)' PROVE ReadInv(u, d)'
  <2>1. sess'[u] = sess[u]
    BY <1>1, <1>4 DEF Open
  <2> QED
    BY <1>4, <2>1 DEF Open, ReadInv, Migrates, Creates, Target, Stored
<1> QED
  BY <1>2, <1>3, <1>4

-----------------------------------------------------------------------------
LEMMA AccountStarts == Init => AccountInv
<1> SUFFICES ASSUME Init PROVE AccountInv
  OBVIOUS
<1>1. Typed
  <2>1. doc \in [Docs -> Progress] /\ sess \in [Admins -> Session]
    BY DEF Init, NewDoc, Progress, Idle, Session
  <2>2. plan \in [Admins -> Request]
    BY PlansAssumption DEF Init
  <2> QED
    BY <2>1, <2>2 DEF Typed, Init, LinksOK, LinkStatuses, SkillsOK
<1>2. \A d \in Docs : DocInv(d)
  BY DEF Init, NewDoc, DocInv, Stored
<1>3. \A s \in Admins : ~Open(s)
  BY DEF Init, Idle, Open
<1> QED
  BY <1>1, <1>2, <1>3 DEF AccountInv

LEMMA AccountInductive == AccountInv /\ [Next]_vars => AccountInv'
<1> SUFFICES ASSUME AccountInv, [Next]_vars PROVE AccountInv'
  OBVIOUS
<1>1. ASSUME NEW s \in Admins, Abort(s) \/ Announce(s) PROVE AccountInv'
  BY <1>1, QuietStep DEF Abort, Announce
<1>2. ASSUME NEW r \in Resumes, Score(r) \/ Shortlist(r) PROVE AccountInv'
  BY <1>2, QuietStep DEF Score, Shortlist
<1>3. ASSUME NEW r \in Resumes, NEW t \in Texts, Reevaluate(r, t) PROVE AccountInv'
  BY <1>3, QuietStep DEF Reevaluate
<1>4. CASE UNCHANGED vars
  BY <1>4, QuietStep DEF vars
<1> QED
  BY <1>1, <1>2, <1>3, <1>4, MatchStep, PersistStep, ReadStep, WriteStep, CommitStep DEF Next

\* Nothing a document said is lost between persisting it, resolving its unknown skills and
\* deleting them, and a JD is marked VERIFIED only with all of them resolved, whichever
\* requests interleave (skill_curation_service.py, mark_jd_verified_if_fully_resolved).
THEOREM NoRawSkillIsLost == Spec => []UnknownSkillsAccounted
<1>1. AccountInv => UnknownSkillsAccounted
  <2> SUFFICES ASSUME AccountInv PROVE VerifiedIsResolved /\ OccurrenceAccounted
    BY DEF UnknownSkillsAccounted
  <2>1. OccurrenceAccounted
    BY DEF AccountInv, DocInv, Covers, Stored, OccurrenceAccounted
  <2>2. VerifiedIsResolved
    BY DEF AccountInv, Typed, Docs, DocInv, VerifiedIsResolved
  <2> QED
    BY <2>1, <2>2
<1> QED
  BY <1>1, AccountStarts, AccountInductive, PTL DEF Spec

-----------------------------------------------------------------------------
(* Forests.  That a hierarchy has ranks is that every set of skills has one   *)
(* whose parent is outside it: no set holds the ancestors of all its members. *)

Grounded(K, up) == \A S \in SUBSET K : S # {} => \E x \in S : up[x] \notin S

\* Going up from p stays within skills other than k.
Apart(k, p, up) ==
    \E A \in SUBSET Skills : p \in A /\ k \notin A /\ \A x \in A : up[x] \in A \cup {NoSkill}

\* A set of numbers has a least one, and a bounded one a greatest.
LEMMA LeastNumber == ASSUME NEW T \in SUBSET Nat, T # {} PROVE \E n \in T : \A m \in T : n <= m
<1> DEFINE R == {ss \in Nat \X Nat : ss[1] < ss[2]}
<1>1. IsWellFoundedOn(R, Nat)
  BY NatLessThanWellFounded DEF OpToRel
<1>2. PICK x \in T : \A y \in T : ~(<<y, x>> \in R)
  BY <1>1, WFMin
<1>3. ASSUME NEW y \in T PROVE x <= y
  <2>1. x \in Nat /\ y \in Nat /\ ~(y < x)
    BY <1>2
  <2> QED BY <2>1
<1> QED
  BY <1>3

\* Whatever holds at zero and with every number at the next holds at every number.
LEMMA Inductive ==
    ASSUME NEW H \in SUBSET Nat, 0 \in H, \A n \in H : n + 1 \in H PROVE H = Nat
<1> SUFFICES ASSUME Nat \ H # {} PROVE FALSE
  OBVIOUS
<1>1. PICK n \in Nat \ H : \A m \in Nat \ H : n <= m
  BY LeastNumber
<1>2. n # 0 /\ n - 1 \in Nat /\ ~(n <= n - 1)
  BY <1>1
<1>3. n - 1 \in H /\ (n - 1) + 1 = n
  BY <1>1, <1>2
<1> QED
  BY <1>1, <1>3

-----------------------------------------------------------------------------
(* Ranks.                                                                   *)

\* With ranks, every set has a member whose parent is outside: the one of least rank.
LEMMA RanksGround ==
    ASSUME NEW K, NEW up, NoSkill \notin K, NEW rank \in [K -> Nat],
           \A k \in K : up[k] \in K => rank[up[k]] < rank[k]
    PROVE  Grounded(K, up)
<1> SUFFICES ASSUME NEW S \in SUBSET K, S # {} PROVE \E x \in S : up[x] \notin S
  BY DEF Grounded
<1>1. PICK n \in {rank[x] : x \in S} : \A m \in {rank[x] : x \in S} : n <= m
  <2>1. {rank[x] : x \in S} \subseteq Nat /\ {rank[x] : x \in S} # {}
    OBVIOUS
  <2> QED BY <2>1, LeastNumber
<1>2. PICK x \in S : rank[x] = n
  OBVIOUS
<1>3. up[x] \notin S
  <2> SUFFICES ASSUME up[x] \in S PROVE FALSE
    OBVIOUS
  <2>1. rank[up[x]] < n /\ n <= rank[up[x]] /\ n \in Nat /\ rank[up[x]] \in Nat
    BY <1>1, <1>2
  <2> QED BY <2>1
<1> QED BY <1>3

\* And the other way: the largest set of skills that holds its members' parents and can be
\* ranked holds every skill, else a skill outside it whose parent is not comes next.
LEMMA GroundedRanks ==
    ASSUME NEW K \in SUBSET Skills, NEW up, up \in [Skills -> K \cup {NoSkill}], Grounded(K, up)
    PROVE  \E rank \in [Skills -> 1..Cardinality(Skills)] :
              \A k \in K : up[k] # NoSkill => rank[up[k]] < rank[k]
<1> USE HierarchyAssumption
<1> DEFINE N == Cardinality(Skills)
           Ranked(G, rank) ==
               /\ \A k \in G : rank[k] \in 1..Cardinality(G)
               /\ \A k \in G : up[k] # NoSkill => up[k] \in G /\ rank[up[k]] < rank[k]
           Rankable == {G \in SUBSET K : \E rank \in [G -> Nat] : Ranked(G, rank)}
           Missing == {N - Cardinality(G) : G \in Rankable}
<1>1. N \in Nat /\ \A G \in SUBSET Skills : IsFiniteSet(G) /\ Cardinality(G) \in 0..N
  <2>1. \A G \in SUBSET Skills : IsFiniteSet(G) /\ Cardinality(G) <= N
    BY FS_Subset
  <2>2. \A G \in SUBSET Skills : Cardinality(G) \in Nat
    BY <2>1, FS_CardinalityType
  <2> QED BY <2>1, <2>2
<1>2. {} \in Rankable
  <2> DEFINE none == [k \in {} |-> 0]
  <2>1. none \in [{} -> Nat] /\ Ranked({}, none) /\ {} \in SUBSET K
    OBVIOUS
  <2> HIDE DEF none, Ranked
  <2> QED BY <2>1
<1>3. PICK G \in Rankable : \A F \in Rankable : N - Cardinality(G) <= N - Cardinality(F)
  <2>1. \A G \in Rankable : N - Cardinality(G) \in Nat
    BY <1>1
  <2> HIDE DEF N, Rankable
  <2>2. Missing \subseteq Nat /\ Missing # {}
    BY <1>2, <2>1
  <2>3. PICK n \in Missing : \A m \in Missing : n <= m
    BY <2>2, LeastNumber
  <2> QED BY <2>3
<1>4. PICK rank \in [G -> Nat] : Ranked(G, rank)
  BY <1>3
<1>5. G = K
  <2> SUFFICES ASSUME K \ G # {} PROVE FALSE
    BY <1>3
  <2>1. PICK x \in K \ G : up[x] \notin K \ G
    BY DEF Grounded
  <2>2. up[x] \in G \cup {NoSkill}
    BY <2>1
  <2> DEFINE F == G \cup {x}
             next == [k \in F |-> IF k = x THEN Cardinality(G) + 1 ELSE rank[k]]
  <2>3. G \in SUBSET Skills /\ F \in SUBSET Skills /\ Cardinality(F) = Cardinality(G) + 1
    BY <1>1, <1>3, <2>1, FS_AddElement
  <2>4. Cardinality(G) \in 0..N /\ Cardinality(F) \in 0..N
    BY <1>1, <2>3
  <2>5. next \in [F -> Nat] /\ Ranked(F, next)
    <3> HIDE DEF N
    <3>1. next \in [F -> Nat]
      BY <2>4
    <3>2. ASSUME NEW k \in F PROVE next[k] \in 1..Cardinality(F)
      BY <1>4, <2>3, <2>4, <3>2
    <3>3. ASSUME NEW k \in F, up[k] # NoSkill PROVE up[k] \in F /\ next[up[k]] < next[k]
      <4>1. up[k] \in G
        BY <1>4, <2>2, <3>3
      <4>2. up[k] # x /\ rank[up[k]] \in 1..Cardinality(G)
        BY <1>4, <2>1, <4>1
      <4>3. k = x \/ (k \in G /\ k # x /\ rank[up[k]] < rank[k])
        BY <1>4, <2>1, <3>3
      <4> QED BY <2>4, <4>1, <4>2, <4>3
    <3> QED BY <3>1, <3>2, <3>3
  <2>6. F \in Rankable
    BY <1>3, <2>1, <2>5
  <2>7. N - Cardinality(G) <= N - Cardinality(F)
    BY <1>3, <2>6
  <2> QED BY <1>1, <2>3, <2>4, <2>7
<1> DEFINE full == [k \in Skills |-> IF k \in K THEN rank[k] ELSE 1]
<1>6. full \in [Skills -> 1..N]
  <2>1. ASSUME NEW k \in Skills PROVE full[k] \in 1..N
    <3>1. Skills # {} /\ N # 0
      BY FS_EmptySet
    <3>2. Cardinality(K) \in 0..N
      BY <1>1
    <3> QED BY <1>1, <1>4, <1>5, <3>1, <3>2
  <2> QED BY <2>1
<1>7. \A k \in K : up[k] # NoSkill => full[up[k]] < full[k]
  BY <1>4, <1>5
<1> QED BY <1>6, <1>7
-----------------------------------------------------------------------------
(* What an edit does to a forest.                                           *)

\* A skill moved below one that is not below it.
LEMMA MovedApart ==
    ASSUME NEW K \in SUBSET Skills, NEW up, Grounded(K, up), NEW k \in K, NEW p,
           p \notin Skills \/ Apart(k, p, up),
           NEW on, on[k] = p, \A c \in K \ {k} : on[c] = up[c]
    PROVE  Grounded(K, on)
<1> SUFFICES ASSUME NEW S \in SUBSET K, S # {}, \A x \in S : on[x] \in S PROVE FALSE
  BY DEF Grounded
<1>1. CASE k \notin S
  BY <1>1 DEF Grounded
<1>2. CASE k \in S
  <2>1. p \in S
    BY <1>2
  <2>2. PICK A \in SUBSET Skills : p \in A /\ k \notin A /\ \A x \in A : up[x] \in A \cup {NoSkill}
    BY <2>1 DEF Apart
  <2>3. \A x \in S \cap A : up[x] \in S \cap A
    <3> SUFFICES ASSUME NEW x \in S \cap A PROVE up[x] \in S \cap A
      OBVIOUS
    <3>1. up[x] = on[x] /\ up[x] \in S
      BY <2>2
    <3> QED BY <2>2, <3>1, HierarchyAssumption
  <2>4. S \cap A \in SUBSET K /\ S \cap A # {}
    BY <2>1, <2>2
  <2> QED BY <2>3, <2>4 DEF Grounded
<1> QED BY <1>1, <1>2

\* A new skill below an old one.
LEMMA AddedBelow ==
    ASSUME NEW K \in SUBSET Skills, NEW up, Grounded(K, up), NEW k \in Skills \ K,
           \A c \in K : up[c] \in K \cup {NoSkill}, NEW p \in K \cup {NoSkill},
           NEW on, on[k] = p, \A c \in K : on[c] = up[c]
    PROVE  Grounded(K \cup {k}, on)
<1> SUFFICES ASSUME NEW S \in SUBSET (K \cup {k}), S # {}, \A x \in S : on[x] \in S PROVE FALSE
  BY DEF Grounded
<1>1. k # NoSkill /\ NoSkill \notin S
  BY HierarchyAssumption
<1>2. S \cap K # {}
  BY <1>1
<1>3. \A x \in S \cap K : up[x] \in S \cap K
  BY <1>1
<1> QED BY <1>2, <1>3 DEF Grounded

\* The children of a skill given to its parent, or made roots.
LEMMA Adopted ==
    ASSUME NEW K \in SUBSET Skills, NEW up, Grounded(K, up), NEW k \in K, NEW p \in {NoSkill, up[k]},
           NEW on, \A c \in K : on[c] = IF up[c] = k THEN p ELSE up[c]
    PROVE  Grounded(K, on)
<1> SUFFICES ASSUME NEW S \in SUBSET K, S # {}, \A x \in S : on[x] \in S PROVE FALSE
  BY DEF Grounded
<1>1. CASE \E c \in S : up[c] = k
  <2>1. p \in S /\ p = up[k]
    BY <1>1, HierarchyAssumption
  <2>2. \A x \in S \cup {k} : up[x] \in S \cup {k}
    BY <2>1
  <2>3. S \cup {k} \in SUBSET K /\ S \cup {k} # {}
    OBVIOUS
  <2> QED BY <2>2, <2>3 DEF Grounded
<1>2. CASE \A c \in S : up[c] # k
  BY <1>2 DEF Grounded
<1> QED BY <1>1, <1>2

-----------------------------------------------------------------------------
(* The walk.  In a forest it reaches a root within as many steps as there are  *)
(* skills: each of the skills before has not been met yet.                   *)

Above(x) == IF x = NoSkill THEN NoSkill ELSE parent[x]
Walks(up, p, n) == up[0] = p /\ \A i \in 1..n : up[i] = Above(up[i - 1])

\* Circular's walk is a function that does what its definition says.
LEMMA WalkExists ==
    ASSUME NEW p, NEW N \in Nat
    PROVE  \E up : up = [i \in 0..N |-> IF i = 0 THEN p ELSE Above(up[i - 1])]
<1> DEFINE H == {n \in Nat : \E up : up = [i \in 0..n |-> IF i = 0 THEN p ELSE Above(up[i - 1])]}
<1>1. 0 \in H
  <2> DEFINE up == [i \in 0..0 |-> p]
  <2>1. up = [i \in 0..0 |-> IF i = 0 THEN p ELSE Above(up[i - 1])]
    OBVIOUS
  <2> QED BY <2>1
<1>2. ASSUME NEW n \in H PROVE n + 1 \in H
  <2>1. PICK up : up = [i \in 0..n |-> IF i = 0 THEN p ELSE Above(up[i - 1])]
    BY <1>2
  <2> DEFINE next == [i \in 0..n + 1 |-> IF i = n + 1 THEN Above(up[n]) ELSE up[i]]
  <2>2. ASSUME NEW i \in 0..n + 1 PROVE next[i] = IF i = 0 THEN p ELSE Above(next[i - 1])
    <3>1. CASE i = 0
      BY <2>1, <3>1
    <3>2. CASE i \in 1..n
      <4>1. next[i] = up[i] /\ next[i - 1] = up[i - 1]
        BY <3>2
      <4> QED BY <2>1, <3>2, <4>1
    <3>3. CASE i = n + 1
      BY <3>3
    <3> QED BY <3>1, <3>2, <3>3
  <2>3. next = [i \in 0..n + 1 |-> IF i = 0 THEN p ELSE Above(next[i - 1])]
    BY <2>2
  <2>4. n + 1 \in Nat
    OBVIOUS
  <2> HIDE DEF next
  <2> QED BY <2>3, <2>4
<1> HIDE DEF H
<1>3. H = Nat
  <2>1. H \subseteq Nat
    BY DEF H
  <2> QED BY <1>1, <1>2, <2>1, Inductive
<1> QED BY <1>3 DEF H

MetBy(up, n) == {up[i] : i \in 0..n}
Meets(K, up, n) ==
    \/ \E m \in 0..n : up[m] = NoSkill
    \/ MetBy(up, n) \subseteq K /\ Cardinality(MetBy(up, n)) = n + 1

\* A step of the walk ends it or meets a skill that was not met.
LEMMA MeetsNext ==
    ASSUME NEW K \in SUBSET Skills, Grounded(K, parent), \A c \in K : parent[c] \in K \cup {NoSkill},
           NEW n \in Nat, NEW up, \A i \in 0..n : up[i + 1] = Above(up[i]), Meets(K, up, n)
    PROVE  Meets(K, up, n + 1)
<1> USE HierarchyAssumption
<1> SUFFICES ASSUME \A m \in 0..n + 1 : up[m] # NoSkill PROVE Meets(K, up, n + 1)
  BY DEF Meets
<1>1. MetBy(up, n) \subseteq K /\ Cardinality(MetBy(up, n)) = n + 1
  <2>1. \A m \in 0..n : up[m] # NoSkill
    OBVIOUS
  <2> QED BY <2>1 DEF Meets
<1>2. \A i \in 0..n : up[i + 1] = parent[up[i]] /\ up[i] \in MetBy(up, n)
  BY DEF Above, MetBy
<1>3. up[n + 1] \in K
  <2>1. n \in 0..n /\ n + 1 \in 0..n + 1
    OBVIOUS
  <2>2. up[n + 1] = parent[up[n]] /\ up[n] \in K /\ up[n + 1] # NoSkill
    BY <1>1, <1>2, <2>1
  <2> QED BY <2>2
<1>4. up[n + 1] \notin MetBy(up, n)
  <2> SUFFICES ASSUME up[n + 1] \in MetBy(up, n) PROVE FALSE
    OBVIOUS
  <2>1. \A i \in 0..n : up[i + 1] \in MetBy(up, n)
    <3> SUFFICES ASSUME NEW i \in 0..n PROVE up[i + 1] \in MetBy(up, n)
      OBVIOUS
    <3>1. i = n \/ i + 1 \in 0..n
      OBVIOUS
    <3> QED BY <1>2, <3>1
  <2>2. \A x \in MetBy(up, n) : parent[x] \in MetBy(up, n)
    <3> SUFFICES ASSUME NEW i \in 0..n PROVE parent[up[i]] \in MetBy(up, n)
      BY DEF MetBy
    <3> QED BY <1>2, <2>1
  <2>3. MetBy(up, n) \in SUBSET K /\ MetBy(up, n) # {}
    BY <1>1, <1>2
  <2> QED BY <2>2, <2>3 DEF Grounded
<1>5. MetBy(up, n + 1) = MetBy(up, n) \cup {up[n + 1]}
  <2>1. 0..n + 1 = 0..n \cup {n + 1}
    OBVIOUS
  <2> QED BY <2>1 DEF MetBy
<1>6. IsFiniteSet(MetBy(up, n))
  BY <1>1, FS_Subset
<1>7. Cardinality(MetBy(up, n + 1)) = (n + 1) + 1
  <2>1. Cardinality(MetBy(up, n) \cup {up[n + 1]}) = Cardinality(MetBy(up, n)) + 1
    BY <1>4, <1>6, FS_AddElement
  <2> QED BY <1>1, <1>5, <2>1
<1> QED BY <1>1, <1>3, <1>5, <1>7 DEF Meets

\* The skills met in a walk that has not ended are as many as its steps.
LEMMA WalkMeets ==
    ASSUME NEW K \in SUBSET Skills, Grounded(K, parent), \A c \in K : parent[c] \in K \cup {NoSkill},
           NEW p \in K, NEW N \in Nat, NEW up, up[0] = p, \A i \in 1..N : up[i] = Above(up[i - 1])
    PROVE  \A n \in 0..N : Meets(K, up, n)
<1> DEFINE H == {n \in Nat : n \in 0..N => Meets(K, up, n)}
<1>1. Meets(K, up, 0)
  <2>1. MetBy(up, 0) = {p}
    <3>1. 0..0 = {0}
      OBVIOUS
    <3> QED BY <3>1 DEF MetBy
  <2>2. Cardinality({p}) = 1
    BY FS_Singleton
  <2> QED BY <2>1, <2>2 DEF Meets
<1>2. ASSUME NEW n \in H PROVE n + 1 \in H
  <2> SUFFICES ASSUME n + 1 \in 0..N PROVE Meets(K, up, n + 1)
    BY <1>2
  <2>1. n \in Nat /\ n \in 0..N /\ Meets(K, up, n)
    BY <1>2
  <2>2. \A i \in 0..n : up[i + 1] = Above(up[i])
    <3> SUFFICES ASSUME NEW i \in 0..n PROVE up[i + 1] = Above(up[i])
      OBVIOUS
    <3>1. i + 1 \in 1..N /\ (i + 1) - 1 = i
      BY <2>1
    <3> QED BY <3>1
  <2> QED BY <2>1, <2>2, MeetsNext
<1>3. 0 \in H /\ H \subseteq Nat
  BY <1>1
<1> HIDE DEF H
<1>4. H = Nat
  BY <1>2, <1>3, Inductive
<1> QED BY <1>4 DEF H

\* So a skill that is not met is one the proposed parent is not below.
LEMMA NotCircular ==
    ASSUME NEW K \in SUBSET Skills, Grounded(K, parent), \A c \in K : parent[c] \in K \cup {NoSkill},
           NEW p \in K, NEW k \in Skills, ~Circular(k, p)
    PROVE  Apart(k, p, parent)
<1> USE HierarchyAssumption
<1> DEFINE N == Cardinality(Skills)
<1>1. N \in Nat
  BY FS_CardinalityType
<1>2. PICK up : /\ up = [i \in 0..N |-> IF i = 0 THEN p ELSE Above(up[i - 1])]
                /\ \A i \in 0..N : up[i] # k
  <2> DEFINE W == CHOOSE w : w = [i \in 0..N |-> IF i = 0 THEN p ELSE Above(w[i - 1])]
  <2>1. W = [i \in 0..N |-> IF i = 0 THEN p ELSE Above(W[i - 1])]
    BY <1>1, WalkExists
  <2>2. \A i \in 0..N : W[i] # k
    BY <2>1 DEF Circular, Above
  <2> QED BY <2>1, <2>2
<1>3. up[0] = p /\ \A i \in 1..N : up[i] = Above(up[i - 1])
  BY <1>1, <1>2
<1>4. {m \in 0..N : up[m] = NoSkill} # {}
  <2> SUFFICES ASSUME \A m \in 0..N : up[m] # NoSkill PROVE FALSE
    OBVIOUS
  <2> HIDE DEF N
  <2>1. Meets(K, up, N)
    BY <1>1, <1>3, WalkMeets
  <2>2. MetBy(up, N) \in SUBSET Skills /\ Cardinality(MetBy(up, N)) = N + 1
    BY <1>1, <2>1 DEF Meets
  <2>3. Cardinality(MetBy(up, N)) <= N
    BY <2>2, FS_Subset DEF N
  <2> QED BY <1>1, <2>2, <2>3
<1> HIDE DEF N
<1>5. PICK m \in {i \in 0..N : up[i] = NoSkill} : \A i \in {j \in 0..N : up[j] = NoSkill} : m <= i
  <2>1. {i \in 0..N : up[i] = NoSkill} \subseteq Nat
    OBVIOUS
  <2> QED BY <1>4, <2>1, LeastNumber
<1>6. m \in 1..N /\ m - 1 \in 0..N /\ \A i \in 0..m - 1 : up[i] # NoSkill
  <2>1. m \in 0..N /\ m # 0
    BY <1>3, <1>5
  <2>2. ASSUME NEW i \in 0..m - 1, up[i] = NoSkill PROVE FALSE
    <3>1. i \in 0..N /\ m <= i
      BY <1>1, <1>5, <2>1, <2>2
    <3> QED BY <1>1, <2>1, <3>1
  <2> QED BY <1>1, <2>1, <2>2
<1> DEFINE A == {up[i] : i \in 0..m - 1}
<1>7. A \subseteq K
  <2>1. Meets(K, up, m - 1)
    BY <1>1, <1>3, <1>6, WalkMeets
  <2> QED BY <1>6, <2>1 DEF Meets, MetBy
<1>8. p \in A /\ k \notin A
  <2>1. 0 \in 0..m - 1 /\ 0..m - 1 \subseteq 0..N
    BY <1>1, <1>6
  <2> QED BY <1>2, <1>3, <2>1
<1>9. ASSUME NEW x \in A PROVE parent[x] \in A \cup {NoSkill}
  <2>1. PICK i \in 0..m - 1 : x = up[i]
    OBVIOUS
  <2>2. i + 1 \in 1..N /\ (i + 1) - 1 = i /\ (i + 1 = m \/ i + 1 \in 0..m - 1)
    BY <1>1, <1>6
  <2>3. up[i + 1] = parent[x]
    BY <1>3, <1>6, <2>1, <2>2 DEF Above
  <2>4. up[m] = NoSkill
    BY <1>5
  <2> QED BY <2>2, <2>3, <2>4
<1> HIDE DEF A
<1> QED BY <1>7, <1>8, <1>9 DEF Apart

-----------------------------------------------------------------------------
(* The ontology.                                                            *)

\* What an edit found when it was validated: a parent that exists, for an existing skill.
Sane(e) ==
    edit[e].op # "none" =>
        /\ edit[e].to \in known \cup {NoSkill}
        /\ edit[e].op # "create" => edit[e].skill \in known
        /\ edit[e].skill \in Skills

\* What it checked against the parents still holds.
Checked(e) ==
    /\ edit[e].op = "parent" => edit[e].to = NoSkill \/ Apart(edit[e].skill, edit[e].to, parent)
    /\ edit[e].op = "adopt" => edit[e].to \in {NoSkill, parent[edit[e].skill]}

HierarchyInv ==
    /\ HierarchyTypeOK
    /\ \A e \in Editors : Sane(e)
    /\ ~overlap /\ imports = 0 => Grounded(known, parent) /\ \A e \in Editors : Checked(e)

LEMMA HierarchyStarts == HierarchyInit => HierarchyInv
<1> SUFFICES ASSUME HierarchyInit PROVE HierarchyInv
  OBVIOUS
<1> USE HierarchyAssumption DEF HierarchyInit
<1>1. HierarchyTypeOK
  <2>1. parent \in [Skills -> known \cup {NoSkill}]
    OBVIOUS
  <2>2. NoEdit \in [op : EditOps, skill : Skills \cup {NoSkill}, to : Skills \cup {NoSkill}]
    BY DEF NoEdit, EditOps
  <2>3. imports \in 0..MaxImports /\ edits \in 0..MaxEdits
    OBVIOUS
  <2> QED BY <2>1, <2>2, <2>3 DEF HierarchyTypeOK
<1>2. \A e \in Editors : Sane(e) /\ Checked(e)
  BY DEF Sane, Checked, NoEdit
<1>3. Grounded(known, parent)
  <2>1. PICK rank \in [FirstSkills -> 1..Cardinality(Skills)] :
            \A k \in FirstSkills : FirstParent[k] # NoSkill => rank[FirstParent[k]] < rank[k]
    OBVIOUS
  <2>2. Cardinality(Skills) \in Nat
    BY FS_CardinalityType
  <2>3. rank \in [FirstSkills -> Nat] /\ NoSkill \notin FirstSkills
    BY <2>2
  <2>4. \A k \in FirstSkills : parent[k] \in FirstSkills => rank[parent[k]] < rank[k]
    BY <2>1, <2>3
  <2> QED BY <2>3, <2>4, RanksGround
<1> QED BY <1>1, <1>2, <1>3 DEF HierarchyInv

LEMMA ValidateStep ==
    ASSUME HierarchyInv, NEW e \in Editors, NEW op \in EditOps \ {"none"}, NEW k \in Skills, NEW p \in known \cup {NoSkill},
           op # "create" => k \in known,
           Grounded(known, parent) /\ op = "parent" => p = NoSkill \/ Apart(k, p, parent),
           op = "adopt" => p \in {NoSkill, parent[k]},
           Validate(e, op, k, p)
    PROVE  HierarchyInv'
<1> USE HierarchyAssumption DEF HierarchyInv
<1> DEFINE x == [op |-> op, skill |-> k, to |-> p]
<1>1. /\ edit' = [edit EXCEPT ![e] = x] /\ edits \in 0..MaxEdits /\ edits < MaxEdits /\ edits' = edits + 1
      /\ UNCHANGED <<known, parent, active, overlap, imports>>
  BY DEF Validate, HierarchyTypeOK
<1>2. HierarchyTypeOK'
  <2>1. x \in [op : EditOps, skill : Skills \cup {NoSkill}, to : Skills \cup {NoSkill}]
    BY DEF HierarchyTypeOK
  <2> HIDE DEF x
  <2>2. edits' \in 0..MaxEdits
    BY <1>1
  <2> QED BY <1>1, <2>1, <2>2 DEF HierarchyTypeOK
<1>3. edit'[e] = x /\ \A f \in Editors \ {e} : edit'[f] = edit[f]
  BY <1>1 DEF HierarchyTypeOK
<1>4. ASSUME NEW f \in Editors PROVE Sane(f)'
  <2>1. CASE f = e
    BY <1>1, <1>3, <2>1 DEF Sane
  <2>2. CASE f # e
    BY <1>1, <1>3, <2>2 DEF Sane
  <2> QED BY <2>1, <2>2
<1>5. ASSUME ~overlap', imports' = 0, NEW f \in Editors PROVE Checked(f)'
  <2>1. CASE f = e
    BY <1>1, <1>3, <1>5, <2>1 DEF Checked
  <2>2. CASE f # e
    BY <1>1, <1>3, <1>5, <2>2 DEF Checked
  <2> QED BY <2>1, <2>2
<1> QED BY <1>1, <1>2, <1>4, <1>5

\* What a commit does: nothing for a name that was taken meanwhile, else the edit.
LEMMA CommitEditStep == ASSUME HierarchyInv, NEW e \in Editors, CommitEdit(e) PROVE HierarchyInv'
<1> USE HierarchyAssumption DEF HierarchyInv
<1> DEFINE x == edit[e]
<1>1. /\ x.op \in EditOps \ {"none"} /\ x.skill \in Skills /\ x.to \in known \cup {NoSkill}
      /\ x.op # "create" => x.skill \in known
      /\ known \subseteq Skills /\ active \subseteq known /\ parent \in [Skills -> known \cup {NoSkill}]
  BY DEF CommitEdit, HierarchyTypeOK, Sane
<1>2. /\ overlap' = (overlap \/ \E f \in Editors \ {e} : edit[f] # NoEdit)
      /\ edit' = [edit EXCEPT ![e] = NoEdit] /\ UNCHANGED <<imports, edits>>
  BY DEF CommitEdit
<1>3. /\ edit'[e] = NoEdit /\ \A f \in Editors \ {e} : edit'[f] = edit[f]
      /\ edit' \in [Editors -> [op : EditOps, skill : Skills \cup {NoSkill}, to : Skills \cup {NoSkill}]]
  <2>1. NoEdit \in [op : EditOps, skill : Skills \cup {NoSkill}, to : Skills \cup {NoSkill}]
    BY DEF NoEdit, EditOps
  <2> QED BY <1>2, <2>1 DEF HierarchyTypeOK
<1>4. /\ known \subseteq known' /\ known' \subseteq Skills /\ active' \subseteq known'
      /\ parent' \in [Skills -> known' \cup {NoSkill}]
  <2>1. CASE UNCHANGED <<known, parent, active>>
    BY <1>1, <2>1
  <2>2. CASE Apply(e, x.skill, x.to, x.op)
    <3>1. known' = IF x.op = "create" THEN known \cup {x.skill} ELSE known
      BY <2>2 DEF Apply
    <3>2. known \subseteq known' /\ known' \subseteq Skills /\ x.skill \in known'
      BY <1>1, <3>1
    <3>3. active' \subseteq known'
      BY <1>1, <2>2, <3>2 DEF Apply
    <3>4. parent' \in [Skills -> known' \cup {NoSkill}]
      BY <1>1, <2>2, <3>2 DEF Apply
    <3> QED BY <3>2, <3>3, <3>4
  <2> QED BY <2>1, <2>2 DEF CommitEdit
<1>5. HierarchyTypeOK'
  BY <1>2, <1>3, <1>4 DEF HierarchyTypeOK
<1>6. ASSUME NEW f \in Editors PROVE Sane(f)'
  <2>1. CASE f = e
    BY <1>3, <2>1 DEF Sane, NoEdit
  <2>2. CASE f # e
    BY <1>3, <1>4, <2>2 DEF Sane
  <2> QED BY <2>1, <2>2
<1>7. ASSUME ~overlap', imports' = 0 PROVE Grounded(known, parent)' /\ \A f \in Editors : Checked(f)'
  <2>1. Grounded(known, parent) /\ Checked(e)
    BY <1>2, <1>7
  <2>2. \A f \in Editors : edit'[f] = NoEdit
    BY <1>2, <1>3, <1>7
  <2>3. \A f \in Editors : Checked(f)'
    BY <2>2 DEF Checked, NoEdit
  <2>4. CASE UNCHANGED <<known, parent, active>>
    BY <2>1, <2>3, <2>4 DEF Grounded
  <2>5. CASE Apply(e, x.skill, x.to, x.op) /\ ~(x.op = "create" /\ x.skill \in known)
    <3> DEFINE k == x.skill
               p == x.to
    <3>1. /\ known' = IF x.op = "create" THEN known \cup {k} ELSE known
          /\ \A c \in Skills : parent'[c] = IF x.op \in {"parent", "create"} /\ c = k THEN p
                                            ELSE IF x.op = "adopt" /\ parent[c] = k THEN p ELSE parent[c]
      BY <2>5 DEF Apply
    <3>2. k \in Skills /\ p \in known \cup {NoSkill} /\ (x.op # "create" => k \in known)
      BY <1>1
    <3>3. /\ x.op = "parent" => p \notin Skills \/ Apart(k, p, parent)
          /\ x.op = "adopt" => p \in {NoSkill, parent[k]}
      BY <2>1 DEF Checked
    <3> HIDE DEF k, p
    <3>4. CASE x.op = "parent"
      <4>1. known' = known /\ parent'[k] = p /\ \A c \in known \ {k} : parent'[c] = parent[c]
        BY <1>1, <3>1, <3>2, <3>4
      <4>2. k \in known /\ known \in SUBSET Skills /\ (p \notin Skills \/ Apart(k, p, parent))
        BY <1>1, <3>2, <3>3, <3>4
      <4>3. Grounded(known, parent')
        BY <2>1, <4>1, <4>2, MovedApart
      <4> QED BY <2>3, <4>1, <4>3
    <3>5. CASE x.op = "create"
      <4>1. k \notin known
        BY <2>5, <3>5 DEF k
      <4>2. known' = known \cup {k} /\ parent'[k] = p /\ \A c \in known : parent'[c] = parent[c]
        BY <1>1, <3>1, <3>2, <3>5, <4>1
      <4>3. \A c \in known : parent[c] \in known \cup {NoSkill}
        BY <1>1
      <4>4. known \in SUBSET Skills /\ k \in Skills \ known
        BY <1>1, <3>2, <4>1
      <4>5. Grounded(known \cup {k}, parent')
        BY <2>1, <3>2, <4>2, <4>3, <4>4, AddedBelow
      <4> QED BY <2>3, <4>2, <4>5
    <3>6. CASE x.op = "adopt"
      <4>1. known' = known /\ \A c \in known : parent'[c] = IF parent[c] = k THEN p ELSE parent[c]
        BY <1>1, <3>1, <3>6
      <4>2. k \in known /\ p \in {NoSkill, parent[k]} /\ known \in SUBSET Skills
        BY <1>1, <3>2, <3>3, <3>6
      <4>3. Grounded(known, parent')
        BY <2>1, <4>1, <4>2, Adopted
      <4> QED BY <2>3, <4>1, <4>3
    <3>7. CASE x.op \notin {"parent", "create", "adopt"}
      <4>1. known' = known /\ \A c \in known : parent'[c] = parent[c]
        BY <1>1, <3>1, <3>7
      <4> QED BY <2>1, <2>3, <4>1 DEF Grounded
    <3> QED BY <3>4, <3>5, <3>6, <3>7
  <2> QED BY <2>4, <2>5 DEF CommitEdit
<1> QED BY <1>5, <1>6, <1>7

LEMMA ImportRowStep ==
    ASSUME HierarchyInv, NEW k \in Skills, NEW p \in Skills \cup {NoSkill}, NEW on \in BOOLEAN, ImportRow(k, p, on)
    PROVE  HierarchyInv'
<1> USE HierarchyAssumption DEF HierarchyInv
<1>1. /\ p \in known \cup {NoSkill, k} /\ known' = known \cup {k} /\ parent' = [parent EXCEPT ![k] = p]
      /\ active' = IF on THEN active \cup {k} ELSE active \ {k}
      /\ imports' = imports + 1 /\ imports < MaxImports /\ UNCHANGED <<edit, overlap, edits>>
  BY DEF ImportRow
<1>2. HierarchyTypeOK'
  <2>1. parent' \in [Skills -> known' \cup {NoSkill}]
    BY <1>1 DEF HierarchyTypeOK
  <2>2. imports' \in 0..MaxImports /\ known' \subseteq Skills /\ active' \subseteq known'
    BY <1>1 DEF HierarchyTypeOK
  <2> QED BY <1>1, <2>1, <2>2 DEF HierarchyTypeOK
<1>3. \A f \in Editors : Sane(f)'
  BY <1>1 DEF Sane
<1>4. imports' # 0
  BY <1>1 DEF HierarchyTypeOK
<1> QED BY <1>2, <1>3, <1>4

LEMMA HierarchyInductive == HierarchyInv /\ [HierarchyNext]_hierarchyVars => HierarchyInv'
<1> SUFFICES ASSUME HierarchyInv, [HierarchyNext]_hierarchyVars PROVE HierarchyInv'
  OBVIOUS
<1> USE HierarchyAssumption
<1>0. /\ known \subseteq Skills /\ active \subseteq known /\ \A c \in known : parent[c] \in known \cup {NoSkill}
  BY DEF HierarchyInv, HierarchyTypeOK
<1>1. ASSUME NEW e \in Editors, NEW k \in Skills, NEW p \in Skills \cup {NoSkill}, SetParent(e, k, p)
      PROVE  HierarchyInv'
  <2>1. k \in known /\ p \in known \cup {NoSkill} /\ "parent" \in EditOps \ {"none"} /\ Validate(e, "parent", k, p)
    BY <1>0, <1>1 DEF SetParent, EditOps
  <2>2. Grounded(known, parent) => p = NoSkill \/ Apart(k, p, parent)
    BY <1>0, <1>1, <2>1, NotCircular DEF SetParent
  <2> QED BY <2>1, <2>2, ValidateStep
<1>2. ASSUME NEW e \in Editors, NEW k \in Skills, NEW p \in Skills \cup {NoSkill}, Create(e, k, p)
      PROVE  HierarchyInv'
  BY <1>2, ValidateStep DEF Create, EditOps
<1>3. ASSUME NEW e \in Editors, NEW k \in Skills, NEW promote \in BOOLEAN, Deactivate(e, k, promote)
      PROVE  HierarchyInv'
  <2> DEFINE p == IF promote THEN parent[k] ELSE NoSkill
  <2>1. k \in known /\ p \in known \cup {NoSkill} /\ p \in {NoSkill, parent[k]} /\ NoSkill \in known \cup {NoSkill}
    BY <1>0, <1>3 DEF Deactivate
  <2>2. Validate(e, "off", k, NoSkill) \/ Validate(e, "adopt", k, p)
    BY <1>3 DEF Deactivate
  <2> HIDE DEF p
  <2> QED BY <2>1, <2>2, ValidateStep DEF EditOps
<1>4. ASSUME NEW e \in Editors, NEW k \in Skills, PatchInactive(e, k) \/ Reactivate(e, k) PROVE HierarchyInv'
  <2>1. k \in known /\ NoSkill \in known \cup {NoSkill}
        /\ (Validate(e, "patchOff", k, NoSkill) \/ Validate(e, "on", k, NoSkill))
    BY <1>0, <1>4 DEF PatchInactive, Reactivate
  <2> QED BY <2>1, ValidateStep DEF EditOps
<1>5. CASE UNCHANGED hierarchyVars
  BY <1>5 DEF hierarchyVars, HierarchyInv, HierarchyTypeOK, Sane, Checked, Apart, Grounded
<1> QED BY <1>1, <1>2, <1>3, <1>4, <1>5, CommitEditStep, ImportRowStep DEF HierarchyNext

\* The ontology is well formed: a skill's parent, and an edit's, is a skill or none.
THEOREM HierarchyTyped == HierarchySpec => []HierarchyTypeOK
<1>1. HierarchyInv => HierarchyTypeOK
  BY DEF HierarchyInv
<1> QED BY <1>1, HierarchyStarts, HierarchyInductive, PTL DEF HierarchySpec

\* Re-parenting, deactivation and new skills keep the ontology a forest while no two edits
\* overlap and nothing is imported: the walk of _creates_circular_hierarchy ends, and a skill
\* it does not meet may be moved (SkillOntologyService.py).
THEOREM OntologyStaysForest == HierarchySpec => []ForestUnlessBypassed
<1>1. HierarchyInv => ForestUnlessBypassed
  <2> SUFFICES ASSUME HierarchyInv, ~overlap, imports = 0 PROVE Forest
    BY DEF ForestUnlessBypassed
  <2>1. known \in SUBSET Skills /\ parent \in [Skills -> known \cup {NoSkill}] /\ Grounded(known, parent)
    BY DEF HierarchyInv, HierarchyTypeOK
  <2> QED BY <2>1, GroundedRanks DEF Forest
<1> QED BY <1>1, HierarchyStarts, HierarchyInductive, PTL DEF HierarchySpec

-----------------------------------------------------------------------------
(* The talent pool: finitely many resumes with ids of their own, parsed only  *)
(* with what they say, and members who were added with a resume of theirs.    *)

Vector == [model : {"old", "new"}, ok : BOOLEAN]

PoolResume == [id : Nat, who : People, status : {"PENDING", "PARSED", "FAILED"}, active : BOOLEAN,
               born : Int, facts : Contents \cup {Unset}, vector : Vector \cup {Unset}]

PoolMember == [id : Nat, who : People, camp : Active, resume : Nat, stage : Stages \cup {"UPLOADED"},
               score : Scores \cup {Unset}]

RowsGood(S) ==
    /\ S \subseteq PoolResume /\ IsFiniteSet(S)
    /\ \A r, q \in S : r.id = q.id => r = q
    /\ \A r \in S : r.status = "PARSED" => r.facts \in Contents

Held(S, M) == \A m \in M : \E r \in S : r.id = m.resume /\ r.who = m.who

PoolInv ==
    /\ RowsGood(resumes) /\ Held(resumes, members)
    /\ members \subseteq PoolMember /\ IsFiniteSet(members)
    /\ clock \in Int /\ model \in {"old", "new"}

\* A strict order on a finite set has a maximal element.
LEMMA HasMaximal ==
    ASSUME NEW S, IsFiniteSet(S), S # {}, NEW R,
           \A x \in S : <<x, x>> \notin R,
           \A x, y, z \in S : <<x, y>> \in R /\ <<y, z>> \in R => <<x, z>> \in R
    PROVE  \E t \in S : \A u \in S : <<t, u>> \notin R
<1> DEFINE Beyond(t) == {u \in S : <<t, u>> \in R}
           T == {Beyond(t) : t \in S}
<1>1. IsWellFoundedOn(StrictSubsetOrdering(S), SUBSET S)
  BY FS_StrictSubsetOrderingWellFounded, FS_FiniteSubsetsOfFinite
<1>2. T \subseteq SUBSET S /\ T # {}
  <2>1. T \subseteq SUBSET S
    OBVIOUS
  <2>2. \A x \in S : Beyond(x) \in T
    OBVIOUS
  <2> HIDE DEF T
  <2> QED
    BY <2>1, <2>2
<1>3. PICK X \in T : \A Y \in T : ~(<<Y, X>> \in StrictSubsetOrdering(S))
  <2> HIDE DEF T
  <2> QED
    BY <1>1, <1>2, WFMin
<1>4. PICK t \in S : X = Beyond(t)
  BY <1>3
<1>5. ASSUME NEW u \in S, <<t, u>> \in R PROVE FALSE
  <2>1. Beyond(u) \subseteq Beyond(t) /\ u \in Beyond(t) /\ u \notin Beyond(u)
    BY <1>5
  <2>2. Beyond(u) \in T /\ Beyond(u) \in SUBSET S /\ Beyond(t) \in SUBSET S
    OBVIOUS
  <2>3. <<Beyond(u), Beyond(t)>> \in StrictSubsetOrdering(S)
    <3> HIDE DEF Beyond
    <3> QED
      BY <2>1, <2>2 DEF StrictSubsetOrdering
  <2> QED
    BY <1>3, <1>4, <2>2, <2>3
<1> QED
  BY <1>5

LEMMA HasGreatest ==
    ASSUME NEW S \in SUBSET Nat, IsFiniteSet(S), S # {}
    PROVE  \E v \in S : \A w \in S : w <= v
<1> DEFINE R == {ss \in Nat \X Nat : ss[1] < ss[2]}
<1>1. \A x, y \in S : <<x, y>> \in R <=> x < y
  OBVIOUS
<1>2. \A x \in S : x \in Nat
  OBVIOUS
<1> HIDE DEF R
<1>3. /\ \A x \in S : <<x, x>> \notin R
      /\ \A x, y, z \in S : <<x, y>> \in R /\ <<y, z>> \in R => <<x, z>> \in R
  BY <1>1, <1>2
<1>4. PICK v \in S : \A w \in S : <<v, w>> \notin R
  BY <1>3, HasMaximal
<1>5. ASSUME NEW w \in S PROVE w <= v
  <2>1. ~(v < w) /\ v \in Nat /\ w \in Nat
    BY <1>1, <1>2, <1>4
  <2> QED
    BY <2>1
<1> QED
  BY <1>5

LEMMA NewIdIsNew ==
    ASSUME NEW S, IsFiniteSet(S), \A x \in S : x.id \in Nat
    PROVE  NewId(S) \in Nat /\ \A x \in S : x.id < NewId(S)
<1> DEFINE ids == {0} \cup {x.id : x \in S}
<1>1. ids \in SUBSET Nat /\ ids # {} /\ 0 \in ids
  OBVIOUS
<1>2. IsFiniteSet(ids)
  <2>1. [x \in S |-> x.id] \in Surjection(S, {x.id : x \in S})
    BY DEF Surjection
  <2>2. IsFiniteSet({x.id : x \in S})
    BY <2>1, FS_Surjection
  <2>3. ids = {x.id : x \in S} \cup {0}
    OBVIOUS
  <2> HIDE DEF ids
  <2> QED
    BY <2>2, <2>3, FS_AddElement
<1>3. \E v \in ids : \A w \in ids : w <= v
  <2> HIDE DEF ids
  <2> QED
    BY <1>1, <1>2, HasGreatest
<1>4. Max(ids) \in ids /\ \A w \in ids : w <= Max(ids)
  <2>1. \A w \in ids : w \in Int
    OBVIOUS
  <2> HIDE DEF ids
  <2>2. \E v \in ids : \A w \in ids : v >= w
    BY <1>3, <2>1
  <2>3. Max(ids) \in ids /\ \A w \in ids : Max(ids) >= w
    BY <2>2 DEF Max
  <2> QED
    BY <2>1, <2>3
<1>5. NewId(S) = 1 + Max(ids) /\ Max(ids) \in Nat
  BY <1>1, <1>4 DEF NewId
<1>6. \A x \in S : x.id \in ids
  OBVIOUS
<1> HIDE DEF ids
<1>7. ASSUME NEW x \in S PROVE x.id < NewId(S)
  <2>1. x.id \in Nat /\ x.id <= Max(ids)
    BY <1>4, <1>6
  <2> QED
    BY <1>5, <2>1
<1> QED
  BY <1>5, <1>7

\* Every resume changed to one of the same id and person.
LEMMA RowsRemade ==
    ASSUME NEW S, RowsGood(S), NEW M, Held(S, M), NEW f \in [S -> PoolResume],
           \A r \in S : /\ f[r].id = r.id /\ f[r].who = r.who
                        /\ f[r].status = "PARSED" => f[r].facts \in Contents
    PROVE  RowsGood({f[r] : r \in S}) /\ Held({f[r] : r \in S}, M)
<1> DEFINE new == {f[r] : r \in S}
<1>1. IsFiniteSet(new)
  <2>1. f \in Surjection(S, new)
    BY DEF Surjection
  <2> QED
    BY <2>1, FS_Surjection DEF RowsGood
<1>2. new \subseteq PoolResume /\ \A r \in new : r.status = "PARSED" => r.facts \in Contents
  OBVIOUS
<1>3. ASSUME NEW r \in new, NEW q \in new, r.id = q.id PROVE r = q
  <2>1. PICK r0 \in S : r = f[r0]
    OBVIOUS
  <2>2. PICK q0 \in S : q = f[q0]
    OBVIOUS
  <2>3. r0.id = q0.id
    BY <1>3, <2>1, <2>2
  <2> QED
    BY <2>1, <2>2, <2>3 DEF RowsGood
<1>4. Held(new, M)
  <2>1. \A r \in S : f[r] \in new
    OBVIOUS
  <2> HIDE DEF new
  <2> QED
    BY <2>1 DEF Held
<1> QED
  BY <1>1, <1>2, <1>3, <1>4 DEF RowsGood

LEMMA RowAdded ==
    ASSUME NEW S, RowsGood(S), NEW M, Held(S, M), NEW x \in PoolResume,
           \A r \in S : r.id # x.id, x.status # "PARSED"
    PROVE  RowsGood(S \cup {x}) /\ Held(S \cup {x}, M)
<1>1. IsFiniteSet(S \cup {x})
  BY FS_AddElement DEF RowsGood
<1> QED
  BY <1>1 DEF RowsGood, Held

\* One resume altered.
LEMMA RowAltered ==
    ASSUME NEW S, RowsGood(S), NEW M, Held(S, M), NEW r \in S, NEW x \in PoolResume,
           x.id = r.id, x.who = r.who, x.status = "PARSED" => x.facts \in Contents
    PROVE  RowsGood((S \ {r}) \cup {x}) /\ Held((S \ {r}) \cup {x}, M)
<1>1. PICK f : f = [q \in S |-> IF q = r THEN x ELSE q]
  OBVIOUS
<1>2. f \in [S -> PoolResume]
  BY <1>1 DEF RowsGood
<1>3. \A q \in S : /\ f[q].id = q.id /\ f[q].who = q.who
                   /\ f[q].status = "PARSED" => f[q].facts \in Contents
  BY <1>1 DEF RowsGood
<1>4. {f[q] : q \in S} = (S \ {r}) \cup {x}
  BY <1>1
<1> QED
  BY <1>2, <1>3, <1>4, RowsRemade

LEMMA PoolStarts == PoolInit => PoolInv
<1> SUFFICES ASSUME PoolInit PROVE PoolInv
  OBVIOUS
<1>1. PICK plot \in Plots :
        resumes = {[id |-> p, who |-> p, status |-> "PARSED", active |-> TRUE, born |-> 0, facts |-> plot.texts[p],
                    vector |-> [model |-> "old", ok |-> TRUE]] : p \in {q \in People : plot.texts[q] # Unset}}
  BY DEF PoolInit
<1>2. members = {} /\ clock = 0 /\ model = "old"
  BY DEF PoolInit
<1> DEFINE P == {q \in People : plot.texts[q] # Unset}
           rowOf(p) == [id |-> p, who |-> p, status |-> "PARSED", active |-> TRUE, born |-> 0,
                      facts |-> plot.texts[p], vector |-> [model |-> "old", ok |-> TRUE]]
<1>3. \A p \in P : rowOf(p) \in PoolResume /\ rowOf(p).facts \in Contents /\ rowOf(p).id = p
  <2>1. \A p \in P : p \in People /\ p \in Nat /\ plot.texts[p] \in Contents
    BY PoolAssumption
  <2>2. [model |-> "old", ok |-> TRUE] \in Vector
    BY DEF Vector
  <2> QED
    BY <2>1, <2>2 DEF PoolResume
<1>4. IsFiniteSet(resumes)
  <2>1. IsFiniteSet(P)
    BY PoolAssumption, FS_Subset
  <2>2. [p \in P |-> rowOf(p)] \in Surjection(P, resumes)
    BY <1>1 DEF Surjection
  <2> QED
    BY <2>1, <2>2, FS_Surjection
<1>5. resumes = {rowOf(p) : p \in P}
  BY <1>1
<1> HIDE DEF rowOf, P
<1>6. RowsGood(resumes)
  BY <1>3, <1>4, <1>5 DEF RowsGood
<1> QED
  BY <1>2, <1>6, FS_EmptySet DEF PoolInv, Held

LEMMA UploadKeeps == ASSUME PoolInv, NEW p \in People, Upload(p) PROVE PoolInv'
<1> DEFINE old(r) == [r EXCEPT !.active = @ /\ r.who # p]
           new == [id |-> NewId(resumes), who |-> p, status |-> "PENDING", active |-> TRUE, born |-> clock,
                   facts |-> Unset, vector |-> Unset]
<1>1. resumes' = {old(r) : r \in resumes} \cup {new} /\ UNCHANGED <<members, clock, model>>
  BY DEF Upload
<1>2. ASSUME NEW r \in resumes
      PROVE  /\ old(r) \in PoolResume /\ old(r).id = r.id /\ old(r).who = r.who
             /\ old(r).status = "PARSED" => old(r).facts \in Contents
  <2>1. r \in PoolResume /\ (r.status = "PARSED" => r.facts \in Contents)
    BY DEF PoolInv, RowsGood
  <2>2. \A b \in BOOLEAN : LET n == [r EXCEPT !.active = b] IN
          n \in PoolResume /\ n.id = r.id /\ n.who = r.who /\ n.status = r.status /\ n.facts = r.facts
    BY <2>1 DEF PoolResume
  <2>3. PICK b \in BOOLEAN : b = (r.active /\ r.who # p)
    OBVIOUS
  <2>4. old(r) = [r EXCEPT !.active = b]
    BY <2>3
  <2> HIDE DEF old
  <2> QED
    BY <2>1, <2>2, <2>4
<1>3. PICK f : f = [r \in resumes |-> old(r)]
  OBVIOUS
<1>4. /\ f \in [resumes -> PoolResume] /\ {f[r] : r \in resumes} = {old(r) : r \in resumes}
      /\ \A r \in resumes : f[r] = old(r)
  <2>1. \A r \in resumes : old(r) \in PoolResume
    BY <1>2
  <2> HIDE DEF old
  <2> QED
    BY <1>3, <2>1
<1>5. RowsGood({old(r) : r \in resumes}) /\ Held({old(r) : r \in resumes}, members)
  <2>1. \A r \in resumes : /\ f[r].id = r.id /\ f[r].who = r.who
                           /\ f[r].status = "PARSED" => f[r].facts \in Contents
    BY <1>2, <1>4
  <2>2. RowsGood(resumes) /\ Held(resumes, members)
    BY DEF PoolInv
  <2>3. RowsGood({f[r] : r \in resumes}) /\ Held({f[r] : r \in resumes}, members)
    BY <1>4, <2>1, <2>2, RowsRemade
  <2> HIDE DEF old
  <2> QED
    BY <1>4, <2>3
<1>6. NewId(resumes) \in Nat /\ \A r \in resumes : r.id < NewId(resumes) /\ r.id \in Nat
  BY NewIdIsNew DEF PoolInv, RowsGood, PoolResume
<1>7. new \in PoolResume /\ new.status # "PARSED"
  BY <1>6 DEF PoolInv, PoolResume
<1>8. \A r \in {old(q) : q \in resumes} : r.id # new.id
  <2>1. ASSUME NEW q \in resumes PROVE old(q).id # new.id
    <3>1. old(q).id = q.id /\ new.id = NewId(resumes)
      BY <1>2
    <3>2. q.id < NewId(resumes) /\ q.id \in Nat /\ NewId(resumes) \in Nat
      BY <1>6
    <3> HIDE DEF old, new
    <3> QED
      BY <3>1, <3>2
  <2> HIDE DEF old, new
  <2> QED
    BY <2>1
<1> HIDE DEF old, new
<1>9. RowsGood(resumes') /\ Held(resumes', members)
  BY <1>1, <1>5, <1>7, <1>8, RowAdded
<1> QED
  BY <1>1, <1>9 DEF PoolInv

LEMMA ParseKeeps == ASSUME PoolInv, NEW r \in resumes, Parse(r) PROVE PoolInv'
<1>1. UNCHANGED <<members, clock, model>> /\ r \in PoolResume
  BY DEF Parse, PoolInv, RowsGood
<1>2. CASE Alter(r, [r EXCEPT !.status = "FAILED"])
  <2>1. PICK x : x = [r EXCEPT !.status = "FAILED"]
    OBVIOUS
  <2>2. x \in PoolResume /\ x.id = r.id /\ x.who = r.who /\ x.status # "PARSED"
    BY <1>1, <2>1 DEF PoolResume
  <2>3. resumes' = (resumes \ {r}) \cup {x}
    BY <1>2, <2>1 DEF Alter
  <2> QED
    BY <1>1, <2>2, <2>3, RowAltered DEF PoolInv
<1>3. ASSUME NEW c \in Contents, Alter(r, [r EXCEPT !.status = "PARSED", !.facts = c]) PROVE PoolInv'
  <2>1. PICK x : x = [r EXCEPT !.status = "PARSED", !.facts = c]
    OBVIOUS
  <2>2. x \in PoolResume /\ x.id = r.id /\ x.who = r.who /\ x.facts \in Contents
    BY <1>1, <2>1 DEF PoolResume
  <2>3. resumes' = (resumes \ {r}) \cup {x}
    BY <1>3, <2>1 DEF Alter
  <2> QED
    BY <1>1, <2>2, <2>3, RowAltered DEF PoolInv
<1> QED
  BY <1>2, <1>3 DEF Parse

LEMMA EmbedKeeps == ASSUME PoolInv, NEW r \in resumes, EmbedResume(r) PROVE PoolInv'
<1>1. UNCHANGED <<members, clock, model>> /\ r \in PoolResume
  BY DEF EmbedResume, PoolInv, RowsGood
<1>2. PICK x : x = [r EXCEPT !.vector = [model |-> model, ok |-> TRUE]]
  OBVIOUS
<1>3. [model |-> model, ok |-> TRUE] \in Vector
  BY DEF Vector, PoolInv
<1>4. x \in PoolResume /\ x.id = r.id /\ x.who = r.who /\ x.facts = r.facts /\ x.status = r.status
  BY <1>1, <1>2, <1>3 DEF PoolResume
<1>5. resumes' = (resumes \ {r}) \cup {x}
  BY <1>2 DEF EmbedResume, Alter
<1>6. x.status = "PARSED" => x.facts \in Contents
  BY <1>4 DEF PoolInv, RowsGood
<1> QED
  BY <1>1, <1>4, <1>5, <1>6, RowAltered DEF PoolInv

\* A change of who is in the pool changes vectors, nothing else.
LEMMA StandingChanged ==
    ASSUME NEW r \in PoolResume, r.vector # Unset, NEW b \in BOOLEAN
    PROVE  LET n == [r EXCEPT !.vector.ok = b] IN
           n \in PoolResume /\ n.id = r.id /\ n.who = r.who /\ n.status = r.status /\ n.facts = r.facts
<1>1. r.vector \in Vector
  BY DEF PoolResume
<1>2. PICK v : v = [r.vector EXCEPT !.ok = b]
  OBVIOUS
<1>3. v \in Vector
  BY <1>1, <1>2 DEF Vector
<1>4. [r EXCEPT !.vector.ok = b] = [r EXCEPT !.vector = v]
  BY <1>2
<1> QED
  BY <1>3, <1>4 DEF PoolResume

LEMMA StandingsKeep ==
    ASSUME PoolInv, NEW f \in [resumes -> PoolResume], UNCHANGED <<members, clock, model>>,
           resumes' = {f[r] : r \in resumes},
           \A r \in resumes : /\ f[r].id = r.id /\ f[r].who = r.who
                              /\ f[r].status = r.status /\ f[r].facts = r.facts
    PROVE  PoolInv'
<1>1. \A r \in resumes : f[r].status = "PARSED" => f[r].facts \in Contents
  BY DEF PoolInv, RowsGood
<1> QED
  BY <1>1, RowsRemade DEF PoolInv

LEMMA RequestErasureKeeps == ASSUME PoolInv, NEW p \in People, RequestErasure(p) PROVE PoolInv'
<1> DEFINE new(r) == IF r.who = p /\ r.vector # Unset THEN [r EXCEPT !.vector.ok = FALSE] ELSE r
<1>1. resumes' = {new(r) : r \in resumes} /\ UNCHANGED <<members, clock, model>>
  BY DEF RequestErasure
<1>2. ASSUME NEW r \in resumes
      PROVE  /\ new(r) \in PoolResume /\ new(r).id = r.id /\ new(r).who = r.who
             /\ new(r).status = r.status /\ new(r).facts = r.facts
  <2>1. r \in PoolResume
    BY DEF PoolInv, RowsGood
  <2> QED
    BY <2>1, StandingChanged
<1> HIDE DEF new
<1>3. PICK f : f = [r \in resumes |-> new(r)]
  OBVIOUS
<1> QED
  BY <1>1, <1>2, <1>3, StandingsKeep

LEMMA ValidatePoolKeeps == ASSUME PoolInv, ValidatePool PROVE PoolInv'
<1> DEFINE new(r) == IF r.vector = Unset THEN r ELSE [r EXCEPT !.vector.ok = Standing(r.who)]
<1>1. resumes' = {new(r) : r \in resumes} /\ UNCHANGED <<members, clock, model>>
  BY DEF ValidatePool
<1>2. ASSUME NEW r \in resumes
      PROVE  /\ new(r) \in PoolResume /\ new(r).id = r.id /\ new(r).who = r.who
             /\ new(r).status = r.status /\ new(r).facts = r.facts
  <2>1. r \in PoolResume
    BY DEF PoolInv, RowsGood
  <2>2. PICK b \in BOOLEAN : b = Standing(r.who)
    BY DEF Standing
  <2>3. new(r) = IF r.vector = Unset THEN r ELSE [r EXCEPT !.vector.ok = b]
    BY <2>2
  <2> HIDE DEF new
  <2> QED
    BY <2>1, <2>3, StandingChanged
<1> HIDE DEF new
<1>3. PICK f : f = [r \in resumes |-> new(r)]
  OBVIOUS
<1> QED
  BY <1>1, <1>2, <1>3, StandingsKeep

LEMMA AddKeeps == ASSUME PoolInv, NEW p \in People, NEW c \in Active, AddToCampaign(p, c) PROVE PoolInv'
<1>1. UNCHANGED <<resumes, clock, model>>
  BY DEF AddToCampaign
<1>2. PICK r \in Versions(p) :
        members' = members \cup {[id |-> NewId(members), who |-> p, camp |-> c, resume |-> r.id,
                                  stage |-> "UPLOADED", score |-> Unset]}
  BY DEF AddToCampaign
<1>3. r \in resumes /\ r.who = p /\ r.id \in Nat
  BY DEF Versions, Owned, PoolInv, RowsGood, PoolResume
<1>4. NewId(members) \in Nat
  BY NewIdIsNew DEF PoolInv, PoolMember
<1>5. PICK m : m = [id |-> NewId(members), who |-> p, camp |-> c, resume |-> r.id,
                    stage |-> "UPLOADED", score |-> Unset]
  OBVIOUS
<1>6. m \in PoolMember /\ m.resume = r.id /\ m.who = p
  BY <1>3, <1>4, <1>5 DEF PoolMember
<1>7. members' = members \cup {m}
  BY <1>2, <1>5
<1>8. IsFiniteSet(members')
  BY <1>7, FS_AddElement DEF PoolInv
<1>9. Held(resumes', members')
  BY <1>1, <1>3, <1>6, <1>7 DEF PoolInv, Held
<1> QED
  BY <1>1, <1>6, <1>7, <1>8, <1>9 DEF PoolInv

LEMMA AssessKeeps == ASSUME PoolInv, NEW m \in members, Assess(m) PROVE PoolInv'
<1>1. UNCHANGED <<resumes, clock, model>>
  BY DEF Assess
<1>2. PICK s \in Stages, n \in Scores : members' = (members \ {m}) \cup {[m EXCEPT !.stage = s, !.score = n]}
  BY DEF Assess
<1>3. PICK x : x = [m EXCEPT !.stage = s, !.score = n]
  OBVIOUS
<1>4. x \in PoolMember /\ x.resume = m.resume /\ x.who = m.who
  BY <1>3 DEF PoolMember, PoolInv
<1>5. members' = (members \ {m}) \cup {x}
  BY <1>2, <1>3
<1>6. IsFiniteSet(members')
  BY <1>5, FS_AddElement, FS_RemoveElement DEF PoolInv
<1>7. Held(resumes', members')
  BY <1>1, <1>4, <1>5 DEF PoolInv, Held
<1> QED
  BY <1>1, <1>4, <1>5, <1>6, <1>7 DEF PoolInv

LEMMA PoolInductive == PoolInv /\ [PoolNext]_poolVars => PoolInv'
<1> SUFFICES ASSUME PoolInv, [PoolNext]_poolVars PROVE PoolInv'
  OBVIOUS
<1>1. CASE SwitchModel
  BY <1>1 DEF SwitchModel, PoolInv
<1>2. CASE Age
  BY <1>2 DEF Age, PoolInv
<1>3. CASE Turn
  BY <1>3 DEF Turn, PoolInv
<1>4. CASE \/ \E f \in Filters : OpenSearch("normal", f)
           \/ OpenSearch("semantic", NoFilter)
  BY <1>4 DEF OpenSearch, PoolInv
<1>5. CASE FillOptions \/ ExpireOptions
  BY <1>5 DEF FillOptions, ExpireOptions, PoolInv
<1>6. CASE UNCHANGED poolVars
  BY <1>6 DEF poolVars, PoolInv
<1> QED
  BY <1>1, <1>2, <1>3, <1>4, <1>5, <1>6, UploadKeeps, RequestErasureKeeps, AddKeeps, ParseKeeps, EmbedKeeps,
     AssessKeeps, ValidatePoolKeeps DEF PoolNext

-----------------------------------------------------------------------------
(* What the queries of the pool say of one another.                         *)

\* The two checks of a version's age are one.
LEMMA SameVersions == ASSUME PoolInv, NEW p PROVE Rows(p) = Versions(p)
<1>1. ASSUME NEW r \in resumes PROVE Fresh(r) <=> r.born >= Window
  <2>1. r.born \in Int
    BY DEF PoolInv, RowsGood, PoolResume
  <2> QED
    BY <2>1, PoolAssumption DEF PoolInv, Fresh, Window
<1> QED
  BY <1>1 DEF Rows, Versions, Selectable, Owned

\* A person with versions to choose from has one newest, and it is what the pool picks.
LEMMA NewestPicked ==
    ASSUME PoolInv, NEW p \in People, Rows(p) # {}
    PROVE  Newest(Rows(p)) \in Rows(p)
<1>1. Rows(p) \subseteq resumes /\ \A r \in Rows(p) : r.id \in Nat
  BY DEF Rows, Owned, PoolInv, RowsGood, PoolResume
<1>2. IsFiniteSet(Rows(p))
  BY <1>1, FS_Subset DEF PoolInv, RowsGood
<1> DEFINE ids == {r.id : r \in Rows(p)}
<1>3. IsFiniteSet(ids)
  <2>1. [r \in Rows(p) |-> r.id] \in Surjection(Rows(p), ids)
    BY DEF Surjection
  <2> HIDE DEF ids
  <2> QED
    BY <1>2, <2>1, FS_Surjection
<1>4. ids \in SUBSET Nat /\ ids # {}
  BY <1>1
<1>5. \E v \in ids : \A w \in ids : w <= v
  <2> HIDE DEF ids
  <2> QED
    BY <1>3, <1>4, HasGreatest
<1>6. \E x \in Rows(p) : \A y \in Rows(p) : y.id <= x.id
  BY <1>5
<1> QED
  BY <1>6 DEF Newest

LEMMA PickedRows ==
    ASSUME PoolInv, NEW r \in Picked
    PROVE  /\ r \in resumes /\ r \in Rows(r.who) /\ r.who \in People
           /\ r.status = "PARSED" /\ r.facts \in Contents
           /\ \A q \in Picked : q.who = r.who => q = r
<1>1. ASSUME NEW q \in Picked PROVE q.who \in People /\ q = Newest(Rows(q.who)) /\ q \in Rows(q.who)
  <2>1. PICK p \in People : Rows(p) # {} /\ q = Newest(Rows(p))
    BY DEF Picked
  <2>2. q \in Rows(p)
    BY <2>1, NewestPicked
  <2>3. q.who = p
    BY <2>2 DEF Rows, Owned
  <2> QED
    BY <2>1, <2>2, <2>3
<1>2. \A q \in Picked : q.who = r.who => q = r
  BY <1>1
<1>3. r \in Rows(r.who) /\ r.who \in People
  BY <1>1
<1>4. r \in resumes /\ r.status = "PARSED"
  BY <1>3 DEF Rows, Owned
<1> QED
  BY <1>2, <1>3, <1>4 DEF PoolInv, RowsGood

\* A filter that sets nothing more than who must not be a member finds whoever has versions and is none.
LEMMA NothingSet ==
    ASSUME NEW r
    PROVE  /\ \A c \in Active : Matches(r, [NoFilter EXCEPT !.without = c]) <=> ~\E m \in MembersOf(r.who) : m.camp = c
           /\ \A c : \A n : n # Unset =>
                /\ Matches(r, [NoFilter EXCEPT !.camps = {c}, !.from = n])
                     <=> (\E m \in MembersOf(r.who) : m.camp = c) /\ Within(r.facts.years, n, Unset)
                /\ Matches(r, [NoFilter EXCEPT !.camps = {c}, !.to = n])
                     <=> (\E m \in MembersOf(r.who) : m.camp = c) /\ Within(r.facts.years, Unset, n)
           /\ \A c, t : Matches(r, [NoFilter EXCEPT !.camps = {c}, !.skills = {t}])
                     <=> (\E m \in MembersOf(r.who) : m.camp = c) /\ Bears(r.facts, t)
           /\ \A v : Matches(r, [NoFilter EXCEPT !.places = {v}])
                     <=> r.facts.place # Unset /\ Like(v, r.facts.place)
           /\ \A d : Matches(r, [NoFilter EXCEPT !.degrees = {d}]) <=> d \in r.facts.degrees
<1>0. \A n : Within(n, Unset, Unset)
  BY DEF Within
<1>1. ASSUME NEW c \in Active
      PROVE  Matches(r, [NoFilter EXCEPT !.without = c]) <=> ~\E m \in MembersOf(r.who) : m.camp = c
  <2>1. c # Unset
    BY PoolAssumption
  <2> QED
    BY <1>0, <2>1 DEF Matches, NoFilter
<1>2. ASSUME NEW c, NEW n, n # Unset
      PROVE  /\ Matches(r, [NoFilter EXCEPT !.camps = {c}, !.from = n])
                  <=> (\E m \in MembersOf(r.who) : m.camp = c) /\ Within(r.facts.years, n, Unset)
             /\ Matches(r, [NoFilter EXCEPT !.camps = {c}, !.to = n])
                  <=> (\E m \in MembersOf(r.who) : m.camp = c) /\ Within(r.facts.years, Unset, n)
  BY <1>0 DEF Matches, NoFilter
<1>3. ASSUME NEW c, NEW t
      PROVE  Matches(r, [NoFilter EXCEPT !.camps = {c}, !.skills = {t}])
                  <=> (\E m \in MembersOf(r.who) : m.camp = c) /\ Bears(r.facts, t)
  BY <1>0 DEF Matches, NoFilter
<1>4. ASSUME NEW v
      PROVE  Matches(r, [NoFilter EXCEPT !.places = {v}]) <=> r.facts.place # Unset /\ Like(v, r.facts.place)
  BY <1>0 DEF Matches, NoFilter
<1>5. ASSUME NEW d PROVE Matches(r, [NoFilter EXCEPT !.degrees = {d}]) <=> d \in r.facts.degrees
  BY <1>0 DEF Matches, NoFilter
<1> QED
  BY <1>1, <1>2, <1>3, <1>4, <1>5

LEMMA OffersAddable == ASSUME PoolInv PROVE OfferedCanBeAdded
<1> SUFFICES ASSUME NEW c \in Active
             PROVE  Crowd([NoFilter EXCEPT !.without = c]) = {p \in People : Addable(p, c)}
  BY DEF OfferedCanBeAdded
<1>1. ASSUME NEW p \in Crowd([NoFilter EXCEPT !.without = c]) PROVE p \in People /\ Addable(p, c)
  <2>1. PICK r \in Picked : r.who = p /\ Matches(r, [NoFilter EXCEPT !.without = c])
    BY DEF Crowd, Hits
  <2>2. p \in People /\ r \in Rows(p)
    BY <2>1, PickedRows
  <2>3. Versions(p) # {}
    BY <2>2, SameVersions
  <2>4. ~\E m \in MembersOf(p) : m.camp = c
    BY <2>1, NothingSet
  <2> QED
    BY <2>2, <2>3, <2>4 DEF Addable
<1>2. ASSUME NEW p \in People, Addable(p, c) PROVE p \in Crowd([NoFilter EXCEPT !.without = c])
  <2>1. Rows(p) # {}
    BY <1>2, SameVersions DEF Addable
  <2>2. Newest(Rows(p)) \in Picked /\ Newest(Rows(p)) \in Rows(p)
    BY <2>1, NewestPicked DEF Picked
  <2>3. PICK r \in Picked : r = Newest(Rows(p))
    BY <2>2
  <2>4. r.who = p
    BY <2>2, <2>3 DEF Rows, Owned
  <2>5. Matches(r, [NoFilter EXCEPT !.without = c])
    BY <1>2, <2>4, NothingSet DEF Addable
  <2> QED
    BY <2>4, <2>5 DEF Crowd, Hits
<1> QED
  BY <1>1, <1>2

\* Of the spellings of one place, one is offered: the most frequent, first in the alphabet.
LEMMA OneSpellingOffered ==
    ASSUME PoolInv, NEW r \in resumes, r.status = "PARSED", r.facts.place # Unset
    PROVE  \E v \in PlaceOptions : Like(v, r.facts.place)
<1> DEFINE values == {q.facts.place : q \in Parsed} \ {Unset}
           alike == {v \in values : Like(v, r.facts.place)}
           R == {ss \in alike \X alike : \/ Spelled(ss[1]) < Spelled(ss[2])
                                         \/ Spelled(ss[1]) = Spelled(ss[2]) /\ ss[2].form < ss[1].form}
<1>1. IsFiniteSet(alike)
  <2> DEFINE places == {q.facts.place : q \in Parsed}
  <2>1. [q \in Parsed |-> q.facts.place] \in Surjection(Parsed, places)
    BY DEF Surjection
  <2>2. IsFiniteSet(Parsed)
    BY FS_Subset DEF Parsed, PoolInv, RowsGood
  <2>3. IsFiniteSet(places)
    <3> HIDE DEF places
    <3> QED
      BY <2>1, <2>2, FS_Surjection
  <2>4. alike \subseteq places
    OBVIOUS
  <2> HIDE DEF places, alike
  <2> QED
    BY <2>3, <2>4, FS_Subset
<1>2. r.facts.place \in alike
  BY DEF Parsed, Like
<1>3. ASSUME NEW v \in values PROVE v.form \in Int /\ Spelled(v) \in Nat
  <2>1. PICK q \in resumes : q.status = "PARSED" /\ q.facts.place = v /\ v # Unset
    BY DEF Parsed
  <2>2. q.facts \in Contents
    BY <2>1 DEF PoolInv, RowsGood
  <2>3. v.form \in Int
    BY <2>1, <2>2, PoolAssumption
  <2>4. IsFiniteSet({x \in Parsed : x.facts.place = v})
    <3>1. {x \in Parsed : x.facts.place = v} \subseteq resumes
      BY DEF Parsed
    <3> QED
      BY <3>1, FS_Subset DEF PoolInv, RowsGood
  <2>5. Spelled(v) \in Nat
    BY <2>4, FS_CardinalityType DEF Spelled
  <2> QED
    BY <2>3, <2>5
<1>4. \A v \in alike : v \in values
  OBVIOUS
<1>5. \A v, w \in alike : <<v, w>> \in R <=> \/ Spelled(v) < Spelled(w)
                                             \/ Spelled(v) = Spelled(w) /\ w.form < v.form
  <2> HIDE DEF alike
  <2> QED
    OBVIOUS
<1>6. \A v \in alike : v.form \in Int /\ Spelled(v) \in Nat
  <2> HIDE DEF values, alike
  <2> QED
    BY <1>3, <1>4
<1>7. PICK t \in alike : \A u \in alike : <<t, u>> \notin R
  <2> HIDE DEF R, alike
  <2>1. \A x \in alike : <<x, x>> \notin R
    BY <1>5, <1>6
  <2>2. ASSUME NEW x \in alike, NEW y \in alike, NEW z \in alike, <<x, y>> \in R, <<y, z>> \in R
        PROVE  <<x, z>> \in R
    BY <1>5, <1>6, <2>2
  <2> QED
    BY <1>1, <1>2, <2>1, <2>2, HasMaximal
<1>8. ASSUME NEW w \in values, Like(t, w)
      PROVE  Spelled(w) < Spelled(t) \/ (Spelled(w) = Spelled(t) /\ t.form <= w.form)
  <2>1. w \in alike
    BY <1>8 DEF Like
  <2>2. /\ ~(Spelled(t) < Spelled(w))
        /\ ~(Spelled(t) = Spelled(w) /\ w.form < t.form)
    <3> HIDE DEF R, alike
    <3> QED
      BY <1>5, <1>7, <2>1
  <2>3. t.form \in Int /\ w.form \in Int /\ Spelled(t) \in Nat /\ Spelled(w) \in Nat
    <3> HIDE DEF R, alike
    <3> QED
      BY <1>6, <2>1
  <2> QED
    BY <2>2, <2>3
<1>9. t \in values /\ Like(t, r.facts.place)
  OBVIOUS
<1> QED
  BY <1>8, <1>9 DEF PlaceOptions

\* Of one picked person, being in the crowd of a filter is matching it.
LEMMA CrowdIsMatch ==
    ASSUME PoolInv, NEW r \in Picked, NEW f
    PROVE  r.who \in Crowd(f) <=> Matches(r, f)
<1>1. \A q \in Picked : q.who = r.who => q = r
  BY PickedRows
<1> QED
  BY <1>1 DEF Crowd, Hits

\* A member added with a picked version is its owner's, and the campaign's filter reads that version.
LEMMA MemberOfPicked ==
    ASSUME PoolInv, NEW r \in Picked, NEW m \in members, m.resume = r.id
    PROVE  /\ \E k \in MembersOf(r.who) : k.camp = m.camp
           /\ \A q \in resumes : q.id = m.resume <=> q = r
<1>1. r \in resumes /\ \A q \in resumes : q.id = r.id => q = r
  BY PickedRows DEF PoolInv, RowsGood
<1>2. PICK q \in resumes : q.id = m.resume /\ q.who = m.who
  BY DEF PoolInv, Held
<1>3. m.who = r.who
  BY <1>1, <1>2
<1> QED
  BY <1>1, <1>3 DEF MembersOf

LEMMA CampaignAndPoolAgree == ASSUME PoolInv PROVE FiltersAgree
<1>1. ASSUME NEW r \in Picked, NEW m \in members, m.resume = r.id, r.facts.years # Unset,
             NEW n, n # Unset, NEW unknown \in BOOLEAN
      PROVE  /\ m \in ExperienceFilter(m.camp, n, Unset, unknown)
                  <=> r.who \in Crowd([NoFilter EXCEPT !.camps = {m.camp}, !.from = n])
             /\ m \in ExperienceFilter(m.camp, Unset, n, unknown)
                  <=> r.who \in Crowd([NoFilter EXCEPT !.camps = {m.camp}, !.to = n])
  <2>1. r \in resumes /\ r.facts # Unset
    BY PickedRows, PoolAssumption
  <2>2. /\ \E k \in MembersOf(r.who) : k.camp = m.camp
        /\ \A q \in resumes : q.id = m.resume <=> q = r
    BY <1>1, MemberOfPicked
  <2>3. \A lo, hi : m \in ExperienceFilter(m.camp, lo, hi, unknown) <=> Within(r.facts.years, lo, hi)
    BY <1>1, <2>1, <2>2 DEF ExperienceFilter
  <2>4. /\ Matches(r, [NoFilter EXCEPT !.camps = {m.camp}, !.from = n]) <=> Within(r.facts.years, n, Unset)
        /\ Matches(r, [NoFilter EXCEPT !.camps = {m.camp}, !.to = n]) <=> Within(r.facts.years, Unset, n)
    BY <1>1, <2>2, NothingSet
  <2> QED
    BY <2>3, <2>4, CrowdIsMatch
<1>2. ASSUME NEW r \in Picked, NEW m \in members, m.resume = r.id, NEW s \in r.facts.skills
      PROVE  r.who \in Crowd([NoFilter EXCEPT !.camps = {m.camp}, !.skills = {s}])
  <2>1. r.facts \in Contents
    BY PickedRows
  <2>2. Bears(r.facts, s)
    BY <2>1 DEF Bears, Canonical
  <2>3. \E k \in MembersOf(r.who) : k.camp = m.camp
    BY <1>2, MemberOfPicked
  <2> QED
    BY <2>2, <2>3, NothingSet, CrowdIsMatch
<1> QED
  BY <1>1, <1>2 DEF FiltersAgree

-----------------------------------------------------------------------------
(* The copy of the options, which nothing drops before its time.            *)

\* No write changes what a parsed resume says.
ParsedStay == \A r \in resumes : r.status = "PARSED" =>
                  \E q \in resumes' : q.id = r.id /\ q.status = "PARSED" /\ q.facts = r.facts

LEMMA UploadLeaves == ASSUME PoolInv, NEW p \in People, Upload(p) PROVE ParsedStay
<1> DEFINE old(r) == [r EXCEPT !.active = @ /\ r.who # p]
<1>1. \A r \in resumes : old(r) \in resumes'
  BY DEF Upload
<1>2. ASSUME NEW r \in resumes PROVE old(r).id = r.id /\ old(r).status = r.status /\ old(r).facts = r.facts
  BY DEF PoolInv, RowsGood, PoolResume
<1> HIDE DEF old
<1> QED
  BY <1>1, <1>2 DEF ParsedStay

LEMMA ParseLeaves == ASSUME PoolInv, NEW r \in resumes, Parse(r) PROVE ParsedStay
<1>1. r.status = "PENDING" /\ \E x : Alter(r, x)
  BY DEF Parse
<1>2. \A q \in resumes : q.status = "PARSED" => q \in resumes'
  BY <1>1 DEF Alter
<1> QED
  BY <1>2 DEF ParsedStay

LEMMA EmbedLeaves == ASSUME PoolInv, NEW r \in resumes, EmbedResume(r) PROVE ParsedStay
<1>1. PICK x : x = [r EXCEPT !.vector = [model |-> model, ok |-> TRUE]]
  OBVIOUS
<1>2. resumes' = (resumes \ {r}) \cup {x}
  BY <1>1 DEF EmbedResume, Alter
<1>3. x.id = r.id /\ x.facts = r.facts /\ x.status = r.status
  BY <1>1 DEF PoolInv, RowsGood, PoolResume
<1> QED
  BY <1>2, <1>3 DEF ParsedStay

LEMMA RequestErasureLeaves == ASSUME PoolInv, NEW p \in People, RequestErasure(p) PROVE ParsedStay
<1> DEFINE new(r) == IF r.who = p /\ r.vector # Unset THEN [r EXCEPT !.vector.ok = FALSE] ELSE r
<1>1. \A r \in resumes : new(r) \in resumes'
  BY DEF RequestErasure
<1>2. ASSUME NEW r \in resumes PROVE new(r).id = r.id /\ new(r).status = r.status /\ new(r).facts = r.facts
  <2>1. r \in PoolResume
    BY DEF PoolInv, RowsGood
  <2> QED
    BY <2>1, StandingChanged
<1> HIDE DEF new
<1> QED
  BY <1>1, <1>2 DEF ParsedStay

LEMMA ValidatePoolLeaves == ASSUME PoolInv, ValidatePool PROVE ParsedStay
<1> DEFINE new(r) == IF r.vector = Unset THEN r ELSE [r EXCEPT !.vector.ok = Standing(r.who)]
<1>1. \A r \in resumes : new(r) \in resumes'
  BY DEF ValidatePool
<1>2. ASSUME NEW r \in resumes PROVE new(r).id = r.id /\ new(r).status = r.status /\ new(r).facts = r.facts
  <2>1. r \in PoolResume
    BY DEF PoolInv, RowsGood
  <2>2. PICK b \in BOOLEAN : b = Standing(r.who)
    BY DEF Standing
  <2>3. new(r) = IF r.vector = Unset THEN r ELSE [r EXCEPT !.vector.ok = b]
    BY <2>2
  <2> HIDE DEF new
  <2> QED
    BY <2>1, <2>3, StandingChanged
<1> HIDE DEF new
<1> QED
  BY <1>1, <1>2 DEF ParsedStay

LEMMA RowsLeftAlone == ASSUME UNCHANGED resumes PROVE ParsedStay
BY DEF ParsedStay

\* What a content is found by is among the options, in some spelling.
Offered(o, x) ==
    /\ x.place # Unset => \E v \in o.places : Like(v, x.place)
    /\ x.degrees \ {"UNKNOWN"} \subseteq o.degrees

OptionsInv ==
    options # Unset =>
        \A n \in options.seen : \E r \in resumes : r.id = n /\ r.status = "PARSED" /\ Offered(options, r.facts)

LEMMA FillOffers == ASSUME PoolInv, FillOptions PROVE OptionsInv'
<1>1. /\ UNCHANGED resumes
      /\ options' = [places |-> PlaceOptions, degrees |-> DegreeOptions, seen |-> {r.id : r \in Parsed}]
  BY DEF FillOptions, Parsed
<1>2. ASSUME NEW r \in Parsed PROVE r \in resumes /\ r.status = "PARSED" /\ Offered(options', r.facts)
  <2>1. r \in resumes /\ r.status = "PARSED"
    BY DEF Parsed
  <2>2. r.facts.place # Unset => \E v \in PlaceOptions : Like(v, r.facts.place)
    BY <2>1, OneSpellingOffered
  <2>3. r.facts.degrees \ {"UNKNOWN"} \subseteq DegreeOptions
    BY DEF DegreeOptions
  <2>4. options'.places = PlaceOptions /\ options'.degrees = DegreeOptions
    BY <1>1
  <2> QED
    BY <2>1, <2>2, <2>3, <2>4 DEF Offered
<1>3. options'.seen = {r.id : r \in Parsed}
  BY <1>1
<1> QED
  BY <1>1, <1>2, <1>3 DEF OptionsInv

LEMMA CopyStays == ASSUME OptionsInv, ParsedStay, UNCHANGED options PROVE OptionsInv'
<1> SUFFICES ASSUME options # Unset, NEW n \in options.seen
             PROVE  \E q \in resumes' : q.id = n /\ q.status = "PARSED" /\ Offered(options, q.facts)
  BY DEF OptionsInv, Offered, Like
<1>1. PICK r \in resumes : r.id = n /\ r.status = "PARSED" /\ Offered(options, r.facts)
  BY DEF OptionsInv
<1>2. PICK q \in resumes' : q.id = r.id /\ q.status = "PARSED" /\ q.facts = r.facts
  BY <1>1 DEF ParsedStay
<1> QED
  BY <1>1, <1>2

LEMMA OptionsInductive == ASSUME PoolInv, OptionsInv, [PoolNext]_poolVars PROVE OptionsInv'
<1>1. CASE FillOptions
  BY <1>1, FillOffers
<1>2. CASE ExpireOptions
  BY <1>2 DEF ExpireOptions, OptionsInv
<1>3. CASE UNCHANGED <<resumes, options>>
  BY <1>3, RowsLeftAlone, CopyStays
<1>4. CASE \/ Turn \/ SwitchModel \/ Age \/ UNCHANGED poolVars
           \/ \E p \in People, c \in Active : AddToCampaign(p, c)
           \/ \E m \in members : Assess(m)
           \/ \E f \in Filters : OpenSearch("normal", f)
           \/ OpenSearch("semantic", NoFilter)
  <2>1. UNCHANGED <<resumes, options>>
    BY <1>4 DEF Turn, SwitchModel, Age, AddToCampaign, Assess, OpenSearch, poolVars
  <2> QED
    BY <1>3, <2>1
<1>5. ASSUME NEW p \in People, Upload(p) \/ RequestErasure(p) PROVE OptionsInv'
  <2>1. UNCHANGED options
    BY <1>5 DEF Upload, RequestErasure
  <2> QED
    BY <1>5, <2>1, UploadLeaves, RequestErasureLeaves, CopyStays
<1>6. CASE ValidatePool
  <2>1. UNCHANGED options
    BY <1>6 DEF ValidatePool
  <2> QED
    BY <1>6, <2>1, ValidatePoolLeaves, CopyStays
<1>7. ASSUME NEW r \in resumes, Parse(r) \/ EmbedResume(r) PROVE OptionsInv'
  <2>1. UNCHANGED options
    BY <1>7 DEF Parse, EmbedResume
  <2> QED
    BY <1>7, <2>1, ParseLeaves, EmbedLeaves, CopyStays
<1> QED
  BY <1>1, <1>2, <1>4, <1>5, <1>6, <1>7 DEF PoolNext

LEMMA OptionsFindAgain == ASSUME PoolInv, OptionsInv PROVE OptionsLeadBack
<1> SUFFICES ASSUME options # Unset, NEW r \in Picked, r.id \in options.seen
             PROVE  /\ r.facts.place # Unset =>
                           \E v \in options.places : /\ Like(v, r.facts.place)
                                                     /\ r.who \in Crowd([NoFilter EXCEPT !.places = {v}])
                    /\ \A d \in r.facts.degrees \ {"UNKNOWN"} :
                           d \in options.degrees /\ r.who \in Crowd([NoFilter EXCEPT !.degrees = {d}])
  BY DEF OptionsLeadBack
<1>1. r \in resumes
  BY PickedRows
<1>2. PICK q \in resumes : q.id = r.id /\ Offered(options, q.facts)
  BY DEF OptionsInv
<1>3. q = r
  BY <1>1, <1>2 DEF PoolInv, RowsGood
<1>4. Offered(options, r.facts)
  BY <1>2, <1>3
<1>5. ASSUME r.facts.place # Unset
      PROVE  \E v \in options.places : /\ Like(v, r.facts.place)
                                       /\ r.who \in Crowd([NoFilter EXCEPT !.places = {v}])
  <2>1. PICK v \in options.places : Like(v, r.facts.place)
    BY <1>4, <1>5 DEF Offered
  <2>2. Matches(r, [NoFilter EXCEPT !.places = {v}])
    BY <1>5, <2>1, NothingSet
  <2> QED
    BY <2>1, <2>2 DEF Crowd, Hits
<1>6. ASSUME NEW d \in r.facts.degrees \ {"UNKNOWN"}
      PROVE  d \in options.degrees /\ r.who \in Crowd([NoFilter EXCEPT !.degrees = {d}])
  <2>1. Matches(r, [NoFilter EXCEPT !.degrees = {d}])
    BY NothingSet
  <2> QED
    BY <1>4, <2>1 DEF Offered, Crowd, Hits
<1> QED
  BY <1>5, <1>6

\* What the searches say of eligibility, the options a reader is served, however old the copy they
\* come from (get_search_filters), and the campaign's own filters of its members, agree in every
\* state, however uploads, parsing, embedding, validation, erasure, assessment and time have
\* changed the rows they read.
THEOREM QueriesStayInAgreement == PoolSpec => []QueriesAgree
<1>1. PoolInit => OptionsInv
  BY DEF PoolInit, OptionsInv
<1>2. PoolInv /\ OptionsInv => QueriesAgree
  BY OffersAddable, OptionsFindAgain, CampaignAndPoolAgree DEF QueriesAgree
<1>3. PoolInv /\ OptionsInv /\ [PoolNext]_poolVars => OptionsInv'
  BY OptionsInductive
<1> QED
  BY <1>1, <1>2, <1>3, PoolStarts, PoolInductive, PTL DEF PoolSpec

-----------------------------------------------------------------------------
(* A walk through the pages of a search.                                      *)

\* A list of a finite set, each element once, has all of them.
LEMMA ListHasAll ==
    ASSUME NEW K, IsFiniteSet(K), NEW t \in SetToSeqs(K)
    PROVE  /\ Cardinality(K) \in Nat /\ DOMAIN t = 1..Cardinality(K) /\ t \in [1..Cardinality(K) -> K]
           /\ \A i, j \in 1..Cardinality(K) : t[i] = t[j] => i = j
           /\ \A k \in K : \E i \in 1..Cardinality(K) : t[i] = k
<1> DEFINE n == Cardinality(K)
<1>1. n \in Nat
  BY FS_CardinalityType
<1>2. t \in [1..n -> K] /\ \A i, j \in 1..n : t[i] = t[j] => i = j
  BY DEF SetToSeqs
<1>3. IsFiniteSet(1..n) /\ Cardinality(1..n) = n
  BY <1>1, FS_Interval
<1>4. t \in Injection(1..n, K)
  <2>1. DOMAIN t = 1..n
    BY <1>2
  <2>2. IsInjective(t)
    BY <1>2, <2>1 DEF IsInjective
  <2> QED
    BY <1>2, <2>2 DEF Injection
<1>5. t \in Surjection(1..n, K)
  BY <1>3, <1>4, FS_Injection
<1>6. \A k \in K : \E i \in 1..n : t[i] = k
  BY <1>5 DEF Surjection
<1> QED
  BY <1>1, <1>2, <1>6

Ahead(K, rate, k) == Cardinality({x \in K : rate[x] < rate[k]})
InOrder(t, rate) == \A i, j \in DOMAIN t : i < j => rate[t[i]] <= rate[t[j]]
Alone(K, rate, k) == \A x \in K \ {k} : rate[x] # rate[k]

\* Who has nobody at his own distance stands behind those that are nearer.
LEMMA PlaceInList ==
    ASSUME NEW K, IsFiniteSet(K), NEW t \in SetToSeqs(K), NEW rate, \A x \in K : rate[x] \in Int, InOrder(t, rate),
           NEW k \in K, Alone(K, rate, k), NEW i \in DOMAIN t, t[i] = k
    PROVE  Ahead(K, rate, k) = i - 1
<1> DEFINE A == {x \in K : rate[x] < rate[k]}
           g == [j \in 1..(i - 1) |-> t[j]]
<1>1. /\ Cardinality(K) \in Nat /\ DOMAIN t = 1..Cardinality(K) /\ \A j \in DOMAIN t : t[j] \in K
      /\ \A j, l \in DOMAIN t : t[j] = t[l] => j = l
      /\ \A x \in K : \E j \in DOMAIN t : t[j] = x
  <2>1. /\ Cardinality(K) \in Nat /\ DOMAIN t = 1..Cardinality(K) /\ t \in [1..Cardinality(K) -> K]
        /\ \A j, l \in 1..Cardinality(K) : t[j] = t[l] => j = l
    BY ListHasAll
  <2>2. \A x \in K : \E j \in 1..Cardinality(K) : t[j] = x
    BY ListHasAll
  <2> QED
    BY <2>1, <2>2
<1>2. i \in Nat /\ i - 1 \in Nat /\ \A j \in 1..(i - 1) : j \in DOMAIN t /\ j < i
  BY <1>1
<1>3. \A x \in K : rate[x] \in Int
  OBVIOUS
<1>4. ASSUME NEW j \in 1..(i - 1) PROVE t[j] \in A
  <2>1. j \in DOMAIN t /\ j < i /\ t[j] \in K
    BY <1>1, <1>2
  <2>2. rate[t[j]] <= rate[k]
    BY <2>1 DEF InOrder
  <2>3. t[j] # k
    BY <1>1, <2>1
  <2>4. rate[t[j]] # rate[k]
    BY <2>1, <2>3 DEF Alone
  <2> QED
    BY <1>3, <2>1, <2>2, <2>4
<1>5. ASSUME NEW x \in A PROVE \E j \in 1..(i - 1) : t[j] = x
  <2>1. PICK j \in DOMAIN t : t[j] = x
    BY <1>1
  <2>2. ~(i <= j)
    <3>1. i # j
      BY <1>3, <2>1
    <3>2. ~(i < j)
      BY <1>3, <2>1 DEF InOrder
    <3> QED
      BY <1>1, <1>2, <3>1, <3>2
  <2> QED
    BY <1>1, <1>2, <2>1, <2>2
<1>6. g \in [1..(i - 1) -> A] /\ \A j \in 1..(i - 1) : g[j] = t[j]
  BY <1>4
<1> HIDE DEF A, g
<1>7. g \in Bijection(1..(i - 1), A)
  <2>1. DOMAIN g = 1..(i - 1)
    BY <1>6
  <2>2. IsInjective(g)
    BY <1>1, <1>2, <1>6, <2>1 DEF IsInjective
  <2>3. g \in Surjection(1..(i - 1), A)
    BY <1>5, <1>6 DEF Surjection
  <2> QED
    BY <1>6, <2>2, <2>3 DEF Bijection, Injection
<1>8. Cardinality(A) = i - 1
  BY <1>2, <1>7, FS_CountingElements DEF ExistsBijection
<1> QED
  BY <1>8 DEF Ahead, A

\* A page holds who has neither too few nor too many ahead.
LEMMA PageHolds ==
    ASSUME NEW K, IsFiniteSet(K), NEW t \in SetToSeqs(K), NEW rate, \A x \in K : rate[x] \in Int, InOrder(t, rate),
           NEW k \in K, Alone(K, rate, k), NEW from \in Nat, NEW to \in Nat
    PROVE  (\E i \in DOMAIN t : from < i /\ i <= to /\ t[i] = k)
              <=> (from <= Ahead(K, rate, k) /\ Ahead(K, rate, k) < to)
<1>1. /\ Cardinality(K) \in Nat /\ DOMAIN t = 1..Cardinality(K)
      /\ \A j, l \in DOMAIN t : t[j] = t[l] => j = l
      /\ \E i \in DOMAIN t : t[i] = k
  <2>1. /\ Cardinality(K) \in Nat /\ DOMAIN t = 1..Cardinality(K)
        /\ \A j, l \in 1..Cardinality(K) : t[j] = t[l] => j = l
    BY ListHasAll
  <2>2. \E i \in 1..Cardinality(K) : t[i] = k
    BY ListHasAll
  <2> QED
    BY <2>1, <2>2
<1>2. PICK i \in DOMAIN t : t[i] = k
  BY <1>1
<1>3. Ahead(K, rate, k) = i - 1 /\ i \in Nat
  BY <1>1, <1>2, PlaceInList
<1>4. (\E j \in DOMAIN t : from < j /\ j <= to /\ t[j] = k) <=> from < i /\ i <= to
  BY <1>1, <1>2
<1> QED
  BY <1>3, <1>4

Upto(n) == n * PageSize

LEMMA OnePageMore ==
    ASSUME NEW n \in Nat
    PROVE  Upto(n) \in Nat /\ Upto(n + 1) = Upto(n) + PageSize /\ PageSize \in Nat \ {0}
BY PoolAssumption DEF Upto

LEMMA LesserOfTwo ==
    ASSUME NEW a \in Nat, NEW b \in Nat
    PROVE  Min({a, b}) \in {a, b} /\ Min({a, b}) <= a /\ Min({a, b}) <= b
<1>1. \E x \in {a, b} : \A y \in {a, b} : x <= y
  <2>1. CASE a <= b
    BY <2>1
  <2>2. CASE ~(a <= b)
    BY <2>2
  <2> QED
    BY <2>1, <2>2
<1>2. Min({a, b}) \in {a, b} /\ \A y \in {a, b} : Min({a, b}) <= y
  BY <1>1 DEF Min
<1> QED
  BY <1>2

\* What a page is to the list it is cut from.
IsCut(page, t, size, from, wide) == page = SubSeq(t, from + 1, Min({from + wide, size}))

Takes(page, t, size, from, wide) ==
    \A i \in DOMAIN page : from + i \in 1..size /\ from + i <= from + wide /\ page[i] = t[from + i]

LEMMA PageCut ==
    ASSUME NEW S, NEW size \in Nat, NEW t \in [1..size -> S], NEW from \in Nat, NEW wide \in Nat, wide > 0,
           NEW page, IsCut(page, t, size, from, wide)
    PROVE  /\ page \in Seq(S) /\ DOMAIN page = 1..Len(page)
           /\ Takes(page, t, size, from, wide)
           /\ \A j \in 1..size : from < j /\ j <= from + wide => j - from \in DOMAIN page
           /\ Len(page) < wide => size < from + wide
<1> DEFINE to == Min({from + wide, size})
<1>1. to \in Nat /\ to <= size /\ to <= from + wide /\ (to = size \/ to = from + wide)
  <2>1. from + wide \in Nat
    OBVIOUS
  <2>2. to \in {from + wide, size} /\ to <= from + wide /\ to <= size
    BY <2>1, LesserOfTwo
  <2> QED
    BY <2>1, <2>2
<1> HIDE DEF to
<1>2. PICK m \in Int : m = from + 1
  OBVIOUS
<1>3. page = SubSeq(t, m, to) /\ \A i \in m..to : t[i] \in S
  <2>1. \A i \in m..to : i \in 1..size
    BY <1>1, <1>2
  <2> QED
    BY <1>2, <2>1 DEF to, IsCut
<1>4. /\ SubSeq(t, m, to) \in Seq(S)
      /\ Len(SubSeq(t, m, to)) = IF m <= to THEN to - m + 1 ELSE 0
      /\ \A i \in 1..to - m + 1 : SubSeq(t, m, to)[i] = t[m + i - 1]
  <2>1. to \in Int
    BY <1>1
  <2> QED
    BY <1>3, <2>1, SubSeqProperties
<1>5. /\ page \in Seq(S) /\ Len(page) \in Nat /\ DOMAIN page = 1..Len(page)
      /\ m <= to => Len(page) = to - from
      /\ ~(m <= to) => Len(page) = 0
      /\ \A i \in 1..to - from : page[i] = t[from + i]
  <2>1. page \in Seq(S)
    BY <1>3, <1>4
  <2>2. Len(page) \in Nat /\ DOMAIN page = 1..Len(page)
    BY <2>1, LenProperties
  <2>3. Len(page) = IF m <= to THEN to - m + 1 ELSE 0
    BY <1>3, <1>4
  <2>4. to - m + 1 = to - from
    BY <1>1, <1>2
  <2>5. ASSUME NEW i \in 1..to - from PROVE page[i] = t[from + i]
    <3>1. i \in 1..to - m + 1
      BY <2>4
    <3>2. m + i - 1 = from + i
      BY <1>1, <1>2
    <3>3. page[i] = t[m + i - 1]
      BY <1>3, <1>4, <3>1
    <3> QED
      BY <3>2, <3>3
  <2> QED
    BY <2>1, <2>2, <2>3, <2>4, <2>5
<1>6. ASSUME NEW i \in DOMAIN page
      PROVE  from + i \in 1..size /\ from + i <= from + wide /\ page[i] = t[from + i]
  <2>1. i \in Nat /\ 1 <= i /\ i <= Len(page)
    BY <1>5
  <2>2. m <= to /\ i <= to - from
    BY <1>1, <1>2, <1>5, <2>1
  <2>3. page[i] = t[from + i]
    BY <1>1, <1>5, <2>1, <2>2
  <2>4. from + i <= to /\ from + i \in Nat /\ 1 <= from + i
    BY <1>1, <2>1, <2>2
  <2>5. from + i <= size /\ from + i <= from + wide
    BY <1>1, <2>4
  <2>6. from + i \in 1..size
    BY <2>4, <2>5
  <2> QED
    BY <2>3, <2>5, <2>6
<1>7. ASSUME NEW j \in 1..size, from < j, j <= from + wide PROVE j - from \in DOMAIN page
  <2>1. j <= to
    BY <1>1, <1>7
  <2>2. Len(page) = to - from
    <3>1. m <= to
      BY <1>1, <1>2, <1>7, <2>1
    <3> QED
      BY <1>5, <3>1
  <2>3. j - from \in 1..(to - from)
    BY <1>1, <1>7, <2>1
  <2> QED
    BY <1>5, <2>2, <2>3
<1>8. ASSUME Len(page) < wide PROVE size < from + wide
  <2>1. ASSUME to = from + wide PROVE FALSE
    <3>1. m <= to /\ to - from = wide
      BY <1>2, <2>1
    <3> QED
      BY <1>5, <1>8, <3>1
  <2> QED
    BY <1>1, <2>1
<1> QED
  BY <1>5, <1>6, <1>7, <1>8 DEF Takes

\* A list of rows, each with a key of its own, as the list of their keys.
LEMMA ListOfKeys ==
    ASSUME NEW S, IsFiniteSet(S), NEW key \in [S -> Nat], \A r, q \in S : key[r] = key[q] => r = q,
           NEW K, K = {key[r] : r \in S}, NEW t \in SetToSeqs(S), NEW u, u = [i \in DOMAIN t |-> key[t[i]]]
    PROVE  IsFiniteSet(K) /\ Cardinality(K) = Cardinality(S) /\ u \in SetToSeqs(K)
<1>1. key \in Surjection(S, K)
  BY DEF Surjection
<1>2. key \in Injection(S, K)
  <2>1. IsInjective(key)
    BY DEF IsInjective
  <2> QED
    BY <1>1, <2>1 DEF Surjection, Injection
<1>3. IsFiniteSet(K) /\ Cardinality(K) = Cardinality(S)
  BY <1>1, <1>2, FS_Surjection
<1>4. /\ DOMAIN t = 1..Cardinality(S) /\ t \in [1..Cardinality(S) -> S]
      /\ \A i, j \in 1..Cardinality(S) : t[i] = t[j] => i = j
  BY ListHasAll
<1>5. u \in [1..Cardinality(K) -> K] /\ \A i \in 1..Cardinality(K) : u[i] = key[t[i]] /\ t[i] \in S
  BY <1>3, <1>4
<1>6. \A i, j \in 1..Cardinality(K) : i # j => u[i] # u[j]
  BY <1>3, <1>4, <1>5
<1> QED
  BY <1>3, <1>5, <1>6 DEF SetToSeqs

Kinds == {"normal", "semantic"}
Told(k) == CHOOSE r \in resumes : r.id = k
Rates(mode) == [k \in Nat |-> IF mode = "semantic" THEN Distance[Told(k).facts] ELSE 0 - k]

\* What a search finds has keys of its own, and their rates give its order.
LEMMA FoundRows ==
    ASSUME PoolInv, NEW mode \in Kinds, NEW f
    PROVE  /\ IsFiniteSet(Found(mode, f))
           /\ \A r \in Found(mode, f) : /\ Key(mode, r) \in Nat /\ Rates(mode)[Key(mode, r)] \in Int
                                        /\ r \in resumes /\ r.status = "PARSED"
           /\ \A r, q \in Found(mode, f) :
                  /\ Key(mode, r) = Key(mode, q) => r = q
                  /\ Before(mode, r, q) <=> Rates(mode)[Key(mode, r)] < Rates(mode)[Key(mode, q)]
<1>1. ASSUME NEW r \in Found(mode, f) PROVE r \in Picked
  BY DEF Found, Hits
<1>2. ASSUME NEW r \in Found(mode, f)
      PROVE  /\ r \in resumes /\ r.status = "PARSED" /\ r.facts \in Contents /\ r.id \in Nat
             /\ r.who \in Nat /\ Told(r.id) = r /\ Distance[r.facts] \in Int
             /\ \A q \in Found(mode, f) : /\ q.who = r.who => q = r
                                          /\ q.id = r.id => q = r
  <2>1. /\ r \in resumes /\ r.status = "PARSED" /\ r.facts \in Contents /\ r.who \in People
        /\ \A q \in Picked : q.who = r.who => q = r
    BY <1>1, PickedRows
  <2>2. r.id \in Nat /\ \A q \in resumes : q.id = r.id => q = r
    BY <2>1 DEF PoolInv, RowsGood, PoolResume
  <2>3. Told(r.id) = r
    BY <2>1, <2>2 DEF Told
  <2>4. r.who \in Nat /\ Distance[r.facts] \in Int
    BY <2>1, PoolAssumption
  <2>5. \A q \in Found(mode, f) : q \in Picked /\ q \in resumes
    BY <1>1, PickedRows
  <2> QED
    BY <2>1, <2>2, <2>3, <2>4, <2>5
<1>3. IsFiniteSet(Found(mode, f))
  <2>1. Found(mode, f) \in SUBSET resumes
    BY <1>2
  <2> QED
    BY <2>1, FS_Subset DEF PoolInv, RowsGood
<1>4. ASSUME NEW r \in Found(mode, f)
      PROVE  Key(mode, r) \in Nat /\ Rates(mode)[Key(mode, r)]
                                       = IF mode = "semantic" THEN Distance[r.facts] ELSE 0 - r.who
  BY <1>2 DEF Key, Rates
<1>5. ASSUME NEW r \in Found(mode, f) PROVE Rates(mode)[Key(mode, r)] \in Int
  BY <1>2, <1>4
<1>6. ASSUME NEW r \in Found(mode, f), NEW q \in Found(mode, f)
      PROVE  Key(mode, r) = Key(mode, q) => r = q
  BY <1>2 DEF Key
<1>7. ASSUME NEW r \in Found(mode, f), NEW q \in Found(mode, f)
      PROVE  Before(mode, r, q) <=> Rates(mode)[Key(mode, r)] < Rates(mode)[Key(mode, q)]
  <2>1. r.who \in Nat /\ q.who \in Nat
    BY <1>2
  <2> QED
    BY <1>4, <2>1 DEF Before
<1> QED
  BY <1>2, <1>3, <1>4, <1>5, <1>6, <1>7

\* One page of a search, in keys.
LEMMA PageOfKeys ==
    ASSUME PoolInv, NEW mode \in Kinds, NEW f, NEW n \in Nat, NEW list \in Pages(mode, f, n + 1),
           NEW page, page = [i \in DOMAIN list |-> Key(mode, list[i])],
           NEW K, K = Keys(mode, Found(mode, f))
    PROVE  /\ IsFiniteSet(K) /\ K \subseteq Nat /\ page \in Seq(Nat)
           /\ Len(page) < PageSize => Cardinality(K) < Upto(n + 1)
           /\ \A k \in K : Alone(K, Rates(mode), k) =>
                  (k \in ToSet(page)
                      <=> Upto(n) <= Ahead(K, Rates(mode), k) /\ Ahead(K, Rates(mode), k) < Upto(n + 1))
<1> DEFINE S == Found(mode, f)
<1>1. /\ IsFiniteSet(S)
      /\ \A r \in S : Key(mode, r) \in Nat /\ Rates(mode)[Key(mode, r)] \in Int
      /\ \A r, q \in S : /\ Key(mode, r) = Key(mode, q) => r = q
                         /\ Before(mode, r, q) <=> Rates(mode)[Key(mode, r)] < Rates(mode)[Key(mode, q)]
  BY FoundRows
<1> HIDE DEF S
<1>2. PICK t \in SetToSeqs(S) :
        /\ \A i, j \in DOMAIN t : i < j => ~Before(mode, t[j], t[i])
        /\ list = SubSeq(t, Upto(n) + 1, Min({Upto(n + 1), Len(t)}))
  <2>1. PICK m \in Nat : m = n + 1
    OBVIOUS
  <2>2. PICK t \in SetToSeqs(S) :
          /\ \A i, j \in DOMAIN t : i < j => ~Before(mode, t[j], t[i])
          /\ list = SubSeq(t, (m - 1) * PageSize + 1, Min({m * PageSize, Len(t)}))
    BY <2>1 DEF Pages, S
  <2>3. m - 1 = n
    BY <2>1
  <2> QED
    BY <2>1, <2>2, <2>3 DEF Upto
<1>3. PICK size \in Nat : size = Cardinality(S)
  BY <1>1, FS_CardinalityType
<1>4. t \in [1..size -> S] /\ DOMAIN t = 1..size /\ Len(t) = size
  <2>1. t \in [1..size -> S] /\ DOMAIN t = 1..size
    BY <1>1, <1>3, ListHasAll
  <2> QED
    BY <2>1
<1>5. PICK key : key = [r \in S |-> Key(mode, r)]
  OBVIOUS
<1>6. key \in [S -> Nat] /\ (\A r \in S : key[r] = Key(mode, r)) /\ K = {key[r] : r \in S}
  <2>1. K = {Key(mode, r) : r \in S}
    BY DEF Keys, S
  <2> QED
    BY <1>1, <1>5, <2>1
<1>7. PICK u : u = [i \in DOMAIN t |-> key[t[i]]]
  OBVIOUS
<1>8. IsFiniteSet(K) /\ Cardinality(K) = size /\ u \in SetToSeqs(K)
  <2>1. \A r, q \in S : key[r] = key[q] => r = q
    BY <1>1, <1>6
  <2> QED
    BY <1>1, <1>3, <1>6, <1>7, <2>1, ListOfKeys
<1>9. DOMAIN u = 1..size /\ \A i \in 1..size : t[i] \in S /\ u[i] = Key(mode, t[i])
  BY <1>4, <1>6, <1>7
<1>10. K \subseteq Nat /\ \A k \in K : Rates(mode)[k] \in Int
  BY <1>1, <1>6
<1>11. InOrder(u, Rates(mode))
  <2> SUFFICES ASSUME NEW i \in 1..size, NEW j \in 1..size, i < j
               PROVE  Rates(mode)[u[i]] <= Rates(mode)[u[j]]
    BY <1>9 DEF InOrder
  <2>1. ~Before(mode, t[j], t[i]) /\ t[i] \in S /\ t[j] \in S
    BY <1>2, <1>4, <1>9
  <2>2. /\ ~(Rates(mode)[Key(mode, t[j])] < Rates(mode)[Key(mode, t[i])])
        /\ Rates(mode)[Key(mode, t[j])] \in Int /\ Rates(mode)[Key(mode, t[i])] \in Int
    BY <1>1, <2>1
  <2> QED
    BY <1>9, <2>2
<1>12. PICK from \in Nat : from = Upto(n) /\ Upto(n + 1) = from + PageSize /\ PageSize \in Nat /\ PageSize > 0
  BY OnePageMore
<1>13. /\ list \in Seq(S) /\ DOMAIN list = 1..Len(list)
       /\ \A i \in DOMAIN list : from + i \in 1..size /\ from + i <= from + PageSize /\ list[i] = t[from + i]
       /\ \A j \in 1..size : from < j /\ j <= from + PageSize => j - from \in DOMAIN list
       /\ Len(list) < PageSize => size < from + PageSize
  <2>1. IsCut(list, t, size, from, PageSize)
    BY <1>2, <1>4, <1>12 DEF IsCut
  <2>2. list \in Seq(S) /\ DOMAIN list = 1..Len(list)
    BY <1>4, <1>12, <2>1, PageCut
  <2>3. Takes(list, t, size, from, PageSize)
    BY <1>4, <1>12, <2>1, PageCut
  <2>4. /\ \A j \in 1..size : from < j /\ j <= from + PageSize => j - from \in DOMAIN list
        /\ Len(list) < PageSize => size < from + PageSize
    BY <1>4, <1>12, <2>1, PageCut
  <2> QED
    BY <2>2, <2>3, <2>4 DEF Takes
<1>14. /\ page \in Seq(Nat) /\ DOMAIN page = DOMAIN list /\ Len(page) = Len(list)
       /\ \A i \in DOMAIN page : page[i] = u[from + i]
  <2>1. \A i \in DOMAIN list : list[i] \in S /\ page[i] = Key(mode, list[i]) /\ page[i] = u[from + i]
    BY <1>9, <1>13
  <2>2. Len(list) \in Nat
    BY <1>13, LenProperties
  <2>3. page \in [1..Len(list) -> Nat]
    BY <1>1, <1>13, <2>1
  <2> QED
    BY <1>13, <2>1, <2>2, <2>3
<1>15. ASSUME NEW k \in K
       PROVE  k \in ToSet(page) <=> \E i \in DOMAIN u : from < i /\ i <= from + PageSize /\ u[i] = k
  <2>1. ASSUME k \in ToSet(page) PROVE \E i \in DOMAIN u : from < i /\ i <= from + PageSize /\ u[i] = k
    <3>1. PICK i \in DOMAIN page : page[i] = k
      BY <2>1 DEF ToSet
    <3>2. from + i \in 1..size /\ from + i <= from + PageSize /\ u[from + i] = k /\ i \in Nat /\ 1 <= i
      BY <1>13, <1>14, <3>1
    <3>3. from < from + i
      BY <3>2
    <3> QED
      BY <1>9, <3>2, <3>3
  <2>2. ASSUME NEW i \in DOMAIN u, from < i, i <= from + PageSize, u[i] = k PROVE k \in ToSet(page)
    <3>1. i - from \in DOMAIN page /\ from + (i - from) = i
      BY <1>9, <1>13, <1>14, <2>2
    <3>2. page[i - from] = k
      BY <1>14, <2>2, <3>1
    <3> QED
      BY <3>1, <3>2 DEF ToSet
  <2> QED
    BY <2>1, <2>2
<1>16. ASSUME NEW k \in K, Alone(K, Rates(mode), k)
       PROVE  k \in ToSet(page) <=> from <= Ahead(K, Rates(mode), k) /\ Ahead(K, Rates(mode), k) < from + PageSize
  <2>1. (\E i \in DOMAIN u : from < i /\ i <= from + PageSize /\ u[i] = k)
           <=> from <= Ahead(K, Rates(mode), k) /\ Ahead(K, Rates(mode), k) < from + PageSize
    <3>1. from + PageSize \in Nat
      BY <1>12
    <3> QED
      BY <1>8, <1>10, <1>11, <1>16, <3>1, PageHolds
  <2> QED
    BY <1>15, <2>1
<1> QED
  BY <1>8, <1>10, <1>12, <1>13, <1>14, <1>16

LEMMA AheadIn ==
    ASSUME NEW K, IsFiniteSet(K), NEW rate, \A x \in K : rate[x] \in Int, NEW k \in K
    PROVE  Ahead(K, rate, k) \in Nat /\ Ahead(K, rate, k) < Cardinality(K)
<1> DEFINE A == {x \in K : rate[x] < rate[k]}
<1>1. A \in SUBSET K /\ k \notin A
  OBVIOUS
<1> HIDE DEF A
<1>2. IsFiniteSet(A) /\ Cardinality(A) <= Cardinality(K) /\ Cardinality(A) # Cardinality(K)
  BY <1>1, FS_Subset
<1>3. Cardinality(A) \in Nat /\ Cardinality(K) \in Nat
  BY <1>2, FS_CardinalityType
<1> QED
  BY <1>2, <1>3 DEF Ahead, A

LEMMA AheadOfMore ==
    ASSUME NEW L, IsFiniteSet(L), NEW K \in SUBSET L, NEW rate, NEW k
    PROVE  /\ Ahead(K, rate, k) \in Nat /\ Ahead(L, rate, k) \in Nat
           /\ Ahead(K, rate, k) <= Ahead(L, rate, k)
<1> DEFINE A == {x \in K : rate[x] < rate[k]}
           B == {x \in L : rate[x] < rate[k]}
<1>1. A \in SUBSET B /\ B \in SUBSET L
  OBVIOUS
<1> HIDE DEF A, B
<1>2. IsFiniteSet(B)
  BY <1>1, FS_Subset
<1>3. IsFiniteSet(A) /\ Cardinality(A) <= Cardinality(B)
  BY <1>1, <1>2, FS_Subset
<1>4. Cardinality(A) \in Nat /\ Cardinality(B) \in Nat
  BY <1>2, <1>3, FS_CardinalityType
<1> QED
  BY <1>3, <1>4 DEF Ahead, A, B

\* Whoever has been in the crowd all along, at no other's distance; the pages that show a key.
Steady(w) == w.crowd \ (w.came \cup (IF w.kind = "semantic" THEN w.twins ELSE {}))
ShownOn(w, k) == {n \in DOMAIN w.pages : k \in ToSet(w.pages[n])}

PageWalks == [kind : Kinds, filter : Filters \cup {NoFilter}, pages : Seq(Seq(Nat)),
              crowd : SUBSET Nat, came : SUBSET Nat, went : SUBSET Nat, twins : SUBSET Nat]

\* With nobody gone, who has not been shown stands behind the pages read; with nobody come, who
\* has been shown was shown once, and stands before their end.
Placed(w, rate, k, behind) ==
    /\ w.went = {} => ShownOn(w, k) # {} \/ behind <= Ahead(w.crowd, rate, k)
    /\ w.came = {} =>
           /\ \A i, j \in ShownOn(w, k) : i = j
           /\ ShownOn(w, k) # {} => Ahead(w.crowd, rate, k) < behind

WalkWell(w, rate) ==
    /\ w.pages # <<>> /\ IsFiniteSet(w.crowd) /\ \A k \in w.crowd : rate[k] \in Int
    /\ Len(Last(w.pages)) < PageSize => Cardinality(w.crowd) < Upto(Len(w.pages))
    /\ \A k \in Steady(w) : Placed(w, rate, k, Upto(Len(w.pages)))

Listed(w) == w.kind = "semantic" => \A k \in w.crowd : \E r \in resumes : r.id = k /\ r.status = "PARSED"

WalkInv == walk # Unset => walk \in PageWalks /\ WalkWell(walk, Rates(walk.kind)) /\ Listed(walk)

\* Who is no twin is alone at his distance.
LEMMA NoTwinIsAlone ==
    ASSUME PoolInv, NEW mode \in Kinds, NEW f, NEW K, K = Keys(mode, Found(mode, f)), NEW k \in K,
           mode = "semantic" => k \notin Twins(Found(mode, f))
    PROVE  Alone(K, Rates(mode), k)
<1> SUFFICES ASSUME NEW x \in K, x # k PROVE Rates(mode)[x] # Rates(mode)[k]
  BY DEF Alone
<1>1. PICK r \in Found(mode, f) : k = Key(mode, r)
  BY DEF Keys
<1>2. PICK q \in Found(mode, f) : x = Key(mode, q)
  BY DEF Keys
<1>3. CASE mode = "semantic"
  <2>1. k = r.id /\ x = q.id /\ q # r
    BY <1>1, <1>2, <1>3 DEF Key
  <2>2. Distance[q.facts] # Distance[r.facts]
    BY <1>3, <2>1 DEF Twins
  <2>3. /\ r \in resumes /\ q \in resumes
        /\ \A s \in resumes : /\ s.id = r.id => s = r
                              /\ s.id = q.id => s = q
    BY FoundRows DEF PoolInv, RowsGood
  <2>4. Told(k) = r /\ Told(x) = q
    BY <2>1, <2>3 DEF Told
  <2>5. k \in Nat /\ x \in Nat
    BY <1>1, <1>2, FoundRows
  <2> QED
    BY <1>3, <2>2, <2>4, <2>5 DEF Rates
<1>4. CASE mode = "normal"
  <2>1. k \in Nat /\ x \in Nat
    BY <1>1, <1>2, FoundRows
  <2> QED
    BY <1>4, <2>1 DEF Rates
<1> QED
  BY <1>3, <1>4 DEF Kinds

\* Who is in the crowd of a search has a rate; in Semantic Search, a parsed resume.
LEMMA CrowdListed ==
    ASSUME PoolInv, NEW mode \in Kinds, NEW f, NEW k \in Keys(mode, Found(mode, f))
    PROVE  /\ Rates(mode)[k] \in Int
           /\ mode = "semantic" => \E r \in resumes : r.id = k /\ r.status = "PARSED"
<1>1. PICK r \in Found(mode, f) : k = Key(mode, r)
  BY DEF Keys
<1> QED
  BY <1>1, FoundRows DEF Key

LEMMA TwinsAreIds ==
    ASSUME PoolInv, NEW mode \in Kinds, NEW f
    PROVE  Twins(Found(mode, f)) \subseteq Nat
<1>1. \A r \in Found(mode, f) : r.id \in Nat
  BY FoundRows DEF PoolInv, RowsGood, PoolResume
<1> QED
  BY <1>1 DEF Twins

PageKeys(mode, list) == [i \in DOMAIN list |-> Key(mode, list[i])]

\* What a page shows, as PageOfKeys has it.
Shows(page, K, rate, from, upto, T) ==
    /\ IsFiniteSet(K) /\ K \subseteq Nat /\ page \in Seq(Nat) /\ \A k \in K : rate[k] \in Int
    /\ Len(page) < PageSize => Cardinality(K) < upto
    /\ \A k \in K : k \notin T => (k \in ToSet(page) <=> from <= Ahead(K, rate, k) /\ Ahead(K, rate, k) < upto)

LEMMA SearchShows ==
    ASSUME PoolInv, NEW mode \in Kinds, NEW f, NEW n \in Nat, NEW list \in Pages(mode, f, n + 1),
           NEW page, page = PageKeys(mode, list), NEW K, K = Keys(mode, Found(mode, f)),
           NEW T, mode = "semantic" => Twins(Found(mode, f)) \subseteq T
    PROVE  Shows(page, K, Rates(mode), Upto(n), Upto(n + 1), IF mode = "semantic" THEN T ELSE {})
<1>1. /\ IsFiniteSet(K) /\ K \subseteq Nat /\ page \in Seq(Nat)
      /\ Len(page) < PageSize => Cardinality(K) < Upto(n + 1)
  BY PageOfKeys DEF PageKeys
<1>2. \A k \in K : Rates(mode)[k] \in Int
  BY CrowdListed
<1>3. ASSUME NEW k \in K, k \notin (IF mode = "semantic" THEN T ELSE {})
      PROVE  k \in ToSet(page)
               <=> Upto(n) <= Ahead(K, Rates(mode), k) /\ Ahead(K, Rates(mode), k) < Upto(n + 1)
  <2>1. Alone(K, Rates(mode), k)
    BY <1>3, NoTwinIsAlone
  <2> QED
    BY <2>1, PageOfKeys DEF PageKeys
<1> QED
  BY <1>1, <1>2, <1>3 DEF Shows

LEMMA WalkBegins ==
    ASSUME NEW mode \in Kinds, NEW f \in Filters \cup {NoFilter}, NEW page, NEW K, NEW rate, NEW T \in SUBSET Nat,
           Shows(page, K, rate, Upto(0), Upto(1), IF mode = "semantic" THEN T ELSE {}),
           NEW w, w = [kind |-> mode, filter |-> f, pages |-> <<page>>, crowd |-> K,
                       came |-> {}, went |-> {}, twins |-> T]
    PROVE  w \in PageWalks /\ WalkWell(w, rate)
<1>1. /\ w.kind = mode /\ w.pages = <<page>> /\ w.crowd = K /\ w.came = {} /\ w.went = {} /\ w.twins = T
      /\ Len(w.pages) = 1 /\ DOMAIN w.pages = {1} /\ w.pages[1] = page
  OBVIOUS
<1>2. w \in PageWalks
  BY DEF PageWalks, Shows
<1>3. Last(w.pages) = page
  BY <1>1 DEF Last
<1>4. Upto(0) = 0 /\ Upto(1) \in Nat
  BY PoolAssumption DEF Upto
<1>5. ASSUME NEW k \in Steady(w) PROVE Placed(w, rate, k, Upto(1))
  <2>1. k \in K /\ k \notin (IF mode = "semantic" THEN T ELSE {})
    BY <1>1 DEF Steady
  <2>2. Ahead(K, rate, k) \in Nat
    BY <2>1, AheadIn DEF Shows
  <2>3. k \in ToSet(page) <=> Ahead(K, rate, k) < Upto(1)
    BY <1>4, <2>1, <2>2 DEF Shows
  <2>4. ShownOn(w, k) = IF k \in ToSet(page) THEN {1} ELSE {}
    BY <1>1 DEF ShownOn
  <2>5. ShownOn(w, k) # {} <=> Ahead(K, rate, k) < Upto(1)
    BY <2>3, <2>4
  <2>6. \A i, j \in ShownOn(w, k) : i = j
    BY <2>4
  <2>7. ShownOn(w, k) # {} \/ Upto(1) <= Ahead(K, rate, k)
    BY <1>4, <2>2, <2>5
  <2> QED
    BY <1>1, <2>5, <2>6, <2>7 DEF Placed
<1> QED
  BY <1>1, <1>2, <1>3, <1>5 DEF WalkWell, Shows

\* The walk with one more page read.
Onward(w, page, K, T) == [w EXCEPT !.pages = Append(@, page), !.crowd = K, !.twins = @ \cup T,
                                   !.came = @ \cup (K \ w.crowd), !.went = @ \cup (w.crowd \ K)]

\* The next page: nobody who stays is skipped unless somebody went, or shown again unless somebody came.
LEMMA WalkGoesOn ==
    ASSUME NEW w \in PageWalks, NEW rate, WalkWell(w, rate), NEW n \in Nat, n = Len(w.pages),
           NEW page, NEW K, NEW T \in SUBSET Nat,
           Shows(page, K, rate, Upto(n), Upto(n + 1), IF w.kind = "semantic" THEN w.twins \cup T ELSE {}),
           NEW v, v = Onward(w, page, K, T)
    PROVE  v \in PageWalks /\ WalkWell(v, rate)
<1>1. /\ v.kind = w.kind /\ v.filter = w.filter /\ v.pages = Append(w.pages, page) /\ v.crowd = K
      /\ v.came = w.came \cup (K \ w.crowd) /\ v.went = w.went \cup (w.crowd \ K) /\ v.twins = w.twins \cup T
  BY DEF PageWalks, Onward
<1>2. w.pages \in Seq(Seq(Nat)) /\ page \in Seq(Nat) /\ w.crowd \subseteq Nat /\ K \subseteq Nat
  BY DEF PageWalks, Shows
<1>3. /\ v.pages \in Seq(Seq(Nat)) /\ Len(v.pages) = n + 1 /\ DOMAIN v.pages = 1..(n + 1)
      /\ DOMAIN w.pages = 1..n /\ v.pages[n + 1] = page /\ \A i \in 1..n : v.pages[i] = w.pages[i]
  BY <1>1, <1>2
<1>4. v \in PageWalks
  <2>1. v = [kind |-> v.kind, filter |-> v.filter, pages |-> v.pages, crowd |-> v.crowd,
             came |-> v.came, went |-> v.went, twins |-> v.twins]
    BY DEF PageWalks, Onward
  <2>2. w.kind \in Kinds /\ w.filter \in Filters \cup {NoFilter} /\ w.came \subseteq Nat /\ w.went \subseteq Nat
        /\ w.twins \subseteq Nat
    BY DEF PageWalks
  <2> QED
    BY <1>1, <1>2, <1>3, <2>1, <2>2 DEF PageWalks
<1>5. v.pages # <<>> /\ Last(v.pages) = page
  <2>1. n + 1 # 0 /\ Len(v.pages) = n + 1
    BY <1>3
  <2>2. v.pages # <<>>
    BY <2>1
  <2>3. Last(v.pages) = page
    BY <1>3 DEF Last
  <2> QED
    BY <2>2, <2>3
<1>6. Upto(n) \in Nat /\ Upto(n + 1) \in Nat /\ Upto(n) <= Upto(n + 1)
  BY OnePageMore
<1>7. ASSUME NEW k \in Steady(v) PROVE Placed(v, rate, k, Upto(n + 1))
  <2>1. k \in K /\ k \notin (IF w.kind = "semantic" THEN w.twins \cup T ELSE {})
    BY <1>1, <1>7 DEF Steady
  <2>2. k \in Steady(w)
    BY <1>1, <1>7 DEF Steady
  <2>3. Placed(w, rate, k, Upto(n))
    BY <2>2 DEF WalkWell
  <2>4. Ahead(K, rate, k) \in Nat /\ Ahead(w.crowd, rate, k) \in Nat
    BY AheadOfMore DEF WalkWell, Shows
  <2>5. k \in ToSet(page) <=> Upto(n) <= Ahead(K, rate, k) /\ Ahead(K, rate, k) < Upto(n + 1)
    BY <2>1 DEF Shows
  <2>6. ShownOn(v, k) = ShownOn(w, k) \cup (IF k \in ToSet(page) THEN {n + 1} ELSE {})
    <3>1. ASSUME NEW i \in 1..(n + 1) PROVE i \in 1..n \/ i = n + 1
      OBVIOUS
    <3>2. \A i \in 1..n : i \in 1..(n + 1)
      OBVIOUS
    <3>3. n + 1 \in 1..(n + 1)
      OBVIOUS
    <3> QED
      BY <1>3, <3>1, <3>2, <3>3 DEF ShownOn
  <2>7. v.went = {} => ShownOn(v, k) # {} \/ Upto(n + 1) <= Ahead(K, rate, k)
    <3> SUFFICES ASSUME v.went = {}, ShownOn(w, k) = {}, ~(Upto(n + 1) <= Ahead(K, rate, k))
                 PROVE  k \in ToSet(page)
      BY <2>6
    <3>1. w.went = {} /\ w.crowd \in SUBSET K
      BY <1>1
    <3>2. Upto(n) <= Ahead(w.crowd, rate, k)
      BY <2>3, <3>1 DEF Placed
    <3>3. Ahead(w.crowd, rate, k) <= Ahead(K, rate, k)
      BY <3>1, AheadOfMore DEF Shows
    <3> QED
      BY <1>6, <2>4, <2>5, <3>2, <3>3
  <2>8. ASSUME v.came = {}
        PROVE  /\ \A i, j \in ShownOn(v, k) : i = j
               /\ ShownOn(v, k) # {} => Ahead(K, rate, k) < Upto(n + 1)
    <3>1. w.came = {} /\ K \in SUBSET w.crowd
      BY <1>1, <2>8
    <3>2. /\ \A i, j \in ShownOn(w, k) : i = j
          /\ ShownOn(w, k) # {} => Ahead(w.crowd, rate, k) < Upto(n)
      BY <2>3, <3>1 DEF Placed
    <3>3. Ahead(K, rate, k) <= Ahead(w.crowd, rate, k)
      BY <3>1, AheadOfMore DEF WalkWell
    <3>4. CASE ShownOn(w, k) # {}
      <4>1. Ahead(K, rate, k) < Upto(n)
        BY <1>6, <2>4, <3>2, <3>3, <3>4
      <4>2. k \notin ToSet(page) /\ Ahead(K, rate, k) < Upto(n + 1)
        BY <1>6, <2>4, <2>5, <4>1
      <4> QED
        BY <2>6, <3>2, <4>2
    <3>5. CASE ShownOn(w, k) = {}
      BY <2>5, <2>6, <3>5
    <3> QED
      BY <3>4, <3>5
  <2> QED
    BY <1>1, <2>7, <2>8 DEF Placed
<1> QED
  BY <1>1, <1>3, <1>4, <1>5, <1>7 DEF WalkWell, Shows

LEMMA OpenSearchWalks ==
    ASSUME PoolInv, NEW mode \in Kinds, NEW f \in Filters \cup {NoFilter}, OpenSearch(mode, f)
    PROVE  WalkInv'
<1>l. PICK list \in Pages(mode, f, 1) :
        walk' = [kind |-> mode, filter |-> f, pages |-> <<PageKeys(mode, list)>>,
                 crowd |-> Keys(mode, Found(mode, f)), came |-> {}, went |-> {}, twins |-> Twins(Found(mode, f))]
  BY DEF OpenSearch, PageKeys
<1>k. PICK K, T, page : K = Keys(mode, Found(mode, f)) /\ T = Twins(Found(mode, f)) /\ page = PageKeys(mode, list)
  OBVIOUS
<1>1. walk' = [kind |-> mode, filter |-> f, pages |-> <<page>>, crowd |-> K,
               came |-> {}, went |-> {}, twins |-> T]
  BY <1>l, <1>k
<1>2. UNCHANGED <<resumes, members, clock, model>>
  BY DEF OpenSearch
<1>3. T \in SUBSET Nat
  BY <1>k, TwinsAreIds
<1>4. Shows(page, K, Rates(mode), Upto(0), Upto(1), IF mode = "semantic" THEN T ELSE {})
  <2>1. PICK n \in Nat : n = 0
    OBVIOUS
  <2>2. n + 1 = 1
    BY <2>1
  <2>3. Shows(page, K, Rates(mode), Upto(n), Upto(n + 1), IF mode = "semantic" THEN T ELSE {})
    BY <1>k, <2>2, SearchShows
  <2> QED
    BY <2>1, <2>2, <2>3
<1>5. PICK w, rate : w = walk' /\ rate = Rates(mode)
  OBVIOUS
<1>6. w \in PageWalks /\ WalkWell(w, rate)
  BY <1>1, <1>3, <1>4, <1>5, WalkBegins
<1>7. w.kind = mode /\ w.crowd = K
  BY <1>1, <1>5
<1>8. Rates(mode)' = rate
  BY <1>2, <1>5 DEF Rates, Told
<1>9. mode = "semantic" => \A k \in K : \E r \in resumes : r.id = k /\ r.status = "PARSED"
  BY <1>k, CrowdListed
<1> QED
  BY <1>2, <1>5, <1>6, <1>7, <1>8, <1>9 DEF WalkInv, Listed

LEMMA TurnWalks == ASSUME PoolInv, WalkInv, Turn PROVE WalkInv'
<1>1. PICK w, mode, f, n : w = walk /\ mode = w.kind /\ f = w.filter /\ n = Len(w.pages)
  OBVIOUS
<1>2. w \in PageWalks /\ WalkWell(w, Rates(mode)) /\ mode \in Kinds /\ n \in Nat
  <2>1. w \in PageWalks /\ WalkWell(w, Rates(mode))
    BY <1>1 DEF Turn, WalkInv
  <2>2. w.pages \in Seq(Seq(Nat)) /\ w.kind \in Kinds
    BY <2>1 DEF PageWalks
  <2> QED
    BY <1>1, <2>1, <2>2
<1>l. PICK list \in Pages(walk.kind, walk.filter, Len(walk.pages) + 1) :
        walk' = Onward(walk, PageKeys(walk.kind, list), Keys(walk.kind, Found(walk.kind, walk.filter)),
                       Twins(Found(walk.kind, walk.filter)))
  BY DEF Turn, PageKeys, Onward
<1>k. PICK K, T, page, v : /\ K = Keys(mode, Found(mode, f)) /\ T = Twins(Found(mode, f))
                           /\ page = PageKeys(mode, list) /\ v = walk'
  OBVIOUS
<1>3. list \in Pages(mode, f, n + 1) /\ v = Onward(w, page, K, T)
  BY <1>1, <1>l, <1>k
<1>4. UNCHANGED <<resumes, members, clock, model>>
  BY DEF Turn
<1>5. T \in SUBSET Nat
  BY <1>2, <1>k, TwinsAreIds
<1>6. PICK rate : rate = Rates(mode)
  OBVIOUS
<1>7. Shows(page, K, rate, Upto(n), Upto(n + 1), IF w.kind = "semantic" THEN w.twins \cup T ELSE {})
  <2>1. PICK U : U = w.twins \cup T
    OBVIOUS
  <2>2. mode = "semantic" => Twins(Found(mode, f)) \subseteq U
    BY <1>k, <2>1
  <2>3. Shows(page, K, Rates(mode), Upto(n), Upto(n + 1), IF mode = "semantic" THEN U ELSE {})
    BY <1>2, <1>3, <1>k, <2>2, SearchShows
  <2> QED
    BY <1>1, <1>6, <2>1, <2>3
<1>8. v \in PageWalks /\ WalkWell(v, rate)
  <2>1. w \in PageWalks /\ WalkWell(w, rate) /\ n \in Nat /\ n = Len(w.pages)
    BY <1>1, <1>2, <1>6
  <2>2. v = Onward(w, page, K, T)
    BY <1>3
  <2> QED
    BY <1>5, <1>7, <2>1, <2>2, WalkGoesOn
<1>9. v.kind = mode /\ v.crowd = K
  BY <1>1, <1>2, <1>3 DEF PageWalks, Onward
<1>10. Rates(mode)' = rate
  BY <1>4, <1>6 DEF Rates, Told
<1>11. mode = "semantic" => \A k \in K : \E r \in resumes : r.id = k /\ r.status = "PARSED"
  BY <1>2, <1>k, CrowdListed
<1> QED
  BY <1>4, <1>8, <1>9, <1>10, <1>11, <1>k DEF WalkInv, Listed

LEMMA WritesLeaveWalk == ASSUME PoolInv, PoolInv', WalkInv, ParsedStay, walk' = walk PROVE WalkInv'
<1> SUFFICES ASSUME walk # Unset PROVE (walk \in PageWalks /\ WalkWell(walk, Rates(walk.kind)) /\ Listed(walk))'
  BY DEF WalkInv
<1>1. PICK w, mode, rate, new : w = walk /\ mode = w.kind /\ rate = Rates(mode) /\ new = Rates(mode)'
  OBVIOUS
<1>2. w \in PageWalks /\ WalkWell(w, rate) /\ Listed(w)
  BY <1>1 DEF WalkInv
<1>3. mode \in Kinds /\ w.crowd \subseteq Nat
  BY <1>1, <1>2 DEF PageWalks
<1>4. Listed(w)'
  BY <1>2 DEF Listed, ParsedStay
<1>5. ASSUME NEW k \in w.crowd PROVE rate[k] = new[k]
  <2>1. CASE mode = "semantic"
    <3>1. PICK r \in resumes : r.id = k /\ r.status = "PARSED"
      BY <1>1, <1>2, <2>1 DEF Listed
    <3>2. PICK q \in resumes' : q.id = k /\ q.facts = r.facts
      BY <3>1 DEF ParsedStay
    <3>3. Told(k) = r
      BY <3>1 DEF Told, PoolInv, RowsGood
    <3>4. Told(k)' = q
      BY <3>2 DEF Told, PoolInv, RowsGood
    <3>5. rate[k] = Distance[Told(k).facts] /\ new[k] = Distance[Told(k)'.facts]
      BY <1>1, <1>3, <2>1 DEF Rates
    <3> QED
      BY <3>2, <3>3, <3>4, <3>5
  <2>2. CASE mode # "semantic"
    BY <1>1, <1>3, <2>2 DEF Rates
  <2> QED
    BY <2>1, <2>2
<1>6. \A k \in w.crowd : Ahead(w.crowd, new, k) = Ahead(w.crowd, rate, k)
  <2> SUFFICES ASSUME NEW k \in w.crowd
               PROVE  {x \in w.crowd : new[x] < new[k]} = {x \in w.crowd : rate[x] < rate[k]}
    BY DEF Ahead
  <2> QED
    BY <1>5
<1>7. \A k \in Steady(w) : k \in w.crowd
  BY DEF Steady
<1>8. WalkWell(w, new)
  <2>1. \A k \in Steady(w) : Placed(w, new, k, Upto(Len(w.pages)))
    BY <1>2, <1>6, <1>7 DEF WalkWell, Placed
  <2> QED
    BY <1>2, <1>5, <2>1 DEF WalkWell
<1> QED
  BY <1>1, <1>2, <1>4, <1>8

LEMMA WalkInductive == ASSUME PoolInv, WalkInv, [PoolNext]_poolVars PROVE WalkInv'
<1>0. PoolInv'
  BY PoolInductive
<1>1. CASE Turn
  BY <1>1, TurnWalks
<1>2. CASE \/ \E f \in Filters : OpenSearch("normal", f)
           \/ OpenSearch("semantic", NoFilter)
  <2>1. "normal" \in Kinds /\ "semantic" \in Kinds
    BY DEF Kinds
  <2> QED
    BY <1>2, <2>1, OpenSearchWalks
<1>3. CASE SwitchModel \/ Age \/ FillOptions \/ ExpireOptions \/ UNCHANGED poolVars
  <2>1. walk' = walk /\ UNCHANGED resumes
    BY <1>3 DEF SwitchModel, Age, FillOptions, ExpireOptions, poolVars
  <2> QED
    BY <1>0, <2>1, RowsLeftAlone, WritesLeaveWalk
<1>4. ASSUME NEW p \in People, NEW c \in Active, AddToCampaign(p, c) PROVE WalkInv'
  <2>1. walk' = walk /\ UNCHANGED resumes
    BY <1>4 DEF AddToCampaign
  <2> QED
    BY <1>0, <2>1, RowsLeftAlone, WritesLeaveWalk
<1>5. ASSUME NEW m \in members, Assess(m) PROVE WalkInv'
  <2>1. walk' = walk /\ UNCHANGED resumes
    BY <1>5 DEF Assess
  <2> QED
    BY <1>0, <2>1, RowsLeftAlone, WritesLeaveWalk
<1>6. ASSUME NEW p \in People, Upload(p) PROVE WalkInv'
  <2>1. walk' = walk
    BY <1>6 DEF Upload
  <2> QED
    BY <1>0, <1>6, <2>1, UploadLeaves, WritesLeaveWalk
<1>7. ASSUME NEW p \in People, RequestErasure(p) PROVE WalkInv'
  <2>1. walk' = walk
    BY <1>7 DEF RequestErasure
  <2> QED
    BY <1>0, <1>7, <2>1, RequestErasureLeaves, WritesLeaveWalk
<1>8. CASE ValidatePool
  <2>1. walk' = walk
    BY <1>8 DEF ValidatePool
  <2> QED
    BY <1>0, <1>8, <2>1, ValidatePoolLeaves, WritesLeaveWalk
<1>9. ASSUME NEW r \in resumes, Parse(r) PROVE WalkInv'
  <2>1. walk' = walk
    BY <1>9 DEF Parse
  <2> QED
    BY <1>0, <1>9, <2>1, ParseLeaves, WritesLeaveWalk
<1>10. ASSUME NEW r \in resumes, EmbedResume(r) PROVE WalkInv'
  <2>1. walk' = walk
    BY <1>10 DEF EmbedResume
  <2> QED
    BY <1>0, <1>10, <2>1, EmbedLeaves, WritesLeaveWalk
<1> QED
  BY <1>1, <1>2, <1>3, <1>4, <1>5, <1>6, <1>7, <1>8, <1>9, <1>10 DEF PoolNext

\* At the end of a walk nobody stands behind its pages.
LEMMA EndExplains ==
    ASSUME NEW w \in PageWalks, NEW rate, WalkWell(w, rate), Len(Last(w.pages)) < PageSize, NEW k \in Steady(w)
    PROVE  /\ w.went = {} => Cardinality(ShownOn(w, k)) >= 1
           /\ w.came = {} => Cardinality(ShownOn(w, k)) <= 1
<1>1. IsFiniteSet(ShownOn(w, k)) /\ Cardinality(ShownOn(w, k)) \in Nat
  <2>1. w.pages \in Seq(Seq(Nat))
    BY DEF PageWalks
  <2>2. Len(w.pages) \in Nat /\ DOMAIN w.pages = 1..Len(w.pages)
    BY <2>1
  <2>3. IsFiniteSet(1..Len(w.pages))
    BY <2>2, FS_Interval
  <2>4. ShownOn(w, k) \in SUBSET (1..Len(w.pages))
    BY <2>2 DEF ShownOn
  <2> QED
    BY <2>3, <2>4, FS_Subset, FS_CardinalityType
<1>2. Placed(w, rate, k, Upto(Len(w.pages))) /\ k \in w.crowd
  BY DEF WalkWell, Steady
<1>3. ASSUME w.went = {} PROVE ShownOn(w, k) # {}
  <2>1. Ahead(w.crowd, rate, k) \in Nat /\ Ahead(w.crowd, rate, k) < Cardinality(w.crowd)
    BY <1>2, AheadIn DEF WalkWell
  <2>2. Cardinality(w.crowd) < Upto(Len(w.pages)) /\ Cardinality(w.crowd) \in Nat
    BY FS_CardinalityType DEF WalkWell
  <2>3. w.pages \in Seq(Seq(Nat))
    BY DEF PageWalks
  <2>4. Upto(Len(w.pages)) \in Nat
    BY <2>3, LenProperties, OnePageMore
  <2>5. ~(Upto(Len(w.pages)) <= Ahead(w.crowd, rate, k))
    BY <2>1, <2>2, <2>4
  <2> QED
    BY <1>2, <1>3, <2>5 DEF Placed
<1>4. ASSUME ShownOn(w, k) # {} PROVE Cardinality(ShownOn(w, k)) >= 1
  <2>1. Cardinality(ShownOn(w, k)) # 0
    BY <1>1, <1>4, FS_EmptySet
  <2> QED
    BY <1>1, <2>1
<1>5. ASSUME w.came = {} PROVE Cardinality(ShownOn(w, k)) <= 1
  <2>1. \A i, j \in ShownOn(w, k) : i = j
    BY <1>2, <1>5 DEF Placed
  <2>2. CASE ShownOn(w, k) = {}
    BY <2>2, FS_EmptySet
  <2>3. ASSUME NEW i \in ShownOn(w, k) PROVE Cardinality(ShownOn(w, k)) <= 1
    <3>1. ShownOn(w, k) = {i}
      BY <2>1
    <3>2. Cardinality({i}) = 1
      BY FS_Singleton
    <3> QED
      BY <3>1, <3>2
  <2> QED
    BY <2>2, <2>3
<1> QED
  BY <1>3, <1>4, <1>5

\* A walk through the pages of Normal or Semantic Search, to the last one, shows everybody who has
\* been in the crowd from its first page on, if nobody has gone, and nobody twice, if nobody has
\* come, whatever uploads, parsing, validation, erasure, assessments and time do to the list in between.
THEOREM WalksAreExplained == PoolSpec => []WalkIsExplained
<1>1. PoolInit => WalkInv
  BY DEF PoolInit, WalkInv
<1>2. WalkInv => WalkIsExplained
  <2> SUFFICES ASSUME WalkInv, Ended,
                      NEW k \in walk.crowd \ (walk.came \cup (IF walk.kind = "semantic" THEN walk.twins ELSE {}))
               PROVE  /\ walk.went = {} => Cardinality({n \in DOMAIN walk.pages : k \in ToSet(walk.pages[n])}) >= 1
                      /\ walk.came = {} => Cardinality({n \in DOMAIN walk.pages : k \in ToSet(walk.pages[n])}) <= 1
    BY DEF WalkIsExplained
  <2>1. PICK w, rate : w = walk /\ rate = Rates(walk.kind)
    OBVIOUS
  <2>2. w \in PageWalks /\ WalkWell(w, rate) /\ Len(Last(w.pages)) < PageSize
    BY <2>1 DEF WalkInv, Ended
  <2>3. k \in Steady(w) /\ ShownOn(w, k) = {n \in DOMAIN w.pages : k \in ToSet(w.pages[n])}
    BY <2>1 DEF Steady, ShownOn
  <2>4. /\ w.went = {} => Cardinality(ShownOn(w, k)) >= 1
        /\ w.came = {} => Cardinality(ShownOn(w, k)) <= 1
    BY <2>2, <2>3, EndExplains
  <2> QED
    BY <2>1, <2>3, <2>4
<1> QED
  BY <1>1, <1>2, PoolStarts, PoolInductive, WalkInductive, PTL DEF PoolSpec

-----------------------------------------------------------------------------
(* The trail of a task: types.                                              *)

StageName == ToSet(Stage)
Row == [stage : StageName, attempt : Nat \ {0}, status : {"RUNNING", "SUCCESS", "FAILED", "SKIPPED"}]
Class == {"TRANSIENT", "PERMANENT"}
Failure == [stage : StageName, attempt : Nat \ {0}, class : Class]
Log == [status : Status, retries : Nat]

AtWork == {"run", "stage", "skip", "checkpoint", "record", "decide", "resume", "fail", "done"}
Deciding == {"checkpoint", "record", "decide", "publish", "resume"}
Runs == [at : AtWork \cup {"publish", "ack"}, i : Nat \ {0}, attempt : Nat \ {0}, class : Class \cup {Null},
         from : Nat]

OneEach(rs) ==
    \A i, j \in DOMAIN rs : rs[i].stage = rs[j].stage /\ rs[i].attempt = rs[j].attempt => i = j

TrailTyped ==
    /\ kind \in {"JD", "RESUME"} /\ log \in Log
    /\ rows \in Seq(Row) /\ OneEach(rows) /\ failures \in Seq(Failure)
    /\ checkpoint = Null \/ \E j \in DOMAIN JdStages : checkpoint = JdStages[j]
    /\ kind = "RESUME" => checkpoint = Null
    /\ queue \in Seq(Nat) /\ run \in Runs \cup {AtRest} /\ (run # AtRest => queue # <<>>)
    /\ press \in {"no", "reset", "send"} /\ seen \in Log \cup {Null} /\ upset \in BOOLEAN
    /\ failed \in BOOLEAN /\ (failed => kind = "RESUME")

\* What each place of the worker says of the failure in its hands.
ClassInv ==
    /\ run.at \in {"run", "stage", "skip", "done"} => run.class = Null
    /\ run.at \in AtWork \cup {"publish"} => run.i <= Len(Pipeline) + 1
    /\ run.at \in Deciding \cup {"stage"} => run.i <= Len(Pipeline)
    /\ run.at \in Deciding => run.class # Null
    /\ run.at = "fail" /\ run.class # Null => run.i <= Len(Pipeline)
    /\ run.at = "publish" => ~IsLast
    /\ run.at \in {"resume", "fail"} /\ run.class # Null => IsLast
    /\ run.at \in {"skip", "checkpoint"} => kind = "JD"
    /\ run.at = "resume" => kind = "RESUME"
    /\ run.at = "fail" /\ run.class = Null => kind = "JD"
    /\ run.at \in Deciding \cup {"fail"} /\ run.class # Null =>
           \A i \in Index(Current, run.attempt) : rows[i].status = "FAILED"

-----------------------------------------------------------------------------
(* While nothing upset the task: the message of the next attempt is in one     *)
(* place, and the log counts the attempts before it.                        *)

Waits(q) == Len(q) = 1 /\ q[1] = log.retries /\ log.status \in {"QUEUED", "RUNNING", "RETRY"} /\ press = "no"
Over(q) == Len(q) = 0 /\ (press # "no" \/ log.status \in {"SUCCESS", "FAILURE", "GONE"})
Rest == IF run.at = "ack" THEN Tail(queue) ELSE queue

ShapeInv ==
    /\ run.at \in {"idle", "ack"} => Waits(Rest) \/ Over(Rest)
    /\ run.at \in AtWork => /\ Len(queue) = 1 /\ queue[1] = log.retries /\ run.attempt = log.retries + 1
                            /\ log.status = "RUNNING" /\ press = "no"
    /\ run.at = "publish" => /\ Len(queue) = 1 /\ log.retries = run.attempt
                             /\ log.status = "RETRY" /\ press = "no"
    /\ press = "reset" => log.status \in {"FAILURE", "GONE"}
    /\ press = "send" => log.status = "QUEUED" /\ log.retries = 0
    /\ press # "no" => rows = <<>> /\ checkpoint = Null
    /\ seen # Null /\ seen.status = "SUCCESS" => log.status = "SUCCESS"

Waiting == run.at \in {"idle", "ack"} /\ Waits(Rest)
Early == Waiting \/ run.at \in {"run", "stage"}
Coming == log.retries + 1

\* The rows are of the attempts so far, and nothing has failed yet in the one that is waiting or running.
AttemptsInv ==
    /\ Waiting \/ run.at \in AtWork => \A i \in DOMAIN rows : rows[i].attempt <= Coming
    /\ run.at \in {"publish", "ack"} /\ (Waiting \/ run.at = "publish") =>
           \A i \in DOMAIN rows : rows[i].attempt < Coming
    /\ Early => \A i \in DOMAIN rows : rows[i].attempt = Coming => rows[i].status # "FAILED"
    /\ kind = "RESUME" /\ (Waiting \/ run.at \in AtWork \cup {"publish"}) =>
           \A i, j \in DOMAIN rows : i <= j => rows[i].attempt <= rows[j].attempt
    /\ run.at = "stage" => \E i \in DOMAIN rows : /\ rows[i].stage = Current /\ rows[i].attempt = run.attempt
                                                  /\ rows[i].status = "RUNNING"

\* A stage is done when its newest row that was not skipped is a SUCCESS.
DoneIn(rs, s) ==
    \E i \in DOMAIN rs :
        /\ rs[i].stage = s /\ rs[i].status = "SUCCESS"
        /\ \A k \in DOMAIN rs : rs[k].stage = s /\ rs[k].status # "SKIPPED" => rs[k].attempt <= rs[i].attempt

Passed(j) == checkpoint # Null /\ Order(Pipeline[j]) < Order(checkpoint)

\* What a retry skips has been done, and the attempt that skips it has no other row of it.
SkipInv ==
    /\ run.at \in {"run", "stage"} => run.from = IF checkpoint = Null THEN 0 ELSE Order(checkpoint)
    /\ Early => \A i \in DOMAIN rows : \A j \in DOMAIN Pipeline :
                    rows[i].attempt = Coming /\ rows[i].stage = Pipeline[j] /\ Passed(j) => rows[i].status = "SKIPPED"
    /\ Early \/ run.at \in {"record", "decide", "publish"} =>
           \A j \in DOMAIN Pipeline : Passed(j) => DoneIn(rows, Pipeline[j])
    /\ run.at \in {"run", "stage", "checkpoint"} =>
           \A j \in DOMAIN Pipeline : j < run.i => DoneIn(rows, Pipeline[j])
    /\ run.at = "done" \/ log.status = "SUCCESS" => \A j \in DOMAIN Pipeline : DoneIn(rows, Pipeline[j])

LastFailed(s, a) ==
    \E i \in DOMAIN rows : /\ rows[i].stage = s /\ rows[i].attempt = a /\ rows[i].status = "FAILED"
                           /\ \A k \in DOMAIN rows : rows[k].status = "FAILED" => k <= i

\* The last row that failed is that of the last failure.
FailInv ==
    /\ kind = "RESUME" /\ run.at \in {"record", "decide", "resume", "fail"} => LastFailed(Current, run.attempt)
    /\ kind = "RESUME" /\ run.at \in {"decide", "resume", "fail"} =>
           /\ failures # <<>>
           /\ failures[Len(failures)] = [stage |-> Current, attempt |-> run.attempt, class |-> run.class]
    /\ kind = "RESUME" /\ log.status = "FAILURE" /\ failures # <<>> =>
           LastFailed(failures[Len(failures)].stage, failures[Len(failures)].attempt)

TrailInv ==
    /\ TrailTyped /\ ClassInv
    /\ ~upset => ShapeInv /\ AttemptsInv /\ SkipInv /\ FailInv

-----------------------------------------------------------------------------
(* The stages of a pipeline, and their order.                               *)

LEMMA StageOrder == \A i \in 1..11 : Order(Stage[i]) = i /\ Stage[i] \in StageName
<1>1. DOMAIN Stage = 1..11
  BY DEF Stage
<1>2. \A i, j \in 1..11 : Stage[i] = Stage[j] => i = j
  BY DEF Stage
<1> QED
  BY <1>1, <1>2 DEF Order, StageName, ToSet

LEMMA PipelineOrder ==
    ASSUME kind \in {"JD", "RESUME"}
    PROVE  /\ DOMAIN Pipeline = 1..Len(Pipeline) /\ Len(Pipeline) \in Nat
           /\ \A i \in DOMAIN Pipeline : Pipeline[i] \in StageName /\ Order(Pipeline[i]) \in Nat
           /\ \A i, j \in DOMAIN Pipeline : Order(Pipeline[i]) < Order(Pipeline[j]) => i < j
           /\ \A i, j \in DOMAIN Pipeline : Pipeline[i] = Pipeline[j] => i = j
<1> DEFINE jd == <<3, 4, 7, 8, 9, 10, 11>>
           cv == <<3, 4, 5, 6, 7, 8, 9, 11>>
<1>1. DOMAIN JdStages = 1..7 /\ Len(JdStages) = 7 /\ \A i \in 1..7 : jd[i] \in 1..11 /\ JdStages[i] = Stage[jd[i]]
  BY DEF JdStages, Stage
<1>2. DOMAIN ResumeStages = 1..8 /\ Len(ResumeStages) = 8 /\ \A i \in 1..8 : cv[i] \in 1..11 /\ ResumeStages[i] = Stage[cv[i]]
  BY DEF ResumeStages, Stage
<1>3. \A i, j \in 1..7 : jd[i] < jd[j] <=> i < j
  OBVIOUS
<1>4. \A i, j \in 1..8 : cv[i] < cv[j] <=> i < j
  OBVIOUS
<1> HIDE DEF jd, cv
<1>5. CASE kind = "JD"
  <2>1. Pipeline = JdStages
    BY <1>5 DEF Pipeline
  <2>2. \A i \in 1..7 : Order(JdStages[i]) = jd[i] /\ JdStages[i] \in StageName
    BY <1>1, StageOrder
  <2>3. \A i \in 1..7 : jd[i] \in Nat
    BY <1>1
  <2>4. \A i, j \in 1..7 : JdStages[i] = JdStages[j] => i = j
    <3>1. ASSUME NEW i \in 1..7, NEW j \in 1..7, JdStages[i] = JdStages[j] PROVE i = j
      <4>1. jd[i] = jd[j] /\ jd[i] \in Nat
        BY <2>2, <2>3, <3>1
      <4>2. ~(i < j) /\ ~(j < i)
        BY <1>3, <4>1
      <4> QED
        BY <4>2
    <3> QED
      BY <3>1
  <2>5. \A i, j \in 1..7 : Order(JdStages[i]) < Order(JdStages[j]) => i < j
    BY <1>3, <2>2
  <2>6. DOMAIN Pipeline = 1..7 /\ Len(Pipeline) = 7
    BY <1>1, <2>1
  <2>7. \A i \in DOMAIN Pipeline : Pipeline[i] \in StageName /\ Order(Pipeline[i]) \in Nat
    BY <2>1, <2>2, <2>3, <2>6
  <2>8. \A i, j \in DOMAIN Pipeline : Order(Pipeline[i]) < Order(Pipeline[j]) => i < j
    BY <2>1, <2>5, <2>6
  <2>9. \A i, j \in DOMAIN Pipeline : Pipeline[i] = Pipeline[j] => i = j
    BY <2>1, <2>4, <2>6
  <2> QED
    BY <2>6, <2>7, <2>8, <2>9
<1>6. CASE kind = "RESUME"
  <2>1. Pipeline = ResumeStages
    BY <1>6 DEF Pipeline
  <2>2. \A i \in 1..8 : Order(ResumeStages[i]) = cv[i] /\ ResumeStages[i] \in StageName
    BY <1>2, StageOrder
  <2>3. \A i \in 1..8 : cv[i] \in Nat
    BY <1>2
  <2>4. \A i, j \in 1..8 : ResumeStages[i] = ResumeStages[j] => i = j
    <3>1. ASSUME NEW i \in 1..8, NEW j \in 1..8, ResumeStages[i] = ResumeStages[j] PROVE i = j
      <4>1. cv[i] = cv[j] /\ cv[i] \in Nat
        BY <2>2, <2>3, <3>1
      <4>2. ~(i < j) /\ ~(j < i)
        BY <1>4, <4>1
      <4> QED
        BY <4>2
    <3> QED
      BY <3>1
  <2>5. \A i, j \in 1..8 : Order(ResumeStages[i]) < Order(ResumeStages[j]) => i < j
    BY <1>4, <2>2
  <2>6. DOMAIN Pipeline = 1..8 /\ Len(Pipeline) = 8
    BY <1>2, <2>1
  <2>7. \A i \in DOMAIN Pipeline : Pipeline[i] \in StageName /\ Order(Pipeline[i]) \in Nat
    BY <2>1, <2>2, <2>3, <2>6
  <2>8. \A i, j \in DOMAIN Pipeline : Order(Pipeline[i]) < Order(Pipeline[j]) => i < j
    BY <2>1, <2>5, <2>6
  <2>9. \A i, j \in DOMAIN Pipeline : Pipeline[i] = Pipeline[j] => i = j
    BY <2>1, <2>4, <2>6
  <2> QED
    BY <2>6, <2>7, <2>8, <2>9
<1> QED
  BY <1>5, <1>6

LEMMA JdOrder == \A j \in DOMAIN JdStages : JdStages[j] \in StageName /\ Order(JdStages[j]) \in Nat
<1> DEFINE jd == <<3, 4, 7, 8, 9, 10, 11>>
<1>1. DOMAIN JdStages = 1..7 /\ \A i \in 1..7 : jd[i] \in 1..11 /\ JdStages[i] = Stage[jd[i]]
  BY DEF JdStages, Stage
<1> HIDE DEF jd
<1>2. \A i \in 1..7 : Order(JdStages[i]) = jd[i] /\ JdStages[i] \in StageName
  BY <1>1, StageOrder
<1>3. \A i \in 1..7 : jd[i] \in Nat
  BY <1>1
<1> QED
  BY <1>1, <1>2, <1>3

LEMMA TailOfTwo ==
    ASSUME NEW q \in Seq(Nat), Len(q) = 1, NEW a \in Nat
    PROVE  Len(Tail(Append(q, a))) = 1 /\ Tail(Append(q, a))[1] = a
<1> DEFINE t == Append(q, a)
<1>1. t \in Seq(Nat) /\ Len(t) = 2 /\ t[2] = a
  OBVIOUS
<1> HIDE DEF t
<1>2. Len(Tail(t)) = 1 /\ Tail(t)[1] = a
  BY <1>1
<1> QED
  BY <1>2 DEF t

LEMMA RowFields == ASSUME TrailTyped PROVE \A i \in DOMAIN rows : rows[i] \in Row /\ rows[i].attempt \in Nat \ {0}
<1>1. \A i \in DOMAIN rows : rows[i] \in Row
  BY DEF TrailTyped
<1> QED
  BY <1>1 DEF Row

-----------------------------------------------------------------------------
(* Writing the row of a stage and an attempt.                               *)

Wrote(old, new, s, a, st) ==
    \E i \in DOMAIN new :
        /\ new[i] = [stage |-> s, attempt |-> a, status |-> st]
        /\ DOMAIN old \subseteq DOMAIN new
        /\ \A k \in DOMAIN new \ {i} : k \in DOMAIN old /\ new[k] = old[k] /\ ~(old[k].stage = s /\ old[k].attempt = a)
        /\ i \in DOMAIN old => old[i].stage = s /\ old[i].attempt = a
        /\ i \notin DOMAIN old => \A k \in DOMAIN old : k < i

LEMMA WrittenRow ==
    ASSUME NEW rs \in Seq(Row), OneEach(rs), NEW s \in StageName, NEW a \in Nat \ {0},
           NEW st \in {"RUNNING", "SUCCESS", "FAILED", "SKIPPED"}
    PROVE  /\ Written(rs, s, a, st) \in Seq(Row) /\ OneEach(Written(rs, s, a, st))
           /\ Wrote(rs, Written(rs, s, a, st), s, a, st)
<1> DEFINE new == Written(rs, s, a, st)
           x == [stage |-> s, attempt |-> a, status |-> st]
<1>0. x \in Row /\ x.stage = s /\ x.attempt = a
  BY DEF Row
<1>1. CASE \E i \in DOMAIN rs : rs[i].stage = s /\ rs[i].attempt = a
  <2>1. PICK i \in DOMAIN rs : rs[i].stage = s /\ rs[i].attempt = a
    BY <1>1
  <2>2. \A k \in DOMAIN rs : k # i => ~(rs[k].stage = s /\ rs[k].attempt = a)
    BY <2>1 DEF OneEach
  <2>3. new = [k \in DOMAIN rs |-> IF rs[k].stage = s /\ rs[k].attempt = a THEN [rs[k] EXCEPT !.status = st] ELSE rs[k]]
    BY <1>1 DEF Written
  <2>4. [rs[i] EXCEPT !.status = st] = x
    <3>1. rs[i] \in Row
      BY <2>1
    <3> QED
      BY <2>1, <3>1 DEF Row
  <2>5. DOMAIN new = DOMAIN rs /\ new[i] = x /\ \A k \in DOMAIN rs : k # i => new[k] = rs[k]
    BY <2>1, <2>2, <2>3, <2>4
  <2> HIDE DEF new, x
  <2>6. \A k \in DOMAIN rs : new[k] \in Row
    BY <1>0, <2>5
  <2>7. new \in Seq(Row)
    <3>1. DOMAIN rs = 1..Len(rs) /\ Len(rs) \in Nat
      OBVIOUS
    <3>2. new = [k \in 1..Len(rs) |-> new[k]]
      BY <2>3, <2>5, <3>1
    <3> QED
      BY <2>5, <2>6, <3>1, <3>2
  <2>8. OneEach(new)
    BY <1>0, <2>1, <2>2, <2>5 DEF OneEach
  <2>9. Wrote(rs, new, s, a, st)
    BY <2>1, <2>2, <2>5 DEF Wrote, x
  <2> QED
    BY <2>7, <2>8, <2>9 DEF new
<1>2. CASE ~\E i \in DOMAIN rs : rs[i].stage = s /\ rs[i].attempt = a
  <2>1. new = Append(rs, x)
    BY <1>2 DEF Written
  <2>2. /\ new \in Seq(Row) /\ DOMAIN new = DOMAIN rs \cup {Len(rs) + 1} /\ new[Len(rs) + 1] = x
        /\ \A k \in DOMAIN rs : new[k] = rs[k]
    BY <1>0, <2>1
  <2>3. Len(rs) + 1 \notin DOMAIN rs /\ \A k \in DOMAIN rs : k < Len(rs) + 1
    OBVIOUS
  <2> HIDE DEF new, x
  <2>4. OneEach(new)
    BY <1>0, <1>2, <2>2, <2>3 DEF OneEach
  <2>5. Wrote(rs, new, s, a, st)
    BY <1>2, <2>2, <2>3 DEF Wrote, x
  <2> QED
    BY <2>2, <2>4, <2>5 DEF new
<1> QED
  BY <1>1, <1>2

\* What was done stays done when another stage's row is written, or a skipped row is skipped again.
LEMMA DoneKept ==
    ASSUME NEW rs \in Seq(Row), NEW new, NEW s, NEW a, NEW st, NEW t, Wrote(rs, new, s, a, st), DoneIn(rs, t),
           \/ t # s
           \/ /\ st = "SKIPPED"
              /\ \A k \in DOMAIN rs : rs[k].stage = s /\ rs[k].attempt = a => rs[k].status = "SKIPPED"
    PROVE  DoneIn(new, t)
<1>1. PICK i \in DOMAIN new :
        /\ new[i] = [stage |-> s, attempt |-> a, status |-> st]
        /\ DOMAIN rs \subseteq DOMAIN new
        /\ \A k \in DOMAIN new \ {i} : k \in DOMAIN rs /\ new[k] = rs[k] /\ ~(rs[k].stage = s /\ rs[k].attempt = a)
        /\ i \in DOMAIN rs => rs[i].stage = s /\ rs[i].attempt = a
        /\ i \notin DOMAIN rs => \A k \in DOMAIN rs : k < i
  BY DEF Wrote
<1>2. PICK d \in DOMAIN rs :
        /\ rs[d].stage = t /\ rs[d].status = "SUCCESS"
        /\ \A k \in DOMAIN rs : rs[k].stage = t /\ rs[k].status # "SKIPPED" => rs[k].attempt <= rs[d].attempt
  BY DEF DoneIn
<1>3. d # i
  BY <1>1, <1>2
<1>4. d \in DOMAIN new /\ new[d] = rs[d]
  BY <1>1, <1>2, <1>3
<1>5. ASSUME NEW k \in DOMAIN new, new[k].stage = t, new[k].status # "SKIPPED" PROVE new[k].attempt <= new[d].attempt
  <2>1. k # i
    BY <1>1, <1>5
  <2>2. k \in DOMAIN rs /\ new[k] = rs[k]
    BY <1>1, <2>1
  <2> QED
    BY <1>2, <1>4, <1>5, <2>2
<1> QED
  BY <1>2, <1>4, <1>5 DEF DoneIn

\* A stage whose row of the newest attempt becomes a SUCCESS is done.
LEMMA DoneNow ==
    ASSUME NEW rs \in Seq(Row), NEW new, NEW s, NEW a \in Nat, Wrote(rs, new, s, a, "SUCCESS"),
           \A k \in DOMAIN rs : rs[k].attempt <= a
    PROVE  DoneIn(new, s)
<1>1. PICK i \in DOMAIN new :
        /\ new[i] = [stage |-> s, attempt |-> a, status |-> "SUCCESS"]
        /\ \A k \in DOMAIN new \ {i} : k \in DOMAIN rs /\ new[k] = rs[k]
  BY DEF Wrote
<1>2. \A k \in DOMAIN new : new[k].attempt <= a
  BY <1>1
<1> QED
  BY <1>1, <1>2 DEF DoneIn

-----------------------------------------------------------------------------
(* The steps that leave the rows alone.                                     *)

LEMMA TakeKeeps == ASSUME TrailInv, Take PROVE TrailInv'
<1> USE DEF TrailInv
<1>0. Pipeline' = Pipeline
  BY DEF Pipeline, Take
<1>1. TrailTyped'
  <2>1. log' \in Log
    BY DEF Take, TrailTyped, Log, Status
  <2>2. Head(queue) \in Nat
    BY DEF Take, TrailTyped
  <2>3. checkpoint # Null => Order(checkpoint) \in Nat
    BY JdOrder DEF TrailTyped
  <2>4. run' \in Runs
    BY <2>2, <2>3 DEF Take, Runs, AtWork
  <2> QED
    BY <2>1, <2>4 DEF Take, TrailTyped, trail
<1>2. ClassInv'
  BY <1>0 DEF Take, ClassInv, Deciding
<1>3. ASSUME ~upset' PROVE ShapeInv'
  BY <1>3 DEF Take, ShapeInv, TrailTyped, AtWork, Waits, Over, Rest
<1>4. ASSUME ~upset' PROVE AttemptsInv'
  <2>1. Waiting /\ run.at = "idle"
    BY <1>4 DEF Take, ShapeInv, Rest, Waits, Over, Waiting
  <2>2. Head(queue) = log.retries /\ log.retries \in Nat
    BY <2>1 DEF Waiting, Waits, Rest, TrailTyped, Log
  <2>3. run'.at = "run" /\ Coming' = Coming /\ rows' = rows /\ kind' = kind
    BY DEF Take, Coming, trail
  <2> QED
    BY <1>4, <2>1, <2>3 DEF AttemptsInv, Early, Take
<1>5. ASSUME ~upset' PROVE SkipInv'
  <2>1. Early /\ run.at = "idle"
    BY <1>5 DEF Take, ShapeInv, Rest, Over, Waiting, Early
  <2>2. /\ run'.at = "run" /\ run'.i = 1 /\ Coming' = Coming /\ rows' = rows /\ kind' = kind /\ checkpoint' = checkpoint
        /\ run'.from = (IF checkpoint = Null THEN 0 ELSE Order(checkpoint)) /\ log'.status = "RUNNING"
    BY DEF Take, Coming, trail
  <2>3. \A j \in DOMAIN Pipeline : ~(j < 1)
    BY PipelineOrder DEF TrailTyped
  <2>4. \A j : Passed(j)' <=> Passed(j)
    BY <1>0, <2>2 DEF Passed
  <2> QED
    BY <1>0, <1>5, <2>1, <2>2, <2>3, <2>4 DEF SkipInv, Take
<1>6. ASSUME ~upset' PROVE FailInv'
  BY <1>0, <1>6 DEF Take, FailInv
<1> QED
  BY <1>1, <1>2, <1>3, <1>4, <1>5, <1>6

LEMMA MarkSuccessKeeps == ASSUME TrailInv, MarkSuccess PROVE TrailInv'
<1> USE DEF TrailInv
<1>0. Pipeline' = Pipeline
  BY DEF Pipeline, MarkSuccess, Goes
<1>1. TrailTyped'
  <2>1. log' \in Log
    BY DEF MarkSuccess, TrailTyped, Log, Status
  <2>2. run \in Runs
    BY DEF MarkSuccess, Goes, TrailTyped, AtRest
  <2>3. run' \in Runs \cup {AtRest}
    BY <2>2 DEF MarkSuccess, Goes, Runs
  <2>4. queue' \in Seq(Nat) /\ (run' # AtRest => queue' # <<>>)
    BY <2>2 DEF MarkSuccess, Goes, TrailTyped, Runs, AtRest
  <2> QED
    BY <2>1, <2>3, <2>4 DEF MarkSuccess, Goes, TrailTyped, trail
<1>2. ClassInv'
  BY <1>0 DEF MarkSuccess, Goes, TrailTyped, ClassInv, Runs, Deciding, AtRest, Current, IsLast
<1>3. ASSUME ~upset' PROVE ShapeInv'
  BY <1>3 DEF MarkSuccess, Goes, ShapeInv, TrailTyped, Runs, AtWork, Over, Rest
<1>4. ASSUME ~upset' PROVE AttemptsInv'
  BY <1>0, <1>4 DEF MarkSuccess, Goes, AttemptsInv, ShapeInv, TrailTyped, Runs, AtWork, Waits, Waiting, Early,
     Coming, Current
<1>5. ASSUME ~upset' PROVE SkipInv'
  BY <1>0, <1>5 DEF MarkSuccess, Goes, SkipInv, AttemptsInv, AtWork, trail, Waits, Waiting, Early
<1>6. ASSUME ~upset' PROVE FailInv'
  BY <1>0, <1>6 DEF MarkSuccess, Goes, FailInv, TrailTyped, Runs, AtRest, trail
<1> QED
  BY <1>1, <1>2, <1>3, <1>4, <1>5, <1>6

LEMMA OpenScreenKeeps == ASSUME TrailInv, OpenScreen PROVE TrailInv'
<1> USE DEF TrailInv
<1>0. Pipeline' = Pipeline
  BY DEF Pipeline, OpenScreen
<1>1. TrailTyped'
  BY DEF OpenScreen, TrailTyped, trail
<1>2. ClassInv'
  BY <1>0 DEF OpenScreen, ClassInv, Runs, AtWork, trail, Current, IsLast, Index
<1>3. ASSUME ~upset' PROVE ShapeInv'
  BY <1>3 DEF OpenScreen, ShapeInv, TrailTyped, trail, Waits, Over, Rest
<1>4. ASSUME ~upset' PROVE AttemptsInv'
  BY <1>0, <1>4 DEF OpenScreen, AttemptsInv, TrailTyped, Runs, trail, Waits, Rest, Waiting, Early, Coming, Current
<1>5. ASSUME ~upset' PROVE SkipInv'
  BY <1>0, <1>5 DEF OpenScreen, SkipInv, AttemptsInv, trail, Waits, Rest, Waiting, Early, Coming, Passed
<1>6. ASSUME ~upset' PROVE FailInv'
  BY <1>0, <1>6 DEF OpenScreen, FailInv, TrailTyped, Runs, AtWork, AtRest, trail, Current, LastFailed
<1> QED
  BY <1>1, <1>2, <1>3, <1>4, <1>5, <1>6

LEMMA CloseScreenKeeps == ASSUME TrailInv, CloseScreen PROVE TrailInv'
<1> USE DEF TrailInv
<1>0. Pipeline' = Pipeline
  BY DEF Pipeline, CloseScreen
<1>1. TrailTyped'
  BY DEF CloseScreen, TrailTyped, trail
<1>2. ClassInv'
  BY <1>0 DEF CloseScreen, ClassInv, Runs, AtWork, trail, Current, IsLast, Index
<1>3. ASSUME ~upset' PROVE ShapeInv'
  BY <1>3 DEF CloseScreen, ShapeInv, TrailTyped, trail, Waits, Over, Rest
<1>4. ASSUME ~upset' PROVE AttemptsInv'
  BY <1>0, <1>4 DEF CloseScreen, AttemptsInv, TrailTyped, Runs, trail, Waits, Rest, Waiting, Early, Coming, Current
<1>5. ASSUME ~upset' PROVE SkipInv'
  BY <1>0, <1>5 DEF CloseScreen, SkipInv, AttemptsInv, trail, Waits, Rest, Waiting, Early, Coming, Passed
<1>6. ASSUME ~upset' PROVE FailInv'
  BY <1>0, <1>6 DEF CloseScreen, FailInv, TrailTyped, Runs, AtWork, AtRest, trail, Current, LastFailed
<1> QED
  BY <1>1, <1>2, <1>3, <1>4, <1>5, <1>6

LEMMA MarkFailureKeeps == ASSUME TrailInv, MarkFailure PROVE TrailInv'
<1> USE DEF TrailInv
<1>0. Pipeline' = Pipeline
  BY DEF Pipeline, MarkFailure, Goes
<1>1. TrailTyped'
  <2>1. log' \in Log
    BY DEF MarkFailure, TrailTyped, Log, Status
  <2>2. run \in Runs
    BY DEF MarkFailure, Goes, TrailTyped, AtRest
  <2>3. run' \in Runs \cup {AtRest}
    BY <2>2 DEF MarkFailure, Goes, Runs
  <2>4. queue' \in Seq(Nat) /\ (run' # AtRest => queue' # <<>>)
    BY <2>2 DEF MarkFailure, Goes, TrailTyped, Runs, AtRest
  <2> QED
    BY <2>1, <2>3, <2>4 DEF MarkFailure, Goes, TrailTyped, trail
<1>2. ClassInv'
  BY <1>0 DEF MarkFailure, Goes, TrailTyped, ClassInv, Runs, Deciding, AtRest, Current, IsLast
<1>3. ASSUME ~upset' PROVE ShapeInv'
  BY <1>3 DEF MarkFailure, Goes, ShapeInv, TrailTyped, Runs, AtWork, Over, Rest
<1>4. ASSUME ~upset' PROVE AttemptsInv'
  BY <1>0, <1>4 DEF MarkFailure, Goes, AttemptsInv, ShapeInv, TrailTyped, Runs, AtWork, Waits, Waiting, Early,
     Coming, Current
<1>5. ASSUME ~upset' PROVE SkipInv'
  BY <1>0, <1>5 DEF MarkFailure, Goes, SkipInv, AttemptsInv, AtWork, Waits, Waiting, Early
<1>6. ASSUME ~upset' PROVE FailInv'
  <2>1. rows' = rows /\ failures' = failures /\ kind' = kind /\ run'.at = "ack"
    BY DEF MarkFailure, Goes, trail, TrailTyped
  <2>2. ASSUME kind = "RESUME" PROVE LastFailed(failures[Len(failures)].stage, failures[Len(failures)].attempt)
    <3>1. /\ LastFailed(Current, run.attempt)
          /\ failures[Len(failures)] = [stage |-> Current, attempt |-> run.attempt, class |-> run.class]
      BY <1>6, <2>2 DEF MarkFailure, FailInv
    <3> QED
      BY <3>1
  <2> QED
    BY <1>6, <2>1, <2>2 DEF FailInv, LastFailed
<1> QED
  BY <1>1, <1>2, <1>3, <1>4, <1>5, <1>6

LEMMA MarkRetryKeeps == ASSUME TrailInv, MarkRetry PROVE TrailInv'
<1> USE DEF TrailInv
<1>0. Pipeline' = Pipeline
  BY DEF Pipeline, MarkRetry, Goes
<1>1. TrailTyped'
  <2>1. log' \in Log
    BY DEF MarkRetry, TrailTyped, Log, Status
  <2>2. run \in Runs
    BY DEF MarkRetry, Goes, TrailTyped, AtRest
  <2>3. run' \in Runs \cup {AtRest}
    BY <2>2 DEF MarkRetry, Goes, Runs
  <2>4. queue' \in Seq(Nat) /\ (run' # AtRest => queue' # <<>>)
    BY <2>2 DEF MarkRetry, Goes, TrailTyped, Runs, AtRest
  <2> QED
    BY <2>1, <2>3, <2>4 DEF MarkRetry, Goes, TrailTyped, trail
<1>2. ClassInv'
  BY <1>0 DEF MarkRetry, Goes, TrailTyped, ClassInv, Runs, Deciding, AtRest, trail, Current, IsLast, Index
<1>3. ASSUME ~upset' PROVE ShapeInv'
  BY <1>3 DEF MarkRetry, Goes, ShapeInv, TrailTyped, Runs, AtWork, trail, Waits, Over, Rest
<1>4. ASSUME ~upset' PROVE AttemptsInv'
  <2>1. run.at = "decide" /\ run'.at = "publish" /\ rows' = rows /\ kind' = kind /\ log'.retries = log.retries + 1 /\ ~upset
    BY <1>4 DEF MarkRetry, Goes, trail
  <2>2. log.retries \in Nat /\ \A i \in DOMAIN rows : rows[i].attempt \in Nat
    BY RowFields DEF TrailTyped, Log
  <2>3. \A i \in DOMAIN rows : rows[i].attempt <= log.retries + 1
    BY <2>1 DEF AttemptsInv, AtWork, Coming
  <2>4. \A i \in DOMAIN rows : rows[i].attempt < Coming'
    BY <2>1, <2>2, <2>3 DEF Coming
  <2> QED
    BY <2>1, <2>4 DEF AttemptsInv, AtWork, Waiting, Early
<1>5. ASSUME ~upset' PROVE SkipInv'
  BY <1>0, <1>5 DEF MarkRetry, Goes, SkipInv, trail, Waiting, Early, Passed
<1>6. ASSUME ~upset' PROVE FailInv'
  BY <1>0, <1>6 DEF MarkRetry, Goes, FailInv, TrailTyped, AtRest, trail, LastFailed
<1> QED
  BY <1>1, <1>2, <1>3, <1>4, <1>5, <1>6

LEMMA PublishRetryKeeps == ASSUME TrailInv, PublishRetry PROVE TrailInv'
<1> USE DEF TrailInv
<1>0. Pipeline' = Pipeline
  BY DEF Pipeline, PublishRetry, Goes
<1>1. TrailTyped'
  <2>1. run \in Runs
    BY DEF PublishRetry, TrailTyped, AtRest
  <2>2. run' \in Runs
    BY <2>1 DEF PublishRetry, Goes, Runs
  <2>3. run.attempt \in Nat
    BY <2>1 DEF Runs
  <2>4. queue' \in Seq(Nat) /\ queue' # <<>>
    <3>1. queue \in Seq(Nat)
      BY DEF TrailTyped
    <3>2. queue' = Append(queue, run.attempt)
      BY DEF PublishRetry
    <3> HIDE DEF TrailInv
    <3> QED
      BY <2>3, <3>1, <3>2
  <2> QED
    BY <2>2, <2>4 DEF PublishRetry, TrailTyped, trail
<1>2. ClassInv'
  BY <1>0 DEF PublishRetry, Goes, ClassInv, Deciding
<1>3. ASSUME ~upset' PROVE ShapeInv'
  <2>1. /\ run.at = "publish" /\ run'.at = "ack" /\ ~upset /\ log' = log /\ press' = press /\ seen' = seen
        /\ queue' = Append(queue, run.attempt)
    BY <1>3 DEF PublishRetry, Goes
  <2>2. Len(queue) = 1 /\ log.retries = run.attempt /\ log.status = "RETRY" /\ press = "no"
    BY <2>1 DEF ShapeInv
  <2>3. queue \in Seq(Nat) /\ run.attempt \in Nat
    BY <2>2 DEF TrailTyped, Log
  <2>4. Len(Tail(queue')) = 1 /\ Tail(queue')[1] = run.attempt
    BY <2>1, <2>2, <2>3, TailOfTwo
  <2>5. Waits(Rest)'
    BY <2>1, <2>2, <2>4 DEF Waits, Rest
  <2> QED
    BY <2>1, <2>2, <2>5 DEF ShapeInv, AtWork
<1>4. ASSUME ~upset' PROVE AttemptsInv'
  <2>1. run.at = "publish" /\ run'.at = "ack" /\ ~upset /\ log' = log /\ rows' = rows /\ kind' = kind
    BY <1>4 DEF PublishRetry, Goes, trail
  <2>2. \A i \in DOMAIN rows : rows[i].attempt < Coming
    BY <2>1 DEF AttemptsInv
  <2>3. \A i \in DOMAIN rows : rows[i].attempt \in Nat
    BY RowFields
  <2>4. Coming \in Nat /\ Coming' = Coming
    BY <2>1 DEF TrailTyped, Log, Coming
  <2>5. \A i \in DOMAIN rows : rows[i].attempt <= Coming /\ rows[i].attempt # Coming
    BY <2>2, <2>3, <2>4
  <2> QED
    BY <2>1, <2>2, <2>4, <2>5 DEF AttemptsInv, AtWork
<1>5. ASSUME ~upset' PROVE SkipInv'
  BY <1>0, <1>5 DEF PublishRetry, Goes, SkipInv, AttemptsInv, ShapeInv, TrailTyped, Runs, AtRest, trail, Coming,
     Passed
<1>6. ASSUME ~upset' PROVE FailInv'
  BY <1>0, <1>6 DEF PublishRetry, Goes, FailInv, ShapeInv, ClassInv, TrailTyped, Current, LastFailed
<1> QED
  BY <1>1, <1>2, <1>3, <1>4, <1>5, <1>6

LEMMA AcknowledgeKeeps == ASSUME TrailInv, Acknowledge PROVE TrailInv'
<1> USE DEF TrailInv
<1>0. Pipeline' = Pipeline
  BY DEF Pipeline, Acknowledge
<1>1. TrailTyped'
  BY DEF Acknowledge, TrailTyped, AtRest, trail
<1>2. ClassInv'
  BY <1>0 DEF Acknowledge, ClassInv, Runs, AtWork, Deciding, AtRest, Current, IsLast
<1>3. ASSUME ~upset' PROVE ShapeInv'
  BY <1>3 DEF Acknowledge, ShapeInv, TrailTyped, Log, AtWork, AtRest, trail, Waits, Over, Rest
<1>4. ASSUME ~upset' PROVE AttemptsInv'
  BY <1>0, <1>4 DEF Acknowledge, AttemptsInv, TrailTyped, Runs, AtWork, AtRest, trail, Waits, Rest, Waiting, Early,
     Coming, Current
<1>5. ASSUME ~upset' PROVE SkipInv'
  BY <1>0, <1>5 DEF Acknowledge, SkipInv, AttemptsInv, AtWork, AtRest, trail, Waits, Rest, Waiting, Early, Coming,
     Passed
<1>6. ASSUME ~upset' PROVE FailInv'
  BY <1>0, <1>6 DEF Acknowledge, FailInv, ClassInv, TrailTyped, Runs, AtWork, AtRest, trail, Current, LastFailed
<1> QED
  BY <1>1, <1>2, <1>3, <1>4, <1>5, <1>6

LEMMA FindDuplicateKeeps == ASSUME TrailInv, FindDuplicate PROVE TrailInv'
<1> USE DEF TrailInv
<1>0. Pipeline' = Pipeline
  BY DEF Pipeline, FindDuplicate, Goes
<1>1. TrailTyped'
  <2>1. log' \in Log
    BY DEF FindDuplicate, TrailTyped
  <2>2. run \in Runs
    BY DEF FindDuplicate, Goes, TrailTyped, AtRest
  <2>3. run' \in Runs \cup {AtRest}
    BY <2>2 DEF FindDuplicate, Goes, Runs, AtWork
  <2>4. queue' \in Seq(Nat) /\ (run' # AtRest => queue' # <<>>)
    BY <2>2 DEF FindDuplicate, Goes, TrailTyped, Runs, AtRest
  <2> QED
    BY <2>1, <2>3, <2>4 DEF FindDuplicate, Goes, TrailTyped, trail
<1>2. ClassInv'
  BY <1>0 DEF FindDuplicate, Goes, TrailTyped, ClassInv, Runs, Deciding, AtRest, Current, IsLast
<1>3. ASSUME ~upset' PROVE ShapeInv'
  BY <1>3 DEF FindDuplicate, Goes, ShapeInv, TrailTyped, Runs, AtWork
<1>4. ASSUME ~upset' PROVE AttemptsInv'
  BY <1>0, <1>4 DEF FindDuplicate, Goes, AttemptsInv, ShapeInv, TrailTyped, Runs, AtWork, trail, Waits, Early, Coming
<1>5. ASSUME ~upset' PROVE SkipInv'
  BY <1>0, <1>5 DEF FindDuplicate, Goes, SkipInv, AttemptsInv, AtWork, trail, Waiting, Early, Coming
<1>6. ASSUME ~upset' PROVE FailInv'
  BY <1>0, <1>6 DEF FindDuplicate, FailInv, AtRest, trail
<1> QED
  BY <1>1, <1>2, <1>3, <1>4, <1>5, <1>6

LEMMA DropUploadKeeps == ASSUME TrailInv, DropUpload PROVE TrailInv'
<1> USE DEF TrailInv
<1>0. Pipeline' = Pipeline
  BY DEF Pipeline, DropUpload, Goes
<1>1. TrailTyped'
  <2>1. log' \in Log
    BY DEF DropUpload, TrailTyped
  <2>2. run \in Runs
    BY DEF DropUpload, Goes, TrailTyped, AtRest
  <2>3. run' \in Runs \cup {AtRest}
    BY <2>2 DEF DropUpload, Goes, Runs, AtWork
  <2>4. queue' \in Seq(Nat) /\ (run' # AtRest => queue' # <<>>)
    BY <2>2 DEF DropUpload, Goes, TrailTyped, Runs, AtRest
  <2> QED
    BY <2>1, <2>3, <2>4 DEF DropUpload, Goes, TrailTyped, trail
<1>2. ClassInv'
  BY <1>0 DEF DropUpload, Goes, TrailTyped, ClassInv, Runs, Deciding, AtRest, Current
<1>3. ASSUME ~upset' PROVE ShapeInv'
  BY <1>3 DEF DropUpload, Goes, ShapeInv, TrailTyped, Runs, AtWork
<1>4. ASSUME ~upset' PROVE AttemptsInv'
  BY <1>0, <1>4 DEF DropUpload, Goes, AttemptsInv, ShapeInv, TrailTyped, Runs, AtWork, Waits, Waiting, Early, Coming
<1>5. ASSUME ~upset' PROVE SkipInv'
  BY <1>0, <1>5 DEF DropUpload, Goes, SkipInv, AttemptsInv, AtWork, Waiting, Early, Coming
<1>6. ASSUME ~upset' PROVE FailInv'
  BY <1>0, <1>6 DEF DropUpload, FailInv, ClassInv, AtRest, trail
<1> QED
  BY <1>1, <1>2, <1>3, <1>4, <1>5, <1>6

LEMMA DropCheckpointKeeps == ASSUME TrailInv, DropCheckpoint PROVE TrailInv'
<1> USE DEF TrailInv
<1>0. Pipeline' = Pipeline
  BY DEF Pipeline, DropCheckpoint, Goes
<1>1. TrailTyped'
  <2>1. log' \in Log
    BY DEF DropCheckpoint, TrailTyped
  <2>2. run \in Runs
    BY DEF DropCheckpoint, Goes, TrailTyped, AtRest
  <2>3. run' \in Runs \cup {AtRest}
    BY <2>2 DEF DropCheckpoint, Goes, Runs, AtWork
  <2>4. queue' \in Seq(Nat) /\ (run' # AtRest => queue' # <<>>)
    BY <2>2 DEF DropCheckpoint, Goes, TrailTyped, Runs, AtRest
  <2> QED
    BY <2>1, <2>3, <2>4 DEF DropCheckpoint, Goes, TrailTyped, trail
<1>2. ClassInv'
  BY <1>0 DEF DropCheckpoint, Goes, TrailTyped, ClassInv, Runs, Deciding, AtRest, Current
<1>3. ASSUME ~upset' PROVE ShapeInv'
  BY <1>3 DEF DropCheckpoint, Goes, ShapeInv, TrailTyped, Runs, AtWork
<1>4. ASSUME ~upset' PROVE AttemptsInv'
  BY <1>0, <1>4 DEF DropCheckpoint, Goes, AttemptsInv, ShapeInv, TrailTyped, Runs, AtWork, Waits, Early, Coming
<1>5. ASSUME ~upset' PROVE SkipInv'
  BY <1>0, <1>5 DEF DropCheckpoint, Goes, SkipInv, AttemptsInv, TrailTyped, Runs, AtWork, AtRest, Waiting, Early,
     Coming
<1>6. ASSUME ~upset' PROVE FailInv'
  BY <1>0, <1>6 DEF DropCheckpoint, Goes, FailInv, ShapeInv, ClassInv, TrailTyped, Runs, AtRest, trail
<1> QED
  BY <1>1, <1>2, <1>3, <1>4, <1>5, <1>6

LEMMA DieKeeps == ASSUME TrailInv, Die PROVE TrailInv'
<1> USE DEF TrailInv
<1>0. Pipeline' = Pipeline
  BY DEF Pipeline, Die
<1>1. TrailTyped'
  BY DEF Die, TrailTyped, trail
<1>2. ClassInv'
  BY <1>0 DEF Die, ClassInv, Runs, AtWork, Deciding, AtRest, IsLast
<1>3. ASSUME ~upset' PROVE ShapeInv'
  BY <1>3 DEF Die, ShapeInv, TrailTyped, Log, AtWork, AtRest, Waits, Rest
<1>4. ASSUME ~upset' PROVE AttemptsInv'
  BY <1>0, <1>4 DEF Die, AttemptsInv, TrailTyped, Runs, AtWork, AtRest, trail, Waits, Rest, Early, Coming, Current
<1>5. ASSUME ~upset' PROVE SkipInv'
  BY <1>0, <1>5 DEF Die, SkipInv, AttemptsInv, AtWork, AtRest, trail, Early, Coming, Passed
<1>6. ASSUME ~upset' PROVE FailInv'
  BY <1>0, <1>6 DEF Die, FailInv, ClassInv, TrailTyped, AtRest, trail, Current, LastFailed
<1> QED
  BY <1>1, <1>2, <1>3, <1>4, <1>5, <1>6

LEMMA ResetLogKeeps == ASSUME TrailInv, ResetLog PROVE TrailInv'
<1> USE DEF TrailInv
<1>0. Pipeline' = Pipeline
  BY DEF Pipeline, ResetLog
<1>1. TrailTyped'
  BY DEF ResetLog, TrailTyped, Log, trail, Status
<1>2. ClassInv'
  BY <1>0 DEF ResetLog, ClassInv, Runs, AtWork, AtRest, trail, Current, IsLast, Index
<1>3. ASSUME ~upset' PROVE ShapeInv'
  BY <1>3 DEF ResetLog, ShapeInv, TrailTyped, trail, Waits, Over, Rest
<1>4. ASSUME ~upset' PROVE AttemptsInv'
  BY <1>0, <1>4 DEF ResetLog, AttemptsInv, ShapeInv, TrailTyped, Runs, trail, Waiting, Early, Coming, Current
<1>5. ASSUME ~upset' PROVE SkipInv'
  BY <1>0, <1>5 DEF ResetLog, SkipInv, AttemptsInv, ShapeInv, AtWork, trail, Waits, Waiting, Early
<1>6. ASSUME ~upset' PROVE FailInv'
  BY <1>0, <1>6 DEF ResetLog, FailInv, ShapeInv, TrailTyped, Runs, AtRest, trail
<1> QED
  BY <1>1, <1>2, <1>3, <1>4, <1>5, <1>6

LEMMA SendAgainKeeps == ASSUME TrailInv, SendAgain PROVE TrailInv'
<1> USE DEF TrailInv
<1>0. Pipeline' = Pipeline
  BY DEF Pipeline, SendAgain
<1>1. TrailTyped'
  <2>1. queue' \in Seq(Nat) /\ queue' # <<>>
    BY DEF SendAgain, TrailTyped
  <2> QED
    BY <2>1 DEF SendAgain, TrailTyped, trail
<1>2. ClassInv'
  BY <1>0 DEF SendAgain, ClassInv, trail, Current, IsLast, Index
<1>3. ASSUME ~upset' PROVE ShapeInv'
  BY <1>3 DEF SendAgain, ShapeInv, TrailTyped, AtRest, trail, Waits, Over, Rest
<1>4. ASSUME ~upset' PROVE AttemptsInv'
  BY <1>0, <1>4 DEF SendAgain, AttemptsInv, ShapeInv, TrailTyped, Runs, AtWork, trail, Rest, Early, Coming, Current
<1>5. ASSUME ~upset' PROVE SkipInv'
  BY <1>0, <1>5 DEF SendAgain, SkipInv, AttemptsInv, ShapeInv, trail, Passed
<1>6. ASSUME ~upset' PROVE FailInv'
  BY <1>0, <1>6 DEF SendAgain, FailInv, ShapeInv, TrailTyped, LastFailed
<1> QED
  BY <1>1, <1>2, <1>3, <1>4, <1>5, <1>6

LEMMA GiveUpKeeps == ASSUME TrailInv, GiveUp PROVE TrailInv'
<1> USE DEF TrailInv
<1>0. Pipeline' = Pipeline
  BY DEF Pipeline, GiveUp, Goes
<1>1. TrailTyped'
  <2>1. log' \in Log
    BY DEF GiveUp, TrailTyped
  <2>2. run \in Runs
    BY DEF GiveUp, Goes, TrailTyped, AtRest
  <2>3. run' \in Runs \cup {AtRest}
    BY <2>2 DEF GiveUp, Goes, Runs, AtWork
  <2>4. queue' \in Seq(Nat) /\ (run' # AtRest => queue' # <<>>)
    BY <2>2 DEF GiveUp, Goes, TrailTyped, Runs, AtRest
  <2> QED
    BY <2>1, <2>3, <2>4 DEF GiveUp, Goes, TrailTyped, trail
<1>2. ClassInv'
  BY <1>0 DEF GiveUp, Goes, TrailTyped, ClassInv, Runs, Deciding, AtRest, Current, IsLast, Index
<1>3. ASSUME ~upset' PROVE ShapeInv'
  BY <1>3 DEF GiveUp, Goes, ShapeInv, TrailTyped, Runs, AtWork, Waits, Over, Rest
<1>4. ASSUME ~upset' PROVE AttemptsInv'
  BY <1>0, <1>4 DEF GiveUp, Goes, AttemptsInv, ShapeInv, TrailTyped, Runs, AtWork, Waits, Waiting, Early, Coming
<1>5. ASSUME ~upset' PROVE SkipInv'
  BY <1>0, <1>5 DEF GiveUp, Goes, SkipInv, AttemptsInv, AtWork, Waiting, Early, Coming
<1>6. ASSUME ~upset' PROVE FailInv'
  BY <1>0, <1>6 DEF GiveUp, Goes, FailInv, AtRest, trail, Current, LastFailed
<1> QED
  BY <1>1, <1>2, <1>3, <1>4, <1>5, <1>6

LEMMA MarkResumeKeeps == ASSUME TrailInv, MarkResume PROVE TrailInv'
<1> USE DEF TrailInv
<1>0. Pipeline' = Pipeline
  BY DEF Pipeline, MarkResume, Goes
<1>1. TrailTyped'
  <2>1. run' \in Runs
    BY DEF MarkResume, Goes, TrailTyped, Runs, AtWork, AtRest
  <2>2. kind = "RESUME"
    BY DEF MarkResume, ClassInv
  <2> QED
    BY <2>1, <2>2 DEF MarkResume, TrailTyped, AtRest
<1>2. ClassInv'
  BY <1>0 DEF MarkResume, Goes, ClassInv, AtWork, Deciding, Current, IsLast, Index
<1>3. ASSUME ~upset' PROVE ShapeInv'
  BY <1>3 DEF MarkResume, Goes, ShapeInv, TrailTyped, Log, AtWork, Waits, Over, Rest
<1>4. ASSUME ~upset' PROVE AttemptsInv'
  BY <1>0, <1>4 DEF MarkResume, Goes, AttemptsInv, ShapeInv, TrailTyped, Runs, AtWork, Waits, Waiting, Early, Coming
<1>5. ASSUME ~upset' PROVE SkipInv'
  BY <1>0, <1>5 DEF MarkResume, Goes, SkipInv, AttemptsInv, AtWork, Waiting, Early, Coming
<1>6. ASSUME ~upset' PROVE FailInv'
  BY <1>0, <1>6 DEF MarkResume, Goes, FailInv, AtRest, trail, Current, LastFailed
<1> QED
  BY <1>1, <1>2, <1>3, <1>4, <1>5, <1>6

LEMMA SaveCheckpointKeeps == ASSUME TrailInv, SaveCheckpoint PROVE TrailInv'
<1> USE DEF TrailInv
<1>0. Pipeline' = Pipeline
  BY DEF Pipeline, SaveCheckpoint, Goes
<1>1. TrailTyped'
  <2>6. run \in Runs
    BY DEF SaveCheckpoint, TrailTyped, AtRest
  <2>1. run' \in Runs
    BY <2>6 DEF SaveCheckpoint, Goes, Runs, AtWork
  <2>2. kind = "JD" /\ run.i <= Len(Pipeline) /\ run.i \in Nat \ {0}
    BY DEF SaveCheckpoint, ClassInv, Deciding, TrailTyped, Runs, AtRest
  <2>3. Pipeline = JdStages
    BY <2>2 DEF Pipeline
  <2>4. run.i \in DOMAIN JdStages
    BY <2>2, <2>3, PipelineOrder
  <2>5. checkpoint' = JdStages[run.i]
    BY <2>3 DEF SaveCheckpoint, Current
  <2> QED
    BY <2>1, <2>2, <2>4, <2>5 DEF SaveCheckpoint, TrailTyped, AtRest
<1>2. ClassInv'
  BY <1>0 DEF SaveCheckpoint, Goes, ClassInv, AtWork, Deciding, Current, Index
<1>3. ASSUME ~upset' PROVE ShapeInv'
  BY <1>3 DEF SaveCheckpoint, Goes, ShapeInv, TrailTyped, Log, AtWork, Waits, Rest
<1>4. ASSUME ~upset' PROVE AttemptsInv'
  BY <1>0, <1>4 DEF SaveCheckpoint, Goes, AttemptsInv, ShapeInv, TrailTyped, Runs, AtWork, Waits, Waiting, Early,
     Coming
<1>5. ASSUME ~upset' PROVE SkipInv'
  <2>1. /\ run.at = "checkpoint" /\ run'.at = "record" /\ ~upset /\ log' = log /\ rows' = rows
        /\ checkpoint' = Pipeline[run.i] /\ run.i \in Nat \ {0} /\ run.i <= Len(Pipeline)
    BY <1>5 DEF SaveCheckpoint, Goes, TrailTyped, Runs, AtRest, Current, ClassInv, Deciding
  <2>2. run.i \in DOMAIN Pipeline
    BY <2>1, PipelineOrder DEF TrailTyped
  <2>3. \A j \in DOMAIN Pipeline : Order(Pipeline[j]) < Order(Pipeline[run.i]) => j < run.i
    BY <2>2, PipelineOrder DEF TrailTyped
  <2>4. \A j \in DOMAIN Pipeline : Passed(j)' => j < run.i
    BY <1>0, <2>1, <2>3 DEF Passed
  <2>5. \A j \in DOMAIN Pipeline : j < run.i => DoneIn(rows, Pipeline[j])
    BY <2>1 DEF SkipInv
  <2>6. log.status = "RUNNING"
    BY <2>1 DEF ShapeInv, AtWork
  <2> QED
    BY <1>0, <2>1, <2>4, <2>5, <2>6 DEF SkipInv, Early, Waiting
<1>6. ASSUME ~upset' PROVE FailInv'
  BY <1>0, <1>6 DEF SaveCheckpoint, FailInv, ClassInv
<1> QED
  BY <1>1, <1>2, <1>3, <1>4, <1>5, <1>6

LEMMA RecordFailureKeeps == ASSUME TrailInv, RecordFailure PROVE TrailInv'
<1> USE DEF TrailInv
<1>0. Pipeline' = Pipeline
  BY DEF Pipeline, RecordFailure, Goes
<1>1. TrailTyped'
  <2>7. run \in Runs
    BY DEF RecordFailure, TrailTyped, AtRest
  <2>1. run \in Runs /\ run' \in Runs
    BY <2>7 DEF RecordFailure, Goes, Runs, AtWork
  <2>2. run.i \in Nat \ {0} /\ run.i <= Len(Pipeline) /\ run.class \in Class /\ run.attempt \in Nat \ {0}
    BY <2>1 DEF RecordFailure, ClassInv, Deciding, Runs
  <2>3. run.i \in DOMAIN Pipeline
    BY <2>2, PipelineOrder DEF TrailTyped
  <2>4. Current \in StageName
    BY <2>3, PipelineOrder DEF TrailTyped, Current
  <2>5. [stage |-> Current, attempt |-> run.attempt, class |-> run.class] \in Failure
    BY <2>2, <2>4 DEF Failure
  <2>6. failures' \in Seq(Failure)
    BY <2>5 DEF RecordFailure, TrailTyped
  <2> QED
    BY <2>1, <2>6 DEF RecordFailure, TrailTyped, AtRest
<1>2. ClassInv'
  BY <1>0 DEF RecordFailure, Goes, ClassInv, AtWork, Deciding, Current, Index
<1>3. ASSUME ~upset' PROVE ShapeInv'
  BY <1>3 DEF RecordFailure, Goes, ShapeInv, TrailTyped, Log, AtWork, Waits, Rest
<1>4. ASSUME ~upset' PROVE AttemptsInv'
  BY <1>0, <1>4 DEF RecordFailure, Goes, AttemptsInv, ShapeInv, TrailTyped, Runs, AtWork, Waits, Waiting, Early,
     Coming
<1>5. ASSUME ~upset' PROVE SkipInv'
  BY <1>0, <1>5 DEF RecordFailure, Goes, SkipInv, AttemptsInv, AtWork, Waiting, Early, Coming, Passed
<1>6. ASSUME ~upset' PROVE FailInv'
  BY <1>0, <1>6 DEF RecordFailure, Goes, FailInv, Runs, AtWork, AtRest, trail, Current, LastFailed
<1> QED
  BY <1>1, <1>2, <1>3, <1>4, <1>5, <1>6

-----------------------------------------------------------------------------
(* The steps that write the row of the stage the worker is in.              *)

LEMMA StageOfRun ==
    ASSUME TrailTyped, run \in Runs, run.i <= Len(Pipeline)
    PROVE  /\ run.i \in DOMAIN Pipeline /\ Current \in StageName
           /\ \A j \in DOMAIN Pipeline : Pipeline[j] = Current <=> j = run.i
<1>1. run.i \in Nat \ {0} /\ DOMAIN Pipeline = 1..Len(Pipeline) /\ Len(Pipeline) \in Nat
  BY PipelineOrder DEF TrailTyped, Runs
<1>2. run.i \in DOMAIN Pipeline
  BY <1>1
<1> QED
  BY <1>2, PipelineOrder DEF TrailTyped, Current

LEMMA RowsAfter ==
    ASSUME NEW old, NEW new, NEW s, NEW a, NEW st, Wrote(old, new, s, a, st), NEW k \in DOMAIN new
    PROVE  \/ new[k] = [stage |-> s, attempt |-> a, status |-> st]
           \/ k \in DOMAIN old /\ new[k] = old[k] /\ ~(old[k].stage = s /\ old[k].attempt = a)
<1>1. PICK i \in DOMAIN new :
        /\ new[i] = [stage |-> s, attempt |-> a, status |-> st]
        /\ \A d \in DOMAIN new \ {i} : d \in DOMAIN old /\ new[d] = old[d] /\ ~(old[d].stage = s /\ old[d].attempt = a)
  BY DEF Wrote
<1> QED
  BY <1>1

\* The attempt that runs is the newest one, so its row can only be the last of a resume or replace one of its own.
LEMMA WrittenInOrder ==
    ASSUME TrailTyped, ShapeInv, AttemptsInv, run.at \in {"run", "stage"}, NEW st, NEW new \in Seq(Row),
           Wrote(rows, new, Current, run.attempt, st)
    PROVE  /\ Coming \in Nat /\ run.attempt = Coming
           /\ \A k \in DOMAIN new : new[k].attempt <= Coming
           /\ kind = "RESUME" => \A i, j \in DOMAIN new : i <= j => new[i].attempt <= new[j].attempt
<1>1. Coming \in Nat /\ run.attempt = Coming
  BY DEF TrailTyped, ShapeInv, Coming, AtWork
<1>2. \A k \in DOMAIN rows : rows[k].attempt <= Coming /\ rows[k].attempt \in Nat /\ k \in Nat
  <2>1. \A k \in DOMAIN rows : rows[k].attempt <= Coming
    BY DEF AttemptsInv, AtWork
  <2>2. DOMAIN rows \subseteq Nat
    BY DEF TrailTyped
  <2> QED
    BY <2>1, <2>2, RowFields
<1>3. PICK n \in DOMAIN new :
        /\ new[n] = [stage |-> Current, attempt |-> run.attempt, status |-> st]
        /\ \A k \in DOMAIN new \ {n} : k \in DOMAIN rows /\ new[k] = rows[k]
        /\ n \in DOMAIN rows => rows[n].attempt = run.attempt
        /\ n \notin DOMAIN rows => \A k \in DOMAIN rows : k < n
  BY DEF Wrote
<1>4. new[n].attempt = Coming
  BY <1>1, <1>3
<1>5. \A k \in DOMAIN new : new[k].attempt <= Coming
  BY <1>1, <1>2, <1>3, <1>4
<1>6. ASSUME kind = "RESUME", NEW i \in DOMAIN new, NEW j \in DOMAIN new, i <= j PROVE new[i].attempt <= new[j].attempt
  <2>1. \A d, e \in DOMAIN rows : d <= e => rows[d].attempt <= rows[e].attempt
    BY <1>6 DEF AttemptsInv, AtWork
  <2>2. CASE j = n
    BY <1>4, <1>5, <2>2
  <2>3. CASE j # n /\ i # n
    BY <1>3, <1>6, <2>1, <2>3
  <2>4. CASE j # n /\ i = n
    <3>1. j \in DOMAIN rows /\ new[j] = rows[j]
      BY <1>3, <2>4
    <3>2. n \in DOMAIN rows
      <4>1. SUFFICES ASSUME n \notin DOMAIN rows PROVE FALSE
        OBVIOUS
      <4>2. j < n /\ j \in Nat
        BY <1>2, <1>3, <3>1, <4>1
      <4>3. n \in Nat
        OBVIOUS
      <4> QED
        BY <1>6, <2>4, <4>2, <4>3
    <3>3. rows[n].attempt <= rows[j].attempt /\ rows[n].attempt = Coming
      BY <1>1, <1>3, <1>6, <2>1, <2>4, <3>1, <3>2
    <3> QED
      BY <1>4, <2>4, <3>1, <3>3
  <2> QED
    BY <2>2, <2>3, <2>4
<1> QED
  BY <1>1, <1>5, <1>6

LEMMA RowOfRun ==
    ASSUME TrailTyped, run \in Runs, run.i <= Len(Pipeline), NEW a \in Nat \ {0},
           NEW st \in {"RUNNING", "SUCCESS", "FAILED", "SKIPPED"}
    PROVE  /\ Written(rows, Current, a, st) \in Seq(Row) /\ OneEach(Written(rows, Current, a, st))
           /\ Wrote(rows, Written(rows, Current, a, st), Current, a, st)
<1>1. Current \in StageName
  BY StageOfRun
<1>2. rows \in Seq(Row) /\ OneEach(rows)
  BY DEF TrailTyped
<1> QED
  BY <1>1, <1>2, WrittenRow

LEMMA SkipStageKeeps == ASSUME TrailInv, SkipStage PROVE TrailInv'
<1> USE DEF TrailInv
<1>a. /\ run.at = "run" /\ Skipped /\ rows' = Written(rows, Current, run.attempt, "SKIPPED")
      /\ run' = [run EXCEPT !.i = @ + 1] /\ run.i <= Len(Pipeline) /\ upset' = upset
      /\ kind' = kind /\ log' = log /\ checkpoint' = checkpoint /\ queue' = queue /\ press' = press /\ seen' = seen
      /\ failures' = failures /\ failed' = failed
  BY DEF SkipStage, Skipped
<1>b. run \in Runs
  BY <1>a DEF TrailTyped, AtRest
<1>c. run'.at = "run" /\ run'.i = run.i + 1 /\ run'.attempt = run.attempt /\ run'.class = run.class /\ run'.from = run.from
      /\ run' \in Runs /\ run'.i <= Len(Pipeline) + 1
  <2>1. run.i \in Nat \ {0} /\ Len(Pipeline) \in Nat
    BY <1>b, PipelineOrder DEF Runs, TrailTyped
  <2> QED
    BY <1>a, <1>b, <2>1 DEF Runs
<1>d. rows' \in Seq(Row) /\ OneEach(rows') /\ Wrote(rows, rows', Current, run.attempt, "SKIPPED")
  <2>1. run.attempt \in Nat \ {0}
    BY <1>b DEF Runs
  <2> QED
    BY <1>a, <1>b, <2>1, RowOfRun
<1>0. Pipeline' = Pipeline
  BY <1>a DEF Pipeline
<1>1. TrailTyped'
  <2>1. queue # <<>>
    BY <1>a DEF TrailTyped, AtRest
  <2>2. OneEach(rows)'
    BY <1>d DEF OneEach
  <2> QED
    BY <1>a, <1>c, <1>d, <2>1, <2>2 DEF TrailTyped
<1>2. ClassInv'
  BY <1>0, <1>a, <1>c DEF ClassInv, AtWork, Deciding
<1>3. ASSUME ~upset' PROVE ShapeInv'
  BY <1>3, <1>a, <1>c DEF ShapeInv, AtWork
<1>4. ASSUME ~upset
      PROVE  /\ kind = "JD" /\ checkpoint # Null /\ Passed(run.i) /\ run.i \in DOMAIN Pipeline
             /\ \A j \in DOMAIN Pipeline : Pipeline[j] = Current <=> j = run.i
  <2>1. run.i \in DOMAIN Pipeline /\ \A j \in DOMAIN Pipeline : Pipeline[j] = Current <=> j = run.i
    BY <1>a, <1>b, StageOfRun
  <2>2. Order(Current) \in Nat
    BY <2>1, PipelineOrder DEF TrailTyped, Current
  <2>3. run.from = IF checkpoint = Null THEN 0 ELSE Order(checkpoint)
    BY <1>4, <1>a DEF SkipInv
  <2>4. checkpoint # Null /\ Order(Current) < Order(checkpoint)
    BY <1>a, <2>2, <2>3 DEF Skipped
  <2> QED
    BY <2>1, <2>4 DEF Passed, Current, TrailTyped
<1>5. ASSUME ~upset PROVE Coming \in Nat /\ run.attempt = Coming /\ \A k \in DOMAIN rows' : rows'[k].attempt <= Coming
  <2>1. ShapeInv /\ AttemptsInv
    BY <1>5
  <2> QED
    BY <1>a, <1>d, <2>1, WrittenInOrder
<1>6. ASSUME NEW k \in DOMAIN rows'
      PROVE  \/ rows'[k] = [stage |-> Current, attempt |-> run.attempt, status |-> "SKIPPED"]
             \/ k \in DOMAIN rows /\ rows'[k] = rows[k]
  BY <1>d, RowsAfter
<1>7. Coming' = Coming /\ ~Waiting' /\ Early' /\ Early
  BY <1>a, <1>c DEF Coming, Waiting, Early
<1>8. ASSUME ~upset' PROVE AttemptsInv'
  <2>1. \A k \in DOMAIN rows' : rows'[k].attempt = Coming => rows'[k].status # "FAILED"
    BY <1>6, <1>7, <1>8, <1>a DEF AttemptsInv
  <2>2. kind' = "JD"
    BY <1>4, <1>8, <1>a
  <2> QED
    BY <1>5, <1>7, <1>8, <1>a, <1>c, <2>1, <2>2 DEF AttemptsInv, AtWork
<1>9. ASSUME ~upset' PROVE SkipInv'
  <2> DEFINE old(j) == DoneIn(rows, Pipeline[j])
             new(j) == DoneIn(rows', Pipeline[j])
  <2>1. \A k \in DOMAIN rows : \A j \in DOMAIN Pipeline :
            rows[k].attempt = Coming /\ rows[k].stage = Pipeline[j] /\ Passed(j) => rows[k].status = "SKIPPED"
    BY <1>7, <1>9, <1>a DEF SkipInv
  <2>2. \A k \in DOMAIN rows : rows[k].stage = Current /\ rows[k].attempt = run.attempt => rows[k].status = "SKIPPED"
    BY <1>4, <1>5, <1>9, <1>a, <2>1 DEF Current
  <2>3. ASSUME NEW j \in DOMAIN Pipeline, old(j) PROVE new(j)
    <3>1. rows \in Seq(Row)
      BY DEF TrailTyped
    <3> QED
      BY <1>d, <2>2, <2>3, <3>1, DoneKept
  <2>4. \A j \in DOMAIN Pipeline : Passed(j) => old(j)
    BY <1>7, <1>9, <1>a DEF SkipInv
  <2>5. \A j \in DOMAIN Pipeline : j < run.i => old(j)
    BY <1>9, <1>a DEF SkipInv
  <2>6. \A j \in DOMAIN Pipeline : j < run.i + 1 => old(j)
    <3>1. \A j \in DOMAIN Pipeline : j \in Nat /\ run.i \in Nat
      BY <1>b, PipelineOrder DEF TrailTyped, Runs
    <3>2. \A j \in DOMAIN Pipeline : j < run.i + 1 => j < run.i \/ j = run.i
      BY <3>1
    <3>3. old(run.i)
      BY <1>4, <1>9, <1>a, <2>4
    <3> HIDE DEF old
    <3> QED
      BY <2>5, <3>2, <3>3
  <2>7. \A k \in DOMAIN rows' : \A j \in DOMAIN Pipeline :
            rows'[k].attempt = Coming /\ rows'[k].stage = Pipeline[j] /\ Passed(j) => rows'[k].status = "SKIPPED"
    BY <1>6, <2>1
  <2>8. \A j : Passed(j)' <=> Passed(j)
    BY <1>0, <1>a DEF Passed
  <2>9. log'.status = "RUNNING"
    BY <1>9, <1>a DEF ShapeInv, AtWork
  <2>10. run'.from = IF checkpoint' = Null THEN 0 ELSE Order(checkpoint')
    BY <1>9, <1>a, <1>c DEF SkipInv
  <2>11. (\A j \in DOMAIN Pipeline : Passed(j) => new(j)) /\ (\A j \in DOMAIN Pipeline : j < run.i + 1 => new(j))
    <3> HIDE DEF old, new
    <3> QED
      BY <2>3, <2>4, <2>6
  <2> QED
    BY <1>0, <1>7, <1>c, <2>7, <2>8, <2>9, <2>10, <2>11 DEF SkipInv
<1>10. ASSUME ~upset' PROVE FailInv'
  BY <1>4, <1>10, <1>a DEF FailInv
<1> QED
  BY <1>1, <1>2, <1>3, <1>8, <1>9, <1>10

LEMMA StartStageKeeps == ASSUME TrailInv, StartStage PROVE TrailInv'
<1> USE DEF TrailInv
<1>a. /\ run.at = "run" /\ ~Skipped /\ rows' = Written(rows, Current, run.attempt, "RUNNING")
      /\ run' = [run EXCEPT !.at = "stage"] /\ run.i <= Len(Pipeline) /\ upset' = upset
      /\ kind' = kind /\ log' = log /\ checkpoint' = checkpoint /\ queue' = queue /\ press' = press /\ seen' = seen
      /\ failures' = failures /\ failed' = failed
  BY DEF StartStage, Goes
<1>b. run \in Runs
  BY <1>a DEF TrailTyped, AtRest
<1>c. run'.at = "stage" /\ run'.i = run.i /\ run'.attempt = run.attempt /\ run'.class = run.class /\ run'.from = run.from
      /\ run' \in Runs
  BY <1>a, <1>b DEF Runs, AtWork
<1>d. rows' \in Seq(Row) /\ OneEach(rows') /\ Wrote(rows, rows', Current, run.attempt, "RUNNING")
  <2>1. run.attempt \in Nat \ {0}
    BY <1>b DEF Runs
  <2> QED
    BY <1>a, <1>b, <2>1, RowOfRun
<1>0. Pipeline' = Pipeline /\ Current' = Current
  BY <1>a, <1>c DEF Pipeline, Current
<1>1. TrailTyped'
  <2>1. queue # <<>>
    BY <1>a DEF TrailTyped, AtRest
  <2>2. OneEach(rows)'
    BY <1>d DEF OneEach
  <2> QED
    BY <1>a, <1>c, <1>d, <2>1, <2>2 DEF TrailTyped
<1>2. ClassInv'
  BY <1>0, <1>a, <1>c DEF ClassInv, AtWork, Deciding
<1>3. ASSUME ~upset' PROVE ShapeInv'
  BY <1>3, <1>a, <1>c DEF ShapeInv, AtWork
<1>4. run.i \in DOMAIN Pipeline /\ \A j \in DOMAIN Pipeline : Pipeline[j] = Current <=> j = run.i
  BY <1>a, <1>b, StageOfRun
<1>5. ASSUME ~upset
      PROVE  /\ Coming \in Nat /\ run.attempt = Coming /\ \A k \in DOMAIN rows' : rows'[k].attempt <= Coming
             /\ kind = "RESUME" => \A i, j \in DOMAIN rows' : i <= j => rows'[i].attempt <= rows'[j].attempt
  <2>1. ShapeInv /\ AttemptsInv
    BY <1>5
  <2> QED
    BY <1>a, <1>d, <2>1, WrittenInOrder
<1>6. ASSUME NEW k \in DOMAIN rows'
      PROVE  \/ rows'[k] = [stage |-> Current, attempt |-> run.attempt, status |-> "RUNNING"]
             \/ k \in DOMAIN rows /\ rows'[k] = rows[k]
  BY <1>d, RowsAfter
<1>7. Coming' = Coming /\ ~Waiting' /\ Early' /\ Early
  BY <1>a, <1>c DEF Coming, Waiting, Early
<1>8. ASSUME ~upset' PROVE AttemptsInv'
  <2>1. \A k \in DOMAIN rows' : rows'[k].attempt = Coming => rows'[k].status # "FAILED"
    BY <1>6, <1>7, <1>8, <1>a DEF AttemptsInv
  <2>2. \E k \in DOMAIN rows' : rows'[k] = [stage |-> Current, attempt |-> run.attempt, status |-> "RUNNING"]
    BY <1>d DEF Wrote
  <2>3. \E k \in DOMAIN rows' : rows'[k].stage = Current /\ rows'[k].attempt = run.attempt /\ rows'[k].status = "RUNNING"
    BY <2>2
  <2> QED
    BY <1>0, <1>5, <1>7, <1>8, <1>a, <1>c, <2>1, <2>3 DEF AttemptsInv, AtWork
<1>9. ASSUME ~upset' PROVE SkipInv'
  <2>0. run.from = IF checkpoint = Null THEN 0 ELSE Order(checkpoint)
    BY <1>9, <1>a DEF SkipInv
  <2>1. ~Passed(run.i)
    BY <1>a, <2>0 DEF Skipped, Passed, Current
  <2>2. \A k \in DOMAIN rows : \A j \in DOMAIN Pipeline :
            rows[k].attempt = Coming /\ rows[k].stage = Pipeline[j] /\ Passed(j) => rows[k].status = "SKIPPED"
    BY <1>7, <1>9, <1>a DEF SkipInv
  <2>3. ASSUME NEW j \in DOMAIN Pipeline, j # run.i, DoneIn(rows, Pipeline[j]) PROVE DoneIn(rows', Pipeline[j])
    <3>1. rows \in Seq(Row) /\ Pipeline[j] # Current
      BY <1>4, <2>3 DEF TrailTyped
    <3> QED
      BY <1>d, <2>3, <3>1, DoneKept
  <2>4. \A j \in DOMAIN Pipeline : Passed(j) => DoneIn(rows', Pipeline[j])
    <3>1. \A j \in DOMAIN Pipeline : Passed(j) => DoneIn(rows, Pipeline[j])
      BY <1>7, <1>9, <1>a DEF SkipInv
    <3> QED
      BY <2>1, <2>3, <3>1
  <2>5. \A j \in DOMAIN Pipeline : j < run.i => DoneIn(rows', Pipeline[j])
    <3>1. \A j \in DOMAIN Pipeline : j < run.i => DoneIn(rows, Pipeline[j])
      BY <1>9, <1>a DEF SkipInv
    <3>2. \A j \in DOMAIN Pipeline : j < run.i => j # run.i
      BY <1>4, PipelineOrder DEF TrailTyped
    <3> QED
      BY <2>3, <3>1, <3>2
  <2>6. \A k \in DOMAIN rows' : \A j \in DOMAIN Pipeline :
            rows'[k].attempt = Coming /\ rows'[k].stage = Pipeline[j] /\ Passed(j) => rows'[k].status = "SKIPPED"
    BY <1>4, <1>6, <2>1, <2>2
  <2>7. \A j : Passed(j)' <=> Passed(j)
    BY <1>0, <1>a DEF Passed
  <2>8. log'.status = "RUNNING"
    BY <1>9, <1>a DEF ShapeInv, AtWork
  <2>9. run'.from = IF checkpoint' = Null THEN 0 ELSE Order(checkpoint')
    BY <1>a, <1>c, <2>0
  <2> QED
    BY <1>0, <1>7, <1>c, <2>4, <2>5, <2>6, <2>7, <2>8, <2>9 DEF SkipInv
<1>10. ASSUME ~upset' PROVE FailInv'
  <2>1. log'.status = "RUNNING"
    BY <1>10, <1>a DEF ShapeInv, AtWork
  <2> QED
    BY <1>c, <2>1 DEF FailInv
<1> QED
  BY <1>1, <1>2, <1>3, <1>8, <1>9, <1>10

LEMMA CompleteStageKeeps == ASSUME TrailInv, CompleteStage PROVE TrailInv'
<1> USE DEF TrailInv
<1>a. /\ run.at = "stage" /\ rows' = Written(rows, Current, run.attempt, "SUCCESS")
      /\ run' = [run EXCEPT !.at = "run", !.i = @ + 1] /\ run.i <= Len(Pipeline) /\ upset' = upset
      /\ kind' = kind /\ log' = log /\ checkpoint' = checkpoint /\ queue' = queue /\ press' = press /\ seen' = seen
      /\ failures' = failures
  BY DEF CompleteStage, ClassInv
<1>b. run \in Runs
  BY <1>a DEF TrailTyped, AtRest
<1>c. run'.at = "run" /\ run'.i = run.i + 1 /\ run'.attempt = run.attempt /\ run'.class = run.class /\ run'.from = run.from
      /\ run' \in Runs /\ run'.i <= Len(Pipeline) + 1
  <2>1. run.i \in Nat \ {0} /\ Len(Pipeline) \in Nat
    BY <1>b, PipelineOrder DEF Runs, TrailTyped
  <2>2. run.i + 1 \in Nat \ {0} /\ run.i + 1 <= Len(Pipeline) + 1
    BY <1>a, <2>1
  <2>3. "run" \in AtWork \cup {"publish", "ack"}
    BY DEF AtWork
  <2>4. run' = [at |-> "run", i |-> run.i + 1, attempt |-> run.attempt, class |-> run.class, from |-> run.from]
    BY <1>a, <1>b DEF Runs
  <2>5. run' \in Runs
    BY <1>b, <2>2, <2>3, <2>4 DEF Runs
  <2> QED
    BY <2>2, <2>4, <2>5
<1>d. rows' \in Seq(Row) /\ OneEach(rows') /\ Wrote(rows, rows', Current, run.attempt, "SUCCESS")
  <2>1. run.attempt \in Nat \ {0}
    BY <1>b DEF Runs
  <2> QED
    BY <1>a, <1>b, <2>1, RowOfRun
<1>0. Pipeline' = Pipeline
  BY <1>a DEF Pipeline
<1>1. TrailTyped'
  <2>1. queue # <<>>
    BY <1>a DEF TrailTyped, AtRest
  <2>2. OneEach(rows)'
    BY <1>d DEF OneEach
  <2>3. failed' \in BOOLEAN /\ (failed' => kind = "RESUME")
    BY DEF CompleteStage, TrailTyped
  <2> QED
    BY <1>a, <1>c, <1>d, <2>1, <2>2, <2>3 DEF TrailTyped
<1>2. ClassInv'
  BY <1>0, <1>a, <1>c DEF ClassInv, AtWork, Deciding
<1>3. ASSUME ~upset' PROVE ShapeInv'
  BY <1>3, <1>a, <1>c DEF ShapeInv, AtWork
<1>4. run.i \in DOMAIN Pipeline /\ \A j \in DOMAIN Pipeline : Pipeline[j] = Current <=> j = run.i
  BY <1>a, <1>b, StageOfRun
<1>5. ASSUME ~upset
      PROVE  /\ Coming \in Nat /\ run.attempt = Coming /\ \A k \in DOMAIN rows' : rows'[k].attempt <= Coming
             /\ kind = "RESUME" => \A i, j \in DOMAIN rows' : i <= j => rows'[i].attempt <= rows'[j].attempt
  <2>1. ShapeInv /\ AttemptsInv
    BY <1>5
  <2> QED
    BY <1>a, <1>d, <2>1, WrittenInOrder
<1>6. ASSUME NEW k \in DOMAIN rows'
      PROVE  \/ rows'[k] = [stage |-> Current, attempt |-> run.attempt, status |-> "SUCCESS"]
             \/ k \in DOMAIN rows /\ rows'[k] = rows[k]
  BY <1>d, RowsAfter
<1>7. Coming' = Coming /\ ~Waiting' /\ Early' /\ Early
  BY <1>a, <1>c DEF Coming, Waiting, Early
<1>8. ASSUME ~upset' PROVE AttemptsInv'
  <2>1. \A k \in DOMAIN rows' : rows'[k].attempt = Coming => rows'[k].status # "FAILED"
    BY <1>6, <1>7, <1>8, <1>a DEF AttemptsInv
  <2> QED
    BY <1>5, <1>7, <1>8, <1>a, <1>c, <2>1 DEF AttemptsInv, AtWork
<1>9. ASSUME ~upset' PROVE SkipInv'
  <2>1. \A k \in DOMAIN rows : \A j \in DOMAIN Pipeline :
            rows[k].attempt = Coming /\ rows[k].stage = Pipeline[j] /\ Passed(j) => rows[k].status = "SKIPPED"
    BY <1>7, <1>9, <1>a DEF SkipInv
  <2>2. ~Passed(run.i)
    <3>1. PICK k \in DOMAIN rows : rows[k].stage = Current /\ rows[k].attempt = run.attempt /\ rows[k].status = "RUNNING"
      BY <1>9, <1>a DEF AttemptsInv
    <3> QED
      BY <1>4, <1>5, <1>9, <1>a, <2>1, <3>1
  <2>3. ASSUME NEW j \in DOMAIN Pipeline, j # run.i, DoneIn(rows, Pipeline[j]) PROVE DoneIn(rows', Pipeline[j])
    <3>1. rows \in Seq(Row) /\ Pipeline[j] # Current
      BY <1>4, <2>3 DEF TrailTyped
    <3> QED
      BY <1>d, <2>3, <3>1, DoneKept
  <2>4. DoneIn(rows', Pipeline[run.i])
    <3>1. \A k \in DOMAIN rows : rows[k].attempt <= run.attempt
      BY <1>5, <1>9, <1>a DEF AttemptsInv, AtWork
    <3>2. run.attempt \in Nat /\ rows \in Seq(Row)
      BY <1>b DEF Runs, TrailTyped
    <3>3. DoneIn(rows', Current)
      BY <1>d, <3>1, <3>2, DoneNow
    <3> QED
      BY <3>3 DEF Current
  <2>5. \A j \in DOMAIN Pipeline : Passed(j) => DoneIn(rows', Pipeline[j])
    <3>1. \A j \in DOMAIN Pipeline : Passed(j) => DoneIn(rows, Pipeline[j])
      BY <1>7, <1>9, <1>a DEF SkipInv
    <3> QED
      BY <2>2, <2>3, <3>1
  <2>6. \A j \in DOMAIN Pipeline : j < run.i + 1 => DoneIn(rows', Pipeline[j])
    <3>1. \A j \in DOMAIN Pipeline : j < run.i => DoneIn(rows, Pipeline[j])
      BY <1>9, <1>a DEF SkipInv
    <3>2. \A j \in DOMAIN Pipeline : j < run.i + 1 => j = run.i \/ (j < run.i /\ j # run.i)
      <4>1. run.i \in Nat /\ \A j \in DOMAIN Pipeline : j \in Nat
        BY <1>4, PipelineOrder DEF TrailTyped
      <4>2. ASSUME NEW j \in DOMAIN Pipeline, j < run.i + 1 PROVE j = run.i \/ (j < run.i /\ j # run.i)
        <5>1. j \in Nat
          BY <4>1
        <5> QED
          BY <4>1, <4>2, <5>1
      <4> QED
        BY <4>2
    <3> QED
      BY <2>3, <2>4, <3>1, <3>2
  <2>7. \A k \in DOMAIN rows' : \A j \in DOMAIN Pipeline :
            rows'[k].attempt = Coming /\ rows'[k].stage = Pipeline[j] /\ Passed(j) => rows'[k].status = "SKIPPED"
    BY <1>4, <1>6, <2>1, <2>2
  <2>8. \A j : Passed(j)' <=> Passed(j)
    BY <1>0, <1>a DEF Passed
  <2>9. log'.status = "RUNNING"
    BY <1>9, <1>a DEF ShapeInv, AtWork
  <2>10. run'.from = IF checkpoint' = Null THEN 0 ELSE Order(checkpoint')
    BY <1>9, <1>a, <1>c DEF SkipInv
  <2> QED
    BY <1>0, <1>7, <1>c, <2>5, <2>6, <2>7, <2>8, <2>9, <2>10 DEF SkipInv
<1>10. ASSUME ~upset' PROVE FailInv'
  <2>1. log'.status = "RUNNING"
    BY <1>10, <1>a DEF ShapeInv, AtWork
  <2> QED
    BY <1>c, <2>1 DEF FailInv
<1> QED
  BY <1>1, <1>2, <1>3, <1>8, <1>9, <1>10

LEMMA FailStageKeeps == ASSUME TrailInv, FailStage PROVE TrailInv'
<1> USE DEF TrailInv
<1>z. PICK c \in {"TRANSIENT", "PERMANENT"} :
          run' = [run EXCEPT !.at = IF kind = "JD" THEN "checkpoint" ELSE "record", !.class = c]
  BY DEF FailStage
<1>a. /\ run.at = "stage" /\ rows' = Written(rows, Current, run.attempt, "FAILED")
      /\ run.i <= Len(Pipeline) /\ upset' = upset
      /\ kind' = kind /\ log' = log /\ checkpoint' = checkpoint /\ queue' = queue /\ press' = press /\ seen' = seen
      /\ failures' = failures /\ failed' = failed
  BY DEF FailStage, ClassInv, Deciding
<1>b. run \in Runs
  BY <1>a DEF TrailTyped, AtRest
<1>c. /\ run'.at = (IF kind = "JD" THEN "checkpoint" ELSE "record") /\ run'.i = run.i /\ run'.attempt = run.attempt
      /\ run'.class = c /\ run'.class # Null /\ run' \in Runs
  <2>1. run' = [at |-> IF kind = "JD" THEN "checkpoint" ELSE "record", i |-> run.i, attempt |-> run.attempt, class |-> c,
                from |-> run.from]
    BY <1>b, <1>z DEF Runs
  <2>2. c \in Class /\ c # Null
    BY ProgressAssumption DEF Class
  <2>3. run' \in Runs
    BY <1>b, <2>1, <2>2 DEF Runs, AtWork
  <2> QED
    BY <2>1, <2>2, <2>3
<1>d. rows' \in Seq(Row) /\ OneEach(rows') /\ Wrote(rows, rows', Current, run.attempt, "FAILED")
  <2>1. run.attempt \in Nat \ {0}
    BY <1>b DEF Runs
  <2> QED
    BY <1>a, <1>b, <2>1, RowOfRun
<1>0. Pipeline' = Pipeline /\ Current' = Current
  BY <1>a, <1>c DEF Pipeline, Current
<1>1. TrailTyped'
  <2>1. queue # <<>>
    BY <1>a DEF TrailTyped, AtRest
  <2>2. OneEach(rows)'
    BY <1>d DEF OneEach
  <2> QED
    BY <1>a, <1>c, <1>d, <2>1, <2>2 DEF TrailTyped
<1>n. PICK n \in DOMAIN rows' :
        /\ rows'[n] = [stage |-> Current, attempt |-> run.attempt, status |-> "FAILED"]
        /\ \A k \in DOMAIN rows' \ {n} : k \in DOMAIN rows /\ rows'[k] = rows[k]
        /\ n \in DOMAIN rows => rows[n].attempt = run.attempt
        /\ n \notin DOMAIN rows => \A k \in DOMAIN rows : k < n
  BY <1>d DEF Wrote
<1>2. ClassInv'
  <2>1. \A k \in DOMAIN rows' : rows'[k].stage = Current /\ rows'[k].attempt = run.attempt => rows'[k].status = "FAILED"
    <3>1. \A k \in DOMAIN rows' : rows'[k].stage = Current /\ rows'[k].attempt = run.attempt => k = n
      BY <1>d, <1>n DEF OneEach
    <3> QED
      BY <1>n, <3>1
  <2>2. \A k \in Index(Current, run.attempt)' : rows'[k].status = "FAILED"
    BY <1>0, <1>c, <2>1 DEF Index
  <2>3. kind \in {"JD", "RESUME"} /\ run.i <= Len(Pipeline) /\ Len(Pipeline) \in Nat /\ run.i \in Nat
    BY <1>a, <1>b, PipelineOrder DEF TrailTyped, Runs
  <2>4. run.i <= Len(Pipeline) + 1
    BY <2>3
  <2> QED
    BY <1>0, <1>a, <1>c, <2>2, <2>3, <2>4 DEF ClassInv, AtWork, Deciding
<1>3. ASSUME ~upset' PROVE ShapeInv'
  BY <1>3, <1>a, <1>c DEF ShapeInv, AtWork
<1>5. ASSUME ~upset
      PROVE  /\ Coming \in Nat /\ run.attempt = Coming /\ \A k \in DOMAIN rows' : rows'[k].attempt <= Coming
             /\ kind = "RESUME" => \A i, j \in DOMAIN rows' : i <= j => rows'[i].attempt <= rows'[j].attempt
  <2>1. ShapeInv /\ AttemptsInv
    BY <1>5
  <2> QED
    BY <1>a, <1>d, <2>1, WrittenInOrder
<1>7. Coming' = Coming /\ ~Waiting' /\ ~Early' /\ Early
  BY <1>a, <1>c DEF Coming, Waiting, Early
<1>8. ASSUME ~upset' PROVE AttemptsInv'
  BY <1>5, <1>7, <1>8, <1>a, <1>c DEF AttemptsInv, AtWork
<1>9. ASSUME ~upset' PROVE SkipInv'
  <2>1. run.i \in DOMAIN Pipeline /\ \A j \in DOMAIN Pipeline : Pipeline[j] = Current <=> j = run.i
    BY <1>a, <1>b, StageOfRun
  <2>2. \A j \in DOMAIN Pipeline : j < run.i => DoneIn(rows', Pipeline[j])
    <3>1. ASSUME NEW j \in DOMAIN Pipeline, j < run.i PROVE DoneIn(rows', Pipeline[j])
      <4>1. DoneIn(rows, Pipeline[j])
        BY <1>9, <1>a, <3>1 DEF SkipInv
      <4>2. j # run.i
        BY <2>1, <3>1, PipelineOrder DEF TrailTyped
      <4>3. rows \in Seq(Row) /\ Pipeline[j] # Current
        BY <2>1, <4>2 DEF TrailTyped
      <4> QED
        BY <1>d, <4>1, <4>3, DoneKept
    <3> QED
      BY <3>1
  <2>3. log'.status = "RUNNING"
    BY <1>9, <1>a DEF ShapeInv, AtWork
  <2>4. kind = "RESUME" => \A j : ~Passed(j)'
    BY <1>a DEF Passed, TrailTyped
  <2>5. kind \in {"JD", "RESUME"}
    BY DEF TrailTyped
  <2> QED
    BY <1>0, <1>7, <1>c, <2>2, <2>3, <2>4, <2>5 DEF SkipInv
<1>10. ASSUME ~upset' PROVE FailInv'
  <2>1. log'.status = "RUNNING"
    BY <1>10, <1>a DEF ShapeInv, AtWork
  <2>2. ASSUME kind = "RESUME", NEW k \in DOMAIN rows', rows'[k].status = "FAILED" PROVE k <= n
    <3>0. DOMAIN rows' \subseteq Nat /\ n \in Nat /\ k \in Nat
      BY <1>d
    <3>1. CASE k = n
      BY <3>0, <3>1
    <3>2. CASE k # n
      <4>1. k \in DOMAIN rows /\ rows[k].status = "FAILED"
        BY <1>n, <2>2, <3>2
      <4>2. rows[k].attempt # Coming /\ rows[k].attempt <= Coming
        BY <1>10, <1>7, <1>a, <4>1 DEF AttemptsInv, AtWork
      <4>3. CASE n \notin DOMAIN rows
        BY <1>n, <3>0, <4>1, <4>3
      <4>4. CASE n \in DOMAIN rows
        <5>1. rows[n].attempt = Coming
          BY <1>5, <1>10, <1>a, <1>n, <4>4
        <5>2. n <= k => rows[n].attempt <= rows[k].attempt
          BY <1>10, <1>a, <2>2, <4>1, <4>4 DEF AttemptsInv, AtWork
        <5>3. Coming \in Nat /\ rows[k].attempt \in Nat
          BY <1>5, <1>10, <1>a, <4>1, RowFields
        <5>4. ~(n <= k)
          BY <4>2, <5>1, <5>2, <5>3
        <5> QED
          BY <3>0, <5>4
      <4> QED
        BY <4>3, <4>4
    <3> QED
      BY <3>1, <3>2
  <2>3. kind = "RESUME" => LastFailed(Current, run.attempt)'
    <3>1. rows'[n].stage = Current /\ rows'[n].attempt = run.attempt /\ rows'[n].status = "FAILED"
      BY <1>n
    <3> QED
      BY <1>0, <1>c, <2>2, <3>1 DEF LastFailed
  <2> QED
    BY <1>0, <1>a, <1>c, <2>1, <2>3 DEF FailInv
<1> QED
  BY <1>1, <1>2, <1>3, <1>8, <1>9, <1>10

LEMMA SkipRestKeeps == ASSUME TrailInv, SkipRest PROVE TrailInv'
<1> USE DEF TrailInv
<1>a. /\ run.at = "skip" /\ rows' = Written(rows, Current, 1, "SKIPPED") /\ kind = "JD"
      /\ run' = [run EXCEPT !.i = @ + 1] /\ run.i <= Len(Pipeline) /\ upset' = upset
      /\ kind' = kind /\ log' = log /\ checkpoint' = checkpoint /\ queue' = queue /\ press' = press /\ seen' = seen
      /\ failures' = failures /\ failed' = failed
  BY DEF SkipRest, ClassInv
<1>b. run \in Runs
  BY <1>a DEF TrailTyped, AtRest
<1>c. run'.at = "skip" /\ run'.i = run.i + 1 /\ run'.attempt = run.attempt /\ run'.class = run.class
      /\ run' \in Runs /\ run'.i <= Len(Pipeline) + 1
  <2>1. run.i \in Nat \ {0} /\ Len(Pipeline) \in Nat
    BY <1>b, PipelineOrder DEF Runs, TrailTyped
  <2> QED
    BY <1>a, <1>b, <2>1 DEF Runs
<1>d. rows' \in Seq(Row) /\ OneEach(rows') /\ Wrote(rows, rows', Current, 1, "SKIPPED")
  BY <1>a, <1>b, RowOfRun
<1>0. Pipeline' = Pipeline
  BY <1>a DEF Pipeline
<1>1. TrailTyped'
  <2>1. queue # <<>>
    BY <1>a DEF TrailTyped, AtRest
  <2>2. OneEach(rows)'
    BY <1>d DEF OneEach
  <2> QED
    BY <1>a, <1>c, <1>d, <2>1, <2>2 DEF TrailTyped
<1>2. ClassInv'
  BY <1>0, <1>a, <1>c DEF ClassInv, AtWork, Deciding
<1>3. ASSUME ~upset' PROVE ShapeInv'
  BY <1>3, <1>a, <1>c DEF ShapeInv, AtWork
<1>4. ASSUME ~upset' PROVE AttemptsInv'
  <2>1. \A k \in DOMAIN rows : rows[k].attempt <= Coming
    BY <1>4, <1>a DEF AttemptsInv, AtWork
  <2>2. 1 <= Coming
    BY DEF Coming, TrailTyped, Log
  <2>3. \A k \in DOMAIN rows' :
            \/ rows'[k] = [stage |-> Current, attempt |-> 1, status |-> "SKIPPED"]
            \/ k \in DOMAIN rows /\ rows'[k] = rows[k]
    BY <1>d, RowsAfter
  <2>4. \A k \in DOMAIN rows' : rows'[k].attempt <= Coming'
    BY <1>a, <2>1, <2>2, <2>3 DEF Coming
  <2> QED
    BY <1>a, <1>c, <2>4 DEF AttemptsInv, Early, Waiting, AtWork
<1>5. ASSUME ~upset' PROVE SkipInv'
  <2>1. log'.status = "RUNNING"
    BY <1>5, <1>a DEF ShapeInv, AtWork
  <2> QED
    BY <1>c, <2>1 DEF SkipInv, Early, Waiting
<1>6. ASSUME ~upset' PROVE FailInv'
  BY <1>a DEF FailInv
<1> QED
  BY <1>1, <1>2, <1>3, <1>4, <1>5, <1>6

-----------------------------------------------------------------------------
(* The steps that find the rows gone, or remove them.                       *)

LEMMA LoseStageKeeps == ASSUME TrailInv, LoseStage PROVE TrailInv'
<1> USE DEF TrailInv
<1>1. TrailTyped'
  <2>1. Tail(queue) \in Seq(Nat)
    BY DEF LoseStage, TrailTyped, AtRest
  <2> QED
    BY <2>1 DEF LoseStage, TrailTyped, trail
<1>2. ClassInv'
  BY DEF LoseStage, ClassInv, AtRest, AtWork, Deciding
<1>3. upset
  <2>1. SUFFICES ASSUME ~upset PROVE FALSE
    BY DEF TrailTyped
  <2>2. \E k \in DOMAIN rows : rows[k].stage = Current /\ rows[k].attempt = run.attempt
    BY <2>1 DEF LoseStage, AttemptsInv
  <2> QED
    BY <2>2 DEF LoseStage, Index
<1> QED
  BY <1>1, <1>2, <1>3 DEF LoseStage

\* The rows go, and with them what the trail says of any attempt.
LEMMA NoRows ==
    ASSUME rows' = <<>>, failures' = <<>>, checkpoint' = Null, run' = run, kind' = kind, queue' = queue,
           TrailTyped, ClassInv, ~upset' => ~upset /\ ShapeInv /\ AttemptsInv /\ log.status = "FAILURE",
           log' = log \/ log' = [status |-> "GONE", retries |-> 0], log' \in Log,
           press' \in {press, "reset"}, press \in {"no", "reset", "send"}, press' = "reset" /\ ~upset' => press # "send",
           seen' = seen, upset' \in BOOLEAN, failed' = failed
    PROVE  TrailInv'
<1>0. Pipeline' = Pipeline
  BY DEF Pipeline
<1>1. TrailTyped'
  BY DEF TrailTyped, OneEach
<1>2. ClassInv'
  BY <1>0 DEF ClassInv, Current, Index, IsLast
<1>3. ASSUME ~upset'
      PROVE  run.at \in {"idle", "ack"} /\ Over(Rest) /\ log.status = "FAILURE" /\ log'.status \in {"FAILURE", "GONE"}
  <2>1. run.at \notin AtWork \cup {"publish"}
    BY <1>3 DEF ShapeInv
  <2>2. run.at \in {"idle", "ack"}
    BY <2>1 DEF TrailTyped, Runs, AtRest
  <2>3. ~Waits(Rest)
    BY <1>3 DEF Waits
  <2> QED
    BY <1>3, <2>2, <2>3 DEF ShapeInv
<1>4. ASSUME ~upset' PROVE ~Waiting' /\ run'.at \notin AtWork \cup {"publish"}
  BY <1>3, <1>4 DEF Waiting, Waits, AtWork
<1>5. ASSUME ~upset' PROVE ShapeInv'
  <2>1. Over(Rest)'
    BY <1>3, <1>5 DEF Over, Rest
  <2>2. press # "send"
    BY <1>3, <1>5 DEF ShapeInv
  <2>3. ~(seen # Null /\ seen.status = "SUCCESS")
    BY <1>3, <1>5 DEF ShapeInv
  <2> QED
    BY <1>3, <1>4, <1>5, <2>1, <2>2, <2>3 DEF ShapeInv
<1>6. ASSUME ~upset' PROVE AttemptsInv' /\ SkipInv' /\ FailInv'
  BY <1>3, <1>4, <1>6 DEF AttemptsInv, SkipInv, FailInv, Early
<1> QED
  BY <1>1, <1>2, <1>5, <1>6 DEF TrailInv

LEMMA PressRetryKeeps == ASSUME TrailInv, PressRetry PROVE TrailInv'
<1>1. /\ rows' = <<>> /\ failures' = <<>> /\ checkpoint' = Null /\ run' = run /\ kind' = kind /\ queue' = queue
      /\ log' = log /\ press' = "reset" /\ press = "no" /\ seen' = seen /\ upset' = upset /\ failed' = failed
      /\ log.status = "FAILURE"
  BY DEF PressRetry
<1>2. TrailTyped /\ ClassInv /\ (~upset => ShapeInv /\ AttemptsInv)
  BY DEF TrailInv
<1>3. log' \in Log /\ upset' \in BOOLEAN
  BY <1>1, <1>2 DEF TrailTyped
<1> QED
  BY <1>1, <1>2, <1>3, NoRows

LEMMA PurgeKeeps == ASSUME TrailInv, Purge PROVE TrailInv'
<1>1. /\ rows' = <<>> /\ failures' = <<>> /\ checkpoint' = Null /\ run' = run /\ kind' = kind /\ queue' = queue
      /\ log' = log \/ log' = [status |-> "GONE", retries |-> 0]
      /\ press' = press /\ seen' = seen /\ failed' = failed /\ (~upset' => ~upset /\ log.status = "FAILURE")
  BY DEF Purge
<1>2. TrailTyped /\ ClassInv /\ (~upset => ShapeInv /\ AttemptsInv)
  BY DEF TrailInv
<1>3. log' \in Log /\ upset' \in BOOLEAN /\ press \in {"no", "reset", "send"}
  BY <1>1, <1>2 DEF TrailTyped, Log, Status, Purge
<1>4. press' = "reset" => press # "send"
  BY <1>1
<1> QED
  BY <1>1, <1>2, <1>3, <1>4, NoRows

-----------------------------------------------------------------------------
(* From the first message on.                                               *)

LEMMA TrailStarts == ASSUME ProgressInit PROVE TrailInv
<1>1. kind \in {"JD", "RESUME"}
  BY ProgressAssumption DEF ProgressInit
<1>2. log \in Log /\ run = AtRest /\ queue \in Seq(Nat) /\ Len(queue) = 1 /\ queue[1] = 0
  BY DEF ProgressInit, Log, Status
<1>3. rows = <<>> /\ rows \in Seq(Row) /\ failures = <<>> /\ failures \in Seq(Failure) /\ DOMAIN rows = {}
  BY DEF ProgressInit
<1>4. /\ log.status = "QUEUED" /\ log.retries = 0 /\ checkpoint = Null /\ press = "no" /\ seen = Null /\ upset = FALSE
      /\ failed = FALSE
  BY DEF ProgressInit
<1>5. TrailTyped
  BY <1>1, <1>2, <1>3, <1>4 DEF TrailTyped, OneEach
<1>6. run.at = "idle"
  BY <1>2 DEF AtRest
<1>7. ClassInv
  BY <1>6 DEF ClassInv, AtWork, Deciding
<1>8. ShapeInv
  BY <1>2, <1>4, <1>6 DEF ShapeInv, AtWork, Waits, Rest
<1>9. AttemptsInv /\ SkipInv /\ FailInv
  BY <1>3, <1>4, <1>6 DEF AttemptsInv, SkipInv, FailInv, Passed
<1> QED
  BY <1>5, <1>7, <1>8, <1>9 DEF TrailInv

LEMMA TrailStutters == ASSUME TrailInv, UNCHANGED progressVars PROVE TrailInv'
<1>1. /\ kind' = kind /\ log' = log /\ rows' = rows /\ failures' = failures /\ checkpoint' = checkpoint /\ run' = run
      /\ failed' = failed /\ queue' = queue /\ press' = press /\ seen' = seen /\ upset' = upset
  BY DEF progressVars
<1>2. Pipeline' = Pipeline
  BY <1>1 DEF Pipeline
<1>3. TrailTyped' /\ ClassInv'
  BY <1>1, <1>2 DEF TrailInv, TrailTyped, ClassInv, IsLast, Current, Index
<1>4. ShapeInv => ShapeInv'
  BY <1>1 DEF ShapeInv, Waits, Over, Rest
<1>5. AttemptsInv => AttemptsInv'
  BY <1>1, <1>2 DEF AttemptsInv, Waiting, Early, Waits, Rest, Coming, Current
<1>6. SkipInv => SkipInv'
  BY <1>1, <1>2 DEF SkipInv, Waiting, Early, Waits, Rest, Coming, Passed
<1>7. FailInv => FailInv'
  BY <1>1, <1>2 DEF FailInv, LastFailed, Current
<1> QED
  BY <1>1, <1>3, <1>4, <1>5, <1>6, <1>7 DEF TrailInv

LEMMA TrailKept == TrailInv /\ [ProgressNext]_progressVars => TrailInv'
<1> SUFFICES ASSUME TrailInv, [ProgressNext]_progressVars PROVE TrailInv'
  OBVIOUS
<1>1. CASE Take \/ SkipStage \/ StartStage \/ CompleteStage \/ FailStage \/ LoseStage
  BY <1>1, TakeKeeps, SkipStageKeeps, StartStageKeeps, CompleteStageKeeps, FailStageKeeps, LoseStageKeeps
<1>2. CASE SaveCheckpoint \/ RecordFailure \/ GiveUp \/ MarkResume \/ MarkFailure \/ MarkRetry
  BY <1>2, SaveCheckpointKeeps, RecordFailureKeeps, GiveUpKeeps, MarkResumeKeeps, MarkFailureKeeps, MarkRetryKeeps
<1>3. CASE PublishRetry \/ Acknowledge \/ FindDuplicate \/ SkipRest \/ DropUpload \/ DropCheckpoint \/ MarkSuccess
  BY <1>3, PublishRetryKeeps, AcknowledgeKeeps, FindDuplicateKeeps, SkipRestKeeps, DropUploadKeeps,
     DropCheckpointKeeps,
     MarkSuccessKeeps
<1>4. CASE Die \/ PressRetry \/ ResetLog \/ SendAgain \/ Purge \/ OpenScreen \/ CloseScreen
  BY <1>4, DieKeeps, PressRetryKeeps, ResetLogKeeps, SendAgainKeeps, PurgeKeeps, OpenScreenKeeps, CloseScreenKeeps
<1>5. CASE UNCHANGED progressVars
  BY <1>5, TrailStutters
<1> QED
  BY <1>1, <1>2, <1>3, <1>4, <1>5 DEF ProgressNext

-----------------------------------------------------------------------------
(* What the screens compute from the trail.                                 *)

LEMMA BudgetTold == ASSUME TrailInv PROVE BudgetIsTheDrivers
<1> SUFFICES ASSUME run.at \in {"publish", "resume", "fail"}, run.class = "TRANSIENT", NEW i \in Index(Current, run.attempt)
             PROVE  (RemainingOf(rows[i]) > 0) <=> (run.at = "publish")
  BY DEF BudgetIsTheDrivers
<1>1. run.class # Null /\ ClassInv
  BY ProgressAssumption DEF TrailInv
<1>2. rows[i].status = "FAILED" /\ rows[i].stage = Current /\ rows[i].attempt = run.attempt
  <2>1. run.at \in Deciding \cup {"fail"}
    BY DEF Deciding
  <2> QED
    BY <1>1, <2>1 DEF ClassInv, Index
<1>3. run.attempt \in Nat
  BY DEF TrailInv, TrailTyped, Runs, AtRest
<1>4. MaxTries(Current) \in Nat
  BY DEF MaxTries
<1>5. RemainingOf(rows[i]) = Remaining(Current, run.attempt)
  BY <1>2 DEF RemainingOf
<1>6. Remaining(Current, run.attempt) > 0 <=> run.attempt < MaxTries(Current)
  BY <1>3, <1>4 DEF Remaining
<1>7. IsLast <=> ~(run.attempt < MaxTries(Current))
  BY <1>3, <1>4 DEF IsLast
<1>8. IsLast <=> run.at # "publish"
  BY <1>1 DEF ClassInv
<1> QED
  BY <1>5, <1>6, <1>7, <1>8

LEMMA TimelineTold == ASSUME TrailInv PROVE TimelineIsTheRun
<1> SUFFICES ASSUME kind = "RESUME", run.at = "stage", ~upset
             PROVE  [stage |-> Current, attempt |-> run.attempt, status |-> "RUNNING"] \in Timeline(log).stages
  BY DEF TimelineIsTheRun
<1>1. PICK i \in DOMAIN rows : rows[i].stage = Current /\ rows[i].attempt = run.attempt /\ rows[i].status = "RUNNING"
  BY DEF TrailInv, AttemptsInv
<1>2. rows[i] = [stage |-> Current, attempt |-> run.attempt, status |-> "RUNNING"]
  <2>1. rows[i] \in Row
    BY RowFields DEF TrailInv
  <2> QED
    BY <1>1, <2>1 DEF Row
<1>3. rows[i].attempt = Shown(log)
  BY <1>1 DEF TrailInv, ShapeInv, AtWork, Shown
<1>4. Timeline(log).stages = {rows[k] : k \in {j \in DOMAIN rows : rows[j].attempt = Shown(log)}}
  BY DEF Timeline
<1> QED
  BY <1>2, <1>3, <1>4

LEMMA FailureTold == ASSUME TrailInv PROVE FailureIsTheLast
<1> DEFINE end == failures[Len(failures)]
<1> SUFFICES ASSUME failed, log.status = "FAILURE", ~upset, failures # <<>>
             PROVE  DetailView(log).failure = [stage |-> end.stage, class |-> end.class, dlq |-> dead # "none"]
  BY DEF FailureIsTheLast
<1>1. kind = "RESUME" /\ failures \in Seq(Failure)
  BY DEF TrailInv, TrailTyped
<1>2. Len(failures) \in DOMAIN failures /\ DOMAIN failures = 1..Len(failures) /\ Len(failures) \in Nat
  BY <1>1
<1>3. PICK i \in DOMAIN rows : /\ rows[i].stage = end.stage /\ rows[i].attempt = end.attempt /\ rows[i].status = "FAILED"
                               /\ \A k \in DOMAIN rows : rows[k].status = "FAILED" => k <= i
  BY <1>1 DEF TrailInv, FailInv, LastFailed
<1>4. Max(FailedRows) = i
  <2>1. i \in FailedRows /\ \A k \in FailedRows : i >= k /\ k \in Nat
    <3>1. DOMAIN rows \subseteq Nat
      BY DEF TrailInv, TrailTyped
    <3> QED
      BY <1>3, <3>1 DEF FailedRows
  <2> HIDE DEF end
  <2> QED
    BY <2>1 DEF Max
<1> DEFINE of == {k \in DOMAIN failures : failures[k].stage = rows[i].stage /\ failures[k].attempt = rows[i].attempt}
<1>5. Max(of) = Len(failures)
  <2>1. Len(failures) \in of /\ \A k \in of : k \in Nat /\ Len(failures) >= k
    BY <1>2, <1>3
  <2> HIDE DEF of, end
  <2> QED
    BY <1>2, <2>1 DEF Max
<1>6. FailedRows # {} /\ of # {}
  BY <1>2, <1>3 DEF FailedRows
<1>7. FailureBox = [stage |-> rows[i].stage, class |-> failures[Max(of)].class, dlq |-> dead # "none"]
  BY <1>4, <1>6 DEF FailureBox
<1>8. DetailView(log).failure = FailureBox
  BY DEF DetailView
<1> QED
  BY <1>3, <1>5, <1>7, <1>8

LEMMA SuccessTold == ASSUME TrailInv PROVE SuccessShowsEveryStage
<1> SUFFICES ASSUME seen # Null, ~upset, seen.status = "SUCCESS", NEW j \in DOMAIN Pipeline
             PROVE  Pipeline[j] \in StagesReached /\ StatusView(seen).stages[Pipeline[j]] = "SUCCESS"
  BY DEF SuccessShowsEveryStage
<1> DEFINE s == Pipeline[j]
           real == {r \in Of(s) : r.status # "SKIPPED"}
<1>1. DoneIn(rows, s)
  BY DEF TrailInv, ShapeInv, SkipInv
<1> HIDE DEF s
<1>2. PICK i \in DOMAIN rows :
        /\ rows[i].stage = s /\ rows[i].status = "SUCCESS"
        /\ \A k \in DOMAIN rows : rows[k].stage = s /\ rows[k].status # "SKIPPED" => rows[k].attempt <= rows[i].attempt
  BY <1>1 DEF DoneIn
<1>3. s \in StagesReached /\ rows[i] \in real
  BY <1>2 DEF StagesReached, Of
<1>4. \A q \in real : q.attempt <= rows[i].attempt /\ q.attempt \in Nat
  <2>1. TrailTyped
    BY DEF TrailInv
  <2>2. \A k \in DOMAIN rows : rows[k].attempt \in Nat
    BY <2>1, RowFields
  <2> QED
    BY <1>2, <2>2 DEF Of
<1>5. \A r \in real : r.attempt = rows[i].attempt => r = rows[i]
  BY <1>2 DEF Of, TrailInv, TrailTyped, OneEach
<1>6. Collapsed(s) = CHOOSE r \in real : \A q \in real : q.attempt <= r.attempt
  BY <1>3 DEF Collapsed
<1>7. Collapsed(s) \in real /\ \A q \in real : q.attempt <= Collapsed(s).attempt
  <2>1. \E r \in real : \A q \in real : q.attempt <= r.attempt
    BY <1>3, <1>4
  <2> HIDE DEF real
  <2> QED
    BY <1>6, <2>1
<1>8. Collapsed(s) = rows[i]
  <2>1. rows[i].attempt <= Collapsed(s).attempt /\ Collapsed(s).attempt <= rows[i].attempt
    BY <1>3, <1>4, <1>7
  <2>2. Collapsed(s).attempt = rows[i].attempt
    BY <1>3, <1>4, <1>7, <2>1
  <2> QED
    BY <1>5, <1>7, <2>2
<1>9. StatusView(seen).stages[s] = Collapsed(s).status
  BY <1>3 DEF StatusView
<1> QED
  BY <1>2, <1>3, <1>8, <1>9 DEF s

\* Whenever a screen of a task reads, it tells what the worker and the retry driver did.
THEOREM ScreensFollowTheTrail == ProgressSpec => []ScreensTellTheRun
<1>1. ProgressInit => TrailInv
  BY TrailStarts
<1>2. TrailInv /\ [ProgressNext]_progressVars => TrailInv'
  BY TrailKept
<1>3. TrailInv => ScreensTellTheRun
  BY BudgetTold, TimelineTold, FailureTold, SuccessTold DEF ScreensTellTheRun
<1> QED
  BY <1>1, <1>2, <1>3, PTL DEF ProgressSpec
=============================================================================
