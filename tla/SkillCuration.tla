--------------------------- MODULE SkillCuration ---------------------------
(***************************************************************************)
(* Skills nobody knew: raw skill texts of JDs and resumes that matched no   *)
(* canonical skill, and the administrators who resolve them (skill_curation_ *)
(* service.py, skill_repository.py, the skill part of persisting a JD or a   *)
(* resume, and the re-evaluation of affected candidates).                   *)
(*                                                                         *)
(* A request reads the unknown skill and its occurrences without a lock,     *)
(* writes, and announces after its commit: three steps, so that requests on  *)
(* one text or on one JD interleave with each other and with documents being *)
(* persisted.  The scoring a re-evaluation queues is in ScoringChain.        *)
(***************************************************************************)
EXTENDS Integers, FiniteSets

CONSTANTS
    Admins,    \* concurrent requests
    Texts,     \* raw skill texts that start out unknown
    Bases,     \* canonical skills that exist from the start
    Jds, Resumes,
    RawOf,     \* document -> the raw texts extracted from it
    Plans      \* what the administrators ask for: sets of Admins -> request

VARIABLES
    row,       \* text -> status of its unknown_skills row
    link,      \* document -> text -> its occurrence: jd_unknown_skills or candidate_skills
    skills,    \* document -> its canonical skills (jd_skills, matched candidate_skills)
    verified,  \* JDs with is_verified = VERIFIED
    canon,     \* texts that are the name of a canonical skill
    aliases,   \* base skill -> its aliases among the texts
    catalog,   \* the cached catalog: {} or {the names and aliases it was built from}
    doc,       \* document -> how far its processing is and what it matched
    plan,      \* administrator -> what he asks for
    sess,      \* administrator -> what his request read and how far it is
    late,      \* <<document, text>> stored while a resolution of the text was under way
    removed,   \* <<document, text>> an administrator deleted
    twice,     \* resumes with one occurrence that two requests migrated
    due,       \* resumes whose skills no scoring has read since they changed
    moved,     \* resumes whose candidate is past SCREENING
    reeval,    \* <<resume, text>> to re-evaluate, in the broker
    logged,    \* <<resume, text>> with a task log under the re-evaluation key
    queued     \* resume -> deterministic scoring tasks in the broker

vars == <<row, link, skills, verified, canon, aliases, catalog, doc, plan, sess, late, removed,
          twice, due, moved, reeval, logged, queued>>

Docs == Jds \cup Resumes

ASSUME CurationAssumption ==
    /\ Jds \cap Resumes = {} /\ Texts \cap Bases = {}
    /\ RawOf \in [Docs -> SUBSET Texts]

None == "none"
Statuses == {None, "PENDING", "MAPPED_TO_EXISTING", "PROMOTED_TO_CANONICAL", "DISMISSED"}
LinkStatuses == {None, "PENDING", "RESOLVED"}
Ops == {"map", "promote", "create", "resolve", "dismiss", "delete"}
Request == [op : Ops, text : Texts, skill : Bases, alias : BOOLEAN]

\* An administrator names a canonical skill that exists, and a text from the list.
ASSUME PlansAssumption == Plans \subseteq [Admins -> Request]

Idle == [at |-> "idle", seen |-> {}, lacking |-> {}, verify |-> {}, gone |-> FALSE]
NewDoc == [at |-> "new", matched |-> {}, unmatched |-> {}]

RowsOK == row \in [Texts -> Statuses]
LinksOK == link \in [Docs -> [Texts -> LinkStatuses]]
SkillsOK == skills \in [Docs -> SUBSET (Bases \cup Texts)]

(* Every table holds rows of its type, every open request what it read.     *)
TypeOK ==
    /\ RowsOK /\ LinksOK /\ SkillsOK
    /\ verified \subseteq Jds /\ canon \subseteq Texts /\ aliases \in [Bases -> SUBSET Texts]
    /\ \A d \in Docs : doc[d].matched \subseteq Bases \cup Texts /\ doc[d].unmatched \subseteq RawOf[d]
    /\ plan \in [Admins -> Request]
    /\ \A s \in Admins :
        /\ sess[s].at \in {"idle", "read", "written", "committed", "done"}
        /\ sess[s].lacking \subseteq sess[s].seen /\ sess[s].verify \subseteq Jds
    /\ due \cup twice \subseteq Resumes /\ moved \subseteq Resumes
    /\ reeval \cup logged \subseteq Resumes \X Texts /\ queued \in [Resumes -> Nat]

Init ==
    /\ row = [t \in Texts |-> None]
    /\ link = [d \in Docs |-> [t \in Texts |-> None]]
    /\ skills = [d \in Docs |-> {}]
    /\ verified = {} /\ canon = {} /\ aliases = [b \in Bases |-> {}] /\ catalog = {}
    /\ doc = [d \in Docs |-> NewDoc]
    /\ plan \in Plans
    /\ sess = [s \in Admins |-> Idle]
    /\ late = {} /\ removed = {} /\ twice = {} /\ due = {} /\ moved = {}
    /\ reeval = {} /\ logged = {} /\ queued = [r \in Resumes |-> 0]

-----------------------------------------------------------------------------
(* The documents' side *)

Known == canon \cup UNION {aliases[b] : b \in Bases}

(* A canonical name is tried before the aliases. *)
SkillFor(c, t) == IF t \in c.canon THEN t ELSE CHOOSE b \in Bases : t \in c.aliases[b]
Knows(c, t) == t \in c.canon \/ \E b \in Bases : t \in c.aliases[b]

(* normalize_skills: against the cached catalog, or, on a miss, against the  *)
(* active skills, which are then cached.                                    *)
Match(d) ==
    LET c == IF catalog = {} THEN [canon |-> canon, aliases |-> aliases]
             ELSE CHOOSE k \in catalog : TRUE
        hit == {t \in RawOf[d] : Knows(c, t)}
    IN  /\ doc[d].at = "new"
        /\ catalog' = {c}
        /\ doc' = [doc EXCEPT ![d] = [at |-> "matched", matched |-> {SkillFor(c, t) : t \in hit},
                                      unmatched |-> RawOf[d] \ hit]]
        /\ UNCHANGED <<row, link, skills, verified, canon, aliases, plan, sess, late, removed,
                       due, moved, twice, reeval, logged, queued>>

Writing(t) == {s \in Admins : sess[s].at = "written" /\ plan[s].text = t}

(* An unknown text gets a row, or frequency + 1 when it has one, whatever its  *)
(* status.                                                                  *)
Upserted(new) == [t \in Texts |-> IF t \in new /\ row[t] = None THEN "PENDING" ELSE row[t]]

(* Persisting in one transaction: matched skills, and for every other text    *)
(* the unknown skill and an occurrence.  The row lock of an uncommitted       *)
(* resolution is waited for.  A resume's first scoring is queued.           *)
Persist(d) ==
    LET new == doc[d].unmatched IN
    /\ doc[d].at = "matched"
    /\ \A t \in new : Writing(t) = {}
    /\ row' = Upserted(new)
    /\ link' = [link EXCEPT ![d] = [t \in Texts |-> IF t \in new THEN "PENDING" ELSE None]]
    /\ skills' = [skills EXCEPT ![d] = doc[d].matched]
    /\ verified' = verified \cup (IF d \in Jds /\ new = {} THEN {d} ELSE {})
    /\ doc' = [doc EXCEPT ![d].at = "stored"]
    /\ late' = late \cup {<<d, t>> : t \in {u \in new :
                            \E s \in Admins : sess[s].at = "read" /\ plan[s].text = u}}
    /\ due' = due \cup ({d} \cap Resumes)
    /\ queued' = [r \in Resumes |-> IF r = d THEN queued[r] + 1 ELSE queued[r]]
    /\ UNCHANGED <<canon, aliases, catalog, plan, sess, removed, moved, twice, reeval, logged>>

-----------------------------------------------------------------------------
(* A resolution: read, write, commit, announce *)

Creates(s) == plan[s].op \in {"promote", "create"}
Target(s) == IF Creates(s) THEN plan[s].text ELSE plan[s].skill
Migrates(s) == plan[s].op \in {"map", "promote", "create", "resolve"}

Reached_JdsOnly(s) == IF plan[s].op = "dismiss" THEN {} ELSE Jds

(* Whose occurrences an operation works on: mapping and promoting leave the   *)
(* resumes alone.                                                           *)
Reached(s) ==
    CASE plan[s].op \in {"create", "resolve"} -> Docs
      [] plan[s].op \in {"map", "promote", "delete"} -> Jds
      [] plan[s].op = "dismiss" -> {}

(* A JD's pending links or, before a delete, all of them; a resume's rows.   *)
Occurrences(s) ==
    {d \in Reached(s) : \/ link[d][plan[s].text] = "PENDING"
                        \/ plan[s].op = "delete" /\ link[d][plan[s].text] # None}

Read(s) ==
    LET p == plan[s] IN
    /\ sess[s].at = "idle"
    /\ row[p.text] # None
    /\ p.op = "resolve" => row[p.text] = "PENDING"
    /\ Creates(s) => p.text \notin Known
    /\ sess' = [sess EXCEPT ![s] = [Idle EXCEPT
                 !.at = "read", !.seen = Occurrences(s),
                 !.lacking = {d \in Occurrences(s) : Migrates(s) /\ Target(s) \notin skills[d]}]]
    /\ UNCHANGED <<row, link, skills, verified, canon, aliases, catalog, doc, plan, late, removed,
                   due, moved, twice, reeval, logged, queued>>

(* Row locks of the same unknown skill, or a unique key inserted but not yet  *)
(* committed.                                                               *)
Blocked(s) == \E u \in Admins \ {s} :
    /\ sess[u].at = "written"
    /\ \/ plan[u].text = plan[s].text
       \/ Target(u) = Target(s) /\ sess[u].lacking \cap sess[s].lacking # {}

(* The alias already belongs to another skill. *)
AliasTaken(t, b) == t \in canon \/ \E c \in Bases \ {b} : t \in aliases[c]

(* What ends a request at its first write: a link or the unknown skill it read *)
(* is gone (StaleDataError), a unique key exists by now (IntegrityError), the *)
(* alias is taken (BadRequestError).                                        *)
Conflict(s) ==
    LET p == plan[s] IN
    \/ Migrates(s) /\ \E d \in sess[s].seen \cap Jds : link[d][p.text] = None
    \/ p.op \in {"map", "promote", "resolve", "dismiss"} /\ sess[s].gone
    \/ \E d \in sess[s].lacking : Target(s) \in skills[d]
    \/ Creates(s) /\ p.text \in canon
    \/ p.op \in {"map", "resolve"} /\ p.alias /\ AliasTaken(p.text, p.skill)

Abort(s) ==
    /\ sess[s].at = "read" /\ ~Blocked(s) /\ Conflict(s)
    /\ sess' = [sess EXCEPT ![s] = [Idle EXCEPT !.at = "done"]]
    /\ UNCHANGED <<row, link, skills, verified, canon, aliases, catalog, doc, plan, late, removed,
                   due, moved, twice, reeval, logged, queued>>

FullyResolved_Always(j, t) == j \in Jds /\ t \in Texts

(* mark_jd_verified_if_fully_resolved: no pending link but those of this text. *)
FullyResolved(j, t) == \A u \in Texts \ {t} : link[j][u] # "PENDING"

(* Mapping and promoting do not refresh is_verified. *)
Write(s) ==
    /\ sess[s].at = "read" /\ ~Blocked(s) /\ ~Conflict(s)
    /\ sess' = [sess EXCEPT ![s].at = "written",
                 ![s].verify = {j \in sess[s].seen \cap Jds :
                                  /\ plan[s].op \in {"create", "resolve", "delete"}
                                  /\ FullyResolved(j, plan[s].text)}]
    /\ UNCHANGED <<row, link, skills, verified, canon, aliases, catalog, doc, plan, late, removed,
                   due, moved, twice, reeval, logged, queued>>

Erases(s) == plan[s].op \in {"create", "delete"} /\ ~sess[s].gone

RowAfter(s) ==
    CASE plan[s].op \in {"map", "resolve"} -> "MAPPED_TO_EXISTING"
      [] plan[s].op = "promote" -> "PROMOTED_TO_CANONICAL"
      [] plan[s].op = "dismiss" -> "DISMISSED"
      [] Erases(s) -> None
      [] OTHER -> row[plan[s].text]

(* Links are kept as RESOLVED, deleted one by one, or deleted with the unknown *)
(* skill, whichever documents they belong to.                               *)
LinkAfter(s, d) ==
    CASE plan[s].op \in {"map", "promote"} /\ d \in sess[s].seen -> "RESOLVED"
      [] plan[s].op = "resolve" /\ d \in sess[s].seen -> None
      [] Erases(s) -> None
      [] OTHER -> link[d][plan[s].text]

Commit(s) ==
    LET p == plan[s] IN
    /\ sess[s].at = "written"
    /\ row' = [row EXCEPT ![p.text] = RowAfter(s)]
    /\ link' = [d \in Docs |-> [link[d] EXCEPT ![p.text] = LinkAfter(s, d)]]
    /\ skills' = [d \in Docs |-> skills[d] \cup (IF d \in sess[s].lacking THEN {Target(s)} ELSE {})]
    /\ verified' = verified \cup sess[s].verify
    /\ canon' = canon \cup (IF Creates(s) THEN {p.text} ELSE {})
    /\ aliases' = IF p.op \in {"map", "resolve"} /\ p.alias
                  THEN [aliases EXCEPT ![p.skill] = @ \cup {p.text}] ELSE aliases
    /\ removed' = IF p.op = "delete" /\ Erases(s)
                  THEN removed \cup {<<d, p.text>> : d \in {e \in Docs : link[e][p.text] # None}}
                  ELSE removed
    /\ due' = due \cup (sess[s].lacking \cap Resumes)
    /\ twice' = twice \cup {r \in sess[s].lacking \cap Resumes : link[r][p.text] = None}
    /\ sess' = [u \in Admins |->
          IF u = s THEN [sess[s] EXCEPT !.at = "committed"]
          ELSE IF Erases(s) /\ sess[u].at = "read" /\ plan[u].text = p.text
               THEN [sess[u] EXCEPT !.gone = TRUE] ELSE sess[u]]
    /\ UNCHANGED <<catalog, doc, plan, late, moved, reeval, logged, queued>>

(* After the commit: re-evaluation of the resumes and, for a new skill or      *)
(* alias, the cached catalog dropped.                                       *)
Announce(s) ==
    /\ sess[s].at = "committed"
    /\ reeval' = reeval \cup {<<r, plan[s].text>> : r \in sess[s].seen \cap Resumes}
    /\ catalog' = IF Migrates(s) THEN {} ELSE catalog
    /\ sess' = [sess EXCEPT ![s].at = "done"]
    /\ UNCHANGED <<row, link, skills, verified, canon, aliases, doc, plan, late, removed, due,
                   moved, twice, logged, queued>>

-----------------------------------------------------------------------------
(* Re-evaluation *)

Handled_PerCandidate(r, t) == t \in Texts /\ \E u \in Texts : <<r, u>> \in logged

(* The idempotency key names the candidate and the unknown skill. *)
Handled(r, t) == <<r, t>> \in logged

(* CandidateReEvaluationValidator: only before SHORTLISTED; once per key.     *)
Reevaluate(r, t) ==
    LET go == r \notin moved /\ ~Handled(r, t) IN
    /\ <<r, t>> \in reeval
    /\ reeval' = reeval \ {<<r, t>>}
    /\ logged' = IF go THEN logged \cup {<<r, t>>} ELSE logged
    /\ queued' = IF go THEN [queued EXCEPT ![r] = @ + 1] ELSE queued
    /\ UNCHANGED <<row, link, skills, verified, canon, aliases, catalog, doc, plan, sess, late,
                   removed, due, moved, twice>>

(* A scoring task reads the candidate's skills. *)
Score(r) ==
    /\ queued[r] > 0
    /\ queued' = [queued EXCEPT ![r] = @ - 1]
    /\ due' = due \ {r}
    /\ UNCHANGED <<row, link, skills, verified, canon, aliases, catalog, doc, plan, sess, late,
                   removed, moved, twice, reeval, logged>>

Shortlist(r) ==
    /\ doc[r].at = "stored" /\ r \notin moved
    /\ moved' = moved \cup {r}
    /\ UNCHANGED <<row, link, skills, verified, canon, aliases, catalog, doc, plan, sess, late,
                   removed, twice, due, reeval, logged, queued>>

Next ==
    \/ \E d \in Docs : Match(d) \/ Persist(d)
    \/ \E s \in Admins : Read(s) \/ Abort(s) \/ Write(s) \/ Commit(s) \/ Announce(s)
    \/ \E r \in Resumes : Score(r) \/ Shortlist(r)
    \/ \E r \in Resumes, t \in Texts : Reevaluate(r, t)

Spec == Init /\ [][Next]_vars

-----------------------------------------------------------------------------
(* Properties *)

(* A JD marked VERIFIED has no unknown skill left to resolve: the recount of   *)
(* mark_jd_verified_if_fully_resolved, while other requests resolve the JD's  *)
(* other texts, never runs ahead of them.                                   *)
VerifiedIsResolved == \A j \in verified, t \in Texts : link[j][t] # "PENDING"

(* No raw skill of a stored document disappears: it is still an occurrence to *)
(* resolve, or it has become a skill of the document, or an administrator      *)
(* deleted it.  Two requests on one text, or the cascade that deletes an       *)
(* unknown skill, lose at most what was stored while a request was under way. *)
OccurrenceAccounted ==
    \A d \in Docs : \A t \in RawOf[d] : doc[d].at = "stored" =>
        \/ link[d][t] = "PENDING"
        \/ skills[d] \cap (Bases \cup {t}) # {}
        \/ <<d, t>> \in removed \cup late

(* No raw skill is lost and no JD is verified too early, whoever resolves,     *)
(* deletes or stores what at the same time.                                    *)
UnknownSkillsAccounted == VerifiedIsResolved /\ OccurrenceAccounted

(* A candidate whose skills a resolution changed is scored again on the new    *)
(* skills, unless he is past SCREENING: the request queues the re-evaluation  *)
(* only after its commit, and no idempotency key swallows it.  Two requests    *)
(* that migrate one occurrence share a key, so those are left out.            *)
ChangedSkillsRescored == \A r \in Resumes : r \in due ~> (r \notin due \/ r \in moved \cup twice)
=============================================================================
