---------------------------- MODULE ResumeIntake ----------------------------
(***************************************************************************)
(* How a resume comes in and what happens to its candidate afterwards: the   *)
(* individual upload (resume_intake_service.py, resume_upload_service.py,     *)
(* candidate_service.py), adding a candidate from the talent pool             *)
(* (talent_pool_service.py, resume_selection_service.py), erasure              *)
(* (candidate_erasure_service.py), and the daily correction of talent pool     *)
(* eligibility (talent_pool_tasks.py).                                       *)
(*                                                                         *)
(* A request is a sequence of transactions; one step is one of them, or the   *)
(* reads a later one relies on.  Processing and embedding are one step each:  *)
(* ResumeTask has the detail.                                               *)
(***************************************************************************)
EXTENDS Integers, FiniteSets

CONSTANTS
    Requests,   \* requests, and the resumes and task ids they create
    Old,        \* the resume that may be there from the start
    Persons, Files, Campaigns,
    Encounters  \* what the requests ask for, and how the tables start

VARIABLES
    cand,      \* person -> his candidates row
    resumes,   \* resume -> its row
    members,   \* campaign_candidates
    log,       \* resume -> its task log row under the idempotency key of processing
    broker,    \* resumes with a processing message
    embeds,    \* resumes with an EMBED_RESUME message
    embedKey,  \* resumes with an EMBED_RESUME task log
    vector,    \* resume -> its embedding: none, in the talent pool, or out of it
    scored,    \* members a DETERMINISTIC_SCORE was queued for
    open,      \* active campaigns
    fraud,     \* persons whose latest application is flagged in FRAUD_REVIEW
    check,     \* person -> what the eligibility job has decided and not yet written
    raced,     \* persons two uploads gave a version to at the same time
    ask, sess  \* request -> what it asks for, and how far it is

intakeVars == <<cand, resumes, members, log, broker, embeds, embedKey, vector, scored, open, fraud,
          check, raced, ask, sess>>

None == "none"
Ids == Requests \cup {Old}
NoResume == [of |-> None, file |-> None, version |-> 0, active |-> FALSE, parsed |-> FALSE,
             outdated |-> FALSE, task |-> None]
NoLog == [task |-> None, status |-> None]
Kinds == {None, "upload", "pool", "erase", "requestErasure", "close", "fraud"}
Question == [kind : Kinds, campaign : Campaigns, person : Persons, file : Files,
             resolution : {None, "use_existing", "upload_anyway"}, people : SUBSET Persons]

(* Requests make rows of their own; the resume there from the start is the    *)
(* only and active one of its candidate.                                     *)
ASSUME IntakeAssumption ==
    /\ Old \notin Requests /\ None \notin Persons \cup Files
    /\ \A s \in Encounters :
        /\ s.ask \in [Requests -> Question] /\ s.in \subseteq Campaigns
        /\ s.old = NoResume \/ s.old \in [of : Persons, file : Files, version : Nat, active : {TRUE},
                                         parsed : BOOLEAN, outdated : BOOLEAN, task : {Old}]

Waiting == {"idle", "match", "candidate", "versions", "store", "lock", "record", "log", "publish"}
Resting == [at |-> "idle", person |-> None, id |-> None, seen |-> {}, apps |-> {}, max |-> 0]

CandOK == cand \in [Persons -> {None, "held", "requested"}]
ResumesOK == \A i \in Ids : resumes[i].of \in Persons \cup {None} /\ resumes[i].file \in Files \cup {None}
MembersOK == \A m \in members : /\ m.campaign \in Campaigns /\ m.resume \in Ids
                                /\ resumes[m.resume].of = m.person
LogOK == \A i \in Ids : log[i].status \in {None, "queued", "refused", "done", "dead"}
VectorOK == vector \in [Ids -> {None, "in", "out"}] /\ check \in [Persons -> {None, "in", "out"}]

(* Every table holds rows of its type, a member refers to a resume of his, and *)
(* every request is at a step of its kind.                                  *)
IntakeTypeOK ==
    /\ CandOK /\ ResumesOK /\ MembersOK /\ LogOK /\ VectorOK
    /\ broker \cup embeds \cup embedKey \subseteq Ids
    /\ scored \subseteq [campaign : Campaigns, person : Persons, resume : Ids]
    /\ open \subseteq Campaigns /\ fraud \cup raced \subseteq Persons
    /\ \A q \in Requests : /\ ask[q].kind \in Kinds
                           /\ sess[q].at \in Waiting \cup {"linked", "picked", "reparse", "erasing", "flagged", "answered", "ended"}

IntakeInit ==
    /\ \E s \in Encounters :
        /\ ask = s.ask
        /\ cand = [p \in Persons |-> IF p = s.old.of THEN "held" ELSE None]
        /\ resumes = [i \in Ids |-> IF i = Old THEN s.old ELSE NoResume]
        /\ log = [i \in Ids |-> IF i = Old /\ s.logged THEN [task |-> Old, status |-> "done"] ELSE NoLog]
        /\ members = {[campaign |-> c, person |-> s.old.of, resume |-> Old] : c \in s.in}
        /\ embedKey = (IF s.old = NoResume THEN {} ELSE {Old})
        /\ vector = [i \in Ids |-> IF i \in embedKey THEN "in" ELSE None]
    /\ broker = {} /\ embeds = {} /\ scored = {}
    /\ open = Campaigns /\ fraud = {} /\ check = [p \in Persons |-> None] /\ raced = {}
    /\ sess = [q \in Requests |-> Resting]

OfPerson(p) == {i \in Ids : resumes[i].of = p}
Active(p) == {i \in OfPerson(p) : resumes[i].active}
In(c, p) == \E m \in members : m.campaign = c /\ m.person = p

Tables == <<cand, resumes, members, log, embedKey, vector>>
Rest == <<broker, embeds, scored, open, fraud, check, raced, ask>>

To(q, s) == sess' = [sess EXCEPT ![q] = s]
End(q) == To(q, [Resting EXCEPT !.at = "ended"])

-----------------------------------------------------------------------------
(* The individual upload *)

(* Neither check holds a lock. *)
Precheck(q) ==
    LET a == ask[q] IN
    /\ a.kind = "upload" /\ sess[q].at = "idle"
    /\ IF a.campaign \in open /\ ~In(a.campaign, a.person)
       THEN To(q, [Resting EXCEPT !.at = "match"]) ELSE End(q)
    /\ UNCHANGED <<Tables, Rest>>

(* The file hash, system-wide.  An identical file takes a decision of the user, *)
(* and the candidate is then the one of that file.                          *)
MatchFile(q) ==
    LET a == ask[q]
        same == {i \in Ids : resumes[i].file = a.file}
    IN  /\ sess[q].at = "match"
        /\ \/ same = {} /\ To(q, [Resting EXCEPT !.at = "candidate"])
           \/ same # {} /\ a.resolution = None /\ End(q)
           \/ \E i \in same : /\ a.resolution = "use_existing"
                              /\ To(q, [Resting EXCEPT !.at = "lock", !.person = resumes[i].of, !.id = i])
           \/ \E i \in same : /\ a.resolution = "upload_anyway"
                              /\ To(q, [Resting EXCEPT !.at = "versions", !.person = resumes[i].of])
        /\ UNCHANGED <<Tables, Rest>>

(* get_or_create: one row per email hash; refused for a candidate who asked to *)
(* be erased.                                                               *)
Resolve(q) ==
    LET p == ask[q].person IN
    /\ sess[q].at = "candidate"
    /\ IF cand[p] = "requested" THEN End(q) /\ UNCHANGED cand
       ELSE /\ cand' = [cand EXCEPT ![p] = "held"]
            /\ To(q, [sess[q] EXCEPT !.at = "versions", !.person = p])
    /\ UNCHANGED <<resumes, members, log, embedKey, vector, Rest>>

(* get_max_version_number *)
LatestVersion(p) ==
    LET versions == {resumes[i].version : i \in OfPerson(p)}
    IN  CHOOSE v \in versions : \A w \in versions : w <= v

ReadVersions(q) ==
    LET p == sess[q].person IN
    /\ sess[q].at = "versions"
    /\ To(q, [sess[q] EXCEPT !.at = "store", !.seen = Active(p),
                             !.max = IF Active(p) = {} THEN 0 ELSE LatestVersion(p)])
    /\ UNCHANGED <<Tables, Rest>>

Superseded_Kept(q) == {{i \in sess[q].seen : i = q}}

(* What deactivate_active_version deactivates, if the candidate had an active   *)
(* version when it was read: an UPDATE that waited for another upload's lock   *)
(* does not see the row that upload inserted.                               *)
Superseded(q) ==
    IF sess[q].seen = {} THEN {{}} ELSE {sess[q].seen, Active(sess[q].person)}

(* The candidate may have been erased meanwhile: the insert fails. *)
StoreVersion(q) ==
    LET p == sess[q].person IN
    /\ sess[q].at = "store"
    /\ IF cand[p] = None THEN End(q) /\ UNCHANGED <<resumes, raced>>
       ELSE \E old \in Superseded(q) :
            /\ resumes' = [i \in Ids |->
                 IF i = q THEN [NoResume EXCEPT !.of = p, !.file = ask[q].file, !.active = TRUE,
                                                !.version = sess[q].max + 1]
                 ELSE [resumes[i] EXCEPT !.active = @ /\ i \notin old]]
            /\ raced' = raced \cup {r \in {p} : \E u \in Requests \ {q} :
                                                   sess[u].at = "store" /\ sess[u].person = p}
            /\ To(q, [sess[q] EXCEPT !.at = "lock", !.id = q])
    /\ UNCHANGED <<cand, members, log, embedKey, vector, broker, embeds, scored, open, fraud, check, ask>>

LockFree_Ignored(c) == c \in Campaigns

(* The campaign row is locked until the inserting transaction ends. *)
LockFree(c) == \A u \in Requests : sess[u].at \in {"linked", "picked"} => ask[u].campaign # c

(* create_campaign_candidate, up to the caller's commit. *)
Link(q) ==
    LET c == ask[q].campaign IN
    /\ sess[q].at = "lock" /\ LockFree(c)
    /\ IF c \in open /\ resumes[sess[q].id].of # None /\ ~In(c, sess[q].person)
       THEN To(q, [sess[q] EXCEPT !.at = "linked"]) ELSE End(q)
    /\ UNCHANGED <<Tables, Rest>>

Member(c, i) == [campaign |-> c, person |-> resumes[i].of, resume |-> i]

(* A new application is its person's latest, and not flagged.                *)
Apply(c, is) ==
    /\ members' = members \cup {Member(c, i) : i \in is}
    /\ fraud' = fraud \ {resumes[i].of : i \in is}

(* With "use_existing" the request returns before its first commit: the insert *)
(* is rolled back with the session.                                         *)
CommitLink(q) ==
    LET s == sess[q] IN
    /\ s.at = "linked"
    /\ IF s.id = q
       THEN Apply(ask[q].campaign, {q}) /\ To(q, [s EXCEPT !.at = "record"])
       ELSE UNCHANGED <<members, fraud>> /\ To(q, [s EXCEPT !.at = "answered"])
    /\ UNCHANGED <<cand, resumes, log, embedKey, vector, broker, embeds, scored, open, check, raced, ask>>

RecordTask(q) ==
    /\ sess[q].at = "record"
    /\ IF resumes[q].of = None THEN End(q) /\ UNCHANGED resumes
       ELSE /\ resumes' = [resumes EXCEPT ![q].task = q]
            /\ To(q, [sess[q] EXCEPT !.at = "log"])
    /\ UNCHANGED <<cand, members, log, embedKey, vector, Rest>>

CreateLog(q) ==
    /\ sess[q].at = "log"
    /\ IF resumes[q].of = None THEN End(q) /\ UNCHANGED log
       ELSE /\ log' = [log EXCEPT ![q] = [task |-> q, status |-> "queued"]]
            /\ To(q, [sess[q] EXCEPT !.at = "publish"])
    /\ UNCHANGED <<cand, resumes, members, embedKey, vector, Rest>>

Refused_Unmarked(q) == log[q].status

(* mark_dispatch_failed: still QUEUED, for the recovery job. *)
Refused(q) == IF log[q].status = "queued" THEN "refused" ELSE log[q].status

(* A refused publish does not fail the upload. *)
Publish(q) ==
    /\ sess[q].at = "publish"
    /\ \/ broker' = broker \cup {q} /\ UNCHANGED log
       \/ log' = [log EXCEPT ![q].status = Refused(q)] /\ UNCHANGED broker
    /\ To(q, [sess[q] EXCEPT !.at = "answered"])
    /\ UNCHANGED <<cand, resumes, members, embedKey, vector, embeds, scored, open, fraud, check, raced, ask>>

(* The process dies between two transactions. *)
RequestDies(q) ==
    /\ sess[q].at \in {"versions", "lock", "linked", "record", "log", "publish"}
    /\ End(q)
    /\ UNCHANGED <<Tables, Rest>>

Upload(q) ==
    \/ Precheck(q) \/ MatchFile(q) \/ Resolve(q) \/ ReadVersions(q) \/ StoreVersion(q) \/ Link(q)
    \/ CommitLink(q) \/ RecordTask(q) \/ CreateLog(q) \/ Publish(q) \/ RequestDies(q)

-----------------------------------------------------------------------------
(* Adding candidates from the talent pool, one or several *)

Eligible(i) == resumes[i].parsed /\ vector[i] = "in"

(* The resume selected is the one that scores best for the campaign: any. *)
Fit(p) == {i \in OfPerson(p) : Eligible(i)}

(* The others are reported as failed.  Nothing here asks whether the candidate  *)
(* requested erasure.                                                       *)
Takable(q) == {p \in ask[q].people : cand[p] # None /\ ~In(ask[q].campaign, p) /\ Fit(p) # {}}

PoolLock(q) ==
    LET c == ask[q].campaign IN
    /\ ask[q].kind = "pool" /\ sess[q].at = "idle" /\ LockFree(c)
    /\ IF c \in open /\ Takable(q) # {}
       THEN \E pick \in [Takable(q) -> Ids] :
              /\ \A p \in Takable(q) : pick[p] \in Fit(p)
              /\ To(q, [sess[q] EXCEPT !.at = "picked", !.seen = {pick[p] : p \in Takable(q)}])
       ELSE End(q)
    /\ UNCHANGED <<Tables, Rest>>

PoolCommit(q) ==
    /\ sess[q].at = "picked"
    /\ Apply(ask[q].campaign, sess[q].seen)
    /\ To(q, [sess[q] EXCEPT !.at = "reparse"])
    /\ UNCHANGED <<cand, resumes, log, embedKey, vector, broker, embeds, scored, open, check, raced, ask>>

(* _enqueue_resume_reparse: a new task id and, unless a row already has the     *)
(* resume's idempotency key, a message, which the broker may refuse.          *)
Reparse(q, i) ==
    /\ resumes' = [resumes EXCEPT ![i].task = q]
    /\ UNCHANGED <<embedKey, embeds>>
    /\ \/ log[i] # NoLog /\ UNCHANGED <<log, broker>>
       \/ /\ log[i] = NoLog /\ broker' = broker \cup {i}
          /\ log' = [log EXCEPT ![i] = [task |-> q, status |-> "queued"]]
       \/ /\ log[i] = NoLog /\ UNCHANGED broker
          /\ log' = [log EXCEPT ![i] = [task |-> q, status |-> "refused"]]

(* _queue_evaluation_tasks, for one of the candidates added: an up-to-date      *)
(* resume only gets a row nobody reads, and an embedding that its key already   *)
(* suppresses; an erased one gets nothing.                                   *)
QueueEvaluation(q) ==
    /\ sess[q].at = "reparse"
    /\ \E i \in sess[q].seen :
        /\ IF resumes[i].of # None /\ resumes[i].outdated THEN Reparse(q, i)
           ELSE /\ embeds' = embeds \cup ({i} \ embedKey)
                /\ embedKey' = embedKey \cup ({i} \cap {j \in Ids : resumes[j].of # None})
                /\ UNCHANGED <<resumes, log, broker>>
        /\ To(q, [sess[q] EXCEPT !.seen = @ \ {i}, !.at = IF sess[q].seen = {i} THEN "answered" ELSE "reparse"])
    /\ UNCHANGED <<cand, members, vector, scored, open, fraud, check, raced, ask>>

Pool(q) == PoolLock(q) \/ PoolCommit(q) \/ QueueEvaluation(q)

-----------------------------------------------------------------------------
(* Erasure, fraud review, closing *)

MembersOf(p) == {m \in members : m.person = p}

EraseRead(q) ==
    LET p == ask[q].person IN
    /\ ask[q].kind = "erase" /\ sess[q].at = "idle"
    /\ IF cand[p] = None THEN End(q)
       ELSE To(q, [sess[q] EXCEPT !.at = "erasing", !.seen = OfPerson(p), !.apps = MembersOf(p)])
    /\ UNCHANGED <<Tables, Rest>>

Unread_ResumesOnly(q, p) == OfPerson(p) \ sess[q].seen

(* What refers to the candidate and came after the reads. *)
Unread(q, p) == (OfPerson(p) \ sess[q].seen) \cup {m.resume : m \in MembersOf(p) \ sess[q].apps}

(* A row that refers to the candidate and was not read makes the whole erasure *)
(* fail on its foreign key; an insert that holds one makes it wait.            *)
EraseCommit(q) ==
    LET p == ask[q].person
        mine == OfPerson(p)
        gone(f, x) == [i \in Ids |-> IF i \in mine THEN x ELSE f[i]]
    IN  /\ sess[q].at = "erasing"
        /\ \A u \in Requests : /\ sess[u].at = "linked" => sess[u].person # p
                               /\ sess[u].at = "picked" => sess[u].seen \cap mine = {}
        /\ IF Unread(q, p) = {}
           THEN /\ cand' = [cand EXCEPT ![p] = None]
                /\ resumes' = gone(resumes, NoResume) /\ log' = gone(log, NoLog)
                /\ vector' = gone(vector, None)
                /\ members' = members \ sess[q].apps /\ scored' = scored \ sess[q].apps
                /\ embedKey' = embedKey \ mine /\ fraud' = fraud \ {p}
           ELSE UNCHANGED <<Tables, scored, fraud>>
        /\ End(q)
        /\ UNCHANGED <<broker, embeds, open, check, raced, ask>>

RequestErasure(q) ==
    LET p == ask[q].person IN
    /\ ask[q].kind = "requestErasure" /\ sess[q].at = "idle"
    /\ IF cand[p] = None THEN UNCHANGED <<cand, vector>>
       ELSE /\ cand' = [cand EXCEPT ![p] = "requested"]
            /\ vector' = [i \in Ids |-> IF i \in OfPerson(p) /\ vector[i] = "in" THEN "out" ELSE vector[i]]
    /\ End(q)
    /\ UNCHANGED <<resumes, members, log, embedKey, Rest>>

(* His latest application goes to FRAUD_REVIEW, and may come back. *)
FraudReview(q) ==
    LET p == ask[q].person IN
    /\ ask[q].kind = "fraud"
    /\ \/ /\ sess[q].at = "idle" /\ MembersOf(p) # {}
          /\ fraud' = fraud \cup {p} /\ To(q, [sess[q] EXCEPT !.at = "flagged"])
       \/ sess[q].at = "flagged" /\ fraud' = fraud \ {p} /\ End(q)
    /\ UNCHANGED <<Tables, broker, embeds, scored, open, check, raced, ask>>

CloseCampaign(q) ==
    /\ ask[q].kind = "close" /\ sess[q].at = "idle" /\ LockFree(ask[q].campaign)
    /\ open' = open \ {ask[q].campaign} /\ End(q)
    /\ UNCHANGED <<Tables, broker, embeds, scored, fraud, check, raced, ask>>

-----------------------------------------------------------------------------
(* The workers *)

(* process_resume_document: it ends with a parsed resume, its embedding and the *)
(* scoring of every application of the resume queued, or dead.                *)
Parse(i) ==
    /\ i \in broker /\ broker' = broker \ {i}
    /\ \/ resumes[i].of = None /\ UNCHANGED <<resumes, log, embedKey, embeds, scored>>
       \/ /\ resumes[i].of # None
          /\ resumes' = [resumes EXCEPT ![i].parsed = TRUE, ![i].outdated = FALSE]
          /\ log' = [log EXCEPT ![i].status = "done"]
          /\ embedKey' = embedKey \cup {i} /\ embeds' = embeds \cup ({i} \ embedKey)
          /\ scored' = scored \cup {m \in members : m.resume = i}
       \/ /\ resumes[i].of # None
          /\ log' = [log EXCEPT ![i].status = "dead"]
          /\ UNCHANGED <<resumes, embedKey, embeds, scored>>
    /\ UNCHANGED <<cand, members, vector, open, fraud, check, raced, ask, sess>>

(* The recovery job; its publish may be refused again, which changes nothing.  *)
Recover(i) ==
    /\ log[i].status = "refused"
    /\ log' = [log EXCEPT ![i].status = "queued"] /\ broker' = broker \cup {i}
    /\ UNCHANGED <<cand, resumes, members, embedKey, vector, embeds, scored, open, fraud, check, raced, ask, sess>>

(* A new embedding is in the talent pool whatever the standing of its candidate. *)
EmbedResume(i) ==
    /\ i \in embeds /\ embeds' = embeds \ {i}
    /\ \/ UNCHANGED vector
       \/ resumes[i].of # None /\ vector[i] = None /\ vector' = [vector EXCEPT ![i] = "in"]
    /\ UNCHANGED <<cand, resumes, members, log, embedKey, broker, scored, open, fraud, check, raced, ask, sess>>

Standing_FraudOnly(p) == IF p \in fraud THEN "out" ELSE "in"

(* _compute_should_be_eligible *)
Standing(p) == IF cand[p] = "requested" \/ p \in fraud THEN "out" ELSE "in"

(* The daily job reads the candidate, then corrects every embedding of his. *)
ValidateRead(p) ==
    /\ check[p] = None /\ cand[p] # None
    /\ \E i \in OfPerson(p) : vector[i] # None
    /\ check' = [check EXCEPT ![p] = Standing(p)]
    /\ UNCHANGED <<Tables, broker, embeds, scored, open, fraud, raced, ask, sess>>

ValidateWrite(p) ==
    /\ check[p] # None
    /\ vector' = [i \in Ids |-> IF i \in OfPerson(p) /\ vector[i] # None THEN check[p] ELSE vector[i]]
    /\ check' = [check EXCEPT ![p] = None]
    /\ UNCHANGED <<cand, resumes, members, log, embedKey, broker, embeds, scored, open, fraud, raced, ask, sess>>

IntakeNext ==
    \/ \E q \in Requests : \/ Upload(q) \/ Pool(q) \/ EraseRead(q) \/ EraseCommit(q)
                           \/ RequestErasure(q) \/ FraudReview(q) \/ CloseCampaign(q)
    \/ \E i \in Ids : Parse(i) \/ Recover(i) \/ EmbedResume(i)
    \/ \E p \in Persons : ValidateRead(p) \/ ValidateWrite(p)

IntakeSpec == IntakeInit /\ [][IntakeNext]_intakeVars

(* Requests may stop anywhere; the workers and the scheduled jobs go on. *)
IntakeFairness ==
    /\ \A i \in Ids : WF_intakeVars(Parse(i)) /\ WF_intakeVars(Recover(i)) /\ WF_intakeVars(EmbedResume(i))
    /\ \A p \in Persons : WF_intakeVars(ValidateRead(p)) /\ WF_intakeVars(ValidateWrite(p))

IntakeFairSpec == IntakeSpec /\ IntakeFairness

-----------------------------------------------------------------------------
(* Nobody is in a campaign twice, whether uploaded or taken from the pool, by   *)
(* whatever requests at the same time: the campaign row's lock is what          *)
(* guarantees it, the unique constraint includes the resume                  *)
(* (create_campaign_candidate, add_candidate_to_campaign).                  *)
OneMembership == \A m, n \in members : m.campaign = n.campaign /\ m.person = n.person => m = n

(* A candidate whose versions were not stored by overlapping uploads has exactly *)
(* one active version, his latest, and no two with one number                *)
(* (_create_next_version, deactivate_active_version).                       *)
VersionsExact ==
    \A p \in Persons \ raced : OfPerson(p) # {} =>
        \E i \in OfPerson(p) : /\ Active(p) = {i}
                               /\ \A j \in OfPerson(p) \ {i} : resumes[j].version < resumes[i].version

(* An application whose upload was answered is scored, or its resume given up,  *)
(* even if the broker refused the message, unless the candidate is erased      *)
(* (upload_resume, mark_dispatch_failed and the recovery job).               *)
UploadedIsScored ==
    \A q \in Requests :
        sess[q].at = "answered" /\ q \in {m.resume : m \in members}
            ~> \/ q \notin {m.resume : m \in members} \/ log[q].status = "dead"
               \/ q \in {m.resume : m \in scored}

(* In the end every embedding of a candidate is in the pool or out of it        *)
(* according to his standing, whatever raced with the daily job                *)
(* (validate_talent_pool_eligibility).                                      *)
PoolFollowsStanding ==
    \A p \in Persons :
        <>[](\A i \in OfPerson(p) :
               /\ vector[i] = "in" => cand[p] # "requested" /\ p \notin fraud
               /\ vector[i] = "out" => cand[p] = "requested" \/ p \in fraud)

(* The upload route answers "Existing resume linked to the campaign"            *)
(* (routes/resume_routes.py): the link then exists, until the candidate is      *)
(* erased.                                                                *)
AnsweredIsLinked ==
    \A q \in Requests : ask[q].kind = "upload" /\ sess[q].at = "answered"
        => cand[sess[q].person] = None \/ In(ask[q].campaign, sess[q].person)
=============================================================================
