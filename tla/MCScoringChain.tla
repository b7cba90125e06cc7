--------------------------- MODULE MCScoringChain ---------------------------
(* The scoring chain, and the rules its deterministic layer decides by.  The   *)
(* rules are pure: a behaviour of the run is one of the chain or a walk through *)
(* resumes, chosen at the start.                                               *)
EXTENDS ScoringChain, ScreeningRules

CONSTANTS java, spring, boot, kotlin, sap, erp, hana

VARIABLE area  \* which of the two this behaviour is of

-----------------------------------------------------------------------------
(* The chain. *)

Once(kinds) == [k \in EventKinds |-> IF k \in kinds THEN 1 ELSE 0]
Scene(j, det, sem, kinds) == [jd |-> j, det |-> det, sem |-> sem, may |-> Once(kinds)]

\* Faults on a candidate who passes; a JD embedding that is late, with a failure or a
\* scan in between; rejections with the override, weight change or rescore that follows.
MCScenarios == {Scene("same", "pass", "pass", {"crash", "close"}),
                Scene("same", "pass", "pass", {"slow"}),
                Scene("same", "pass", "pass", {"lost", "crash"}),
                Scene("same", "pass", "pass", {"fail"}),
                Scene("none", "pass", "pass", {"rescan"}),
                Scene("other", "pass", "pass", {"weights"}),
                Scene("same", "pass", "fail", {"override"}),
                Scene("same", "fail", "pass", {"override", "crash"}),
                Scene("same", "fail", "pass", {"reject", "rescore"}),
                Scene("same", "pass", "pass", {"resubmit"})}
MCResubmit == {Scene("same", "pass", "pass", {"resubmit"})}

-----------------------------------------------------------------------------
(* Screening: small JDs over an ontology of seven skills, a parent with two    *)
(* children and a grandchild, a root skill with an alias and a neighbour.      *)

MCOntology == {java, spring, boot, kotlin, sap, erp, hana}

\* kotlin is java's parent's other child: the parent itself is java's root.
MCSkillParent ==
  [s \in MCOntology |->
     CASE s \in {spring} -> java
       [] s = boot -> spring
       [] s \in {java, kotlin} -> hana
       [] OTHER -> None]

MCInactive == {}
MCSimilar ==
  [s \in MCOntology |->
     CASE s = sap -> <<kotlin, boot>> [] s = java -> <<sap>> [] OTHER -> <<>>]

Skill(w, i, a) == [weight |-> w, importance |-> i, aliases |-> a]

Base ==
  [required |-> [s \in {java, sap} |->
                   IF s = java THEN Skill(1, "core", {}) ELSE Skill(2, "supporting", {erp})],
   preferred |-> [s \in {hana} |-> [weight |-> 1, aliases |-> {erp}]],
   coreTimes |-> 2, supportingTimes |-> 3, share |-> 1, wSkills |-> 70,
   minYears |-> 2, extractedMin |-> 4, tolerance |-> 1, equivalent |-> 8, level |-> 4,
   capabilities |-> {"p"}, requiredCapabilities |-> {"p"},
   coverage |-> 5000, threshold |-> 6000, maxMissing |-> 0]

\* An AI-classified JD, a legacy one, one with core skills and nothing else,
\* one with no skill known to the catalog and one that asks for nothing.
MCJds ==
  { Base,
    [Base EXCEPT !.required = [s \in {java, sap} |-> Skill(1, "none", {})],
                 !.preferred = [s \in {} |-> 0], !.extractedMin = None,
                 !.equivalent = None, !.capabilities = {}, !.maxMissing = 3],
    [Base EXCEPT !.required = [s \in {java, sap} |-> Skill(1, "core", {})],
                 !.maxMissing = 1, !.coverage = 0, !.capabilities = {"p", "q"}],
    [Base EXCEPT !.required = [s \in {} |-> 0], !.minYears = None, !.extractedMin = None],
    [Base EXCEPT !.required = [s \in {} |-> 0], !.preferred = [s \in {} |-> 0],
                 !.minYears = None, !.extractedMin = None, !.level = None,
                 !.capabilities = {}] }

-----------------------------------------------------------------------------
Any(S) == CHOOSE x \in S : TRUE

MCInit ==
    /\ area \in {"chain", "rules"}
    /\ Init
    /\ area = "chain" \/ [jd |-> env.jd, det |-> env.det, sem |-> env.sem, may |-> events] = Any(MCScenarios)
    /\ RulesInit
    /\ area = "rules" \/ jd = Base

MCNext ==
    /\ UNCHANGED area
    /\ \/ area = "chain" /\ Next /\ UNCHANGED rulesVars
       \/ area = "rules" /\ RulesNext /\ UNCHANGED vars

rest == <<rulesVars, area>>
mcVars == <<vars, rest>>

InChain(A) == area = "chain" /\ A /\ UNCHANGED rest
MCFairSpec ==
    /\ MCInit /\ [][MCNext]_mcVars
    /\ \A w \in Workers : WF_mcVars(InChain(Work(w)))
    /\ \A p \in Procs : WF_mcVars(InChain(Enqueue(p)))
    /\ \A c \in Clerks : WF_mcVars(InChain(Scan(c)))
=============================================================================
