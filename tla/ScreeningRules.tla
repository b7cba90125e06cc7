--------------------------- MODULE ScreeningRules ---------------------------
(* The deterministic layer's rules: how a resume is matched against a JD's   *)
(* skills, experience, education and domain capabilities, what score the     *)
(* blend gives, whether the candidate passes, and the rejection reason       *)
(* written when not (CandidateScoringService,                                *)
(* ExperienceEducationValidationService, DomainCapabilityMatchingService).   *)
(*                                                                           *)
(* The rules are pure, so the module walks through resumes: each step adds   *)
(* one thing to the resume (a skill, years, a degree, a better sentence) and *)
(* scores the result as calculate_and_store_score_breakdown does.  Scores    *)
(* are in hundredths of a percent and rounded half up (the code rounds a     *)
(* float to two decimals); weights, tiers and shares are in tenths.          *)
EXTENDS Integers, Sequences, FiniteSets, FiniteSetsExt

CONSTANTS
  Skills,     \* the skill ontology
  None,       \* absent: no parent, no requirement, no value extracted
  Parent,     \* Skills -> Skills \cup {None}
  Inactive,   \* the deactivated skills
  Similar,    \* Skills -> the skills at or above the threshold, nearest first
  Jds,        \* the JDs: see JdOK
  Grades,     \* the scoring weights normalization gives a skill, in tenths
  Years,      \* total years of experience a resume can show
  Ranks,      \* the degree ranks of a resume's education entries, 0 unranked
  Words,      \* how much of a capability a sentence can cover, in percent
  MaxSkills, MaxDegrees  \* bounds on a resume

VARIABLES
  jd,      \* the JD and the campaign's thresholds
  resume,  \* what the parsed resume holds
  outcome  \* the breakdown stored on the candidate

rulesVars == <<jd, resume, outcome>>

\* In hundredths of a percent.
Percent == 0..10000

\* jd_skills rows with the campaign's thresholds and the config they meet; weights,
\* multipliers and the tolerance are never negative.
JdOK(j) ==
  /\ DOMAIN j.required \subseteq Skills /\ DOMAIN j.preferred \subseteq Skills
  /\ \A s \in DOMAIN j.required :
       /\ j.required[s].importance \in {"core", "supporting", "none"}
       /\ j.required[s].weight \in Nat /\ j.required[s].aliases \subseteq Skills
  /\ \A s \in DOMAIN j.preferred : j.preferred[s].weight \in Nat
  /\ j.coreTimes \in Nat /\ j.supportingTimes \in Nat
  /\ j.share \in 0..10 /\ j.wSkills \in Nat
  /\ j.minYears \in Nat \cup {None} /\ j.extractedMin \in Nat \cup {None}
  /\ j.tolerance \in Nat /\ j.equivalent \in Nat \cup {None} /\ j.level \in Nat \cup {None}
  /\ IsFiniteSet(j.capabilities)
  /\ j.coverage \in Percent /\ j.threshold \in Percent /\ j.maxMissing \in Nat

ASSUME RulesAssumption ==
  /\ IsFiniteSet(Skills) /\ None \notin Skills \cup Int
  /\ Parent \in [Skills -> Skills \cup {None}] /\ Similar \in [Skills -> Seq(Skills)]
  /\ Grades \subseteq 1..10 /\ Years \subseteq Nat /\ Ranks \subseteq 0..7 /\ Words \subseteq 0..100
  /\ \A j \in Jds : JdOK(j) /\ None \notin [j.capabilities -> 0..100]

\* n/d rounded to the nearest integer.
Rounded(n, d) == (2 * n + d) \div (2 * d)

-----------------------------------------------------------------------------
(* Skills                                                                    *)

Held(r) == DOMAIN r.skills

\* The best-weighted of the candidate's skills among S, in tenths; 0 for none.
Best(r, S) == Max({r.skills[s] : s \in S \cap Held(r)} \cup {0})

ActiveChildren(s) == {c \in Skills \ Inactive : Parent[c] = s}

Grandchildren(s) == UNION {ActiveChildren(c) : c \in ActiveChildren(s)}

Siblings(s) == IF Parent[s] = None THEN {} ELSE ActiveChildren(Parent[s]) \ {s}

\* The held skill nearest by embedding (find_best_semantic_match).
Nearest(r, s) ==
  LET hits == {i \in DOMAIN Similar[s] : Similar[s][i] \in Held(r)}
  IN IF hits = {} THEN {} ELSE {Similar[s][Min(hits)]}

\* Siblings are looked for before the hierarchy below the skill.
Tier_SiblingFirst(r, s, aliases) ==
  << [type |-> "EXACT",      among |-> {s},                times |-> 10],
     [type |-> "EXACT",      among |-> aliases,            times |-> 10],
     [type |-> "SIBLING",    among |-> Siblings(s),        times |-> 4],
     [type |-> "CHILD",      among |-> ActiveChildren(s),  times |-> 7],
     [type |-> "GRANDCHILD", among |-> Grandchildren(s),   times |-> 5],
     [type |-> "SEMANTIC",   among |-> Nearest(r, s),       times |-> 2] >>

\* The tiers a required skill can match at: the skills each looks among and
\* its multiplier in tenths.
Tier(r, s, aliases) ==
  << [type |-> "EXACT",      among |-> {s},                times |-> 10],
     [type |-> "EXACT",      among |-> aliases,            times |-> 10],
     [type |-> "CHILD",      among |-> ActiveChildren(s),  times |-> 7],
     [type |-> "GRANDCHILD", among |-> Grandchildren(s),   times |-> 5],
     [type |-> "SIBLING",    among |-> Siblings(s),        times |-> 4],
     [type |-> "SEMANTIC",   among |-> Nearest(r, s),       times |-> 2] >>

\* The first tier that matches decides, even when a later one would pay more.
Match(r, s, aliases) ==
  LET tiers == Tier(r, s, aliases)
      hits == {i \in 1..6 : tiers[i].among \cap Held(r) # {}}
  IN IF hits = {} THEN [type |-> "MISSING", pays |-> 0]
     ELSE LET t == tiers[Min(hits)]
          IN [type |-> t.type, pays |-> Best(r, t.among) * t.times]

Times(importance, j) ==
  CASE importance = "core" -> j.coreTimes
    [] importance = "supporting" -> j.supportingTimes
    [] OTHER -> 1

\* The denominator is left at the configured weight.
Entry_RawMax(j, r, s) ==
  LET q == j.required[s]
      m == Match(r, s, q.aliases)
      eff == q.weight * Times(q.importance, j)
  IN [importance |-> q.importance, type |-> m.type, max |-> q.weight, got |-> eff * m.pays]

\* One entry of the breakdown; contribution in hundredths of a weight.
Entry(j, r, s) ==
  LET q == j.required[s]
      m == Match(r, s, q.aliases)
      max == q.weight * Times(q.importance, j)
  IN [importance |-> q.importance, type |-> m.type, max |-> max, got |-> max * m.pays]

Mandatory(j, r) == [s \in DOMAIN j.required |-> Entry(j, r, s)]

\* A preferred skill matches exactly or through an alias, and has no tiers below.
PreferredEntry(j, r, s) ==
  LET q == j.preferred[s]
      own == Best(r, {s})
      pays == 10 * (IF own > 0 THEN own ELSE Best(r, q.aliases))
  IN [max |-> q.weight, got |-> q.weight * pays]

PreferredSkills(j, r) == [s \in DOMAIN j.preferred |-> PreferredEntry(j, r, s)]

\* Core skills gate; a JD with no classified skill gates on all of them.
GateSkills(m) ==
  LET classified == {s \in DOMAIN m : m[s].importance # "none"}
  IN IF classified = {} THEN DOMAIN m
     ELSE {s \in DOMAIN m : m[s].importance = "core"}

Covered(m) == {s \in DOMAIN m : m[s].type # "MISSING"}

CoreCoverage(m) ==
  LET gate == GateSkills(m)
  IN IF gate = {} THEN 10000
     ELSE Rounded(10000 * Cardinality(gate \cap Covered(m)), Cardinality(gate))

MissingCore(m) ==
  Cardinality({s \in DOMAIN m \ Covered(m) : m[s].importance = "core"})

Got(e, S) == SumFunction([s \in S |-> e[s].got])

MaxOf(e, S) == SumFunction([s \in S |-> e[s].max])

\* technical_score: the non-core required skills, with a fixed share for the
\* preferred ones; None when the JD has nothing to score.
Technical(j, m, p) ==
  LET other == {s \in DOMAIN m : m[s].importance # "core"}
      scored == IF other = {} THEN DOMAIN m ELSE other
      a1 == Got(m, scored)   m1 == MaxOf(m, scored)
      a2 == Got(p, DOMAIN p) m2 == MaxOf(p, DOMAIN p)
  IN CASE m1 = 0 /\ m2 = 0 -> None
       [] m1 > 0 /\ m2 = 0 -> Rounded(100 * a1, m1)
       [] m1 = 0 /\ m2 > 0 -> Rounded(100 * a2, m2)
       [] OTHER -> Rounded(10 * ((10 - j.share) * a1 * m2 + j.share * a2 * m1), m1 * m2)

-----------------------------------------------------------------------------
(* Experience, education, domain capabilities                                *)

Skipped == [applicable |-> FALSE, missing |-> FALSE, passed |-> TRUE, score |-> 10000]

DataMissing == [applicable |-> FALSE, missing |-> TRUE, passed |-> TRUE, score |-> None]

Met == [applicable |-> TRUE, missing |-> FALSE, passed |-> TRUE, score |-> 10000]

\* The extracted minimum wins over the form's column.
Minimum(j) == IF j.extractedMin # None THEN j.extractedMin ELSE j.minYears

Experience(j, r) ==
  LET min == Minimum(j)
      effective == Max({min - j.tolerance, 0})
  IN IF min = None THEN Skipped
     ELSE IF r.years = None THEN DataMissing
     ELSE IF r.years >= effective THEN Met
     ELSE [Met EXCEPT !.passed = FALSE, !.score = Rounded(10000 * r.years, effective)]

\* A long career stands in for the degree.
Equivalent(j, r) == j.equivalent # None /\ r.years # None /\ r.years >= j.equivalent

\* The education entries that classify to a rank on the academic ladder.
Ranked(r) == r.degrees \ {0}

\* The first entry decides, not the best.
BestRank_Lowest(r) == Min(Ranked(r))

BestRank(r) == Max(Ranked(r))

Education(j, r) ==
  IF j.level = None THEN Skipped
  ELSE IF Ranked(r) = {}
    THEN IF Equivalent(j, r) THEN [Met EXCEPT !.missing = TRUE] ELSE DataMissing
  ELSE IF BestRank(r) >= j.level \/ Equivalent(j, r) THEN Met
  ELSE [Met EXCEPT !.passed = FALSE, !.score = Rounded(10000 * BestRank(r), j.level)]

\* A preferred capability weighs half a required one; never a gate.
Domain(j, r) ==
  IF j.capabilities = {} THEN Skipped
  ELSE IF r.evidence = None THEN DataMissing
  ELSE LET weigh(c) == IF c \in j.requiredCapabilities THEN 2 ELSE 1
       IN [Met EXCEPT !.score =
             Rounded(100 * SumFunction([c \in j.capabilities |-> weigh(c) * r.evidence[c]]),
                     SumFunction([c \in j.capabilities |-> weigh(c)]))]

-----------------------------------------------------------------------------
(* The blend, the verdict and the reason                                     *)

\* The components that count, each with its weight.
Components(j, skill, e, d, f) ==
  LET all == [skills |-> [applicable |-> skill # None, score |-> skill],
              functional |-> f, experience |-> e, education |-> d]
  IN [c \in {n \in DOMAIN all : all[n].applicable} |->
        [score |-> all[c].score, weight |-> IF c = "skills" THEN j.wSkills ELSE 15]]

\* The mean over the applicable components; the legacy 100 when there is none.
Blend(j, skill, e, d, f) ==
  LET parts == Components(j, skill, e, d, f)
      total == SumFunction([c \in DOMAIN parts |-> parts[c].weight])
  IN IF total > 0
     THEN Rounded(SumFunction([c \in DOMAIN parts |-> parts[c].score * parts[c].weight]), total)
     ELSE IF skill = None THEN 10000 ELSE skill

\* The clauses of rejection_reason, by what each one tells.
Reason(r, m, coverageOk, gapOk, e, d) ==
  LET clauses ==
        (IF Held(r) = {} THEN {"no_verified_skills"}
         ELSE IF Covered(m) # DOMAIN m THEN {"missing_skills"} ELSE {})
        \cup (IF gapOk THEN {} ELSE {"core_gap"})
        \cup (IF coverageOk THEN {} ELSE {"coverage"})
        \cup (IF e.passed THEN {} ELSE {"experience"})
        \cup (IF d.passed THEN {} ELSE {"education"})
  IN IF clauses = {} THEN {"score"} ELSE clauses

\* calculate_and_store_score_breakdown with the experience, education and
\* domain results the Celery task always supplies.
Score(j, r) ==
  LET m == Mandatory(j, r)
      skill == Technical(j, m, PreferredSkills(j, r))
      e == Experience(j, r)   d == Education(j, r)   f == Domain(j, r)
      coverageOk == CoreCoverage(m) >= j.coverage
      gapOk == MissingCore(m) <= j.maxMissing
      blend == Blend(j, skill, e, d, f)
      passed == coverageOk /\ gapOk /\ e.passed /\ d.passed /\ blend >= j.threshold
  IN [score |-> blend, passed |-> passed, coverage |-> CoreCoverage(m),
      missingCore |-> MissingCore(m), covered |-> Covered(m),
      scoreOk |-> blend >= j.threshold,
      failed |-> (IF coverageOk THEN {} ELSE {"coverage"}) \cup (IF gapOk THEN {} ELSE {"core_gap"})
                 \cup (IF e.passed THEN {} ELSE {"experience"})
                 \cup (IF d.passed THEN {} ELSE {"education"}),
      reason |-> IF passed THEN {} ELSE Reason(r, m, coverageOk, gapOk, e, d)]

-----------------------------------------------------------------------------
(* Resumes                                                                   *)

Blank ==
  [skills |-> [s \in {} |-> 0], years |-> None, degrees |-> {}, evidence |-> None]

RulesInit ==
  /\ jd \in Jds
  /\ resume = Blank
  /\ outcome = Score(jd, resume)

\* The next version of the resume is scored afresh.
Rescored(r) == resume' = r /\ outcome' = Score(jd, r) /\ UNCHANGED jd

GainSkill ==
  \E s \in Skills \ Held(resume), g \in Grades :
    /\ Cardinality(Held(resume)) < MaxSkills
    /\ Rescored([resume EXCEPT !.skills =
                 [x \in Held(resume) \cup {s} |-> IF x = s THEN g ELSE @[x]]])

\* Longer dates on the listed jobs, or the first ones that can be computed.
GainYears ==
  \E y \in IF resume.years = None THEN Years ELSE {y \in Years : y > resume.years} :
    Rescored([resume EXCEPT !.years = y])

GainDegree ==
  \E d \in Ranks \ resume.degrees :
    /\ Cardinality(resume.degrees) < MaxDegrees
    /\ Rescored([resume EXCEPT !.degrees = @ \cup {d}])

\* A sentence: each capability keeps the best coverage of any sentence.
GainEvidence ==
  \E w \in [jd.capabilities -> Words] :
    LET old(c) == IF resume.evidence = None THEN 0 ELSE resume.evidence[c]
        new == [c \in jd.capabilities |-> Max({old(c), w[c]})]
    IN new # resume.evidence /\ Rescored([resume EXCEPT !.evidence = new])

RulesNext == GainSkill \/ GainYears \/ GainDegree \/ GainEvidence

RulesSpec == RulesInit /\ [][RulesNext]_rulesVars

-----------------------------------------------------------------------------

ResumeOK ==
  /\ Held(resume) \subseteq Skills
  /\ resume.years \in Years \cup {None}
  /\ resume.degrees \subseteq Ranks

\* The resume holds what parsing can extract, and every score is a percentage:
\* no sum of contributions exceeds the sum of the maxima it is divided by.
RulesTypeOK ==
  /\ jd \in Jds /\ ResumeOK
  /\ outcome.score \in Percent /\ outcome.coverage \in Percent
  /\ outcome.passed \in BOOLEAN

\* One more verified skill never uncovers a required one, so neither core gate
\* can turn against the candidate; and between skills of one grade it never
\* lowers the score, because the tiers are tried in the order of what they pay
\* (_score_one_mandatory_skill returns at the first tier that matches).
GainNeverUncovers ==
  [][ resume'.skills # resume.skills =>
        /\ outcome.covered \subseteq outcome'.covered
        /\ outcome'.coverage >= outcome.coverage
        /\ outcome'.missingCore <= outcome.missingCore
        /\ Cardinality({resume'.skills[s] : s \in DOMAIN resume'.skills}) = 1
             => outcome'.score >= outcome.score ]_rulesVars

\* Where the data was there before, more years, another degree or a better
\* sentence never lowers the blended score or turns a pass into a rejection
\* (validate_experience, validate_education, _combine_deterministic_score).  The
\* first datum of its kind can: the mean then has one component more.
GainNeverFails ==
  [][ /\ resume'.skills = resume.skills
      /\ resume'.years # resume.years => resume.years # None
      /\ resume'.degrees # resume.degrees => Ranked(resume) # {}
      /\ resume'.evidence # resume.evidence => resume.evidence # None
      => outcome'.score >= outcome.score /\ (outcome.passed => outcome'.passed) ]_rulesVars

\* build_rejection_reason reports every check a rejected candidate failed, the
\* score against the campaign's threshold included.
EveryFailureReported ==
  ~outcome.passed =>
    outcome.failed \cup (IF outcome.scoreOk THEN {} ELSE {"score"}) \subseteq outcome.reason
=============================================================================
