---------------------------- MODULE MCBackOffice ----------------------------
(* What administrators keep and look at: the skill ontology and its curation,  *)
(* the figures campaigns are watched by, the lists, presets and defaults.      *)
(* They share no row that both sides write, so a behaviour of the run is one   *)
(* of either, chosen at the start.                                             *)
EXTENDS SkillCuration, SkillHierarchy, CampaignFigures, CampaignLists, TLC

CONSTANTS Areas

VARIABLE area

-----------------------------------------------------------------------------
(* Skills. *)

Req(o, t, b, a) == [op |-> o, text |-> t, skill |-> b, alias |-> a]
Pair(x, y) == [s \in Admins |-> IF s = "h1" THEN x ELSE y]

\* Two requests on one text, and on two texts of the same documents.
MCRequests(t, b) == {Req("map", t, b, TRUE), Req("promote", t, b, FALSE), Req("create", t, b, FALSE),
                     Req("resolve", t, b, FALSE), Req("resolve", t, b, TRUE),
                     Req("dismiss", t, b, FALSE), Req("delete", t, b, FALSE)}
MCPlans == {Pair(x, y) : x \in MCRequests("t1", "b1"), y \in MCRequests("t1", "b1")}
           \cup {Pair(x, y) : x \in MCRequests("t1", "b1"), y \in MCRequests("t2", "b1")}

MCRawOf == [d \in Docs |-> IF d = "j2" THEN {"t1"} ELSE {"t1", "t2"}]

MCFirstSkills == {"k1", "k2"}
MCFirstParent == [k \in MCFirstSkills |-> IF k = "k1" THEN NoSkill ELSE "k1"]

-----------------------------------------------------------------------------
(* Figures. *)

MCCampaignOfCandidate == <<"k1", "k1", "k2">>
MCResumeOf == <<"r1", "r2", "r1">>
MCOpenings == [k \in {"k1", "k2"} |-> IF k = "k1" THEN 1 ELSE NoValue]
MCSla == [SCREENING |-> 0, HM_REVIEW |-> 1, INTERVIEW |-> 1]
MCLimits == [dead |-> 0, rate |-> 50, fraud |-> 0, advice |-> 50, many |-> 1]
Mix(kinds, present, n) == [kinds |-> kinds, present |-> present, steps |-> n]
NoMix == Mix({}, {}, 0)
MCMixes == {NoMix,
            Mix({"time", "add", "screen", "move"}, {1}, 3),
            Mix({"time", "screen", "move", "sweep"}, {1, 2}, 5),
            Mix({"time", "screen", "move", "pause", "sweep"}, {1, 2, 3}, 3),
            Mix({"task", "replay"}, {1, 3}, 7),
            Mix({"task", "pause"}, {1, 3}, 4)}

-----------------------------------------------------------------------------
(* Lists. *)

Split(d, s, a) == [det |-> d, sem |-> s, ai |-> a]
MCFirstWeights == Split(30, 40, 30)
P(n, d, s, a) == [name |-> n, det |-> d, sem |-> s, ai |-> a]
MCFirstPresets == [p \in {"p", "q", "a1", "a2"} |-> IF p = "p" THEN P("A", 30, 40, 30) ELSE IF p = "q" THEN P("B", 30, 40, 30) ELSE Null]
Edit(op, id) == [op |-> op, id |-> id]
Reassign(k, m) == [op |-> "reassign", id |-> k, manager |-> m]
Make(k, m) == [op |-> "create_campaign", id |-> k, manager |-> m]
Weigh(op, id, asked, padded) == [op |-> op, id |-> id, row |-> asked, padded |-> padded]
Gone(p) == [op |-> "delete_preset", id |-> p, row |-> P("A", 30, 40, 30), padded |-> FALSE]
CampaignEdits(k) == {Reassign("k1", "m2"), Make(k, "m2"), Edit("close", "k1"), Edit("reset", "k1")}
DefaultEdits == {Weigh("defaults", "platform", w, FALSE) :
                   w \in {Split(40, 30, 30), Split(30, 30, 40), Split(30, 30, 30), Split(98, 1, 1)}}
PresetEdits(a) == {Gone("p"), Gone("Balanced"),
                   Weigh("create_preset", a, P("A", 30, 40, 30), FALSE), Weigh("create_preset", a, P("A", 30, 40, 30), TRUE),
                   Weigh("create_preset", a, P("C", 30, 40, 30), FALSE),
                   Weigh("update_preset", "p", P("C", 30, 40, 30), FALSE), Weigh("update_preset", "p", P("A", 40, 30, 30), FALSE),
                   Weigh("update_preset", "p", P("B", 30, 30, 40), TRUE), Weigh("update_preset", "Balanced", P("B", 30, 30, 40), FALSE)}
Two(x, y) == [a \in {"a1", "a2"} |-> IF a = "a1" THEN x ELSE y]
Filter(m, s, c) == [manager |-> m, status |-> s, closed |-> c]
ListViews == {{[kind |-> "all", closed |-> FALSE], [kind |-> "manager", manager |-> "m1", closed |-> TRUE]},
              {[kind |-> "search", filter |-> Filter(Null, Null, FALSE)],
               [kind |-> "search", filter |-> Filter("m1", "CLOSED", TRUE)]},
              {[kind |-> "own", by |-> "a1", closed |-> FALSE, page |-> i] : i \in {1, 2}}}
Page == {[kind |-> "scoring", id |-> "k1"], [kind |-> "defaults"]}
MCScenes ==
    {[plan |-> Two(x, y), views |-> v] : x \in CampaignEdits("k2"), y \in CampaignEdits("k3"), v \in ListViews}
    \cup {[plan |-> Two(x, y), views |-> Page] : x \in CampaignEdits("k2") \cup DefaultEdits, y \in DefaultEdits}
    \cup {[plan |-> Two(x, y), views |-> {[kind |-> "presets"]}] : x \in PresetEdits("a1"), y \in PresetEdits("a2")}

-----------------------------------------------------------------------------
One(S) == CHOOSE x \in S : TRUE
OneMap == Pair(Req("map", "t1", "b1", TRUE), Req("map", "t1", "b1", TRUE))

MCInit ==
    /\ area \in Areas
    /\ Init /\ HierarchyInit
    /\ area = "curation" \/ plan = OneMap
    /\ FiguresInit
    /\ IF area = "figures" THEN mix # NoMix ELSE mix = NoMix
    /\ ListsInit
    /\ area = "lists" \/ [plan |-> asks, views |-> views] = One(Scenes)

MCNext ==
    /\ UNCHANGED area
    /\ \/ area = "curation" /\ Next /\ UNCHANGED <<hierarchyVars, figureVars, listVars>>
       \/ area = "hierarchy" /\ HierarchyNext /\ UNCHANGED <<vars, figureVars, listVars>>
       \/ /\ area = "figures" /\ FiguresNext
          /\ UNCHANGED <<vars, hierarchyVars, listVars>>
       \/ /\ area = "lists" /\ ListsNext
          /\ UNCHANGED <<vars, hierarchyVars, figureVars>>

rest == <<hierarchyVars, figureVars, listVars, area>>
mcVars == <<vars, rest>>
MCSpec == MCInit /\ [][MCNext]_mcVars

InCuration(A) == area = "curation" /\ A /\ UNCHANGED rest
MCFairSpec ==
    /\ MCSpec
    /\ \A s \in Admins : WF_mcVars(InCuration(Write(s) \/ Abort(s) \/ Commit(s) \/ Announce(s)))
    /\ \A r \in Resumes : WF_mcVars(InCuration(Score(r)))
    /\ \A r \in Resumes, t \in Texts : WF_mcVars(InCuration(Reevaluate(r, t)))

-----------------------------------------------------------------------------
=============================================================================
