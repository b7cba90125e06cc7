--------------------------- MODULE SkillHierarchy ---------------------------
(***************************************************************************)
(* The skill ontology as a forest: parents, deactivation with its handling   *)
(* of children, new skills and the spreadsheet import (SkillOntologyService.  *)
(* py).  No edit takes a lock: what a request checked may have changed when  *)
(* it commits.                                                              *)
(***************************************************************************)
EXTENDS Integers, FiniteSets

CONSTANTS
    Editors,    \* concurrent requests
    Skills,
    NoSkill,    \* NULL
    FirstParent, FirstSkills,   \* the ontology at the start
    MaxImports,
    MaxEdits    \* edits a run makes, a bound of the model

(* The ontology at the start is a forest: a skill's parent has a lower rank.   *)
ASSUME HierarchyAssumption ==
    /\ IsFiniteSet(Skills) /\ NoSkill \notin Skills /\ MaxImports \in Nat /\ MaxEdits \in Nat
    /\ FirstSkills \subseteq Skills /\ FirstParent \in [FirstSkills -> FirstSkills \cup {NoSkill}]
    /\ \E rank \in [FirstSkills -> 1..Cardinality(Skills)] :
          \A k \in FirstSkills : FirstParent[k] # NoSkill => rank[FirstParent[k]] < rank[k]

VARIABLES
    known,      \* skills that exist
    parent,     \* skill -> parent_skill_id
    active,     \* active skills
    edit,       \* editor -> the edit he has validated and not yet committed
    overlap,    \* an edit was committed while another stood validated
    imports,    \* rows imported so far
    edits       \* edits validated so far

hierarchyVars == <<known, parent, active, edit, overlap, imports, edits>>

NoEdit == [op |-> "none", skill |-> NoSkill, to |-> NoSkill]
EditOps == {"none", "parent", "adopt", "off", "patchOff", "on", "create"}

HierarchyTypeOK ==
    /\ known \subseteq Skills /\ active \subseteq known
    /\ parent \in [Skills -> known \cup {NoSkill}]
    /\ edit \in [Editors -> [op : EditOps, skill : Skills \cup {NoSkill},
                             to : Skills \cup {NoSkill}]]
    /\ overlap \in BOOLEAN /\ imports \in 0..MaxImports /\ edits \in 0..MaxEdits

HierarchyInit ==
    /\ known = FirstSkills /\ active = FirstSkills
    /\ parent = [k \in Skills |-> IF k \in FirstSkills THEN FirstParent[k] ELSE NoSkill]
    /\ edit = [e \in Editors |-> NoEdit] /\ overlap = FALSE /\ imports = 0 /\ edits = 0

Children(k) == {c \in known : parent[c] = k}

Circular_OneLevel(k, p) == p = k \/ parent[p] = k

(* The walk up the ancestors of the proposed parent meets the skill. *)
Circular(k, p) ==
    LET up[i \in 0..Cardinality(Skills)] ==
            IF i = 0 THEN p ELSE IF up[i - 1] = NoSkill THEN NoSkill ELSE parent[up[i - 1]]
    IN  \E i \in DOMAIN up : up[i] = k

Validate(e, op, k, p) ==
    /\ edit[e] = NoEdit /\ edits < MaxEdits
    /\ edits' = edits + 1
    /\ edit' = [edit EXCEPT ![e] = [op |-> op, skill |-> k, to |-> p]]
    /\ UNCHANGED <<known, parent, active, overlap, imports>>

(* PATCH of parent_skill_id: NULL, or another active skill below which it is   *)
(* not.                                                                     *)
SetParent(e, k, p) ==
    /\ k \in known
    /\ p = NoSkill \/ (p \in active /\ p # k /\ ~Circular(k, p))
    /\ Validate(e, "parent", k, p)

(* Deactivation.  With children it takes PROMOTE, to the skill's own parent as  *)
(* read, or ROOT; "off" is without children.                                *)
Deactivate(e, k, promote) ==
    /\ k \in active
    /\ IF Children(k) = {} THEN Validate(e, "off", k, NoSkill)
       ELSE Validate(e, "adopt", k, IF promote THEN parent[k] ELSE NoSkill)

(* A PATCH of is_active asks for no child handling. *)
PatchInactive(e, k) == k \in active /\ Validate(e, "patchOff", k, NoSkill)
Reactivate(e, k) == k \in known \ active /\ Validate(e, "on", k, NoSkill)

(* The parent of a new skill must exist, no more. *)
Create(e, k, p) == k \notin known /\ p \in known \cup {NoSkill} /\ Validate(e, "create", k, p)

Apply(e, k, p, op) ==
    /\ known' = IF op = "create" THEN known \cup {k} ELSE known
    /\ parent' = [c \in Skills |-> IF op \in {"parent", "create"} /\ c = k THEN p
                                   ELSE IF op = "adopt" /\ parent[c] = k THEN p ELSE parent[c]]
    /\ active' = IF op \in {"on", "create"} THEN active \cup {k}
                 ELSE IF op \in {"off", "patchOff", "adopt"} THEN active \ {k} ELSE active

(* A second insert of the same name fails on the unique key. *)
CommitEdit(e) ==
    LET x == edit[e] IN
    /\ x.op # "none"
    /\ IF x.op = "create" /\ x.skill \in known
       THEN UNCHANGED <<known, parent, active>> ELSE Apply(e, x.skill, x.to, x.op)
    /\ overlap' = (overlap \/ \E f \in Editors \ {e} : edit[f] # NoEdit)
    /\ edit' = [edit EXCEPT ![e] = NoEdit]
    /\ UNCHANGED <<imports, edits>>

(* A row of an import: an existing skill takes the row's parent and is_active  *)
(* unchecked; a new one whose parent is inserted later fails on the foreign   *)
(* key, one that names itself does not.                                     *)
ImportRow(k, p, on) ==
    /\ imports < MaxImports
    /\ p \in known \cup {NoSkill, k}
    /\ known' = known \cup {k}
    /\ parent' = [parent EXCEPT ![k] = p]
    /\ active' = IF on THEN active \cup {k} ELSE active \ {k}
    /\ imports' = imports + 1
    /\ UNCHANGED <<edit, overlap, edits>>

HierarchyNext ==
    \/ \E e \in Editors, k \in Skills :
        \/ \E p \in Skills \cup {NoSkill} : SetParent(e, k, p) \/ Create(e, k, p)
        \/ \E promote \in BOOLEAN : Deactivate(e, k, promote)
        \/ PatchInactive(e, k) \/ Reactivate(e, k)
    \/ \E e \in Editors : CommitEdit(e)
    \/ \E k \in Skills, p \in Skills \cup {NoSkill}, on \in BOOLEAN : ImportRow(k, p, on)

HierarchySpec == HierarchyInit /\ [][HierarchyNext]_hierarchyVars

-----------------------------------------------------------------------------
(* Properties *)

Forest == \E rank \in [Skills -> 1..Cardinality(Skills)] :
    \A k \in known : parent[k] # NoSkill => rank[parent[k]] < rank[k]

(* The hierarchy stays a forest through re-parenting, promotion of the         *)
(* children of a deactivated skill and new skills, as long as no two edits     *)
(* overlap and no spreadsheet is imported: the circularity check sees only    *)
(* committed parents, and the import has none.                              *)
ForestUnlessBypassed == ~overlap /\ imports = 0 => Forest
=============================================================================
