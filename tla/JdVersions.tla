------------------------------ MODULE JdVersions ------------------------------
(***************************************************************************)
(* What the job-description store promises about versions.  A lineage      *)
(* starts with a root; each later version is made from one of its          *)
(* versions; at most one version of a lineage is live, and a new version   *)
(* only ever takes the place of the version it was made from, or of none.  *)
(***************************************************************************)
EXTENDS Naturals, Sequences

CONSTANT MaxVersions  \* bound: versions of all lineages together

VARIABLES
    made,  \* the versions in the order they were inserted: their root and their parent
    live   \* the versions campaigns may be created on

Version == 1..MaxVersions
Lineage(root) == {v \in 1..Len(made) : made[v].root = root}

Init == made = <<>> /\ live = {}

\* A first version, or a version made from `parent` while no other one is live.
Publish ==
    /\ made' = Append(made, [root |-> Len(made) + 1, parent |-> 0])
    /\ live' = live \cup {Len(made) + 1}

Supersede(parent) ==
    /\ live \cap Lineage(made[parent].root) \subseteq {parent}
    /\ made' = Append(made, [root |-> made[parent].root, parent |-> parent])
    /\ live' = (live \ {parent}) \cup {Len(made) + 1}

Close(v) == v \in live /\ live' = live \ {v} /\ UNCHANGED made

Next ==
    \/ Publish
    \/ \E v \in 1..Len(made) : Supersede(v) \/ Close(v)

Spec == Init /\ [][Next]_<<made, live>>
=============================================================================
