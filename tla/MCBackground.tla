---------------------------- MODULE MCBackground ----------------------------
(* What runs behind the screens, side by side: the trail of a processing task *)
(* and the screens computed from it, the embedding tasks and their circuit    *)
(* breaker, and the searches of the talent pool.  They share no state here,   *)
(* so a behaviour of the run is one of them, chosen at the start.             *)
EXTENDS StageProgress, EmbeddingBreaker, PoolSearch, TLC

CONSTANTS e1, e2, c1, c2

VARIABLE area
mcVars == <<progressVars, breakerVars, poolVars, area>>

-----------------------------------------------------------------------------
(* One task of either kind.  A stage of each retry policy may fail, a worker  *)
(* may die, or an admin purges and an uploader retries.                       *)
Scene(k, f, d, p, g) == [kind |-> k, fragile |-> f, deaths |-> d, presses |-> p, purges |-> g]
Some == {"TEXT_EXTRACTION", "AI_EXTRACTION", "PERSISTENCE"}
MCScenes ==
    UNION {{Scene(k, Some, 0, 1, 1), Scene(k, {"AI_EXTRACTION"}, 1, 0, 0),
            Scene(k, {"TEXT_EXTRACTION", "PERSISTENCE"}, 1, 1, 0)} : k \in {"JD", "RESUME"}}

-----------------------------------------------------------------------------
(* Two embedding tasks: both call the service, the row is there or not; or    *)
(* something goes wrong while one of them has another text.                   *)
Trial(d, k, x, y) == [mishaps |-> d, known |-> k, texts |-> (e1 :> x @@ e2 :> y)]
MCTrials ==
    {Trial(0, k, "fresh", "fresh") : k \in BOOLEAN}
        \cup {Trial(1, TRUE, "fresh", x) : x \in {"twin", "leak", "empty"}}
        \cup {Trial(2, TRUE, "fresh", "gone")}

-----------------------------------------------------------------------------
(* Three people, or some and newcomers; six mixes of writes.                 *)
Spelling(k, n) == [key |-> k, form |-> n]
Doc(n, w, s, t, p, d, y) ==
    [name |-> {n}, words |-> w, skills |-> s, titles |-> {Spelling(t, 1)}, place |-> p, degrees |-> d, years |-> y]
Doc1 == Doc("ann", {"py"}, {"python"}, "dev", Spelling("pune", 1), {"BACHELOR"}, 2)
Doc2 == Doc("ann", {"python"}, {"python"}, "lead", Spelling("pune", 2), {"UNKNOWN", "MASTER"}, Unset)
Doc3 == Doc("bob", {"go"}, {}, "dev", Unset, {}, 5)
MCContents == {Doc1, Doc2, Doc3}
MCAlias == "py" :> "python"
MCDistance == Doc1 :> 2 @@ Doc2 :> 1 @@ Doc3 :> 2

MCFilters == {NoFilter, [NoFilter EXCEPT !.without = c1], [NoFilter EXCEPT !.low = 2],
              [NoFilter EXCEPT !.skills = {"py"}], [NoFilter EXCEPT !.search = {"ann"}, !.titles = {Spelling("lead", 1)}],
              [NoFilter EXCEPT !.stages = {"UPLOADED"}]}

Plot(a, n, x) == [acts |-> a, writes |-> n, texts |-> x]
Empty == Plot({}, 0, <<Unset, Unset, Unset>>)  \* the pool of the other behaviours
MCPlots ==
    {Plot({"upload", "offer", "switch"}, 3, <<Doc1, Doc2, Unset>>), Plot({"upload", "offer", "age"}, 4, <<Doc1, Doc2, Unset>>),
     Plot({"upload", "offer", "add"}, 3, <<Doc1, Doc2, Unset>>), Plot({"upload", "offer"}, 3, <<Doc1, Unset, Unset>>),
     Plot({"add", "assess"}, 3, <<Doc1, Doc2, Doc3>>),
     Plot({"erase", "daily", "offer", "add", "assess"}, 3, <<Doc1, Doc2, Doc3>>), Empty}

-----------------------------------------------------------------------------
MCInit ==
    /\ area \in {"progress", "breaker", "pool"}
    /\ ProgressInit /\ (area # "progress" => left = Scene("JD", Some, 0, 1, 1))
    /\ BreakerInit /\ (area # "breaker" => mishaps = 0 /\ breaker # NoBreaker)
    /\ PoolInit /\ (area = "pool" <=> acts # {})

MCNext ==
    /\ UNCHANGED area
    /\ \/ area = "progress" /\ ProgressNext /\ UNCHANGED <<breakerVars, poolVars>>
       \/ area = "breaker" /\ BreakerNext /\ UNCHANGED <<progressVars, poolVars>>
       \/ area = "pool" /\ PoolNext /\ UNCHANGED <<progressVars, breakerVars>>

MCSpec == MCInit /\ [][MCNext]_mcVars
=============================================================================
