----------------------------- MODULE PoolSearch -----------------------------
(***************************************************************************)
(* Who the talent pool finds: Normal and Semantic Search, the options      *)
(* their filters offer, the profile page, the campaign's own filters, and  *)
(* the selection that decides who can be added.                            *)
(*                                                                         *)
(* Each is a query of its own over candidates, resume versions, vectors    *)
(* and memberships, which uploads, parsing, embedding, the daily           *)
(* validation, erasure and time change underneath.  A reader walks the     *)
(* pages of a search while they do.                                        *)
(***************************************************************************)
EXTENDS Integers, FiniteSetsExt, SequencesExt

CONSTANTS
    People,     \* numbers: a larger one was created later
    Active,     \* the ACTIVE campaigns
    Contents,   \* what a resume may say: [name, words, skills, titles, place, degrees, years]
    Alias,      \* skill ontology: alias |-> canonical skill
    Distance,   \* of each content to the query of the Semantic Search
    Scores, Stages,
    MaxAge, PageSize,
    Filters,    \* bound: what readers of Normal Search ask for
    Plots,      \* bound: [acts: kinds of writes, writes: how many, texts: of the first resumes]
    Unset

\* "Unset" is none of the values it stands in for; where a place is known, so is its spelling;
\* of distances only the order matters, and a page has room for one (ge=1).
ASSUME PoolAssumption ==
    /\ People \subseteq Nat /\ IsFiniteSet(People) /\ MaxAge \in Int /\ PageSize \in Nat \ {0}
    /\ Distance \in [Contents -> Int]
    /\ Unset \notin Contents \cup Active
    /\ Unset \notin [model : {"old", "new"}, ok : BOOLEAN]
    /\ \A x \in Contents : x.place # Unset => x.place.form \in Int
    /\ \A plot \in Plots : plot.texts \in [People -> Contents \cup {Unset}]

VARIABLES
    erasing,    \* candidates that have requested erasure
    resumes,    \* [id, who, status, active, born, facts: or Unset, vector: [model, ok] or Unset]
    members,    \* campaign_candidates: [id, who, camp, resume, stage, score: or Unset]
    clock,
    model,      \* the active embedding model
    options,    \* the copy in Redis of the filters' options, or Unset: [places, degrees,
                \* seen: history, the ids of the parsed resumes it was loaded from]
    walk,       \* a reader's walk through the pages of a search, or Unset
    acts, writes  \* the plot, and how many writes are left

poolVars == <<erasing, resumes, members, clock, model, options, walk, acts, writes>>

---------------------------------------------------------------------------
Owned(p) == {r \in resumes : r.who = p}
MembersOf(p) == {m \in members : m.who = p}
Newest(S) == CHOOSE x \in S : \A y \in S : y.id <= x.id
NewId(S) == 1 + Max({0} \cup {x.id : x \in S})

PoolInit ==
    \E plot \in Plots :
        /\ acts = plot.acts /\ writes = plot.writes
        /\ erasing = {} /\ members = {}
        /\ resumes = {[id |-> p, who |-> p, status |-> "PARSED", active |-> TRUE, born |-> 0, facts |-> plot.texts[p],
                       vector |-> [model |-> "old", ok |-> TRUE]] : p \in {q \in People : plot.texts[q] # Unset}}
        /\ clock = 0 /\ model = "old" /\ options = Unset /\ walk = Unset

---------------------------------------------------------------------------
(* Eligibility, as the selection and as the searches compute it. *)

Fresh(r) == clock - r.born <= MaxAge

Selectable(r) == r.status = "PARSED" /\ r.vector # Unset /\ r.vector.ok /\ Fresh(r)

\* select_resume_for_campaign() compares every version of the candidate.
Versions(p) == {r \in Owned(p) : Selectable(r)}

Addable(p, c) ==
    /\ c \in Active
    /\ ~\E m \in MembersOf(p) : m.camp = c
    /\ Versions(p) # {}

\* The SQL of the searches: the newest version of those that pass.
Window == clock - MaxAge

Rows_Live(p) ==
    {r \in Owned(p) : r.active /\ r.status = "PARSED" /\ r.vector # Unset /\ r.vector.ok /\ r.born >= Window}

Rows(p) == {r \in Owned(p) : r.status = "PARSED" /\ r.vector # Unset /\ r.vector.ok /\ r.born >= Window}

Picked == {Newest(Rows(p)) : p \in {q \in People : Rows(q) # {}}}

---------------------------------------------------------------------------
(* Filters.  An empty set, or Unset, is a filter that is not set. *)

NoFilter == [search |-> {}, skills |-> {}, titles |-> {}, places |-> {}, degrees |-> {}, camps |-> {},
             without |-> Unset, stages |-> {}, from |-> Unset, to |-> Unset, low |-> Unset, high |-> Unset]

\* Canonical names come before aliases.
Canonical(t) == IF \E x \in Contents : t \in x.skills THEN t
                ELSE IF t \in DOMAIN Alias THEN Alias[t] ELSE Unset

Bears(x, t) == t \in x.words \/ Canonical(t) \in x.skills

\* ILIKE: the case of a place or a title does not matter.
Like(v, w) == v.key = w.key

Within(n, lo, hi) == (lo # Unset => n # Unset /\ n >= lo) /\ (hi # Unset => n # Unset /\ n <= hi)

Best(p) ==
    LET scores == {m.score : m \in MembersOf(p)} \ {Unset}
    IN  IF scores = {} THEN Unset ELSE CHOOSE n \in scores : \A k \in scores : k <= n

Matches(r, f) ==
    LET x == r.facts
        links == MembersOf(r.who) IN
    /\ f.search # {} => f.search \subseteq x.name \/ \A t \in f.search : Bears(x, t)
    /\ f.skills # {} => \E t \in f.skills : Bears(x, t)
    /\ f.titles # {} => \E v \in f.titles : \E w \in x.titles : Like(v, w)
    /\ f.places # {} => x.place # Unset /\ \E v \in f.places : Like(v, x.place)
    /\ f.degrees # {} => f.degrees \cap x.degrees # {}
    /\ f.camps # {} => \E m \in links : m.camp \in f.camps
    /\ f.without # Unset => ~\E m \in links : m.camp = f.without
    /\ f.stages # {} => \E m \in links : m.stage \in f.stages
    /\ Within(x.years, f.from, f.to)
    /\ Within(Best(r.who), f.low, f.high)

Hits(f) == {r \in Picked : Matches(r, f)}
Crowd(f) == {r.who : r \in Hits(f)}

\* Normal Search lists whoever was created last first; Semantic Search counts the same crowd, but
\* lists only vectors of the active model, by their distance to the query.
Found(kind, f) == IF kind = "semantic" THEN {r \in Hits(f) : r.vector.model = model} ELSE Hits(f)
Key(kind, r) == IF kind = "semantic" THEN r.id ELSE r.who

Before_Version(kind, r, q) ==
    IF kind = "semantic" THEN Distance[r.facts] < Distance[q.facts] ELSE r.id > q.id

Before(kind, r, q) == IF kind = "semantic" THEN Distance[r.facts] < Distance[q.facts] ELSE r.who > q.who

\* One page of a list in the order; equal distances come in any order, of each query anew.
Pages(kind, f, n) ==
    {SubSeq(list, (n - 1) * PageSize + 1, Min({n * PageSize, Len(list)})) :
        list \in {s \in SetToSeqs(Found(kind, f)) : \A i, j \in DOMAIN s : i < j => ~Before(kind, s[j], s[i])}}

---------------------------------------------------------------------------
(* The options the filters offer, as a load computes them: of all parsed    *)
(* resumes, one spelling of each place, the most frequent, ties by the      *)
(* alphabet; never UNKNOWN.                                                 *)

Parsed_Live == {r \in resumes : r.status = "PARSED" /\ r.active}

Parsed == {r \in resumes : r.status = "PARSED"}

Spelled(v) == Cardinality({r \in Parsed : r.facts.place = v})

PlaceOptions ==
    LET values == {r.facts.place : r \in Parsed} \ {Unset}
    IN  {v \in values : \A w \in values :
             Like(v, w) => Spelled(w) < Spelled(v) \/ (Spelled(w) = Spelled(v) /\ v.form <= w.form)}

DegreeOptions == (UNION {r.facts.degrees : r \in Parsed}) \ {"UNKNOWN"}

\* A request without a copy in Redis loads the options and stores them; any other is served the
\* copy, which no write drops: it lives for cache_reference_ttl_seconds, an hour.
FillOptions ==
    /\ "offer" \in acts /\ options = Unset
    /\ options' = [places |-> PlaceOptions, degrees |-> DegreeOptions,
                   seen |-> {r.id : r \in {q \in resumes : q.status = "PARSED"}}]
    /\ UNCHANGED <<erasing, resumes, members, clock, model, walk, acts, writes>>

ExpireOptions ==
    /\ options # Unset /\ options' = Unset
    /\ UNCHANGED <<erasing, resumes, members, clock, model, walk, acts, writes>>

\* The profile page looks at the active version.
ProfileEligible(p) == \E r \in Owned(p) : r.active /\ Selectable(r)

---------------------------------------------------------------------------
(* The filters of one campaign's list. *)

\* A plain list of ids: every requested one must be held.
SkillFilter(c, ids) ==
    {m \in members : m.camp = c /\ \E r \in resumes :
        r.id = m.resume /\ r.facts # Unset /\ Cardinality(ToSet(ids) \cap r.facts.skills) = Len(ids)}

ExperienceFilter_Below(c, lo, hi, unknown) ==
    {m \in members : m.camp = c /\ \E r \in resumes :
        /\ r.id = m.resume
        /\ LET years == IF r.facts = Unset THEN Unset ELSE r.facts.years
           IN  (Within(years, lo, hi) /\ years # hi) \/ (unknown /\ years = Unset)}

\* Experience the parser could not read is kept when the reader wants it.
ExperienceFilter(c, lo, hi, unknown) ==
    {m \in members : m.camp = c /\ \E r \in resumes :
        /\ r.id = m.resume
        /\ LET years == IF r.facts = Unset THEN Unset ELSE r.facts.years
           IN  Within(years, lo, hi) \/ (unknown /\ years = Unset)}

---------------------------------------------------------------------------
(* Writes. *)

Writes(kind) == kind \in acts /\ writes > 0 /\ writes' = writes - 1
Alter(r, x) == resumes' = (resumes \ {r}) \cup {x}

Upload(p) ==
    /\ Writes("upload")
    /\ resumes' = {[r EXCEPT !.active = @ /\ r.who # p] : r \in resumes} \cup
           {[id |-> NewId(resumes), who |-> p, status |-> "PENDING", active |-> TRUE, born |-> clock,
             facts |-> Unset, vector |-> Unset]}
    /\ UNCHANGED <<erasing, members, clock, model, options, walk, acts>>

Parse(r) ==
    /\ Writes("upload") /\ r.status = "PENDING"
    /\ \/ Alter(r, [r EXCEPT !.status = "FAILED"])
       \/ \E x \in Contents : Alter(r, [r EXCEPT !.status = "PARSED", !.facts = x])
    /\ UNCHANGED <<erasing, members, clock, model, options, walk, acts>>

EmbedResume(r) ==
    /\ Writes("upload") /\ r.status = "PARSED" /\ r.vector = Unset
    /\ Alter(r, [r EXCEPT !.vector = [model |-> model, ok |-> TRUE]])
    /\ UNCHANGED <<erasing, members, clock, model, options, walk, acts>>

SwitchModel ==
    /\ Writes("switch") /\ model' = "new"
    /\ UNCHANGED <<erasing, resumes, members, clock, options, walk, acts>>

RequestErasure(p) ==
    /\ Writes("erase") /\ p \notin erasing
    /\ erasing' = erasing \cup {p}
    /\ resumes' = {IF r.who = p /\ r.vector # Unset THEN [r EXCEPT !.vector.ok = FALSE] ELSE r : r \in resumes}
    /\ UNCHANGED <<members, clock, model, options, walk, acts>>

\* Daily: erasure requested, or the newest membership under fraud review.
Standing(p) ==
    /\ p \notin erasing
    /\ MembersOf(p) # {} => Newest(MembersOf(p)).stage # "FRAUD_REVIEW"

ValidatePool ==
    /\ Writes("daily")
    /\ resumes' = {IF r.vector = Unset THEN r ELSE [r EXCEPT !.vector.ok = Standing(r.who)] : r \in resumes}
    /\ UNCHANGED <<erasing, members, clock, model, options, walk, acts>>

Age ==
    /\ Writes("age") /\ clock' = clock + 1
    /\ UNCHANGED <<erasing, resumes, members, model, options, walk, acts>>

AddToCampaign(p, c) ==
    /\ Writes("add") /\ Addable(p, c)
    /\ \E r \in Versions(p) :
           members' = members \cup {[id |-> NewId(members), who |-> p, camp |-> c, resume |-> r.id,
                                     stage |-> "UPLOADED", score |-> Unset]}
    /\ UNCHANGED <<erasing, resumes, clock, model, options, walk, acts>>

Assess(m) ==
    /\ Writes("assess")
    /\ \E s \in Stages, n \in Scores : members' = (members \ {m}) \cup {[m EXCEPT !.stage = s, !.score = n]}
    /\ UNCHANGED <<erasing, resumes, clock, model, options, walk, acts>>

---------------------------------------------------------------------------
(* A reader walks the pages of a search. *)

Keys(kind, S) == {Key(kind, r) : r \in S}
Twins(S) == {r.id : r \in {q \in S : \E x \in S \ {q} : Distance[x.facts] = Distance[q.facts]}}

\* crowd: at the last page read; came, went: who has joined or left it since the first;
\* twins: versions that have been at equal distances.
OpenSearch(kind, f) ==
    LET S == Found(kind, f) IN
    /\ walk = Unset
    /\ \E list \in Pages(kind, f, 1) :
           walk' = [kind |-> kind, filter |-> f, pages |-> <<[n \in DOMAIN list |-> Key(kind, list[n])]>>,
                    crowd |-> Keys(kind, S), came |-> {}, went |-> {}, twins |-> Twins(S)]
    /\ UNCHANGED <<erasing, resumes, members, clock, model, options, acts, writes>>

Ended == walk # Unset /\ Len(Last(walk.pages)) < PageSize

Turn ==
    /\ walk # Unset /\ ~Ended
    /\ LET S == Found(walk.kind, walk.filter)
           now == Keys(walk.kind, S) IN
       \E list \in Pages(walk.kind, walk.filter, Len(walk.pages) + 1) :
           walk' = [walk EXCEPT !.pages = Append(@, [n \in DOMAIN list |-> Key(walk.kind, list[n])]),
                        !.crowd = now, !.twins = @ \cup Twins(S),
                        !.came = @ \cup (now \ walk.crowd), !.went = @ \cup (walk.crowd \ now)]
    /\ UNCHANGED <<erasing, resumes, members, clock, model, options, acts, writes>>

PoolNext ==
    \/ SwitchModel \/ ValidatePool \/ Age \/ Turn \/ FillOptions \/ ExpireOptions
    \/ \E p \in People : Upload(p) \/ RequestErasure(p) \/ (\E c \in Active : AddToCampaign(p, c))
    \/ \E r \in resumes : Parse(r) \/ EmbedResume(r)
    \/ \E m \in members : Assess(m)
    \/ \E f \in Filters : OpenSearch("normal", f)
    \/ OpenSearch("semantic", NoFilter)

PoolSpec == PoolInit /\ [][PoolNext]_poolVars

---------------------------------------------------------------------------
\* "mirrors ResumeSelectionService._is_eligible exactly" (resume_repository.py:172-174): the
\* search that leaves out a campaign's members finds whoever can be added to it, and nobody else,
\* although one reads the newest eligible version in SQL and the other compares all of them.
OfferedCanBeAdded ==
    \A c \in Active : Crowd([NoFilter EXCEPT !.without = c]) = {p \in People : Addable(p, c)}

\* A walk to the last page shows everyone who stayed in the crowd, once, whatever was uploaded,
\* assessed or aged meanwhile: only somebody new in the crowd makes it show a person again, and
\* only somebody gone makes it skip one (LIMIT/OFFSET, resume_repository.py:260-271, 346-361).
\* In Semantic Search, which breaks no ties, also versions at equal distances may be swapped.
WalkIsExplained ==
    Ended =>
        LET times(k) == Cardinality({n \in DOMAIN walk.pages : k \in ToSet(walk.pages[n])}) IN
        \A k \in walk.crowd \ (walk.came \cup (IF walk.kind = "semantic" THEN walk.twins ELSE {})) :
            /\ walk.went = {} => times(k) >= 1
            /\ walk.came = {} => times(k) <= 1

\* However old the copy of the options is that a reader is served, for every place and degree on
\* the card of a listed person whose version was parsed when the copy was loaded it has an option,
\* and choosing it lists the person again: the options are counted over all parsed resumes in one
\* spelling (get_distinct_locations, 536-558), the filter reads the version the search picks now.
\* Who was parsed since then may have no option until the copy expires.
OptionsLeadBack ==
    options # Unset => \A r \in {q \in Picked : q.id \in options.seen} :
        /\ r.facts.place # Unset =>
               \E v \in options.places : Like(v, r.facts.place) /\ r.who \in Crowd([NoFilter EXCEPT !.places = {v}])
        /\ \A d \in r.facts.degrees \ {"UNKNOWN"} :
               d \in options.degrees /\ r.who \in Crowd([NoFilter EXCEPT !.degrees = {d}])

\* While a member's version in the campaign is the one the pool picks, the campaign's experience
\* filter and the pool's agree on known years, and whom the campaign's skill filter shows the
\* pool's shows too (candidate_search_service 44-76 and _talent_pool_filter_conditions).
FiltersAgree ==
    \A r \in Picked : \A m \in {k \in members : k.resume = r.id} :
        LET pool == [NoFilter EXCEPT !.camps = {m.camp}] IN
        /\ r.facts.years # Unset => \A n \in {x.years : x \in Contents} \ {Unset} : \A unknown \in BOOLEAN :
               /\ m \in ExperienceFilter(m.camp, n, Unset, unknown) <=> r.who \in Crowd([pool EXCEPT !.from = n])
               /\ m \in ExperienceFilter(m.camp, Unset, n, unknown) <=> r.who \in Crowd([pool EXCEPT !.to = n])
        /\ \A s \in r.facts.skills :
               m \in SkillFilter(m.camp, <<s>>) => r.who \in Crowd([pool EXCEPT !.skills = {s}])

\* What the pool's queries say of eligibility, options and filters is said alike wherever it is
\* computed.
QueriesAgree == OfferedCanBeAdded /\ OptionsLeadBack /\ FiltersAgree

\* "this display can never drift from what actually determines campaign selection"
\* (talent_pool_service.py:145-151).
ProfileTellsSelection == \A p \in People : ProfileEligible(p) <=> Versions(p) # {}
=============================================================================
