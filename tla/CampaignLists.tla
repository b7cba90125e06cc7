--------------------------- MODULE CampaignLists ---------------------------
(***************************************************************************)
(* What administrators pick campaigns and weights from: the cached lists   *)
(* of campaigns, a campaign's cached scoring page, the weight presets and  *)
(* the platform's default weights, while administrators edit them.         *)
(*                                                                         *)
(* An edit reads, validates and commits, and then drops the cached views   *)
(* it knows to show what it changed.  A view is filled here in one step;   *)
(* a fill that a change overtakes is the subject of CachedViews.           *)
(***************************************************************************)
EXTENDS Integers, FiniteSetsExt, SequencesExt

CONSTANTS
    Campaigns,   \* campaign ids
    First,       \* the campaigns there are at the start
    HRAdmins,    \* HR admins, each with one request
    Managers,    \* hiring managers
    Presets,     \* preset ids: those there are at the start, and one for each admin to create
    FirstPresets, \* the presets there are at the start, their rows
    FirstWeights, \* the weights of the platform and of every campaign at the start
    Names,       \* names of presets
    MinLayer,    \* MIN_LAYER_WEIGHT
    PageSize,    \* page_size
    Scenes,      \* bound: what one behaviour holds, [plan: request of each admin, views: the
                 \* views clients ask for]
    Null

WeightSplit == [det : Nat, sem : Nat, ai : Nat]
CampaignRow == [status : {"ACTIVE", "CLOSED"}, by : HRAdmins, manager : Managers,
                w : WeightSplit, created : Nat]
Preset == [name : Names, det : Nat, sem : Nat, ai : Nat]
Systems == {"Balanced"}   \* the presets that are not rows
Filters == [manager : Managers \cup {Null}, status : {"ACTIVE", "CLOSED", Null}, closed : BOOLEAN]
ViewKinds == {"all", "manager", "search", "own", "scoring", "defaults", "presets"}

\* What a client may send: a reassignment names a manager, an edit of a preset its row.
Sendable(req) ==
    \/ req.op = "create_campaign" /\ req.id \in Campaigns /\ req.manager \in Managers
    \/ req.op = "reassign" /\ req.manager \in Managers
    \/ req.op \in {"close", "reset"}
    \/ req.op = "defaults" /\ req.row \in WeightSplit
    \/ req.op = "create_preset" /\ req.id \in Presets /\ req.row \in Preset
    \/ req.op \in {"update_preset", "delete_preset"} /\ req.id \in Presets \cup Systems /\ req.row \in Preset

(* No two campaigns are created under one id (campaigns.id is the primary key).  *)
ASSUME ListsAssumption ==
    /\ Null \notin Managers \cup Preset \cup CampaignRow /\ Managers # {} /\ HRAdmins # {}
    /\ IsFiniteSet(Campaigns) /\ First \subseteq Campaigns /\ FirstWeights \in WeightSplit
    /\ FirstPresets \in [Presets -> Preset \cup {Null}]
    /\ \A scene \in Scenes :
          /\ \A a \in HRAdmins : Sendable(scene.plan[a])
          /\ \A a \in HRAdmins : \A b \in HRAdmins \ {a} :
                {scene.plan[a].op, scene.plan[b].op} = {"create_campaign"} =>
                    scene.plan[a].id # scene.plan[b].id
          /\ \A v \in scene.views : v.kind \in ViewKinds /\ (v.kind = "search" => v.filter \in Filters)

VARIABLES
    campaigns,   \* campaign rows; Null until created
    had,         \* the hiring managers each campaign ever had
    defaults,    \* platform_config: the default weights
    presets,     \* campaign_weight_presets rows; Null: none
    audit,       \* preset entries of the audit log
    cache,       \* the Redis entries: view -> what it holds
    request,     \* [HRAdmins -> [at, read]]: the progress of each request
    asks, views,
    stale        \* a worker died between a commit and its invalidation

listVars == <<campaigns, had, defaults, presets, audit, cache, request, asks, views, stale>>

ListsInit ==
    /\ \E scene \in Scenes : asks = scene.plan /\ views = scene.views
    /\ campaigns = [k \in Campaigns |->
                      IF k \in First THEN [status |-> "ACTIVE", by |-> CHOOSE a \in HRAdmins : TRUE,
                                           manager |-> CHOOSE m \in Managers : TRUE,
                                           w |-> FirstWeights, created |-> 0] ELSE Null]
    /\ had = [k \in Campaigns |-> IF k \in First THEN {campaigns[k].manager} ELSE {}]
    /\ defaults = FirstWeights
    /\ presets = FirstPresets
    /\ audit = <<>>
    /\ cache = <<>>
    /\ request = [a \in HRAdmins |-> [at |-> "idle", read |-> Null]]
    /\ stale = FALSE

Rows == {k \in Campaigns : campaigns[k] # Null}

---------------------------------------------------------------------------
(* The lists, each from the rows as they are. *)

Shown(k) == [id |-> k, status |-> campaigns[k].status, manager |-> campaigns[k].manager]
NotClosed(k) == campaigns[k].status # "CLOSED"

AllCampaigns(closed) == {Shown(k) : k \in {r \in Rows : closed \/ NotClosed(r)}}
ManagersCampaigns(m, closed) ==
    {Shown(k) : k \in {r \in Rows : campaigns[r].manager = m /\ (closed \/ NotClosed(r))}}

\* search_campaigns: every filter is optional (the name, the JD and the deadline are filters
\* of the same form).
Matching(f) ==
    {Shown(k) : k \in {r \in Rows : /\ f.closed \/ NotClosed(r)
                                    /\ f.status = Null \/ campaigns[r].status = f.status
                                    /\ f.manager = Null \/ campaigns[r].manager = f.manager}}

NewestFirst(rows, own) == SetToSortSeq(own, LAMBDA x, y : rows[x].created > rows[y].created)

\* An admin's own campaigns, newest first, one page of them.
OwnPage(a, closed, page) ==
    LET own == {k \in Rows : campaigns[k].by = a /\ (closed \/ NotClosed(k))}
        newest == NewestFirst(campaigns, own)
        at == (page - 1) * PageSize
    IN  [items |-> [i \in 1..Max({0, Min({PageSize, Len(newest) - at})}) |-> Shown(newest[at + i])],
         total |-> Cardinality(own)]

\* A hiring manager's search is for their own campaigns, whatever they ask for.
Scoped(user, f) == IF user \in Managers THEN [f EXCEPT !.manager = user] ELSE f

\* Mutant: the entry is named after what was asked
SearchView_Asked(user, f) == [kind |-> "search", filter |-> f]

SearchView(user, f) == [kind |-> "search", filter |-> Scoped(user, f)]

\* The scoring page of a campaign shows the platform's defaults beside its own weights.
ScoringPage(k) == [w |-> campaigns[k].w, defaults |-> defaults]
PresetList == {[id |-> p, row |-> presets[p]] : p \in {x \in Presets : presets[x] # Null}}

Content(v) ==
    CASE v.kind = "all" -> AllCampaigns(v.closed)
      [] v.kind = "manager" -> ManagersCampaigns(v.manager, v.closed)
      [] v.kind = "search" -> Matching(v.filter)
      [] v.kind = "own" -> OwnPage(v.by, v.closed, v.page)
      [] v.kind = "scoring" -> ScoringPage(v.id)
      [] v.kind = "defaults" -> defaults
      [] v.kind = "presets" -> PresetList

\* A client asks: what is cached is served, else loaded and kept.
Ask(v) ==
    /\ v.kind = "scoring" => v.id \in Rows
    /\ v \notin DOMAIN cache
    /\ cache' = [x \in DOMAIN cache \cup {v} |-> IF x = v THEN Content(v) ELSE cache[x]]
    /\ UNCHANGED <<campaigns, had, defaults, presets, audit, request, asks, views, stale>>
\* search_campaigns, asked by this user.
Answer(user, f) ==
    LET v == SearchView(user, f) IN IF v \in DOMAIN cache THEN cache[v] ELSE Matching(Scoped(user, f))

---------------------------------------------------------------------------
(* The edits. *)

Sum(w) == w.det + w.sem + w.ai
\* _validate_scoring_weights
Valid(w) ==
    /\ \A layer \in {"det", "sem", "ai"} : w[layer] \in 0..100 /\ w[layer] >= MinLayer
    /\ Sum(w) = 100

\* The name is looked up as it was typed, and stored without the blanks around it.
NameTaken(p, req) ==
    ~req.padded /\ \E x \in Presets : x # p /\ presets[x] # Null /\ presets[x].name = req.row.name

\* What a request is refused for before it writes; NULL weights are left to their campaign.
Refused(req) ==
    CASE req.op = "create_campaign" -> campaigns[req.id] # Null
      [] req.op = "reassign" -> req.id \notin Rows
      [] req.op = "close" -> req.id \notin Rows \/ ~NotClosed(req.id)
      [] req.op = "reset" -> req.id \notin Rows \/ ~Valid(defaults)
      [] req.op = "defaults" -> ~Valid(req.row)
      [] req.op = "create_preset" -> NameTaken(req.id, req) \/ ~Valid(req.row)
      [] req.op = "update_preset" ->
            req.id \in Systems \/ presets[req.id] = Null \/ NameTaken(req.id, req) \/ ~Valid(req.row)
      [] req.op = "delete_preset" -> req.id \in Systems \/ presets[req.id] = Null

\* The row an edit has loaded, and writes only the changes to; a new campaign has the weights
\* its form was filled with.
Loaded(req) ==
    CASE req.op \in {"update_preset", "delete_preset"} -> presets[req.id]
      [] req.op \in {"defaults", "reset", "create_campaign"} -> defaults
      [] OTHER -> Null

Review(a) ==
    /\ request[a].at = "idle"
    /\ request' = [request EXCEPT ![a] = IF Refused(asks[a]) THEN [@ EXCEPT !.at = "done"]
                                         ELSE [at |-> "read", read |-> Loaded(asks[a])]]
    /\ UNCHANGED <<campaigns, had, defaults, presets, audit, cache, asks, views, stale>>

\* SQLAlchemy's UPDATE: only the columns whose value is not the one that was loaded.
Updated(current, read, asked) ==
    [f \in DOMAIN current |-> IF asked[f] = read[f] THEN current[f] ELSE asked[f]]

Commits(a) == request[a].at = "read" /\ request' = [request EXCEPT ![a].at = "committed"]
Fails(a) ==
    /\ request[a].at = "read" /\ request' = [request EXCEPT ![a].at = "done"]
    /\ UNCHANGED <<campaigns, had, defaults, presets, audit, cache, asks, views, stale>>

Newest == Cardinality(Rows)

WriteCampaign(a) ==
    LET req == asks[a]
    IN  /\ Commits(a)
        /\ \/ /\ req.op = "create_campaign"
              /\ campaigns' = [campaigns EXCEPT ![req.id] =
                    [status |-> "ACTIVE", by |-> a, manager |-> req.manager, w |-> request[a].read, created |-> Newest]]
              /\ had' = [had EXCEPT ![req.id] = {req.manager}]
           \/ /\ req.op = "reassign"
              /\ campaigns' = [campaigns EXCEPT ![req.id].manager = req.manager]
              /\ had' = [had EXCEPT ![req.id] = @ \cup {req.manager}]
           \/ /\ req.op = "close"
              /\ campaigns' = [campaigns EXCEPT ![req.id].status = "CLOSED"] /\ UNCHANGED had
           \/ /\ req.op = "reset"
              /\ campaigns' = [campaigns EXCEPT ![req.id].w = request[a].read] /\ UNCHANGED had
        /\ UNCHANGED <<defaults, presets, audit, cache, asks, views, stale>>

\* One row of platform_config for each weight.
WriteDefaults(a) ==
    /\ Commits(a) /\ asks[a].op = "defaults"
    /\ defaults' = Updated(defaults, request[a].read, asks[a].row)
    /\ UNCHANGED <<campaigns, had, presets, audit, cache, asks, views, stale>>

\* uq_campaign_weight_presets_org_name
Collides(p, row) == \E x \in Presets : x # p /\ presets[x] # Null /\ presets[x].name = row.name

\* Mutant: the entry names the preset as the request did
AuditEntry_Requested(a, what, row) == [id |-> asks[a].id, what |-> what, name |-> asks[a].row.name]

\* The row is read back before its audit entry is written.
AuditEntry(a, what, row) == [id |-> asks[a].id, what |-> what, name |-> row.name]

CreatePreset(a) ==
    LET p == asks[a].id
        row == asks[a].row
    IN  /\ asks[a].op = "create_preset"
        /\ IF Collides(p, row) THEN Fails(a)
           ELSE /\ Commits(a)
                /\ presets' = [presets EXCEPT ![p] = row]
                /\ audit' = Append(audit, AuditEntry(a, "created", row))
                /\ UNCHANGED <<campaigns, had, defaults, cache, asks, views, stale>>

\* A row that is gone, or a name that is taken by now, fails the transaction.
UpdatePreset(a) ==
    LET p == asks[a].id
        row == Updated(presets[p], request[a].read, asks[a].row)
    IN  /\ asks[a].op = "update_preset"
        /\ request[a].at = "read"
        /\ IF presets[p] = Null THEN Fails(a)
           ELSE IF Collides(p, row) THEN Fails(a)
           ELSE /\ Commits(a)
                /\ presets' = [presets EXCEPT ![p] = row]
                /\ audit' = Append(audit, AuditEntry(a, "updated", row))
                /\ UNCHANGED <<campaigns, had, defaults, cache, asks, views, stale>>

\* A row that is gone is deleted again, with another entry.
DeletePreset(a) ==
    /\ asks[a].op = "delete_preset"
    /\ Commits(a)
    /\ presets' = [presets EXCEPT ![asks[a].id] = Null]
    /\ audit' = Append(audit, AuditEntry(a, "deleted", request[a].read))
    /\ UNCHANGED <<campaigns, had, defaults, cache, asks, views, stale>>

ListKinds == {"all", "manager", "search", "own"}

\* Mutant: a change of a campaign drops its pages and leaves the lists
Invalidates_PagesOnly(req, v) ==
    CASE req.op \in {"create_campaign", "reassign", "close", "reset"} ->
            v.kind = "scoring" /\ v.id = req.id
      [] req.op = "defaults" -> v.kind = "defaults"
      [] OTHER -> v.kind = "presets"

\* What each edit drops.
Invalidates(req, v) ==
    CASE req.op = "create_campaign" -> v.kind \in ListKinds
      [] req.op \in {"reassign", "close", "reset"} -> v.kind \in ListKinds \/ (v.kind = "scoring" /\ v.id = req.id)
      [] req.op = "defaults" -> v.kind = "defaults"
      [] OTHER -> v.kind = "presets"

\* For the defaults, an audit entry is committed next.
Invalidate(a) ==
    /\ request[a].at = "committed"
    /\ request' = [request EXCEPT ![a].at = "done"]
    /\ cache' = [v \in {x \in DOMAIN cache : ~Invalidates(asks[a], x)} |-> cache[v]]
    /\ UNCHANGED <<campaigns, had, defaults, presets, audit, asks, views, stale>>

\* The worker dies, or Redis does not answer: the views are there until they expire.
Die(a) ==
    /\ request[a].at = "committed"
    /\ request' = [request EXCEPT ![a].at = "done"]
    /\ stale' = TRUE
    /\ UNCHANGED <<campaigns, had, defaults, presets, audit, cache, asks, views>>

Expire(v) ==
    /\ v \in DOMAIN cache
    /\ cache' = [x \in DOMAIN cache \ {v} |-> cache[x]]
    /\ UNCHANGED <<campaigns, had, defaults, presets, audit, request, asks, views, stale>>

---------------------------------------------------------------------------
ListsNext ==
    \/ \E a \in HRAdmins : \/ Review(a) \/ Invalidate(a) \/ Die(a)
                         \/ WriteCampaign(a) \/ WriteDefaults(a)
                         \/ CreatePreset(a) \/ UpdatePreset(a) \/ DeletePreset(a)
    \/ \E v \in views : Ask(v) \/ Expire(v)

ListsSpec == ListsInit /\ [][ListsNext]_listVars

---------------------------------------------------------------------------
(* What a hiring manager is served, be it cached for whoever asked first, holds no campaign
   that never was theirs. *)
ManagersSeeTheirOwn ==
    \A m \in Managers : \A v \in {x \in views : x.kind = "search"} :
        \A shown \in Answer(m, v.filter) : m \in had[shown.id]

(* When no edit is between its commit and its invalidation, and none died there, every cached
   view is what the database would answer: each edit knows all the views it shows in.  The
   defaults on a campaign's scoring page are excepted. *)
Comparable(v, content) == IF v.kind = "scoring" THEN content.w ELSE content
ViewsAreCurrent ==
    (~stale /\ \A a \in HRAdmins : request[a].at # "committed") =>
        \A v \in DOMAIN cache : Comparable(v, cache[v]) = Comparable(v, Content(v))

(* The last audit entry of a preset names it as the row does, and a preset is gone when it
   says so, whichever of two edits at once came last. *)
AuditNamesTheRow ==
    \A p \in Presets :
        LET mine == {i \in DOMAIN audit : audit[i].id = p}
            last == audit[Max(mine)]
        IN  mine # {} => IF presets[p] = Null THEN last.what = "deleted"
                         ELSE last.what # "deleted" /\ last.name = presets[p].name

(* What the lists, the cached views and the audit trail show is what the rows say. *)
ListsAreCurrent == ManagersSeeTheirOwn /\ ViewsAreCurrent /\ AuditNamesTheRow

(* Every set of weights that is offered, or reset to, sums to 100
   (_validate_scoring_weights, shared by every path that edits weights). *)
OfferedWeightsSum == Sum(defaults) = 100 /\ \A p \in Presets : presets[p] # Null => Sum(presets[p]) = 100

(* The scoring page of a campaign shows the platform's defaults as they are, once their edit
   has dropped the views it knows of (CacheInvalidator: the single source of truth for which
   cached views a change makes stale). *)
DefaultsAreShown ==
    (~stale /\ \A a \in HRAdmins : request[a].at # "committed") =>
        \A v \in DOMAIN cache : v.kind = "scoring" => cache[v].defaults = defaults
===========================================================================
