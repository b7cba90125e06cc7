---------------------------- MODULE CachedViews ----------------------------
(***************************************************************************)
(* CacheService in front of PostgreSQL, seen through one cached view: API  *)
(* readers load and store it, writers commit a newer version of what it    *)
(* shows, drop the entry and leave a tombstone (LiveChannels has what they  *)
(* announce then).  The content of the view is the number of the last       *)
(* commit it shows.  Redis may be down; entries, locks and tombstones       *)
(* expire; a writer that dies is one that takes no further step.            *)
(***************************************************************************)
EXTENDS Naturals

CONSTANTS Readers, Writers,
          Scenes,       \* what a behaviour may be about: a change, a view, who reads and who writes
          MaxOutages,   \* how often Redis may stop answering
          NoEntry       \* no value, no reader, no time

ASSUME CacheAssumption == MaxOutages \in Nat /\ NoEntry \notin Nat /\ NoEntry \notin Readers

(* The views that are cached, by what a change of their data deletes:       *)
(* CacheInvalidator and the two services that drop a key themselves.        *)
JdViews == {"jd", "jd:list", "jd:search"}
ResumeViews == {"resume", "resume:list", "candidate:list"}
CampaignViews == {"campaign", "campaign:scoring", "campaign:list"}
SkillViews == {"skill", "skill:catalog", "skill:categories", "skill:dashboard-summary"}
Drops == [jd |-> JdViews, resume |-> ResumeViews, campaign |-> CampaignViews,
          candidate |-> CampaignViews \cup ResumeViews, skill |-> SkillViews,
          preset |-> {"campaign:weight-presets"}, defaults |-> {"campaign:platform-defaults"}]

\* Views with many keys go by SCAN over their prefix, the others by name.
ByPrefix == {"jd:list", "jd:search", "resume:list", "candidate:list", "campaign:list"} \cup SkillViews

\* Nothing drops these: they only expire.
Expiring == {"dashboard", "reference"}

VARIABLES focus,     \* the scene of this behaviour
          db,        \* number of commits
          entry,     \* the cached version, or NoEntry
          tomb,      \* Redis time of the last invalidation, or NoEntry
          lock,      \* the reader populating the key, or NoEntry
          clock,     \* Redis server time: it advances with the invalidations
          up,        \* Redis answers
          reader, writer,
          marked,    \* commits whose invalidation is complete, and whose tombstone no older one replaced
          seen, past,\* of the entry: commits marked when its reader checked, commits whose deletion had begun when it was stored
          outages

vars == <<focus, db, entry, tomb, lock, clock, up, reader, writer, marked, seen, past, outages>>
redis == <<entry, tomb, lock, clock, seen, past>>

View == focus.view
Dropped == View \in Drops[focus.change]
Begun == {writer[w].commit : w \in {x \in Writers : writer[x].pc \in {"unlink", "stamp", "mark", "done"}}}

FreshReader == [pc |-> "idle", value |-> NoEntry, started |-> NoEntry, seen |-> {}]
FreshWriter == [pc |-> "idle", commit |-> 0, found |-> FALSE, deleted |-> FALSE, at |-> NoEntry]

Reader == [pc : {"idle", "miss", "time", "load", "check", "set", "release"},
           value : Nat \cup {NoEntry}, started : Nat \cup {NoEntry}, seen : SUBSET Nat]
Writer == [pc : {"idle", "drop", "unlink", "stamp", "mark", "done"}, commit : Nat,
           found : BOOLEAN, deleted : BOOLEAN, at : Nat \cup {NoEntry}]

TypeOK ==
    /\ focus \in Scenes /\ db \in Nat /\ entry \in Nat \cup {NoEntry}
    /\ tomb \in Nat \cup {NoEntry} /\ clock \in Nat /\ lock \in Readers \cup {NoEntry}
    /\ up \in BOOLEAN /\ outages \in 0..MaxOutages
    /\ marked \subseteq Nat /\ seen \subseteq Nat /\ past \subseteq Nat
    /\ reader \in [Readers -> Reader] /\ writer \in [Writers -> Writer]

Init ==
    /\ focus \in Scenes
    /\ db = 0 /\ entry = NoEntry /\ tomb = NoEntry /\ lock = NoEntry /\ clock = 0 /\ up = TRUE
    /\ reader = [r \in Readers |-> FreshReader]
    /\ writer = [w \in Writers |-> FreshWriter]
    /\ marked = {} /\ seen = {} /\ past = {}
    /\ outages = 0

----------------------------------------------------------------------------
(* get_or_set *)

Goes(r, pc) == reader' = [reader EXCEPT ![r].pc = pc]

\* A hit answers; an error of Redis is a miss.
Get(r) ==
    /\ r \in focus.readers /\ reader[r].pc = "idle"
    /\ Goes(r, IF up /\ entry # NoEntry THEN "idle" ELSE "miss")
    /\ UNCHANGED <<focus, db, redis, up, writer, marked, outages>>

\* SET NX: populate the key.  Otherwise the answer is a later hit (three
\* polls) or the loader's value, which is not stored; so it is without Redis.
Acquire(r) ==
    /\ reader[r].pc = "miss"
    /\ Goes(r, IF up /\ lock = NoEntry THEN "time" ELSE "idle")
    /\ lock' = IF up /\ lock = NoEntry THEN r ELSE lock
    /\ UNCHANGED <<focus, db, entry, tomb, clock, seen, past, up, writer, marked, outages>>

\* _load_and_store: the server time is read before the loader runs.
ServerTime(r) ==
    /\ reader[r].pc = "time"
    /\ reader' = [reader EXCEPT ![r].pc = "load", ![r].started = IF up THEN clock ELSE NoEntry]
    /\ UNCHANGED <<focus, db, redis, up, writer, marked, outages>>

Load(r) ==
    /\ reader[r].pc = "load"
    /\ reader' = [reader EXCEPT ![r].pc = "check", ![r].value = db]
    /\ UNCHANGED <<focus, db, redis, up, writer, marked, outages>>

\* _invalidated_since: an unreachable Redis counts as an invalidation.
InvalidatedSince_Later(started) == ~up \/ (tomb # NoEntry /\ tomb > started)

InvalidatedSince(started) == ~up \/ (tomb # NoEntry /\ tomb >= started)

Check(r) ==
    /\ reader[r].pc = "check"
    /\ reader' = [reader EXCEPT
         ![r].pc = IF reader[r].started = NoEntry \/ InvalidatedSince(reader[r].started) THEN "release" ELSE "set",
         ![r].seen = marked]
    /\ UNCHANGED <<focus, db, redis, up, writer, marked, outages>>

Store(r) ==
    /\ reader[r].pc = "set"
    /\ Goes(r, "release")
    /\ IF up THEN entry' = reader[r].value /\ seen' = reader[r].seen /\ past' = Begun
             ELSE UNCHANGED <<entry, seen, past>>
    /\ UNCHANGED <<focus, db, tomb, lock, clock, up, writer, marked, outages>>

\* The script deletes the lock only while it still holds this reader's token.
Release(r) ==
    /\ reader[r].pc = "release"
    /\ reader' = [reader EXCEPT ![r] = FreshReader]
    /\ lock' = IF up /\ lock = r THEN NoEntry ELSE lock
    /\ UNCHANGED <<focus, db, entry, tomb, clock, seen, past, up, writer, marked, outages>>

----------------------------------------------------------------------------
(* A service, or a task: commit, invalidate *)

Forget == entry' = NoEntry /\ seen' = {} /\ past' = {}

Commit(w) ==
    /\ w \in focus.writers /\ writer[w].pc = "idle"
    /\ db' = db + 1
    /\ writer' = [writer EXCEPT ![w].pc = IF Dropped THEN "drop" ELSE "done", ![w].commit = db + 1]
    /\ UNCHANGED <<focus, redis, up, reader, marked, outages>>

\* delete: DEL by name; delete_by_prefix: SCAN, and DEL of what it found.
Drop(w) ==
    /\ writer[w].pc = "drop"
    /\ \/ /\ ~up /\ writer' = [writer EXCEPT ![w].pc = "stamp"]
          /\ UNCHANGED <<entry, seen, past>>
       \/ /\ up /\ View \in ByPrefix
          /\ writer' = [writer EXCEPT ![w].pc = "unlink", ![w].found = entry # NoEntry]
          /\ UNCHANGED <<entry, seen, past>>
       \/ /\ up /\ View \notin ByPrefix
          /\ writer' = [writer EXCEPT ![w].pc = "stamp", ![w].deleted = TRUE]
          /\ Forget
    /\ UNCHANGED <<focus, db, tomb, lock, clock, up, reader, marked, outages>>

Unlink(w) ==
    /\ writer[w].pc = "unlink"
    /\ writer' = [writer EXCEPT ![w].pc = "stamp", ![w].deleted = up, ![w].found = FALSE]
    /\ IF up /\ writer[w].found THEN Forget ELSE UNCHANGED <<entry, seen, past>>
    /\ UNCHANGED <<focus, db, tomb, lock, clock, up, reader, marked, outages>>

\* _write_tombstones: the server time, maybe that of a reader's, then the stamp.
Stamp(w) ==
    /\ writer[w].pc = "stamp"
    /\ IF up THEN \E t \in {clock, clock + 1} :
                     /\ writer' = [writer EXCEPT ![w].pc = "mark", ![w].at = t]
                     /\ clock' = t + 1
             ELSE writer' = [writer EXCEPT ![w].pc = "done"] /\ UNCHANGED clock
    /\ UNCHANGED <<focus, db, entry, tomb, lock, seen, past, up, reader, marked, outages>>

Mark(w) ==
    /\ writer[w].pc = "mark"
    /\ writer' = [writer EXCEPT ![w].pc = "done", ![w].deleted = FALSE]
    /\ tomb' = IF up THEN writer[w].at ELSE tomb
    /\ marked' = {c \in (IF up /\ writer[w].deleted THEN marked \cup {writer[w].commit} ELSE marked) :
                    up => \A x \in Writers : writer[x].commit = c => writer[x].at <= writer[w].at}
    /\ UNCHANGED <<focus, db, entry, lock, clock, seen, past, up, reader, outages>>

----------------------------------------------------------------------------
(* Expiries and outages *)

EntryExpires ==
    /\ entry # NoEntry /\ Forget
    /\ UNCHANGED <<focus, db, tomb, lock, clock, up, reader, writer, marked, outages>>

LockExpires ==
    /\ lock # NoEntry /\ lock' = NoEntry
    /\ UNCHANGED <<focus, db, entry, tomb, clock, seen, past, up, reader, writer, marked, outages>>

\* _TOMBSTONE_TTL_SECONDS "must exceed the slowest cache loader".
TombExpires ==
    /\ tomb # NoEntry
    /\ \A r \in Readers : reader[r].started # NoEntry => reader[r].started > tomb
    /\ tomb' = NoEntry
    /\ UNCHANGED <<focus, db, entry, lock, clock, seen, past, up, reader, writer, marked, outages>>

\* Redis stops answering; its data is still there when it does again.
Outage ==
    /\ up /\ outages < MaxOutages
    /\ up' = FALSE /\ outages' = outages + 1
    /\ UNCHANGED <<focus, db, redis, reader, writer, marked>>

Recovery == ~up /\ up' = TRUE /\ UNCHANGED <<focus, db, redis, reader, writer, marked, outages>>

Read(r) == Get(r) \/ Acquire(r) \/ ServerTime(r) \/ Load(r) \/ Check(r) \/ Store(r) \/ Release(r)
Write(w) == Commit(w) \/ Drop(w) \/ Unlink(w) \/ Stamp(w) \/ Mark(w)

CachedNext ==
    \/ \E r \in Readers : Read(r)
    \/ \E w \in Writers : Write(w)
    \/ EntryExpires \/ LockExpires \/ TombExpires \/ Outage \/ Recovery

CachedSpec == Init /\ [][CachedNext]_vars

----------------------------------------------------------------------------
(* A cached view older than a completed invalidation was checked before     *)
(* that invalidation's tombstone existed, and was stored after its deletion *)
(* had begun: every other stale value is kept out by the tombstone or       *)
(* removed by the deletion.                                                 *)
StaleOutranInvalidation ==
    entry # NoEntry => \A c \in marked : entry < c => c \notin seen /\ c \in past

(* CacheService's own claim: once every invalidation has run, and Redis     *)
(* never failed, no pre-change value is cached.                             *)
NoStalePin ==
    (Dropped /\ entry # NoEntry /\ \A w \in Writers : writer[w].pc \in {"idle", "done"}) => entry = db
=============================================================================
