--------------------------- MODULE Platform_proofs ---------------------------
(***************************************************************************)
(* Proofs about the services every other component uses: the cached views, *)
(* the WebSocket channels, the AI providers, the prompt templates and the  *)
(* circuit breaker of the embeddings, each for any number of readers,      *)
(* clients, admins, editors and tasks.                                     *)
(***************************************************************************)
EXTENDS CachedViews, LiveChannels, AiProviders, PromptTemplates, EmbeddingBreaker, FiniteSetTheorems, TLAPS

---------------------------------------------------------------------------
(* Cached views. *)

\* Every commit has one writer, who has a number when it has committed.
WritersInv ==
    /\ \A w \in Writers : /\ writer[w].commit <= db
                          /\ writer[w].pc = "idle" <=> writer[w].commit = 0
                          /\ writer[w].pc \in {"idle", "drop", "unlink", "stamp"} => writer[w].at = NoEntry
                          /\ writer[w].pc = "mark" => writer[w].at # NoEntry
                          /\ writer[w].pc \in {"idle", "drop", "unlink"} => ~writer[w].deleted
                          /\ writer[w].at # NoEntry => writer[w].at < clock
    /\ \A v, w \in Writers : writer[v].commit = writer[w].commit /\ writer[v].commit # 0 => v = w

\* A marked commit's writer is done, and its stamp is no younger than the tombstone, or,
\* when the tombstone has expired, older than the start of everyone who is loading.
Settled(w, c) ==
    /\ writer[w].commit = c /\ writer[w].pc = "done" /\ writer[w].at # NoEntry
    /\ tomb # NoEntry => writer[w].at <= tomb
    /\ tomb = NoEntry => \A r \in Readers : reader[r].started # NoEntry
                                            => writer[w].at < reader[r].started
MarkedInv == \A c \in marked : \E w \in Writers : Settled(w, c)

\* A reader that has loaded started before anything it missed was stamped; one that passed
\* the check had seen no invalidation of what it missed.
ReadersInv ==
    \A r \in Readers :
        /\ reader[r].started # NoEntry => reader[r].started <= clock
        /\ reader[r].pc \in {"check", "set"} =>
              /\ reader[r].value \in Nat
              /\ reader[r].started # NoEntry =>
                    \A w \in Writers : writer[w].commit > reader[r].value /\ writer[w].at # NoEntry
                                       => writer[w].at >= reader[r].started
        /\ \A c \in reader[r].seen : \E w \in Writers : writer[w].commit = c /\ writer[w].pc = "done"
        /\ reader[r].pc = "set" => \A c \in reader[r].seen : c <= reader[r].value

\* What is cached had seen no invalidation of what it misses; a writer that has deleted and
\* still finds something cached had begun before it was stored.
EntryInv ==
    /\ \A c \in seen : \E w \in Writers : writer[w].commit = c /\ writer[w].pc = "done"
    /\ entry # NoEntry => \A c \in seen : c <= entry
    /\ \A w \in Writers :
          entry # NoEntry /\ \/ writer[w].pc = "unlink" /\ ~writer[w].found
                             \/ writer[w].pc \in {"stamp", "mark"} /\ writer[w].deleted
          => writer[w].commit \in past

CacheInv == TypeOK /\ WritersInv /\ MarkedInv /\ ReadersInv /\ EntryInv /\ StaleOutranInvalidation

\* The invariant holds before anything is read or written.
LEMMA CacheInit == Init => CacheInv
BY CacheAssumption
   DEF Init, CacheInv, TypeOK, WritersInv, MarkedInv, ReadersInv, EntryInv,
       StaleOutranInvalidation, Reader, Writer, FreshReader, FreshWriter

\* Steps of a reader that touch neither the cache nor a writer.
LEMMA ReaderSteps ==
    ASSUME CacheInv, NEW r \in Readers,
           Get(r) \/ Acquire(r) \/ ServerTime(r) \/ Load(r) \/ Check(r) \/ Release(r)
    PROVE  CacheInv'
<1> USE CacheAssumption DEF CacheInv
<1>1. TypeOK'
  BY DEF TypeOK, Reader, FreshReader, Get, Acquire, ServerTime, Load, Check, Release, Goes, redis
<1>2. /\ UNCHANGED <<db, entry, tomb, clock, writer, marked, seen, past>>
      /\ \A x \in Readers \ {r} : reader'[x] = reader[x]
  BY DEF TypeOK, Get, Acquire, ServerTime, Load, Check, Release, Goes, redis
<1>3. WritersInv' /\ EntryInv' /\ StaleOutranInvalidation'
  BY <1>2 DEF WritersInv, EntryInv, StaleOutranInvalidation
<1>4. reader'[r].started \in {NoEntry, reader[r].started, clock}
  BY DEF TypeOK, Reader, FreshReader, Get, Acquire, ServerTime, Load, Check, Release, Goes
<1>5. MarkedInv'
  BY <1>2, <1>4 DEF MarkedInv, Settled, WritersInv, TypeOK, Reader, Writer
<1>6. ReadersInv'
  <2>1. CASE Get(r) \/ Acquire(r) \/ Release(r)
    BY <2>1, <1>2 DEF ReadersInv, TypeOK, Reader, FreshReader, Get, Acquire, Release, Goes
  <2>2. CASE ServerTime(r)
    BY <2>2, <1>2 DEF ReadersInv, TypeOK, Reader, ServerTime, redis
  <2>3. CASE Load(r)
    BY <2>3, <1>2 DEF ReadersInv, WritersInv, TypeOK, Reader, Writer, Load, redis
  <2>4. CASE Check(r)
    <3>1. \A c \in marked : \E w \in Writers : writer[w].commit = c /\ writer[w].pc = "done"
      BY DEF MarkedInv, Settled
    <3>2. ASSUME reader'[r].pc = "set", NEW c \in marked PROVE c <= reader[r].value
      <4>1. /\ reader[r].pc = "check" /\ reader[r].started # NoEntry
            /\ tomb # NoEntry => tomb < reader[r].started
        BY <2>4, <3>2 DEF Check, InvalidatedSince, TypeOK, Reader
      <4>2. PICK w \in Writers : /\ writer[w].commit = c /\ writer[w].at # NoEntry
                                 /\ tomb # NoEntry => writer[w].at <= tomb
                                 /\ tomb = NoEntry => writer[w].at < reader[r].started
        BY <4>1, <3>2 DEF MarkedInv, Settled
      <4>3. writer[w].at < reader[r].started
        BY <4>1, <4>2 DEF TypeOK, Reader, Writer
      <4> QED BY <4>1, <4>2, <4>3 DEF ReadersInv, TypeOK, Reader, Writer
    <3> QED BY <2>4, <1>2, <3>1, <3>2 DEF ReadersInv, TypeOK, Reader, Check, redis
  <2> QED BY <2>1, <2>2, <2>3, <2>4
<1> QED BY <1>1, <1>3, <1>5, <1>6

\* A store caches only what was checked; everybody marked has begun to delete.
LEMMA StoreStep == ASSUME CacheInv, NEW r \in Readers, Store(r) PROVE CacheInv'
<1> USE CacheAssumption DEF CacheInv
<1>1. TypeOK'
  BY DEF TypeOK, Reader, Writer, Store, Goes, Begun, ReadersInv
<1>2. /\ UNCHANGED <<db, tomb, clock, writer, marked>> /\ reader[r].pc = "set"
      /\ reader' = [reader EXCEPT ![r].pc = "release"]
      /\ IF up THEN entry' = reader[r].value /\ seen' = reader[r].seen /\ past' = Begun
               ELSE UNCHANGED <<entry, seen, past>>
  BY DEF Store, Goes
<1>3. WritersInv' /\ MarkedInv' /\ ReadersInv'
  BY <1>2 DEF WritersInv, MarkedInv, Settled, ReadersInv, TypeOK, Reader
<1>4. EntryInv'
  BY <1>2 DEF EntryInv, ReadersInv, TypeOK, Reader, Begun
<1>5. StaleOutranInvalidation'
  BY <1>2 DEF StaleOutranInvalidation, MarkedInv, Settled, ReadersInv, TypeOK, Reader, Writer, Begun
<1> QED BY <1>1, <1>3, <1>4, <1>5

\* A new commit is nobody's yet.
LEMMA CommitStep == ASSUME CacheInv, NEW w \in Writers, Commit(w) PROVE CacheInv'
<1> USE CacheAssumption DEF CacheInv
<1>1. /\ UNCHANGED <<focus, entry, tomb, lock, clock, up, outages, marked, reader, seen, past>>
      /\ db' = db + 1 /\ writer[w].pc = "idle" /\ writer[w].commit = 0
      /\ writer[w].at = NoEntry /\ ~writer[w].deleted
  BY DEF Commit, redis, WritersInv
<1>2. PICK pc \in {"drop", "done"} :
          writer' = [writer EXCEPT ![w] = [writer[w] EXCEPT !.pc = pc, !.commit = db + 1]]
  BY DEF Commit, TypeOK, Writer
<1>3. TypeOK'
  <2>1. [writer[w] EXCEPT !.pc = pc, !.commit = db + 1] \in Writer
    <3>1. writer[w] \in Writer /\ db + 1 \in Nat
      BY DEF TypeOK
    <3> QED BY <3>1 DEF Writer
  <2>2. writer' \in [Writers -> Writer]
    BY <2>1, <1>2 DEF TypeOK
  <2> QED BY <2>2, <1>1 DEF TypeOK
<1>4. /\ \A v \in Writers : v # w => writer'[v] = writer[v]
      /\ writer'[w].pc = pc /\ writer'[w].commit = db + 1
      /\ writer'[w].at = NoEntry /\ ~writer'[w].deleted
  BY <1>1, <1>2 DEF TypeOK, Writer
<1>5. WritersInv'
  BY <1>1, <1>4 DEF WritersInv, TypeOK, Writer
<1>6. MarkedInv'
  <2> SUFFICES ASSUME NEW c \in marked PROVE \E v \in Writers : Settled(v, c)'
    BY <1>1 DEF MarkedInv
  <2>1. PICK v \in Writers : Settled(v, c)
    BY DEF MarkedInv
  <2>2. v # w
    BY <2>1, <1>1 DEF Settled
  <2> QED BY <2>1, <2>2, <1>1, <1>4 DEF Settled
<1>7. ReadersInv'
  BY <1>1, <1>4 DEF ReadersInv
<1>8. EntryInv' /\ StaleOutranInvalidation'
  BY <1>1, <1>4 DEF EntryInv, StaleOutranInvalidation
<1> QED BY <1>3, <1>5, <1>6, <1>7, <1>8

\* A deletion: what is found cached later was stored since.
LEMMA DropSteps == ASSUME CacheInv, NEW w \in Writers, Drop(w) \/ Unlink(w) PROVE CacheInv'
<1> USE CacheAssumption DEF CacheInv
<1>1. TypeOK'
  BY DEF TypeOK, Writer, Drop, Unlink, Forget
<1>2. /\ UNCHANGED <<db, tomb, clock, marked, reader>>
      /\ writer[w].pc \in {"drop", "unlink"} /\ writer'[w].pc \in {"unlink", "stamp"}
      /\ writer'[w].commit = writer[w].commit /\ writer'[w].at = writer[w].at
      /\ writer'[w].pc = "unlink" => writer'[w].deleted = writer[w].deleted
      /\ \A v \in Writers : v # w => writer'[v] = writer[v]
      /\ UNCHANGED <<entry, seen, past>> \/ Forget
  BY DEF Drop, Unlink, TypeOK, Writer
<1>3. WritersInv'
  BY <1>2 DEF WritersInv
<1>4. MarkedInv' /\ ReadersInv'
  BY <1>2 DEF MarkedInv, Settled, ReadersInv
<1>5. EntryInv'
  <2>1. CASE Forget
    BY <2>1, <1>2 DEF Forget, EntryInv
  <2>2. CASE UNCHANGED <<entry, seen, past>>
    <3>1. /\ writer'[w].pc = "unlink" => writer'[w].found \/ entry = NoEntry
          /\ writer'[w].deleted => \/ writer[w].deleted \/ entry' = NoEntry
                                   \/ writer[w].pc = "unlink" /\ ~writer[w].found
      BY <2>2, <1>1 DEF Drop, Unlink, Forget, TypeOK, Writer
    <3>2. ~writer[w].deleted
      BY <1>2 DEF WritersInv
    <3> QED BY <2>2, <1>2, <3>1, <3>2 DEF EntryInv
  <2> QED BY <1>2, <2>1, <2>2
<1>6. StaleOutranInvalidation'
  BY <1>2 DEF StaleOutranInvalidation, Forget
<1> QED BY <1>1, <1>3, <1>4, <1>5, <1>6

\* A stamp is taken after everyone who has started started.
LEMMA StampStep == ASSUME CacheInv, NEW w \in Writers, Stamp(w) PROVE CacheInv'
<1> USE CacheAssumption DEF CacheInv
<1>1. /\ UNCHANGED <<focus, db, entry, tomb, lock, up, outages, marked, reader, seen, past>>
      /\ writer[w].pc = "stamp" /\ writer[w].at = NoEntry /\ clock \in Nat
      /\ \A v \in Writers : v # w => writer'[v] = writer[v]
      /\ writer'[w].commit = writer[w].commit /\ writer'[w].deleted = writer[w].deleted
  BY DEF Stamp, TypeOK, Writer, WritersInv
<1>2. TypeOK'
  BY <1>1 DEF TypeOK, Writer, Stamp
<1>3. /\ clock' >= clock
      /\ \/ writer'[w].pc = "done" /\ writer'[w].at = NoEntry
         \/ /\ writer'[w].pc = "mark"
            /\ writer'[w].at \in Nat /\ clock <= writer'[w].at /\ writer'[w].at < clock'
  BY <1>1 DEF Stamp, TypeOK, Writer
<1>4. WritersInv'
  BY <1>1, <1>2, <1>3 DEF WritersInv, TypeOK, Writer
<1>5. MarkedInv'
  <2> SUFFICES ASSUME NEW c \in marked PROVE \E v \in Writers : Settled(v, c)'
    BY <1>1 DEF MarkedInv
  <2>1. PICK v \in Writers : Settled(v, c)
    BY DEF MarkedInv
  <2>2. v # w
    BY <2>1, <1>1 DEF Settled
  <2> QED BY <2>1, <2>2, <1>1 DEF Settled
<1>6. ReadersInv'
  <2> SUFFICES ASSUME NEW r \in Readers PROVE ReadersInv!(r)'
    BY <1>1 DEF ReadersInv
  <2>1. reader[r].started # NoEntry => reader[r].started \in Nat /\ reader[r].started <= clock
    BY DEF ReadersInv, TypeOK, Reader
  <2>2. reader[r].started # NoEntry => reader[r].started <= clock'
    BY <2>1, <1>2, <1>3 DEF TypeOK
  <2>3. ASSUME NEW v \in Writers, writer'[v].at # NoEntry, reader[r].started # NoEntry,
               reader[r].pc \in {"check", "set"}, writer'[v].commit > reader[r].value
        PROVE  writer'[v].at >= reader[r].started
    <3>1. CASE v = w
      <4>1. writer'[w].at \in Nat /\ clock <= writer'[w].at
        BY <3>1, <2>3, <1>3
      <4>2. reader[r].started \in Nat /\ reader[r].started <= clock
        BY <2>1, <2>3
      <4> QED BY <3>1, <4>1, <4>2, <1>1
    <3>2. CASE v # w
      BY <3>2, <2>3, <1>1 DEF ReadersInv
    <3> QED BY <3>1, <3>2
  <2>4. \A c \in reader[r].seen : \E v \in Writers : (writer[v].commit = c /\ writer[v].pc = "done")'
    BY <1>1 DEF ReadersInv
  <2> QED BY <1>1, <2>2, <2>3, <2>4 DEF ReadersInv
<1>7. EntryInv' /\ StaleOutranInvalidation'
  BY <1>1, <1>3 DEF EntryInv, StaleOutranInvalidation
<1> QED BY <1>2, <1>4, <1>5, <1>6, <1>7

\* The tombstone is written: only commits stamped no later stay marked.
LEMMA MarkStep == ASSUME CacheInv, NEW w \in Writers, Mark(w) PROVE CacheInv'
<1> USE CacheAssumption DEF CacheInv
<1>1. /\ UNCHANGED <<focus, db, entry, lock, clock, seen, past, up, outages, reader>>
      /\ writer[w].pc = "mark" /\ writer[w].at \in Nat
      /\ \A v \in Writers : v # w => writer'[v] = writer[v]
      /\ writer'[w].commit = writer[w].commit /\ writer'[w].at = writer[w].at
      /\ writer'[w].pc = "done" /\ ~writer'[w].deleted
      /\ tomb' = IF up THEN writer[w].at ELSE tomb
  BY DEF Mark, TypeOK, Writer, WritersInv
<1>2. marked' \subseteq marked \cup {writer[w].commit}
  BY DEF Mark
<1>3. TypeOK'
  <2>1. writer' = [writer EXCEPT ![w].pc = "done", ![w].deleted = FALSE] /\ writer \in [Writers -> Writer]
    BY DEF Mark, TypeOK
  <2>2. writer' \in [Writers -> Writer]
    BY ONLY <2>1, w \in Writers, ZenonT(40) DEF Writer
  <2>3. marked' \subseteq Nat
    BY <1>1, <1>2 DEF TypeOK, Writer
  <2>4. tomb' \in Nat \cup {NoEntry}
    BY <1>1 DEF TypeOK
  <2> QED BY <1>1, <2>2, <2>3, <2>4 DEF TypeOK
<1>4. WritersInv'
  BY <1>1, <1>3 DEF WritersInv, TypeOK, Writer
<1>5. ReadersInv'
  BY <1>1 DEF ReadersInv
<1>6. ASSUME NEW c \in marked', up PROVE \A v \in Writers : writer[v].commit = c => writer[v].at <= writer[w].at
  BY <1>6 DEF Mark
<1>7. ASSUME writer[w].commit \in marked', writer[w].commit \notin marked PROVE up /\ writer[w].deleted
  BY <1>7 DEF Mark
<1>8. MarkedInv'
  <2> SUFFICES ASSUME NEW c \in marked' PROVE \E v \in Writers : Settled(v, c)'
    BY DEF MarkedInv
  <2>1. CASE c \in marked
    <3>1. PICK v \in Writers : Settled(v, c)
      BY <2>1 DEF MarkedInv
    <3>2. writer'[v] = writer[v]
      BY <3>1, <1>1 DEF Settled
    <3>3. CASE up
      BY <3>1, <3>2, <3>3, <1>1, <1>6 DEF Settled
    <3>4. CASE ~up
      BY <3>1, <3>2, <3>4, <1>1 DEF Settled
    <3> QED BY <3>3, <3>4
  <2>2. CASE c \notin marked
    <3>1. c = writer[w].commit /\ up
      BY <2>2, <1>2, <1>7
    <3> QED BY <3>1, <1>1 DEF Settled
  <2> QED BY <2>1, <2>2
<1>9. EntryInv'
  BY <1>1 DEF EntryInv
<1>10. StaleOutranInvalidation'
  <2> SUFFICES ASSUME entry # NoEntry, NEW c \in marked', entry < c
               PROVE  c \notin seen /\ c \in past
    BY <1>1 DEF StaleOutranInvalidation
  <2>1. CASE c \in marked
    BY <2>1 DEF StaleOutranInvalidation
  <2>2. CASE c \notin marked
    <3>1. c = writer[w].commit /\ writer[w].deleted
      BY <2>2, <1>2, <1>7
    <3>2. c \in past
      BY <3>1, <1>1 DEF EntryInv
    <3>3. c \notin seen
      BY <3>1, <1>1 DEF EntryInv, WritersInv, TypeOK, Writer
    <3> QED BY <3>2, <3>3
  <2> QED BY <2>1, <2>2
<1> QED BY <1>3, <1>4, <1>5, <1>8, <1>9, <1>10

\* An expiry loses a value, a lock or a tombstone; an outage nothing.
LEMMA RedisSteps ==
    ASSUME CacheInv, EntryExpires \/ LockExpires \/ TombExpires \/ Outage \/ Recovery PROVE CacheInv'
<1> USE CacheAssumption DEF CacheInv
<1>1. UNCHANGED <<focus, db, clock, reader, writer, marked>>
      /\ (UNCHANGED <<entry, seen, past>> \/ Forget)
  BY DEF EntryExpires, LockExpires, TombExpires, Outage, Recovery, redis
<1>2. TypeOK'
  <2>1. CASE EntryExpires \/ LockExpires \/ TombExpires
    BY <2>1 DEF TypeOK, EntryExpires, LockExpires, TombExpires, Forget
  <2>2. CASE Outage
    <3>1. outages' \in 0..MaxOutages
      BY <2>2 DEF Outage, TypeOK
    <3> QED BY <2>2, <3>1 DEF Outage, TypeOK, redis
  <2>3. CASE Recovery
    BY <2>3 DEF Recovery, TypeOK, redis
  <2> QED BY <2>1, <2>2, <2>3
<1>3. WritersInv' /\ ReadersInv'
  BY <1>1 DEF WritersInv, ReadersInv
<1>4. EntryInv' /\ StaleOutranInvalidation'
  BY <1>1 DEF EntryInv, StaleOutranInvalidation, Forget
<1>5. MarkedInv'
  <2> SUFFICES ASSUME NEW c \in marked PROVE \E v \in Writers : Settled(v, c)'
    BY <1>1 DEF MarkedInv
  <2>1. PICK v \in Writers : Settled(v, c)
    BY DEF MarkedInv
  <2>2. CASE TombExpires
    <3>1. writer[v].at \in Nat /\ tomb \in Nat /\ writer[v].at <= tomb
      BY <2>1, <2>2 DEF TombExpires, Settled, TypeOK, Writer
    <3>2. \A r \in Readers : reader[r].started # NoEntry => writer[v].at < reader[r].started
      BY <3>1, <2>2 DEF TombExpires, TypeOK, Reader
    <3> QED BY <2>1, <2>2, <3>2, <1>1 DEF TombExpires, Settled
  <2>3. CASE tomb' = tomb
    BY <2>1, <2>3, <1>1 DEF Settled
  <2> QED BY <2>2, <2>3 DEF EntryExpires, LockExpires, Outage, Recovery, redis
<1> QED BY <1>2, <1>3, <1>4, <1>5

\* The cached values that are older than a completed invalidation are those stored by a
\* reader that checked before its tombstone existed, after its deletion had begun.
THEOREM StaleIsAnOvertakenStore == CachedSpec => []StaleOutranInvalidation
<1>1. CacheInv /\ [CachedNext]_vars => CacheInv'
  <2> SUFFICES ASSUME CacheInv, [CachedNext]_vars PROVE CacheInv'
    OBVIOUS
  <2>1. ASSUME NEW r \in Readers, Read(r) PROVE CacheInv'
    BY <2>1, ReaderSteps, StoreStep DEF Read
  <2>2. ASSUME NEW w \in Writers, Write(w) PROVE CacheInv'
    BY <2>2, CommitStep, DropSteps, StampStep, MarkStep DEF Write
  <2>3. CASE EntryExpires \/ LockExpires \/ TombExpires \/ Outage \/ Recovery
    BY <2>3, RedisSteps
  <2>4. CASE UNCHANGED vars
    BY <2>4 DEF vars, redis, CacheInv, TypeOK, WritersInv, MarkedInv, Settled, ReadersInv, EntryInv,
                StaleOutranInvalidation
  <2> QED BY <2>1, <2>2, <2>3, <2>4 DEF CachedNext
<1>2. CacheInv => StaleOutranInvalidation
  BY DEF CacheInv
<1> QED BY <1>1, <1>2, CacheInit, PTL DEF CachedSpec

---------------------------------------------------------------------------
(* Channels. *)

Sessions == {"joined", "read", "watching"}

\* The channel tells one event at a time; its listener holds the last events told, without
\* a gap unless Redis failed.
InboxInv ==
    /\ rows <= told + 1
    /\ listener # "live" => inbox = <<>>
    /\ drops = 0 => \A i \in DOMAIN inbox : inbox[i] = told - Len(inbox) + i

\* A session is a connection; a snapshot is held while it is sent.
SessionInv(c) ==
    /\ c \in conns <=> client[c].pc \in Sessions
    /\ client[c].pc = "away" => client[c].got = {} /\ client[c].snap = {}
    /\ client[c].pc \in {"joined", "watching"} => client[c].snap = {}
    /\ client[c].snap # {} => \E m \in client[c].snap : \A e \in client[c].snap : e <= m

\* A covered session that has read, or was relayed, something has a live listener; what it
\* has or will have is complete since the reset, and tells of the reset itself.
CoveredInv(c) ==
    client[c].covered /\ client[c].pc \in Sessions =>
        /\ client[c].pc # "joined" \/ client[c].got # {} => listener = "live"
        /\ client[c].pc # "joined" => (base + 1)..told \subseteq Has(c) \cup client[c].snap
        /\ drops = 0 /\ base <= told /\ (\E e \in client[c].got \cup client[c].snap : e < base)
           => base \in Has(c)

ChannelInv ==
    /\ ChannelTypeOK /\ InboxInv
    /\ \A c \in Clients : SessionInv(c) /\ CoveredInv(c)

\* The invariant holds before anyone connects.
LEMMA ChannelStart == ChannelInit => ChannelInv
BY ChannelAssumption
   DEF ChannelInit, ChannelInv, ChannelTypeOK, SessionRecord, InboxInv, SessionInv, CoveredInv, Sessions, Away, Kinds, Numbers

\* The worker commits, the listener starts: no session and no message is touched.
LEMMA CommitSteps ==
    ASSUME ChannelInv, CommitRow \/ CommitBoard \/ CommitReset \/ Subscribed \/ Retry PROVE ChannelInv'
<1> USE ChannelAssumption DEF ChannelInv
<1>1. /\ UNCHANGED <<kind, told, inbox, conns, client, drops>>
      /\ listener = "live" => listener' = "live"
      /\ rows' \in 0..Events /\ rows <= rows' /\ rows' <= told + 1 /\ base' \in 0..rows'
      /\ base' = base \/ base' > told
  BY DEF CommitRow, CommitBoard, CommitReset, Subscribed, Retry, ChannelTypeOK, SessionRecord, InboxInv
<1>2. ChannelTypeOK'
  BY <1>1 DEF ChannelTypeOK, SessionRecord, CommitRow, CommitBoard, CommitReset, Subscribed, Retry
<1>3. InboxInv'
  BY <1>1 DEF InboxInv, CommitRow, CommitBoard, CommitReset, Subscribed, Retry
<1>4. ASSUME NEW c \in Clients PROVE SessionInv(c)' /\ CoveredInv(c)'
  <2>1. SessionInv(c)'
    BY <1>1 DEF SessionInv
  <2>2. Has(c)' = Has(c) /\ client'[c] = client[c] /\ told' = told /\ drops' = drops
    BY <1>1 DEF Has
  <2>3. CASE base' = base
    BY <2>1, <2>2, <2>3, <1>1 DEF CoveredInv
  <2>4. CASE base' > told
    <3>1. told \in Nat /\ base' \in Nat
      BY <1>1 DEF ChannelTypeOK, SessionRecord
    <3>2. ~(base' <= told) /\ \A e : e \notin (base' + 1)..told
      BY <2>4, <3>1
    <3> QED BY <2>1, <2>2, <3>2, <1>1 DEF CoveredInv
  <2> QED BY <2>1, <2>3, <2>4, <1>1
<1> QED BY <1>2, <1>3, <1>4

\* Every message in the inbox is one of the set, however long the inbox is.
InboxSet == {inbox[i] : i \in DOMAIN inbox}

\* An event is told: whoever is covered and has something has a listener that receives it.
LEMMA PublishStep == ASSUME ChannelInv, Publish PROVE ChannelInv'
<1> USE ChannelAssumption DEF ChannelInv
<1>1. /\ UNCHANGED <<kind, base, rows, listener, conns, client, drops>>
      /\ told \in Nat /\ rows = told + 1 /\ told' = rows /\ rows \in Numbers
      /\ inbox \in Seq(Numbers)
      /\ inbox' = IF listener = "live" THEN Append(inbox, rows) ELSE inbox
  BY DEF Publish, ChannelTypeOK, SessionRecord, InboxInv, Numbers
<1>2. ChannelTypeOK'
  BY <1>1 DEF ChannelTypeOK, SessionRecord
<1>3. InboxInv'
  <2>1. CASE listener # "live"
    BY <2>1, <1>1 DEF InboxInv
  <2>2. CASE listener = "live"
    <3>1. /\ Len(inbox) \in Nat /\ Len(inbox') = Len(inbox) + 1 /\ DOMAIN inbox' = 1..(Len(inbox) + 1)
          /\ inbox'[Len(inbox) + 1] = rows
          /\ DOMAIN inbox = 1..Len(inbox) /\ \A i \in 1..Len(inbox) : inbox'[i] = inbox[i]
      BY <2>2, <1>1
    <3>2. ASSUME drops = 0, NEW i \in 1..(Len(inbox) + 1) PROVE inbox'[i] = told' - Len(inbox') + i
      <4>1. CASE i = Len(inbox) + 1
        BY <4>1, <3>1, <1>1
      <4>2. CASE i \in 1..Len(inbox)
        <5>1. inbox[i] = told - Len(inbox) + i
          BY <3>2, <4>2, <3>1 DEF InboxInv
        <5>2. told' = told + 1 /\ told \in Nat /\ Len(inbox') = Len(inbox) + 1 /\ Len(inbox) \in Nat
          BY <3>1, <1>1
        <5>3. inbox'[i] = inbox[i]
          BY <4>2, <3>1
        <5> QED BY <4>2, <5>1, <5>2, <5>3
      <4> QED BY <4>1, <4>2, <3>1
    <3> QED BY <2>2, <3>1, <3>2, <1>1 DEF InboxInv
  <2> QED BY <2>1, <2>2
<1>4. /\ InboxSet \subseteq InboxSet'
      /\ listener = "live" => rows \in InboxSet'
  BY <1>1 DEF InboxSet
<1>5. ASSUME NEW c \in Clients PROVE SessionInv(c)' /\ CoveredInv(c)'
  <2>1. SessionInv(c)'
    BY <1>1 DEF SessionInv
  <2>2. Has(c) \subseteq Has(c)' /\ (listener = "live" => rows \in Has(c)')
    BY <1>1, <1>4 DEF Has, InboxSet
  <2>3. (base + 1)..told' \subseteq ((base + 1)..told) \cup {rows} /\ (base <= told' => base <= told \/ base = rows)
    BY <1>1 DEF ChannelTypeOK, SessionRecord
  <2>4. client[c].pc = "joined" => client[c].snap = {}
    BY DEF SessionInv
  <2> QED BY <1>1, <2>1, <2>2, <2>3, <2>4 DEF CoveredInv, Sessions
<1> QED BY <1>2, <1>3, <1>5

\* Redis refuses an event or loses the connection: nobody is covered any more.
LEMMA LossSteps == ASSUME ChannelInv, PublishFails \/ ConnectionLost PROVE ChannelInv'
<1> USE ChannelAssumption DEF ChannelInv
<1>1. /\ UNCHANGED <<kind, base, rows, conns>>
      /\ client' = Uncovered /\ drops' = drops + 1 /\ drops' \in 1..MaxDrops /\ told' \in {told, rows}
      /\ UNCHANGED <<listener, inbox>> \/ (listener' = "backoff" /\ inbox' = <<>>)
  BY DEF PublishFails, ConnectionLost, ChannelTypeOK, SessionRecord
<1>2. ChannelTypeOK'
  <2>1. client' \in [Clients -> SessionRecord]
    BY <1>1 DEF ChannelTypeOK, Uncovered, SessionRecord
  <2>2. told' \in 0..rows /\ drops' \in 0..MaxDrops
    BY <1>1 DEF ChannelTypeOK, SessionRecord
  <2>3. inbox' \in Seq(Numbers) /\ listener' \in {"none", "starting", "live", "backoff"}
    <3>1. CASE UNCHANGED <<listener, inbox>>
      BY <3>1 DEF ChannelTypeOK, SessionRecord
    <3>2. CASE listener' = "backoff" /\ inbox' = <<>>
      BY <3>2
    <3> QED BY <3>1, <3>2, <1>1
  <2> QED BY <2>1, <2>2, <2>3, <1>1 DEF ChannelTypeOK
<1>3. InboxInv'
  <2>1. rows \in Nat /\ told \in Nat /\ rows <= told + 1
    BY DEF InboxInv, ChannelTypeOK, SessionRecord
  <2>2. rows' <= told' + 1
    <3>1. rows' = rows
      BY <1>1
    <3>2. told' = told \/ told' = rows
      BY <1>1
    <3> QED BY <2>1, <3>1, <3>2
  <2>3. drops' # 0
    BY <1>1
  <2> QED BY <1>1, <2>2, <2>3 DEF InboxInv
<1>4. ASSUME NEW c \in Clients PROVE SessionInv(c)' /\ CoveredInv(c)'
  <2>1. /\ client'[c] = [client[c] EXCEPT !.covered = FALSE] /\ ~client'[c].covered
        /\ client'[c].pc = client[c].pc /\ client'[c].snap = client[c].snap
        /\ client'[c].got = client[c].got /\ client'[c].last = client[c].last
    BY <1>1 DEF Uncovered, ChannelTypeOK, SessionRecord
  <2>3. SessionInv(c)'
    BY <1>1, <2>1 DEF SessionInv
  <2> QED BY <2>1, <2>3 DEF CoveredInv
<1> QED BY <1>2, <1>3, <1>4

\* A message goes to every connection: what a session has or will have is the same.
LEMMA RelayStep == ASSUME ChannelInv, NEW dead \in SUBSET conns, Relay(dead) PROVE ChannelInv'
<1> USE ChannelAssumption DEF ChannelInv
<1>1. /\ UNCHANGED <<kind, base, rows, told, listener, drops>>
      /\ listener = "live" /\ inbox # <<>> /\ inbox \in Seq(Numbers) /\ inbox' = Tail(inbox)
      /\ conns' = conns \ dead /\ dead \subseteq conns /\ conns \subseteq Clients
  BY DEF Relay, ChannelTypeOK, SessionRecord
<1>2. /\ Head(inbox) \in Numbers /\ inbox' \in Seq(Numbers)
      /\ Head(inbox) = inbox[1] /\ Len(inbox) > 0 /\ Len(inbox) \in Nat /\ Len(inbox') = Len(inbox) - 1
      /\ DOMAIN inbox = 1..Len(inbox) /\ DOMAIN inbox' = 1..Len(inbox')
      /\ \A i \in 1..Len(inbox') : inbox'[i] = inbox[i + 1]
  BY <1>1
<1>3. InboxSet \subseteq {Head(inbox)} \cup InboxSet'
  <2> SUFFICES ASSUME NEW i \in 1..Len(inbox), i # 1 PROVE inbox[i] \in InboxSet'
    BY <1>2 DEF InboxSet
  <2>1. i - 1 \in 1..Len(inbox') /\ inbox'[i - 1] = inbox[i]
    BY <1>2
  <2> QED BY <2>1, <1>2 DEF InboxSet
<1>4. ASSUME NEW c \in Clients
      PROVE  /\ c \in dead => client'[c] = [client[c] EXCEPT !.pc = "broken"]
             /\ c \in conns \ dead => client'[c] = [client[c] EXCEPT !.got = @ \cup {Head(inbox)}, !.last = Head(inbox)]
             /\ c \notin conns => client'[c] = client[c]
  BY <1>1 DEF Relay
<1>5. ChannelTypeOK'
  <2>1. ASSUME NEW c \in Clients
        PROVE  client'[c] \in SessionRecord
    <3>1. client[c] \in SessionRecord /\ Head(inbox) \in Numbers /\ Head(inbox) \in 0..Events
      BY <1>2 DEF ChannelTypeOK, SessionRecord, Numbers
    <3>2. CASE c \in dead
      BY <3>1, <3>2, <1>4 DEF SessionRecord
    <3>3. CASE c \in conns \ dead
      <4> DEFINE h == Head(inbox)
      <4>1. client'[c] = [client[c] EXCEPT !.got = @ \cup {h}, !.last = h] /\ h \in Numbers /\ h \in 0..Events
        BY <3>1, <3>3, <1>4
      <4> HIDE DEF h
      <4> QED BY <3>1, <4>1, ZenonT(40) DEF SessionRecord
    <3>4. CASE c \notin conns
      BY <3>1, <3>4, <1>4
    <3> QED BY <3>2, <3>3, <3>4
  <2>2. client' \in [Clients -> SessionRecord]
    BY <2>1 DEF Relay
  <2> QED BY <1>1, <1>2, <2>2 DEF ChannelTypeOK
<1>6. InboxInv'
  <2>1. ASSUME drops = 0, NEW i \in 1..Len(inbox') PROVE inbox'[i] = told - Len(inbox') + i
    <3>1. i + 1 \in 1..Len(inbox) /\ told \in Nat
      BY <1>2 DEF ChannelTypeOK, SessionRecord
    <3>2. inbox[i + 1] = told - Len(inbox) + (i + 1)
      BY <2>1, <3>1, <1>2 DEF InboxInv
    <3> QED BY <3>1, <3>2, <1>2
  <2> QED BY <1>1, <1>2, <2>1 DEF InboxInv
<1>7. ASSUME NEW c \in Clients PROVE SessionInv(c)' /\ CoveredInv(c)'
  <2>1. c \in conns <=> client[c].pc \in Sessions
    BY DEF SessionInv
  <2>2. SessionInv(c)'
    <3>0. client[c] \in SessionRecord /\ SessionInv(c)
      BY DEF ChannelTypeOK
    <3>1. CASE c \in dead
      <4>1. client'[c].pc = "broken" /\ client'[c].snap = client[c].snap /\ client[c].pc \in Sessions
        BY <3>0, <3>1, <1>1, <1>4, <2>1 DEF SessionRecord
      <4>2. c \notin conns'
        BY <3>1, <1>1
      <4> QED BY <3>0, <4>1, <4>2 DEF SessionInv, Sessions
    <3>2. CASE c \in conns \ dead
      <4> DEFINE h == Head(inbox)
      <4>1. client'[c] = [client[c] EXCEPT !.got = @ \cup {h}, !.last = h]
        BY <3>2, <1>4
      <4> HIDE DEF h
      <4>2. client'[c].pc = client[c].pc /\ client'[c].snap = client[c].snap /\ client[c].pc \in Sessions
        BY <3>0, <3>2, <4>1, <2>1 DEF SessionRecord
      <4>3. c \in conns'
        BY <3>2, <1>1
      <4> QED BY <3>0, <4>2, <4>3 DEF SessionInv, Sessions
    <3>3. CASE c \notin conns
      <4>1. client'[c] = client[c] /\ c \notin conns'
        BY <3>3, <1>1, <1>4
      <4> QED BY <3>0, <3>3, <4>1 DEF SessionInv
    <3> QED BY <3>1, <3>2, <3>3
  <2>3. CASE c \in conns \ dead
    <3>1. /\ client'[c].covered = client[c].covered /\ client'[c].pc = client[c].pc
          /\ client'[c].snap = client[c].snap /\ client'[c].got = client[c].got \cup {Head(inbox)}
      <4> DEFINE h == Head(inbox)
      <4>1. client'[c] = [client[c] EXCEPT !.got = @ \cup {h}, !.last = h]
        BY <2>3, <1>4
      <4>2. client[c] \in SessionRecord
        BY DEF ChannelTypeOK, SessionRecord
      <4> HIDE DEF h
      <4> QED BY <4>1, <4>2 DEF h
    <3>2. Has(c) \subseteq Has(c)'
      BY <3>1, <1>3 DEF Has, InboxSet
    <3>3. drops = 0 /\ base <= told /\ Head(inbox) < base => base \in Has(c)'
      <4> SUFFICES ASSUME drops = 0, base <= told, Head(inbox) < base PROVE base \in Has(c)
        BY <3>2
      <4> DEFINE i == base - told + Len(inbox)
      <4>1. inbox[1] = told - Len(inbox) + 1 /\ told \in Nat /\ base \in Nat
        <5>1. 1 \in DOMAIN inbox
          BY <1>2
        <5> QED BY <5>1 DEF InboxInv, ChannelTypeOK
      <4>2. i \in 1..Len(inbox) /\ told - Len(inbox) + i = base
        BY <4>1, <1>2
      <4>3. inbox[i] = base
        BY <4>2, <1>2 DEF InboxInv
      <4> QED BY <4>2, <4>3, <1>2 DEF Has
    <3> QED BY <2>2, <3>1, <3>2, <3>3, <1>1 DEF CoveredInv
  <2>4. CASE c \in dead
    <3>1. client[c] \in SessionRecord /\ client'[c] = [client[c] EXCEPT !.pc = "broken"]
      BY <2>4, <1>4 DEF ChannelTypeOK
    <3>2. client'[c].pc = "broken"
      BY <3>1 DEF SessionRecord
    <3> QED BY <2>2, <3>2 DEF CoveredInv, Sessions
  <2>5. CASE c \notin conns
    BY <2>1, <2>2, <2>5, <1>4 DEF CoveredInv
  <2> QED BY <2>3, <2>4, <2>5
<1> QED BY <1>5, <1>6, <1>7

\* A step of one session.
LEMMA OneSession ==
    ASSUME ChannelTypeOK, NEW c \in Clients, NEW s \in SessionRecord, client' = [client EXCEPT ![c] = s]
    PROVE  client' \in [Clients -> SessionRecord] /\ client'[c] = s
BY DEF ChannelTypeOK, SessionRecord

\* What a client may be, in a session or out of it.
LEMMA ClientType ==
    ASSUME ChannelTypeOK, NEW c \in Clients
    PROVE  /\ client[c].pc \in {"away", "joined", "read", "watching", "broken", "gone"}
           /\ client[c].snap \subseteq Numbers /\ client[c].got \subseteq Numbers
           /\ client[c].last \in 0..Events /\ client[c].covered \in BOOLEAN
BY DEF ChannelTypeOK, SessionRecord

\* The newest of the events of a snapshot is one of them.
LEMMA NewestIsOne ==
    ASSUME NEW S \in SUBSET Numbers, \E m \in S : \A e \in S : e <= m PROVE Newest(S) \in S
BY DEF Newest

\* A session step changes one client, the connections and the listener, and what the
\* other sessions are told is the same.
LEMMA OthersKeep ==
    ASSUME ChannelInv, NEW c \in Clients, NEW d \in Clients, d # c,
           UNCHANGED <<base, told, drops>>, client'[d] = client[d],
           d \in conns' <=> d \in conns,
           listener = "live" /\ d \in conns => listener' = "live",
           d \in conns => inbox' = inbox
    PROVE  SessionInv(d)' /\ CoveredInv(d)'
<1>1. SessionInv(d) /\ CoveredInv(d)
  BY DEF ChannelInv
<1>2. SessionInv(d)'
  BY <1>1 DEF SessionInv
<1>3. CASE d \notin conns
  BY <1>1, <1>2, <1>3 DEF SessionInv, CoveredInv
<1>4. CASE d \in conns
  <2>1. Has(d)' = Has(d)
    BY <1>4 DEF Has
  <2> QED BY <1>1, <1>2, <1>4, <2>1 DEF CoveredInv
<1> QED BY <1>3, <1>4

\* A client joins: what it holds is nothing yet.
LEMMA JoinSteps == ASSUME ChannelInv, NEW c \in Clients, Join(c) \/ Refuse(c) PROVE ChannelInv'
<1> USE ChannelAssumption DEF ChannelInv
<1>1. /\ UNCHANGED <<kind, base, rows, told, inbox, drops>>
      /\ client[c].pc = "away" /\ client[c].got = {} /\ client[c].snap = {}
      /\ c \notin conns
      /\ listener' = listener \/ (listener = "none" /\ listener' = "starting")
      /\ \/ client' = [client EXCEPT ![c].pc = "joined", ![c].covered = TRUE] /\ conns' = conns \cup {c}
         \/ client' = [client EXCEPT ![c].pc = "gone"] /\ conns' = conns
  <2>1. SessionInv(c)
    OBVIOUS
  <2>2. CASE Join(c)
    <3>1. client[c].pc = "away" /\ c \notin conns /\ client[c].got = {} /\ client[c].snap = {}
      BY <2>1, <2>2 DEF Join, SessionInv, Sessions
    <3>2. UNCHANGED <<kind, base, rows, told, inbox, drops>>
      BY <2>2 DEF Join
    <3>3. listener' = listener \/ (listener = "none" /\ listener' = "starting")
      BY <2>2 DEF Join
    <3>4. client' = [client EXCEPT ![c].pc = "joined", ![c].covered = TRUE] /\ conns' = conns \cup {c}
      BY <2>2 DEF Join
    <3> QED BY <3>1, <3>2, <3>3, <3>4
  <2>3. CASE Refuse(c)
    <3>1. client[c].pc = "away" /\ c \notin conns /\ client[c].got = {} /\ client[c].snap = {}
      BY <2>1, <2>3 DEF Refuse, SessionInv, Sessions
    <3>2. UNCHANGED <<kind, base, rows, told, inbox, drops, listener, conns>>
      BY <2>3 DEF Refuse
    <3>3. client' = [client EXCEPT ![c].pc = "gone"]
      BY <2>3 DEF Refuse
    <3> QED BY <3>1, <3>2, <3>3
  <2> QED BY <2>2, <2>3
<1>2. ChannelTypeOK'
  <2>1. client' \in [Clients -> SessionRecord]
    <3>1. CASE client' = [client EXCEPT ![c].pc = "joined", ![c].covered = TRUE]
      BY <3>1, ZenonT(40) DEF ChannelTypeOK, SessionRecord
    <3>2. CASE client' = [client EXCEPT ![c].pc = "gone"]
      BY <3>2, ZenonT(40) DEF ChannelTypeOK, SessionRecord
    <3> QED BY <3>1, <3>2, <1>1
  <2>2. listener' \in {"none", "starting", "live", "backoff"} /\ conns' \subseteq Clients
    BY <1>1 DEF ChannelTypeOK, SessionRecord
  <2> QED BY <1>1, <2>1, <2>2 DEF ChannelTypeOK
<1>3. InboxInv'
  BY <1>1 DEF InboxInv
<1>4. ASSUME NEW d \in Clients, d # c PROVE SessionInv(d)' /\ CoveredInv(d)'
  <2>1. client'[d] = client[d] /\ (d \in conns' <=> d \in conns)
    BY <1>1, <1>4 DEF ChannelTypeOK, SessionRecord
  <2> QED BY <1>1, <1>4, <2>1, OthersKeep
<1>5. SessionInv(c)' /\ CoveredInv(c)'
  <2>1. /\ client'[c].got = {} /\ client'[c].snap = {}
        /\ \/ client'[c].pc = "joined" /\ c \in conns'
           \/ client'[c].pc = "gone" /\ c \notin conns'
    <3>1. CASE client' = [client EXCEPT ![c].pc = "joined", ![c].covered = TRUE] /\ conns' = conns \cup {c}
      BY <3>1, <1>1 DEF ChannelTypeOK, SessionRecord
    <3>2. CASE client' = [client EXCEPT ![c].pc = "gone"] /\ conns' = conns
      BY <3>2, <1>1 DEF ChannelTypeOK, SessionRecord
    <3> QED BY <3>1, <3>2, <1>1
  <2> QED BY <2>1 DEF SessionInv, CoveredInv, Sessions
<1> QED BY <1>2, <1>3, <1>4, <1>5

\* A snapshot holds every event told since the reset; what was relayed before it is kept.
LEMMA ReadStep == ASSUME ChannelInv, NEW c \in Clients, ReadSnapshot(c) PROVE ChannelInv'
<1> USE ChannelAssumption DEF ChannelInv
<1> DEFINE R == (base + 1)..rows
<1>1. /\ UNCHANGED <<kind, base, rows, told, listener, inbox, conns, drops>>
      /\ client[c].pc = "joined"
      /\ client' = [client EXCEPT ![c].pc = "read", ![c].snap = R, ![c].covered = @ /\ listener = "live"]
  BY DEF ReadSnapshot, Replayed
<1>2. R \subseteq Numbers /\ (base + 1)..told \subseteq R /\ (\A e \in R : e > base /\ e <= rows)
      /\ (R # {} => rows \in R)
  BY DEF ChannelTypeOK, SessionRecord, Numbers
<1> HIDE DEF R
<1>3. /\ client'[c].pc = "read" /\ client'[c].snap = R /\ client'[c].got = client[c].got
      /\ client'[c].covered => client[c].covered /\ listener = "live"
      /\ \A d \in Clients : d # c => client'[d] = client[d]
  BY <1>1 DEF ChannelTypeOK, SessionRecord
<1>4. ChannelTypeOK'
  <2>1. client' \in [Clients -> SessionRecord]
    <3> DEFINE s == [client[c] EXCEPT !.pc = "read", !.snap = R, !.covered = @ /\ listener = "live"]
    <3>1. client' = [client EXCEPT ![c] = s]
      BY <1>1 DEF ChannelTypeOK, SessionRecord
    <3>2. s \in SessionRecord
      <4>1. R \in SUBSET Numbers /\ client[c] \in SessionRecord
        BY <1>2 DEF ChannelTypeOK, SessionRecord
      <4> QED BY <4>1 DEF SessionRecord
    <3> HIDE DEF s
    <3> QED BY <3>1, <3>2, OneSession
  <2> QED BY <1>1, <2>1 DEF ChannelTypeOK
<1>5. InboxInv'
  BY <1>1 DEF InboxInv
<1>6. ASSUME NEW d \in Clients, d # c PROVE SessionInv(d)' /\ CoveredInv(d)'
  BY <1>1, <1>3, <1>6, OthersKeep
<1>7. SessionInv(c)' /\ CoveredInv(c)'
  <2>1. SessionInv(c) /\ CoveredInv(c) /\ Has(c)' = Has(c)
    BY <1>1, <1>3 DEF Has
  <2>2. SessionInv(c)'
    BY <1>1, <1>2, <1>3, <2>1 DEF SessionInv, Sessions
  <2>3. \A e \in client'[c].got \cup client'[c].snap : e < base => e \in client[c].got
    <3>1. client[c].got \subseteq Numbers /\ base \in Nat
      <4>1. client[c].got \subseteq Numbers
        BY ClientType
      <4>2. base \in Nat
        BY DEF ChannelTypeOK
      <4> QED BY <4>1, <4>2
    <3>2. ASSUME NEW e \in R PROVE ~(e < base)
      <4>1. e \in Nat /\ e > base
        BY <1>2, <3>2 DEF Numbers
      <4> QED BY <4>1, <3>1
    <3> QED BY <1>3, <3>2
  <2> QED BY <1>1, <1>2, <1>3, <2>1, <2>2, <2>3 DEF CoveredInv, Sessions
<1> QED BY <1>4, <1>5, <1>6, <1>7

\* What was in the snapshot is in what the client has.
LEMMA SendStep == ASSUME ChannelInv, NEW c \in Clients, SendSnapshot(c) PROVE ChannelInv'
<1> USE ChannelAssumption DEF ChannelInv
<1> DEFINE l == IF client[c].snap = {} THEN client[c].last ELSE Newest(client[c].snap)
<1>1. /\ UNCHANGED <<kind, base, rows, told, listener, inbox, conns, drops>>
      /\ client[c].pc = "read"
      /\ client' = [client EXCEPT ![c].pc = "watching", ![c].snap = {}, ![c].got = @ \cup client[c].snap, ![c].last = l]
  BY DEF SendSnapshot
<1>2. l \in 0..Events
  <2>1. client[c].snap \in SUBSET Numbers /\ client[c].last \in 0..Events
    BY ClientType
  <2>2. client[c].snap # {} => Newest(client[c].snap) \in client[c].snap
    BY <2>1, NewestIsOne DEF SessionInv
  <2> QED BY <2>1, <2>2 DEF Numbers
<1> HIDE DEF l
<1>3. /\ client'[c].pc = "watching" /\ client'[c].snap = {}
      /\ client'[c].got = client[c].got \cup client[c].snap /\ client'[c].covered = client[c].covered
      /\ \A d \in Clients : d # c => client'[d] = client[d]
  BY <1>1 DEF ChannelTypeOK, SessionRecord
<1>4. ChannelTypeOK'
  <2>1. client[c].got \cup client[c].snap \subseteq Numbers
    BY ClientType
  <2>2. client' \in [Clients -> SessionRecord]
    <3> DEFINE G == client[c].got \cup client[c].snap
    <3>1. /\ client' = [client EXCEPT ![c].pc = "watching", ![c].snap = {}, ![c].got = G, ![c].last = l]
          /\ G \in SUBSET Numbers
      BY <1>1, <2>1 DEF ChannelTypeOK, SessionRecord
    <3> HIDE DEF G
    <3> DEFINE s == [client[c] EXCEPT !.pc = "watching", !.snap = {}, !.got = G, !.last = l]
    <3>2. client' = [client EXCEPT ![c] = s]
      BY <3>1 DEF ChannelTypeOK, SessionRecord
    <3>3. s \in SessionRecord
      <4>1. client[c] \in SessionRecord
        BY DEF ChannelTypeOK, SessionRecord
      <4> QED BY <4>1, <3>1, <1>2 DEF SessionRecord
    <3> HIDE DEF s
    <3> QED BY <3>2, <3>3, OneSession
  <2> QED BY <1>1, <2>2 DEF ChannelTypeOK
<1>5. InboxInv'
  BY <1>1 DEF InboxInv
<1>6. ASSUME NEW d \in Clients, d # c PROVE SessionInv(d)' /\ CoveredInv(d)'
  BY <1>1, <1>3, <1>6, OthersKeep
<1>7. SessionInv(c)' /\ CoveredInv(c)'
  <2>1. SessionInv(c) /\ CoveredInv(c) /\ Has(c)' = Has(c) \cup client[c].snap
    BY <1>1, <1>3 DEF Has
  <2> QED BY <1>1, <1>3, <2>1 DEF SessionInv, CoveredInv, Sessions
<1> QED BY <1>4, <1>5, <1>6, <1>7

\* A board's client is not covered; one that leaves takes the listener along when it is the last.
LEMMA LeaveSteps == ASSUME ChannelInv, NEW c \in Clients, WatchBoard(c) \/ Leave(c) PROVE ChannelInv'
<1> USE ChannelAssumption DEF ChannelInv
<1>1. /\ UNCHANGED <<kind, base, rows, told, drops>>
      /\ UNCHANGED <<listener, inbox>> \/ (conns' = {} /\ listener' = "none" /\ inbox' = <<>>)
      /\ \A d \in Clients : d # c => client'[d] = client[d] /\ (d \in conns' <=> d \in conns)
      /\ conns' \subseteq conns
      /\ ~client'[c].covered
  BY DEF WatchBoard, Leave, ChannelTypeOK, SessionRecord, Away
<1>2. ChannelTypeOK'
  <2>1. client' \in [Clients -> SessionRecord]
    <3>1. CASE WatchBoard(c)
      BY <3>1, ZenonT(40) DEF WatchBoard, ChannelTypeOK, SessionRecord
    <3>2. CASE Leave(c)
      <4>1. [Away EXCEPT !.pc = "gone"] \in SessionRecord
        <5>1. Away \in SessionRecord
          BY DEF Away, SessionRecord
        <5> QED BY <5>1 DEF SessionRecord
      <4> QED BY <3>2, <4>1, OneSession DEF Leave
    <3> QED BY <3>1, <3>2
  <2>2. listener' \in {"none", "starting", "live", "backoff"} /\ inbox' \in Seq(Numbers)
    <3>1. CASE UNCHANGED <<listener, inbox>>
      BY <3>1 DEF ChannelTypeOK, SessionRecord
    <3>2. CASE listener' = "none" /\ inbox' = <<>>
      BY <3>2
    <3> QED BY <3>1, <3>2, <1>1
  <2> QED BY <1>1, <2>1, <2>2 DEF ChannelTypeOK
<1>3. InboxInv'
  BY <1>1 DEF InboxInv
<1>4. ASSUME NEW d \in Clients, d # c PROVE SessionInv(d)' /\ CoveredInv(d)'
  BY <1>1, <1>4, OthersKeep
<1>5. SessionInv(c)'
  <2>1. CASE WatchBoard(c)
    <3>1. /\ client'[c].pc = "watching" /\ client'[c].snap = client[c].snap
          /\ conns' = conns /\ client[c].pc = "joined"
      BY <2>1 DEF WatchBoard, ChannelTypeOK, SessionRecord
    <3> QED BY <3>1 DEF SessionInv, Sessions
  <2>2. CASE Leave(c)
    <3>1. client'[c].pc = "gone" /\ client'[c].snap = {} /\ c \notin conns'
      BY <2>2 DEF Leave, ChannelTypeOK, SessionRecord, Away
    <3> QED BY <3>1 DEF SessionInv, Sessions
  <2> QED BY <2>1, <2>2
<1>6. CoveredInv(c)'
  BY <1>1 DEF CoveredInv
<1> QED BY <1>2, <1>3, <1>4, <1>5, <1>6

\* What a watching session that is covered has, or will be relayed, is everything published
\* since the last reset.
THEOREM CoveredSessionsMissNothing == ChannelSpec => []NothingSlipsBy
<1>1. ChannelInv /\ [ChannelNext]_channelVars => ChannelInv'
  <2> SUFFICES ASSUME ChannelInv, [ChannelNext]_channelVars PROVE ChannelInv'
    OBVIOUS
  <2>1. ASSUME NEW c \in Clients, Session(c) PROVE ChannelInv'
    BY <2>1, JoinSteps, ReadStep, SendStep, LeaveSteps DEF Session
  <2>2. ASSUME NEW dead \in SUBSET conns, Relay(dead) PROVE ChannelInv'
    BY <2>2, RelayStep
  <2>3. CASE \/ CommitRow \/ CommitBoard \/ CommitReset \/ Publish \/ PublishFails
             \/ Subscribed \/ ConnectionLost \/ Retry
    BY <2>3, CommitSteps, PublishStep, LossSteps
  <2>4. CASE UNCHANGED channelVars
    <3>1. \A c \in Clients : Has(c)' = Has(c)
      BY <2>4 DEF channelVars, Has
    <3> QED BY <2>4, <3>1 DEF channelVars, ChannelInv, ChannelTypeOK, InboxInv, SessionInv, CoveredInv
  <2> QED BY <2>1, <2>2, <2>3, <2>4 DEF ChannelNext
<1>2. ChannelInv => NothingSlipsBy
  <2> SUFFICES ASSUME ChannelInv, NEW c \in Clients, client[c].pc = "watching", client[c].covered
               PROVE  /\ (base + 1)..told \subseteq Has(c)
                      /\ drops = 0 /\ base <= told /\ (\E e \in client[c].got : e < base) => base \in Has(c)
    BY DEF NothingSlipsBy
  <2>1. SessionInv(c) /\ CoveredInv(c)
    BY DEF ChannelInv
  <2>2. client[c].snap = {}
    BY <2>1 DEF SessionInv
  <2> QED BY <2>1, <2>2 DEF CoveredInv, Sessions
<1> QED BY <1>1, <1>2, ChannelStart, PTL DEF ChannelSpec

---------------------------------------------------------------------------
(* Providers. *)

\* What a request has verified is what it will write.
RequestInv(a) ==
    LET p == plan[a]  q == adm[a]
    IN  /\ p.op = "create" =>
              /\ q.step \in {"verify", "current", "write"} => q.key = p.key
              /\ q.step \in {"current", "write"} => <<p.provider, p.model, p.key>> \in checked
        /\ p.op = "update" => q.step # "current"
        /\ p.op = "update" /\ q.step \in {"verify", "write"} =>
              /\ q.loaded \in Row /\ p.row <= issued
              /\ q.key = IF p.key # None THEN p.key ELSE q.loaded.key
              /\ configs[p.row] # NoRow => configs[p.row].provider = q.loaded.provider
              /\ q.step = "write" => <<q.loaded.provider, p.model, q.key>> \in checked

TaskRecord == [step : {"queued", "calling", "retrying", "answered", "failed"}, row : Nat,
               uses : (Providers \X Models \X Keys) \cup {None}, tries : Nat,
               cause : {r.cause : r \in Replies} \cup {None}]

\* Ids are handed out once, and every row holds values that were accepted together, or was
\* edited from a stale read.
ProvidersInv ==
    /\ ProvidersTypeOK
    /\ task \in [Tasks -> TaskRecord]
    /\ \A i \in Registered : i <= issued /\ (Triple(configs[i]) \in checked \/ i \in overlapped)
    /\ \A a \in Admins : RequestInv(a)
    /\ TasksUseCheckedValues

\* The rows of the start are numbered from 1, and their values count as accepted.
LEMMA ProvidersStart == ProvidersInit => ProvidersInv
<1> SUFFICES ASSUME ProvidersInit PROVE ProvidersInv
  OBVIOUS
<1>1. PICK n \in 0 .. MaxRows : \A i \in Ids : configs[i] # NoRow <=> i <= n
  BY TablesAssumption DEF ProvidersInit
<1>2. Registered = 1 .. n
  BY <1>1, ProviderConstants DEF Registered, Ids
<1>3. Cardinality(Registered) = n
  BY <1>2, FS_Interval
<1>4. ProvidersTypeOK
  BY <1>3, TablesAssumption DEF ProvidersInit, ProvidersTypeOK, Progress
<1>5. task \in [Tasks -> TaskRecord]
  BY DEF ProvidersInit, TaskRecord
<1>6. \A i \in Registered : i <= issued /\ Triple(configs[i]) \in checked
  BY <1>2, <1>3 DEF ProvidersInit
<1>7. \A a \in Admins : RequestInv(a)
  BY DEF ProvidersInit, RequestInv
<1>8. TasksUseCheckedValues
  BY DEF ProvidersInit, TasksUseCheckedValues
<1> QED BY <1>4, <1>5, <1>6, <1>7, <1>8 DEF ProvidersInv

\* A step takes nothing back: no accepted values, no id, no provider of a row.
Forward ==
    /\ plan' = plan /\ checked \subseteq checked' /\ overlapped \subseteq overlapped'
    /\ issued <= issued'
    /\ \A i \in Ids : i <= issued /\ configs'[i] # NoRow
                      => configs[i] # NoRow /\ configs'[i].provider = configs[i].provider

\* A request is not disturbed by the steps of the others.
LEMMA RequestKept ==
    ASSUME ProvidersInv, ProvidersTypeOK', Forward, NEW a \in Admins, adm'[a] = adm[a] PROVE RequestInv(a)'
<1> DEFINE p == plan[a]
<1> DEFINE q == adm[a]
<1>1. RequestInv(a)
  BY DEF ProvidersInv
<1>2. p.op = "update" => p.row \in Ids
  BY PlansAssumption DEF ProvidersInv, ProvidersTypeOK
<1>3. issued \in Nat /\ issued' \in Nat /\ Ids \subseteq Nat
  BY ProviderConstants DEF ProvidersInv, ProvidersTypeOK, Ids
<1>4. p.op = "update" /\ p.row <= issued => p.row <= issued'
  <2>1. issued <= issued' /\ (p.op = "update" => p.row \in Nat)
    BY <1>2, <1>3 DEF Forward
  <2> QED BY <1>3, <2>1
<1> QED BY <1>1, <1>2, <1>4 DEF RequestInv, Forward

\* What a task uses was accepted, or its row was edited from a stale read, for ever.
LEMMA TasksKept ==
    ASSUME ProvidersInv, checked \subseteq checked', overlapped \subseteq overlapped', task' = task
    PROVE  TasksUseCheckedValues'
BY DEF ProvidersInv, TasksUseCheckedValues

\* The beginning of a request reads; nothing but its own record changes.
LEMMA BeginStep == ASSUME ProvidersInv, NEW a \in Admins, Begin(a) PROVE ProvidersInv'
<1>1. UNCHANGED <<plan, configs, issued, marker, task, checked, overlapped, lateDelete>>
  BY DEF Begin, Untouched
<1>2. /\ plan \in Plans /\ configs \in [Ids -> Row \cup {NoRow}] /\ adm[a].step = "begin"
      /\ plan[a] \in Request
      /\ plan[a].op = "create" => plan[a].key \in Keys
      /\ plan[a].op \in {"update", "activate", "delete"} => plan[a].row \in Ids
  BY PlansAssumption DEF ProvidersInv, ProvidersTypeOK, Begin
<1>3. \A i \in Ids : configs[i] # NoRow => configs[i] \in Row /\ configs[i].key \in Keys
  BY <1>2 DEF Row
<1>4. adm \in [Admins -> Progress] /\ adm[a] \in Progress
  BY DEF ProvidersInv, ProvidersTypeOK
<1>5. /\ adm' \in [Admins -> Progress] /\ \A b \in Admins : b # a => adm'[b] = adm[b]
      /\ plan[a].op = "create" => adm'[a].step \in {"verify", "done"} /\ adm'[a].key = plan[a].key
      /\ plan[a].op = "update" =>
            \/ adm'[a].step = "done"
            \/ /\ adm'[a].step = "verify" /\ adm'[a].loaded = configs[plan[a].row] /\ adm'[a].loaded # NoRow
               /\ adm'[a].key = IF plan[a].key # None THEN plan[a].key ELSE configs[plan[a].row].key
  <2>1. CASE plan[a].op = "check" /\ BeginCheck(a)
    <3> DEFINE k == IF plan[a].key # None THEN plan[a].key ELSE StoredKey(plan[a].provider)
    <3>1. k \in Keys \cup {None}
      BY <1>2, <1>3 DEF StoredKey, RowOf, Registered, Request
    <3>2. adm' = [adm EXCEPT ![a].key = k, ![a].step = IF k = None THEN "done" ELSE "verify"]
      BY <2>1 DEF BeginCheck
    <3> HIDE DEF k
    <3>3. adm' = [adm EXCEPT ![a] = [adm[a] EXCEPT !.key = k, !.step = IF k = None THEN "done" ELSE "verify"]]
      BY <3>2, <1>4
    <3>4. [adm[a] EXCEPT !.key = k, !.step = IF k = None THEN "done" ELSE "verify"] \in Progress
      BY <1>4, <3>1 DEF Progress
    <3> QED BY <2>1, <3>3, <3>4, <1>4
  <2>2. CASE plan[a].op = "create" /\ BeginCreate(a)
    BY <2>2, <1>2, <1>4 DEF BeginCreate, Progress
  <2>3. CASE plan[a].op = "update" /\ BeginUpdate(a)
    <3> DEFINE l == configs[plan[a].row]
               k == IF plan[a].key # None THEN plan[a].key ELSE configs[plan[a].row].key
    <3>1. CASE l = NoRow
      BY <2>3, <3>1, <1>4 DEF BeginUpdate, Goto, Progress
    <3>2. CASE l # NoRow
      <4>1. l \in Row /\ k \in Keys \cup {None}
        BY <2>3, <3>2, <1>2, <1>3 DEF Request
      <4>2. adm' = [adm EXCEPT ![a].step = "verify", ![a].loaded = l, ![a].key = k]
        BY <2>3, <3>2 DEF BeginUpdate
      <4> HIDE DEF k
      <4>3. /\ adm' \in [Admins -> Progress] /\ \A b \in Admins : b # a => adm'[b] = adm[b]
            /\ adm'[a].step = "verify" /\ adm'[a].loaded = l /\ adm'[a].key = k
        <5> HIDE DEF l
        <5> QED BY <4>1, <4>2, <1>4 DEF Progress
      <4> QED BY <2>3, <3>2, <4>3 DEF k
    <3> QED BY <3>1, <3>2
  <2>4. CASE plan[a].op = "activate" /\ BeginActivate(a)
    <3>1. plan[a].row \in Registered \ Active => configs[plan[a].row] \in Row
      BY <1>3 DEF Registered
    <3> QED BY <2>4, <3>1, <1>4 DEF BeginActivate, Goto, Progress
  <2>5. CASE plan[a].op = "delete" /\ BeginDelete(a)
    <3>1. plan[a].row \in Registered => configs[plan[a].row] \in Row
      BY <1>3 DEF Registered
    <3> QED BY <2>5, <3>1, <1>4 DEF BeginDelete, Goto, Progress
  <2> QED BY <2>1, <2>2, <2>3, <2>4, <2>5 DEF Begin
<1>6. ProvidersTypeOK'
  BY <1>1, <1>5 DEF ProvidersInv, ProvidersTypeOK
<1>7. \A i \in Registered' : i <= issued' /\ (Triple(configs[i]) \in checked \/ i \in overlapped)'
  BY <1>1 DEF ProvidersInv, Registered, Triple
<1>8. Forward
  BY <1>1 DEF Forward, ProvidersInv, ProvidersTypeOK
<1>9. ASSUME NEW b \in Admins PROVE RequestInv(b)'
  <2>1. CASE b # a
    BY <2>1, <1>5, <1>6, <1>8, RequestKept
  <2>2. CASE b = a
    <3>1. plan[a].op = "update" /\ configs[plan[a].row] # NoRow =>
             plan[a].row <= issued /\ configs[plan[a].row] \in Row
      BY <1>2, <1>3 DEF ProvidersInv, Registered
    <3> QED BY <2>2, <3>1, <1>1, <1>5 DEF RequestInv
  <2> QED BY <2>1, <2>2
<1>10. TasksUseCheckedValues'
  BY <1>1, TasksKept
<1> QED BY <1>1, <1>6, <1>7, <1>9, <1>10 DEF ProvidersInv

\* A verified request has its values accepted; the others go on or give up.
LEMMA VerifySteps ==
    ASSUME ProvidersInv, NEW a \in Admins,
           VerifyRemembered(a) \/ VerifyPasses(a) \/ VerifyFails(a) \/ ReadCurrent(a) \/ Fail(a)
    PROVE  ProvidersInv'
<1>1. UNCHANGED <<plan, configs, issued, task, overlapped, lateDelete>>
      /\ checked \subseteq checked' /\ marker' \subseteq checked'
  BY DEF VerifyRemembered, VerifyPasses, VerifyFails, ReadCurrent, Fail, Untouched, ProvidersInv, ProvidersTypeOK
<1>2. adm \in [Admins -> Progress] /\ plan[a] \in Request /\ Active \subseteq Ids
      /\ (plan[a].op = "create" => plan[a].key \in Keys)
  BY PlansAssumption DEF ProvidersInv, ProvidersTypeOK, Active, Registered
<1>3. /\ adm' \in [Admins -> Progress] /\ \A b \in Admins : b # a => adm'[b] = adm[b]
      /\ adm'[a].loaded = adm[a].loaded /\ adm'[a].key = adm[a].key
      /\ \/ adm'[a].step = "done"
         \/ adm[a].step = "verify" /\ adm'[a].step = AfterVerify(a) /\ Asked(a) \in checked'
         \/ adm[a].step = "current" /\ adm'[a].step = "write"
  <2>1. CASE VerifyRemembered(a)
    BY <2>1, <1>1, <1>2 DEF VerifyRemembered, Remembered, Goto, Untouched, AfterVerify, Progress,
                            ProvidersInv, ProvidersTypeOK
  <2>2. CASE VerifyPasses(a)
    BY <2>2, <1>2 DEF VerifyPasses, Goto, AfterVerify, Progress
  <2>3. CASE VerifyFails(a) \/ Fail(a)
    BY <2>3, <1>2 DEF VerifyFails, Fail, Goto, Progress
  <2>4. CASE ReadCurrent(a)
    BY <2>4, <1>2 DEF ReadCurrent, Progress
  <2> QED BY <2>1, <2>2, <2>3, <2>4
<1>4. ProvidersTypeOK'
  BY <1>1, <1>3 DEF ProvidersInv, ProvidersTypeOK
<1>5. \A i \in Registered' : i <= issued' /\ (Triple(configs[i]) \in checked \/ i \in overlapped)'
  BY <1>1 DEF ProvidersInv, Registered, Triple
<1>6. Forward
  BY <1>1 DEF Forward, ProvidersInv, ProvidersTypeOK
<1>7. ASSUME NEW b \in Admins PROVE RequestInv(b)'
  <2>1. CASE b # a
    BY <2>1, <1>3, <1>4, <1>6, RequestKept
  <2>2. CASE b = a
    <3>1. RequestInv(a)
      BY DEF ProvidersInv
    <3>2. CASE adm'[a].step = "done"
      BY <2>2, <3>2, <1>1 DEF RequestInv
    <3>3. CASE adm[a].step = "verify" /\ adm'[a].step = AfterVerify(a) /\ Asked(a) \in checked'
      BY <2>2, <3>1, <3>3, <1>1, <1>3 DEF RequestInv, AfterVerify, Asked
    <3>4. CASE adm[a].step = "current" /\ adm'[a].step = "write"
      <4>1. plan[a].op # "update"
        BY <3>1, <3>4 DEF RequestInv
      <4> QED BY <2>2, <3>1, <3>4, <4>1, <1>1, <1>3 DEF RequestInv
    <3> QED BY <3>2, <3>3, <3>4, <1>3
  <2> QED BY <2>1, <2>2
<1>8. TasksUseCheckedValues'
  BY <1>1, TasksKept
<1> QED BY <1>1, <1>4, <1>5, <1>7, <1>8 DEF ProvidersInv

\* A commit: the new values of a row were accepted, unless the row changed since it was read.
LEMMA ApplyStep == ASSUME ProvidersInv, NEW a \in Admins, Apply(a) PROVE ProvidersInv'
<1> DEFINE p == plan[a]
<1>1. /\ UNCHANGED <<plan, marker, task, checked>> /\ adm[a].step = "write"
      /\ adm \in [Admins -> Progress] /\ adm' = [adm EXCEPT ![a].step = "done"]
      /\ plan \in Plans /\ plan[a] \in Request /\ configs \in [Ids -> Row \cup {NoRow}]
      /\ issued \in 0 .. MaxRows /\ overlapped \subseteq Ids
      /\ p.op = "create" => p.key \in Keys
      /\ p.op \in {"update", "activate", "delete"} => p.row \in Ids
      /\ RequestInv(a)
  BY PlansAssumption DEF Apply, Goto, ProvidersInv, ProvidersTypeOK
<1>2. \A i \in Ids : configs[i] # NoRow => configs[i] \in Row
  BY <1>1
<1>3. /\ adm' \in [Admins -> Progress] /\ adm'[a].step = "done"
      /\ \A b \in Admins : b # a => adm'[b] = adm[b]
  BY <1>1 DEF Progress
<1>4. /\ configs' \in [Ids -> Row \cup {NoRow}] /\ issued' \in 0 .. MaxRows /\ issued <= issued'
      /\ overlapped \subseteq overlapped' /\ overlapped' \subseteq Ids /\ lateDelete' \in BOOLEAN
      /\ \A i \in Ids : configs'[i] # NoRow =>
            /\ i <= issued'
            /\ Triple(configs'[i]) \in checked \/ i \in overlapped'
            /\ i <= issued => configs[i] # NoRow /\ configs'[i].provider = configs[i].provider
  <2>1. CASE Insert(a)
    <3> DEFINE r == [provider |-> p.provider, model |-> p.model, key |-> p.key, active |-> adm[a].current = {}]
    <3>1. /\ p.op = "create" /\ issued < MaxRows /\ issued' = issued + 1
          /\ configs' \in {configs, [configs EXCEPT ![issued + 1] = r]}
          /\ UNCHANGED <<overlapped, lateDelete>>
      BY <2>1 DEF Insert, Save
    <3>2. r \in Row /\ Triple(r) \in checked
      BY <3>1, <1>1 DEF Row, Request, Triple, RequestInv
    <3>3. issued + 1 \in Ids /\ issued \in Nat /\ issued' = issued + 1
      BY <3>1, <1>1, ProviderConstants DEF Ids
    <3> HIDE DEF r
    <3>4. CASE configs' = configs
      BY <3>1, <3>3, <3>4, <1>1, <1>2, ProviderConstants DEF ProvidersInv, ProvidersTypeOK, Registered, Ids
    <3>5. CASE configs' = [configs EXCEPT ![issued + 1] = r]
      <4>1. configs' \in [Ids -> Row \cup {NoRow}]
        BY <3>2, <3>5, <1>1
      <4>2. ASSUME NEW i \in Ids, configs'[i] # NoRow, i # issued + 1
            PROVE  /\ i <= issued' /\ (Triple(configs'[i]) \in checked \/ i \in overlapped')
                   /\ configs[i] # NoRow /\ configs'[i].provider = configs[i].provider
        <5>1. configs'[i] = configs[i] /\ i \in Registered
          BY <4>2, <3>5, <1>1 DEF Registered
        <5> QED BY <5>1, <3>1, <3>3, <4>2 DEF ProvidersInv, Ids
      <4>3. configs'[issued + 1] = r
        BY <3>3, <3>5, <1>1
      <4>4. issued' \in 0 .. MaxRows /\ issued <= issued' /\ ~(issued + 1 <= issued) /\ issued + 1 <= issued'
        BY <3>1, <3>3, <1>1, ProviderConstants
      <4> QED BY <3>1, <3>2, <4>1, <4>2, <4>3, <4>4, <1>1 DEF ProvidersInv, ProvidersTypeOK
    <3> QED BY <3>1, <3>4, <3>5
  <2>2. CASE Edit(a)
    <3> DEFINE i == p.row
               old == adm[a].loaded
               m == IF p.model # old.model THEN p.model ELSE configs[i].model
               k == IF p.key # None THEN p.key ELSE configs[i].key
               new == [configs[i] EXCEPT !.model = m, !.key = k]
    <3>1. /\ p.op = "update" /\ UNCHANGED <<issued, lateDelete>> /\ i \in Ids /\ old \in Row
          /\ <<old.provider, p.model, IF p.key # None THEN p.key ELSE old.key>> \in checked
          /\ configs[i] # NoRow => configs[i].provider = old.provider
      BY <2>2, <1>1 DEF Edit, RequestInv
    <3>2. CASE configs[i] = NoRow
      <4>1. UNCHANGED <<configs, overlapped>>
        BY <2>2, <3>2 DEF Edit
      <4> QED BY <3>1, <4>1, <1>1, <1>2 DEF ProvidersInv, ProvidersTypeOK, Registered
    <3>3. CASE configs[i] # NoRow
      <4>1. /\ configs' \in {configs, [configs EXCEPT ![i] = new]}
            /\ overlapped' = IF <<configs[i].model, configs[i].key>> # <<old.model, old.key>>
                              THEN overlapped \cup {i} ELSE overlapped
        BY <2>2, <3>3 DEF Edit, Save
      <4>2. configs[i] \in Row
        BY <3>1, <3>3, <1>2
      <4>3. m \in Models /\ k \in Keys
        BY <4>2, <1>1 DEF Row, Request
      <4>4. new \in Row /\ new.provider = configs[i].provider /\ Triple(new) = <<configs[i].provider, m, k>>
        <5> HIDE DEF m, k
        <5> QED BY <4>2, <4>3 DEF Row, Triple
      <4>5. Triple(new) \in checked \/ i \in overlapped'
        BY <3>1, <3>3, <4>1, <4>4
      <4> HIDE DEF new
      <4>6. configs' \in [Ids -> Row \cup {NoRow}]
        BY <4>1, <4>4, <1>1
      <4>7. ASSUME NEW j \in Ids, configs'[j] # NoRow
            PROVE  /\ j <= issued /\ (Triple(configs'[j]) \in checked \/ j \in overlapped')
                   /\ configs[j] # NoRow /\ configs'[j].provider = configs[j].provider
        <5>1. CASE configs'[j] = configs[j]
          BY <4>1, <4>7, <5>1 DEF ProvidersInv, Registered
        <5>2. CASE configs'[j] # configs[j]
          <6>1. j = i /\ configs'[j] = new
            BY <4>1, <5>2, <1>1
          <6> QED BY <3>1, <3>3, <4>4, <4>5, <6>1 DEF ProvidersInv, Registered
        <5> QED BY <5>1, <5>2
      <4> QED BY <3>1, <4>1, <4>6, <4>7, <1>1 DEF ProvidersInv, ProvidersTypeOK
    <3> QED BY <3>2, <3>3
  <2>3. CASE Switch(a)
    <3> DEFINE i == p.row
               cleared == [j \in Ids |-> IF j \in adm[a].current /\ j # i
                                        THEN [configs[j] EXCEPT !.active = FALSE] ELSE configs[j]]
               new == [cleared EXCEPT ![i].active = TRUE]
    <3>1. /\ UNCHANGED <<issued, overlapped, lateDelete>>
          /\ configs' = configs \/ ({i} \cup adm[a].current \subseteq Registered /\ configs' = new)
      BY <2>3 DEF Switch, Save
    <3>2. CASE configs' = configs
      BY <3>1, <3>2, <1>1, <1>2 DEF ProvidersInv, ProvidersTypeOK, Registered
    <3>3. CASE {i} \cup adm[a].current \subseteq Registered /\ configs' = new
      <4>1. i \in Ids /\ configs[i] \in Row
        BY <3>3, <1>2 DEF Registered
      <4>2. ASSUME NEW j \in Ids
            PROVE  /\ new[j] = configs[j] \/ (j \in Registered /\ \E b \in BOOLEAN : new[j] = [configs[j] EXCEPT !.active = b])
        BY <3>3, <4>1
      <4>3. /\ DOMAIN new = Ids /\ new = [j \in Ids |-> new[j]]
        OBVIOUS
      <4> HIDE DEF new
      <4>4. ASSUME NEW j \in Ids
            PROVE  \/ configs'[j] = configs[j]
                   \/ /\ j \in Registered /\ configs'[j] \in Row
                      /\ configs'[j].provider = configs[j].provider /\ Triple(configs'[j]) = Triple(configs[j])
        <5>1. CASE new[j] = configs[j]
          BY <3>3, <5>1
        <5>2. ASSUME j \in Registered, NEW b \in BOOLEAN, new[j] = [configs[j] EXCEPT !.active = b]
              PROVE  /\ j \in Registered /\ configs'[j] \in Row
                     /\ configs'[j].provider = configs[j].provider /\ Triple(configs'[j]) = Triple(configs[j])
          <6>1. configs[j] \in Row
            BY <5>2, <1>2 DEF Registered
          <6> QED BY <3>3, <5>2, <6>1 DEF Row, Triple
        <5> QED BY <4>2, <5>1, <5>2
      <4>5. configs' \in [Ids -> Row \cup {NoRow}]
        BY <3>3, <4>3, <4>4, <1>1
      <4>6. ASSUME NEW j \in Ids, configs'[j] # NoRow
            PROVE  /\ j <= issued /\ (Triple(configs'[j]) \in checked \/ j \in overlapped)
                   /\ configs[j] # NoRow /\ configs'[j].provider = configs[j].provider
        <5>1. j \in Registered
          BY <4>4, <4>6 DEF Registered
        <5> QED BY <4>4, <5>1 DEF ProvidersInv, Registered
      <4> QED BY <3>1, <4>5, <4>6, <1>1 DEF ProvidersInv, ProvidersTypeOK
    <3> QED BY <3>1, <3>2, <3>3
  <2>4. CASE Remove(a)
    <3>1. /\ UNCHANGED <<issued, overlapped>> /\ lateDelete' \in BOOLEAN
          /\ configs' = [configs EXCEPT ![p.row] = NoRow]
      BY <2>4 DEF Remove, ProvidersInv, ProvidersTypeOK
    <3>2. configs' \in [Ids -> Row \cup {NoRow}]
      BY <3>1, <1>1
    <3>3. ASSUME NEW j \in Ids, configs'[j] # NoRow PROVE configs'[j] = configs[j] /\ j \in Registered
      BY <3>1, <3>3, <1>1 DEF Registered
    <3> QED BY <3>1, <3>2, <3>3, <1>1 DEF ProvidersInv, ProvidersTypeOK, Registered
  <2> QED BY <2>1, <2>2, <2>3, <2>4 DEF Apply
<1>5. ProvidersTypeOK'
  BY <1>1, <1>3, <1>4 DEF ProvidersInv, ProvidersTypeOK
<1>6. \A i \in Registered' : i <= issued' /\ (Triple(configs[i]) \in checked \/ i \in overlapped)'
  BY <1>1, <1>4 DEF Registered, Triple
<1>7. Forward
  BY <1>1, <1>4 DEF Forward
<1>8. ASSUME NEW b \in Admins PROVE RequestInv(b)'
  <2>1. CASE b # a
    BY <2>1, <1>3, <1>5, <1>7, RequestKept
  <2>2. CASE b = a
    BY <2>2, <1>3 DEF RequestInv
  <2> QED BY <2>1, <2>2
<1>9. TasksUseCheckedValues'
  BY <1>1, <1>4, TasksKept
<1> QED BY <1>1, <1>5, <1>6, <1>8, <1>9 DEF ProvidersInv

\* A task record may change its fields one by one.
LEMMA OneTask ==
    ASSUME task \in [Tasks -> TaskRecord], NEW t \in Tasks, NEW x \in TaskRecord, task' = [task EXCEPT ![t] = x]
    PROVE  /\ task' \in [Tasks -> TaskRecord] /\ task'[t] = x
           /\ \A y \in Tasks : y # t => task'[y] = task[y]
OBVIOUS

\* A task takes the values of the active row as they are then.
LEMMA ResolveStep ==
    ASSUME ProvidersInv, NEW t \in Tasks, Resolve(t)
    PROVE  /\ task' \in [Tasks -> TaskRecord] /\ \A y \in Tasks : y # t => task'[y] = task[y]
           /\ task'[t].row = 0 \/ (task'[t].row \in Registered /\ task'[t].uses = Triple(configs[task'[t].row]))
<1>1. task \in [Tasks -> TaskRecord] /\ task[t] \in TaskRecord
  BY DEF ProvidersInv
<1>2. CASE task' = [task EXCEPT ![t].step = "calling", ![t].row = 0, ![t].uses = None]
  <2>1. task' = [task EXCEPT ![t] = [task[t] EXCEPT !.step = "calling", !.row = 0, !.uses = None]]
    BY <1>1, <1>2
  <2>2. [task[t] EXCEPT !.step = "calling", !.row = 0, !.uses = None] \in TaskRecord
    BY <1>1 DEF TaskRecord
  <2> QED BY <1>1, <2>1, <2>2, OneTask DEF TaskRecord
<1>3. ASSUME NEW i \in Active, NEW u, u = Triple(configs[i]),
             task' = [task EXCEPT ![t].step = "calling", ![t].row = i, ![t].uses = u]
      PROVE  /\ task' \in [Tasks -> TaskRecord] /\ \A y \in Tasks : y # t => task'[y] = task[y]
             /\ task'[t].row \in Registered /\ task'[t].uses = Triple(configs[task'[t].row])
  <2>1. i \in Registered /\ i \in Nat /\ configs[i] \in Row
    BY ProviderConstants DEF Active, Registered, Ids, ProvidersInv, ProvidersTypeOK
  <2>2. u \in Providers \X Models \X Keys
    BY <1>3, <2>1 DEF Triple, Row
  <2>3. task' = [task EXCEPT ![t] = [task[t] EXCEPT !.step = "calling", !.row = i, !.uses = u]]
    BY <1>1, <1>3
  <2>4. [task[t] EXCEPT !.step = "calling", !.row = i, !.uses = u] \in TaskRecord
    BY <1>1, <2>1, <2>2 DEF TaskRecord
  <2>5. /\ task' \in [Tasks -> TaskRecord] /\ \A y \in Tasks : y # t => task'[y] = task[y]
        /\ task'[t].row = i /\ task'[t].uses = u
    BY <1>1, <2>3, <2>4, OneTask DEF TaskRecord
  <2> QED BY <1>3, <2>1, <2>5
<1> QED BY <1>2, <1>3 DEF Resolve

\* An answer, good or bad, changes nothing of what the task uses.
LEMMA CallStep ==
    ASSUME ProvidersInv, NEW t \in Tasks, Call(t)
    PROVE  /\ task' \in [Tasks -> TaskRecord] /\ \A y \in Tasks : y # t => task'[y] = task[y]
           /\ task'[t].row = task[t].row /\ task'[t].uses = task[t].uses
<1>1. task \in [Tasks -> TaskRecord] /\ task[t] \in TaskRecord
  BY DEF ProvidersInv
<1>2. CASE task' = [task EXCEPT ![t].step = "answered"]
  <2>1. task' = [task EXCEPT ![t] = [task[t] EXCEPT !.step = "answered"]]
    BY <1>1, <1>2
  <2>2. [task[t] EXCEPT !.step = "answered"] \in TaskRecord
    BY <1>1 DEF TaskRecord
  <2> QED BY <1>1, <2>1, <2>2, OneTask DEF TaskRecord
<1>3. ASSUME NEW r \in Replies, NEW s, s = IF Retried(r) THEN "retrying" ELSE "failed",
             task' = [task EXCEPT ![t].step = s, ![t].tries = @ + 1, ![t].cause = r.cause]
      PROVE  /\ task' \in [Tasks -> TaskRecord] /\ \A y \in Tasks : y # t => task'[y] = task[y]
             /\ task'[t].row = task[t].row /\ task'[t].uses = task[t].uses
  <2> DEFINE n == task[t].tries + 1
             x == [task[t] EXCEPT !.step = s, !.tries = n, !.cause = r.cause]
  <2>1. task' = [task EXCEPT ![t] = x]
    BY <1>1, <1>3
  <2>2. r.cause \in {q.cause : q \in Replies}
    OBVIOUS
  <2>3. x \in TaskRecord /\ x.row = task[t].row /\ x.uses = task[t].uses
    <3>1. n \in Nat /\ s \in {"retrying", "failed"}
      BY <1>1, <1>3 DEF TaskRecord
    <3> HIDE DEF n
    <3> DEFINE c == r.cause
    <3>2. c \in {q.cause : q \in Replies}
      BY <2>2
    <3> HIDE DEF c
    <3>3. x = [task[t] EXCEPT !.step = s, !.tries = n, !.cause = c]
      BY DEF c
    <3> QED BY <1>1, <3>1, <3>2, <3>3 DEF TaskRecord
  <2> HIDE DEF x
  <2> QED BY <1>1, <2>1, <2>3, OneTask
<1> QED BY <1>2, <1>3 DEF Call

\* A step of a task leaves the configuration as it is.
LEMMA TaskSteps == ASSUME ProvidersInv, NEW t \in Tasks, Resolve(t) \/ Call(t) PROVE ProvidersInv'
<1>1. UNCHANGED <<plan, configs, issued, marker, adm, checked, overlapped, lateDelete>>
  <2>1. CASE Resolve(t)
    BY <2>1 DEF Resolve
  <2>2. CASE Call(t)
    BY <2>2 DEF Call
  <2> QED BY <2>1, <2>2
<1>2. ProvidersTypeOK'
  BY <1>1 DEF ProvidersInv, ProvidersTypeOK
<1>3. \A i \in Registered' : i <= issued' /\ (Triple(configs[i]) \in checked \/ i \in overlapped)'
  BY <1>1 DEF ProvidersInv, Registered, Triple
<1>4. \A a \in Admins : RequestInv(a)'
  BY <1>1 DEF ProvidersInv, RequestInv
<1>5. task' \in [Tasks -> TaskRecord] /\ \A y \in Tasks : y # t => task'[y] = task[y]
  BY ResolveStep, CallStep
<1>6. task'[t].row # 0 => task'[t].uses \in checked \/ task'[t].row \in overlapped
  <2>1. CASE Resolve(t)
    BY <2>1, ResolveStep DEF ProvidersInv
  <2>2. CASE Call(t)
    BY <2>2, CallStep DEF ProvidersInv, TasksUseCheckedValues
  <2> QED BY <2>1, <2>2
<1>7. TasksUseCheckedValues'
  BY <1>1, <1>5, <1>6 DEF ProvidersInv, TasksUseCheckedValues
<1> QED BY <1>2, <1>3, <1>4, <1>5, <1>7 DEF ProvidersInv

\* No AI task calls a provider with values that were not accepted together, unless its row
\* was edited from a stale read.
THEOREM TasksCallWithAcceptedValues == ProvidersSpec => []TasksUseCheckedValues
<1>1. ProvidersInv /\ [ProvidersNext]_providerVars => ProvidersInv'
  <2> SUFFICES ASSUME ProvidersInv, [ProvidersNext]_providerVars PROVE ProvidersInv'
    OBVIOUS
  <2>1. ASSUME NEW a \in Admins,
               Begin(a) \/ VerifyRemembered(a) \/ VerifyPasses(a) \/ VerifyFails(a) \/ ReadCurrent(a) \/ Apply(a) \/ Fail(a)
        PROVE  ProvidersInv'
    BY <2>1, BeginStep, VerifySteps, ApplyStep
  <2>2. ASSUME NEW t \in Tasks, Resolve(t) \/ Call(t) PROVE ProvidersInv'
    BY <2>2, TaskSteps
  <2>3. CASE MarkerExpires \/ UNCHANGED providerVars
    <3>1. UNCHANGED <<plan, configs, issued, adm, task, checked, overlapped, lateDelete>> /\ marker' \subseteq marker
      BY <2>3 DEF MarkerExpires, providerVars
    <3> QED BY <3>1 DEF ProvidersInv, ProvidersTypeOK, Registered, Triple, RequestInv, TasksUseCheckedValues
  <2> QED BY <2>1, <2>2, <2>3 DEF ProvidersNext
<1>2. ProvidersInv => TasksUseCheckedValues
  BY DEF ProvidersInv
<1> QED BY <1>1, <1>2, ProvidersStart, PTL DEF ProvidersSpec

---------------------------------------------------------------------------
(* Prompts. *)

\* The type the prompt i has for as long as it exists.
OfType(i, k) ==
    \/ edits.prompts[i] # NoPrompt /\ edits.prompts[i].type = k
    \/ \E e \in Editors : Ask(e).op = "create" /\ Ask(e).id = i /\ Ask(e).type = k

\* An editor's request that has passed its check: an edit has read the prompt, a choice names
\* one of its column's type.
EditorInv(e) ==
    ed[e].step = "write" =>
        /\ Ask(e).op = "edit" => ed[e].loaded \in Prompt
        /\ Ask(e).op = "choose" => OfType(Ask(e).id, Kind[Ask(e).slot])

PromptsInv ==
    /\ PromptsTypeOK
    /\ \A i \in Kept : OfType(i, prompts[i].type)
    /\ \A s \in Slots : slot[s] # Nobody => OfType(slot[s], Kind[s])
    /\ \A m \in queue : m[2] # Nobody => OfType(m[2], Kind[m[1]])
    /\ \A e \in Editors : EditorInv(e)
    /\ ServedFits

\* A prompt is of one type as long as it exists.
LEMMA OneType ==
    ASSUME PromptsTypeOK, NEW i \in PromptIds, NEW j, NEW k, OfType(i, j), OfType(i, k) PROVE j = k
<1> USE EditsAssumption DEF PromptsTypeOK
<1>1. ASSUME NEW e \in Editors, Ask(e).op = "create", Ask(e).id = i PROVE edits.prompts[i] = NoPrompt
  BY <1>1 DEF Ask
<1>2. ASSUME NEW e \in Editors, NEW f \in Editors, Ask(e).op = "create", Ask(f).op = "create",
             Ask(e).id = Ask(f).id
      PROVE  e = f
  BY <1>2 DEF Ask
<1> QED BY <1>1, <1>2 DEF OfType

\* The prompts of the start are of their own types.
LEMMA PromptsStart == PromptsInit => PromptsInv
<1> SUFFICES ASSUME PromptsInit PROVE PromptsInv
  OBVIOUS
<1>1. PromptsTypeOK
  BY EditsAssumption DEF PromptsInit, PromptsTypeOK
<1> QED BY <1>1 DEF PromptsInit, PromptsInv, Kept, OfType, EditorInv, ServedFits

\* What the types of the prompts are does not change while the requests are the same.
LEMMA TypesStay == ASSUME edits' = edits PROVE \A i, k : OfType(i, k)' <=> OfType(i, k)
BY DEF OfType, Ask

\* A request reads and checks.
LEMMA BeginPromptStep == ASSUME PromptsInv, NEW e \in Editors, BeginPrompt(e) PROVE PromptsInv'
<1>1. UNCHANGED <<edits, prompts, slot, queue, served, twins>> /\ ed[e].step = "begin"
      /\ Ask(e) \in Change /\ prompts \in [PromptIds -> Prompt \cup {NoPrompt}]
  BY EditsAssumption DEF BeginPrompt, PromptsInv, PromptsTypeOK, Ask
<1>2. /\ ed' \in [Editors -> [step : {"begin", "write", "done"}, loaded : Prompt \cup {NoPrompt}, same : SUBSET PromptIds]]
      /\ \A f \in Editors : f # e => ed'[f] = ed[f]
      /\ \/ ed'[e].step = "done"
         \/ Accepted(e) /\ ed'[e].step = "write" /\ ed'[e].loaded = prompts[Ask(e).id]
  <2> DEFINE S == SameText(Ask(e).text, Ask(e).id)
             l == prompts[Ask(e).id]
  <2>1. S \subseteq PromptIds /\ l \in Prompt \cup {NoPrompt}
    BY <1>1 DEF SameText, Kept, Change
  <2>2. CASE Withdraw(e)
    BY <2>2 DEF Withdraw, PromptsInv, PromptsTypeOK
  <2>3. CASE Accepted(e) /\ Proceed(e, l, S)
    <3> HIDE DEF S, l
    <3>1. [step |-> "write", loaded |-> l, same |-> S]
             \in [step : {"begin", "write", "done"}, loaded : Prompt \cup {NoPrompt}, same : SUBSET PromptIds]
      BY <2>1
    <3>2. ed' = [ed EXCEPT ![e] = [step |-> "write", loaded |-> l, same |-> S]]
      BY <2>3 DEF Proceed
    <3> QED BY <2>3, <3>1, <3>2 DEF PromptsInv, PromptsTypeOK, l
  <2> QED BY <2>2, <2>3 DEF BeginPrompt
<1>3. PromptsTypeOK'
  BY <1>1, <1>2 DEF PromptsInv, PromptsTypeOK
<1>4. ASSUME NEW f \in Editors PROVE EditorInv(f)'
  <2>1. Ask(f)' = Ask(f)
    BY <1>1 DEF Ask
  <2>2. CASE f # e
    BY <2>1, <2>2, <1>1, <1>2, TypesStay DEF EditorInv, PromptsInv
  <2>3. CASE f = e
    <3>1. ASSUME Accepted(e), Ask(e).op = "edit" PROVE prompts[Ask(e).id] \in Prompt
      BY <3>1, <1>1 DEF Accepted, Kept, Change
    <3>2. ASSUME Accepted(e), Ask(e).op = "choose" PROVE OfType(Ask(e).id, Kind[Ask(e).slot])
      BY <3>2 DEF Accepted, Selectable, PromptsInv
    <3> QED BY <2>1, <2>3, <3>1, <3>2, <1>1, <1>2, TypesStay DEF EditorInv
  <2> QED BY <2>2, <2>3
<1>5. Kept' = Kept
  BY <1>1 DEF Kept
<1> QED BY <1>1, <1>3, <1>4, <1>5, TypesStay DEF PromptsInv, ServedFits

\* A commit keeps every prompt's type, and names only prompts of the column's type.
LEMMA CommitPromptStep == ASSUME PromptsInv, NEW e \in Editors, CommitPrompt(e) PROVE PromptsInv'
<1> DEFINE i == Ask(e).id
<1>1. /\ UNCHANGED <<edits, served>> /\ ed[e].step = "write" /\ ed' = [ed EXCEPT ![e].step = "done"]
      /\ Ask(e) \in Change /\ i \in PromptIds /\ Ask(e).slot \in Slots
      /\ prompts \in [PromptIds -> Prompt \cup {NoPrompt}] /\ EditorInv(e)
      /\ Ask(e).op = "create" => Ask(e).text \in Texts
  BY EditsAssumption DEF CommitPrompt, Withdraw, PromptsInv, PromptsTypeOK, Ask, Change
<1>2. /\ ed' \in [Editors -> [step : {"begin", "write", "done"}, loaded : Prompt \cup {NoPrompt}, same : SUBSET PromptIds]]
      /\ \A f \in Editors : f # e => ed'[f] = ed[f]
      /\ ed'[e].step = "done"
  BY <1>1 DEF PromptsInv, PromptsTypeOK
<1>3. /\ prompts' \in [PromptIds -> Prompt \cup {NoPrompt}] /\ twins' \subseteq Texts
      /\ \A j \in PromptIds : prompts'[j] # NoPrompt => OfType(j, prompts'[j].type)
      /\ slot' \in [Slots -> PromptIds \cup {Nobody}] /\ queue' \subseteq Slots \X (PromptIds \cup {Nobody})
      /\ \A s \in Slots : slot'[s] # Nobody => OfType(slot'[s], Kind[s])
      /\ \A m \in queue' : m[2] # Nobody => OfType(m[2], Kind[m[1]])
  <2>1. CASE SaveNew(e)
    <3> DEFINE r == [type |-> Ask(e).type, text |-> Ask(e).text, active |-> TRUE]
    <3>1. /\ UNCHANGED <<slot, queue>> /\ prompts' = [prompts EXCEPT ![i] = r] /\ Ask(e).op = "create"
          /\ twins' \subseteq twins \cup {Ask(e).text}
      BY <2>1 DEF SaveNew, Overlap
    <3>2. r \in Prompt /\ r.type = Ask(e).type /\ OfType(i, Ask(e).type)
      BY <3>1, <1>1 DEF Prompt, Change, OfType
    <3> HIDE DEF r
    <3> QED BY <3>1, <3>2, <1>1 DEF PromptsInv, PromptsTypeOK, Kept
  <2>2. CASE SaveEdit(e)
    <3> DEFINE old == ed[e].loaded
               x == IF Ask(e).text \in {Nobody, old.text} THEN prompts[i].text ELSE Ask(e).text
               a == IF Ask(e).off THEN ~old.active ELSE prompts[i].active
    <3>1. UNCHANGED <<slot, queue>> /\ Ask(e).op = "edit" /\ old \in Prompt
      BY <2>2, <1>1 DEF SaveEdit, EditorInv
    <3>2. CASE i \notin Kept
      <4>1. UNCHANGED <<prompts, twins>>
        BY <2>2, <3>2 DEF SaveEdit
      <4> QED BY <3>1, <4>1 DEF PromptsInv, PromptsTypeOK, Kept
    <3>3. CASE i \in Kept
      <4>1. prompts[i] \in Prompt
        BY <3>3, <1>1 DEF Kept
      <4>2. x \in Texts /\ a \in BOOLEAN
        BY <3>1, <4>1, <1>1 DEF Prompt, Change
      <4>3. prompts' = [prompts EXCEPT ![i].text = x, ![i].active = a] /\ twins' \subseteq twins \cup ({Ask(e).text} \cap Texts)
        <5>1. prompts' = [prompts EXCEPT ![i].text = x, ![i].active = a]
          BY <2>2, <3>3 DEF SaveEdit
        <5>2. SameText(Ask(e).text, i) \subseteq ed[e].same \/ Ask(e).text \in Texts
          BY <1>1, <4>1 DEF SameText, Kept, Prompt
        <5> QED BY <2>2, <3>3, <5>1, <5>2 DEF SaveEdit, Overlap
      <4> HIDE DEF x, a
      <4>4. prompts' = [prompts EXCEPT ![i] = [prompts[i] EXCEPT !.text = x, !.active = a]]
        BY <4>3, <1>1
      <4> DEFINE r == [prompts[i] EXCEPT !.text = x, !.active = a]
      <4>5. r \in Prompt /\ r.type = prompts[i].type
        BY <4>1, <4>2 DEF Prompt
      <4> HIDE DEF r
      <4>6. prompts' = [prompts EXCEPT ![i] = r] /\ OfType(i, r.type)
        BY <3>3, <4>4, <4>5 DEF r, PromptsInv
      <4> QED BY <3>1, <4>3, <4>5, <4>6, <1>1 DEF PromptsInv, PromptsTypeOK, Kept
    <3> QED BY <3>2, <3>3
  <2>3. CASE DropPrompt(e)
    <3>1. UNCHANGED <<slot, queue, twins>> /\ prompts' \in {prompts, [prompts EXCEPT ![i] = NoPrompt]}
      BY <2>3 DEF DropPrompt
    <3> QED BY <3>1, <1>1 DEF PromptsInv, PromptsTypeOK, Kept
  <2>4. CASE Choose(e)
    <3> DEFINE s == Ask(e).slot
    <3>1. UNCHANGED <<prompts, twins>> /\ Ask(e).op = "choose" /\ OfType(i, Kind[s])
      BY <2>4, <1>1 DEF Choose, EditorInv
    <3>2. \/ queue' = queue \cup {<<s, i>>} /\ slot' = slot
          \/ queue' = queue /\ slot' \in {slot, [slot EXCEPT ![s] = i]}
      BY <2>4 DEF Choose
    <3>3. slot \in [Slots -> PromptIds \cup {Nobody}] /\ queue \subseteq Slots \X (PromptIds \cup {Nobody})
      BY DEF PromptsInv, PromptsTypeOK
    <3>4. CASE queue' = queue \cup {<<s, i>>} /\ slot' = slot
      BY <3>1, <3>3, <3>4, <1>1 DEF PromptsInv, PromptsTypeOK, Kept
    <3>5. CASE queue' = queue /\ slot' \in {slot, [slot EXCEPT ![s] = i]}
      BY <3>1, <3>3, <3>5, <1>1 DEF PromptsInv, PromptsTypeOK, Kept
    <3> QED BY <3>2, <3>4, <3>5
  <2> QED BY <2>1, <2>2, <2>3, <2>4 DEF CommitPrompt
<1>4. PromptsTypeOK'
  BY <1>1, <1>2, <1>3 DEF PromptsInv, PromptsTypeOK
<1>5. ASSUME NEW f \in Editors PROVE EditorInv(f)'
  <2>1. Ask(f)' = Ask(f)
    BY <1>1 DEF Ask
  <2> QED BY <2>1, <1>1, <1>2, TypesStay DEF EditorInv, PromptsInv
<1>6. \A j \in Kept' : OfType(j, prompts'[j].type)
  BY <1>3 DEF Kept
<1> QED BY <1>1, <1>3, <1>4, <1>5, <1>6, TypesStay DEF PromptsInv, ServedFits

\* A message carries the prompt its column names.
LEMMA QueueTaskStep == ASSUME PromptsInv, NEW s \in Slots, QueueTask(s) PROVE PromptsInv'
<1> DEFINE m == <<s, IF Kind[s] = "AI_EVALUATE" THEN Nobody ELSE slot[s]>>
<1>1. UNCHANGED <<edits, prompts, slot, ed, served, twins>> /\ queue' = queue \cup {m}
  BY DEF QueueTask
<1>2. m \in Slots \X (PromptIds \cup {Nobody}) /\ (m[2] # Nobody => OfType(m[2], Kind[m[1]]))
  BY DEF PromptsInv, PromptsTypeOK
<1> HIDE DEF m
<1>3. PromptsTypeOK'
  BY <1>1, <1>2 DEF PromptsInv, PromptsTypeOK
<1>4. \A f \in Editors : EditorInv(f)'
  BY <1>1, TypesStay DEF PromptsInv, EditorInv, Ask
<1> QED BY <1>1, <1>2, <1>3, <1>4, TypesStay DEF PromptsInv, Kept, ServedFits

\* A task is given a prompt of the type its column asks for.
LEMMA ServeSteps == ASSUME PromptsInv, NEW m \in queue, Parse(m) \/ Evaluate(m) PROVE PromptsInv'
<1>1. /\ UNCHANGED <<edits, prompts, ed, twins>> /\ queue' \subseteq queue
      /\ m[1] \in Slots /\ m[2] \in PromptIds \cup {Nobody}
      /\ slot \in [Slots -> PromptIds \cup {Nobody}] /\ Kept \subseteq PromptIds
  BY DEF Parse, Evaluate, PromptsInv, PromptsTypeOK, Kept
<1>2. /\ slot' \in [Slots -> PromptIds \cup {Nobody}]
      /\ \A s \in Slots : slot'[s] # Nobody => OfType(slot'[s], Kind[s])
      /\ ServedFits'
  <2>1. CASE Parse(m) /\ m[2] \in Kept
    <3>1. OfType(m[2], Kind[m[1]]) /\ OfType(m[2], prompts[m[2]].type) /\ m[2] \in PromptIds
      BY <2>1, <1>1, PromptConstants DEF PromptsInv
    <3>2. prompts[m[2]].type = Kind[m[1]]
      BY <3>1, OneType DEF PromptsInv
    <3>3. slot' \in {slot, [slot EXCEPT ![m[1]] = m[2]]} /\ Serve(m[1], m[2]) /\ Kind[m[1]] # "AI_EVALUATE"
      BY <2>1 DEF Parse
    <3>4. ServedFits'
      BY <3>2, <3>3 DEF Serve, PromptsInv, ServedFits
    <3> QED BY <3>1, <3>3, <3>4, <1>1 DEF PromptsInv
  <2>2. CASE Parse(m) /\ m[2] \notin Kept
    BY <2>2, <1>1 DEF Parse, PromptsInv, ServedFits
  <2>3. CASE Evaluate(m)
    <3>1. slot' = slot /\ Kind[m[1]] = "AI_EVALUATE"
      BY <2>3 DEF Evaluate
    <3>2. ASSUME Selectable(slot[m[1]], "AI_EVALUATE") PROVE ServedFits'
      BY <2>3, <3>1, <3>2 DEF Evaluate, Serve, Selectable, PromptsInv, ServedFits
    <3>3. ASSUME ~Selectable(slot[m[1]], "AI_EVALUATE") PROVE ServedFits'
      BY <2>3, <3>1, <3>3 DEF Evaluate, PromptsInv, ServedFits
    <3> QED BY <3>1, <3>2, <3>3, <1>1 DEF PromptsInv
  <2> QED BY <2>1, <2>2, <2>3
<1>3. PromptsTypeOK'
  BY <1>1, <1>2 DEF PromptsInv, PromptsTypeOK
<1>4. \A f \in Editors : EditorInv(f)'
  BY <1>1, TypesStay DEF PromptsInv, EditorInv, Ask
<1> QED BY <1>1, <1>2, <1>3, <1>4, TypesStay DEF PromptsInv, Kept

\* Every task is given a prompt of its own type, and an evaluation an active one.
THEOREM TasksAreServedTheirType == PromptsSpec => []ServedFits
<1>1. PromptsInv /\ [PromptsNext]_promptVars => PromptsInv'
  <2> SUFFICES ASSUME PromptsInv, [PromptsNext]_promptVars PROVE PromptsInv'
    OBVIOUS
  <2>1. ASSUME NEW e \in Editors, BeginPrompt(e) \/ CommitPrompt(e) PROVE PromptsInv'
    BY <2>1, BeginPromptStep, CommitPromptStep
  <2>2. ASSUME NEW s \in Slots, QueueTask(s) PROVE PromptsInv'
    BY <2>2, QueueTaskStep
  <2>3. ASSUME NEW m \in queue, Parse(m) \/ Evaluate(m) PROVE PromptsInv'
    BY <2>3, ServeSteps
  <2>4. CASE UNCHANGED promptVars
    BY <2>4 DEF promptVars, PromptsInv, PromptsTypeOK, Kept, OfType, EditorInv, Ask, ServedFits
  <2> QED BY <2>1, <2>2, <2>3, <2>4 DEF PromptsNext
<1>2. PromptsInv => ServedFits
  BY DEF PromptsInv
<1> QED BY <1>1, <1>2, PromptsStart, PTL DEF PromptsSpec

-----------------------------------------------------------------------------
(* The embedding breaker: the types.                                       *)

Committed == [state : {"CLOSED", "OPEN"}, count : Nat, cap : {Cap, DefaultCap}, cooling : BOOLEAN]
Copies == [state : {"CLOSED", "OPEN", "HALF_OPEN"}, count : Nat, cap : {Cap, DefaultCap}, cooling : BOOLEAN]

Places == {"idle", "check", "insert", "probe", "call", "wait", "again", "resend", "embed", "count",
           "bump", "lose", "settle", "error", "store", "finish", "bury", "dead", "review"}
Statuses == {"QUEUED", "RUNNING", "RETRY", "SUCCESS", "DEAD"}
Log == [status : Statuses, retries : Nat]
Worker == [at : Places, tries : Nat, copy : Copies \cup {NoBreaker}, probe : BOOLEAN,
           bad : {"none", "PERMANENT", "OTHER"}]
History == [calls : [Resumes -> Nat], seconds : [Resumes -> Nat], died : [Resumes -> Nat],
            lost : SUBSET Resumes, bare : SUBSET Resumes, streak : Nat, overlap : BOOLEAN, vain : BOOLEAN]

Typed ==
    /\ breaker \in Committed \cup {NoBreaker}
    /\ logRow \in [Resumes -> Log]
    /\ message \in [Resumes -> Nat \cup {-1}]
    /\ worker \in [Resumes -> Worker]
    /\ text \in [Resumes -> {"fresh", "twin", "leak", "empty", "gone"}]
    /\ trace \in History
    /\ mishaps \in Nat

-----------------------------------------------------------------------------
(* The breaker: every failure counted since the last success is in the row, *)
(* unless a count was written over a row that had changed.                  *)

\* A copy exists before it is written back; only the call of a probe holds a HALF_OPEN one.
CopyInv(r) ==
    /\ worker[r].at = "call" => worker[r].copy \in Copies
    /\ worker[r].at \in {"bump", "lose"} => worker[r].copy \in Committed
    /\ worker[r].at = "probe" => breaker # NoBreaker

StreakInv ==
    IF breaker = NoBreaker THEN trace.streak = 0
    ELSE ~trace.overlap => /\ trace.streak <= breaker.count
                           /\ breaker.state = "OPEN" \/ trace.streak < breaker.cap

-----------------------------------------------------------------------------
(* One task: its calls against the retries of the log and of Celery, and    *)
(* what it has committed.  A delivery that has not called yet has one call  *)
(* of each kind left; each lost worker left one more.                       *)

BudgetInv(r) ==
    /\ trace.calls[r] <= MaxEmbedTries + trace.died[r]
    /\ worker[r].at # "idle" =>
           /\ message[r] = -1
           /\ trace.calls[r] <= logRow[r].retries + 1 + trace.died[r]
           /\ worker[r].tries < MaxTaskTries => trace.calls[r] <= worker[r].tries + 1 + trace.died[r]
    /\ worker[r].at \in {"check", "insert", "probe", "call", "wait"} =>
           /\ trace.calls[r] < MaxEmbedTries + trace.died[r]
           /\ trace.calls[r] <= logRow[r].retries + trace.died[r]
           /\ worker[r].tries < MaxTaskTries => trace.calls[r] <= worker[r].tries + trace.died[r]
    /\ worker[r].at \in {"again", "resend"} =>
           /\ trace.calls[r] < MaxEmbedTries + trace.died[r]
           /\ trace.calls[r] <= logRow[r].retries + trace.died[r]
    /\ worker[r].at = "idle" /\ message[r] # -1 =>
           /\ trace.calls[r] < MaxEmbedTries + trace.died[r]
           /\ trace.calls[r] <= logRow[r].retries + trace.died[r]
           /\ message[r] < MaxTaskTries => trace.calls[r] <= message[r] + trace.died[r]

\* Where a delivery's second call is still to come, or will not come.
Unrepeated == {"check", "insert", "probe", "call", "wait", "embed", "count", "bump", "lose", "settle", "again"}

SecondsInv(r) ==
    /\ trace.seconds[r] <= MaxTaskTries + trace.died[r]
    /\ worker[r].at # "idle" /\ worker[r].tries < MaxTaskTries =>
           trace.seconds[r] <= worker[r].tries + 1 + trace.died[r]
    /\ worker[r].at \in Unrepeated =>
           /\ trace.seconds[r] < MaxTaskTries + trace.died[r]
           /\ worker[r].tries < MaxTaskTries => trace.seconds[r] <= worker[r].tries + trace.died[r]
    /\ worker[r].at = "resend" => trace.seconds[r] < MaxTaskTries + trace.died[r]
    /\ worker[r].at = "idle" /\ message[r] # -1 =>
           /\ trace.seconds[r] < MaxTaskTries + trace.died[r]
           /\ message[r] < MaxTaskTries => trace.seconds[r] <= message[r] + trace.died[r]

\* What a success and a dead letter stand for.
Stored(r) == r \in vector \/ text[r] = "gone"
Lettered(r) == r \in letters \cup trace.bare

WholeInv(r) ==
    /\ logRow[r].status = "SUCCESS" => Stored(r)
    /\ worker[r].at = "finish" => Stored(r)
    /\ worker[r].at = "dead" => Lettered(r)
    /\ worker[r].at = "review" => Lettered(r) /\ logRow[r].status = "DEAD"
    /\ worker[r].at \in {"again", "resend"} => logRow[r].status = "RETRY"
    /\ worker[r].at = "idle" /\ message[r] = -1 =>
           \/ logRow[r].status = "SUCCESS" /\ Stored(r)
           \/ logRow[r].status = "DEAD" /\ r \in reviewed /\ Lettered(r)
           \/ logRow[r].status = "RETRY" /\ r \in trace.lost

TaskInv(r) == CopyInv(r) /\ BudgetInv(r) /\ SecondsInv(r) /\ WholeInv(r)

BreakerInv == Typed /\ StreakInv /\ \A r \in Resumes : TaskInv(r)

-----------------------------------------------------------------------------
(* One worker's step.                                                       *)

\* To moves the worker and changes nothing else of it.
LEMMA ToMoves ==
    ASSUME worker \in [Resumes -> Worker], NEW r \in Resumes, NEW place \in Places, To(r, place)
    PROVE  /\ worker' \in [Resumes -> Worker]
           /\ worker'[r] = [worker[r] EXCEPT !.at = place]
           /\ \A q \in Resumes \ {r} : worker'[q] = worker[q]
BY DEF To, Worker

\* Replacing a worker's record.
LEMMA WorkerSet ==
    ASSUME worker \in [Resumes -> Worker], NEW r \in Resumes, NEW w \in Worker,
           worker' = [worker EXCEPT ![r] = w]
    PROVE  /\ worker' \in [Resumes -> Worker]
           /\ worker'[r] = w
           /\ \A q \in Resumes \ {r} : worker'[q] = worker[q]
OBVIOUS

LEMMA MarkWrites ==
    ASSUME logRow \in [Resumes -> Log], NEW r \in Resumes, NEW status \in Statuses, MarkTask(r, status)
    PROVE  /\ logRow' \in [Resumes -> Log]
           /\ logRow'[r] = [logRow[r] EXCEPT !.status = status]
           /\ \A q \in Resumes \ {r} : logRow'[q] = logRow[q]
BY DEF MarkTask, Log

LEMMA RestIsAWorker == Rest \in Worker
BY DEF Rest, Worker, Places

LEMMA RowIsTyped ==
    /\ BreakerRow("CLOSED", 0, Cap, FALSE) \in Committed
    /\ BreakerRow("CLOSED", 0, DefaultCap, FALSE) \in Committed
    /\ Committed \subseteq Copies
    /\ NoBreaker \notin Copies
BY BreakerAssumption DEF BreakerRow, Committed, Copies

\* reset() leaves a closed row without failures.
LEMMA ResetTyped ==
    ASSUME NEW copy \in Copies, NEW row \in Committed \cup {copy}
    PROVE  Reset(row, copy) \in Committed
BY DEF Reset, Committed, Copies

\* increment_failure() on the row as it was read.
LEMMA BumpedTyped ==
    ASSUME NEW copy \in Committed, NEW row \in Committed
    PROVE  /\ Bumped(row, copy) \in Committed
           /\ Bumped(row, copy).count = copy.count + 1
           /\ Bumped(row, copy).cap = row.cap
           /\ row = copy => \/ Bumped(row, copy).state = "OPEN"
                            \/ copy.count + 1 < row.cap
<1>1. PICK n \in Nat : n = copy.count
  BY DEF Committed
<1>2. /\ row.cap \in Nat /\ copy.cap \in Nat
  BY BreakerAssumption DEF Committed
<1>3. n + 1 \in Nat
  OBVIOUS
<1>4. Bumped(row, copy) \in Committed
  BY <1>1, <1>3 DEF Bumped, Committed
<1>5. ASSUME row = copy, ~Opens(copy), copy.state # "OPEN"
      PROVE  copy.count + 1 < row.cap
  BY <1>1, <1>2, <1>5 DEF Opens
<1>6. ASSUME row = copy, Opens(copy) \/ copy.state = "OPEN"
      PROVE  Bumped(row, copy).state = "OPEN"
  BY <1>6 DEF Bumped, Committed
<1>7. Bumped(row, copy).count = copy.count + 1 /\ Bumped(row, copy).cap = row.cap
  BY DEF Bumped, Committed
<1> QED
  BY <1>4, <1>5, <1>6, <1>7

LEMMA CalledOnce ==
    ASSUME trace \in History, NEW r \in Resumes
    PROVE  /\ Called(r) \in History
           /\ Called(r).calls[r] = trace.calls[r] + 1
           /\ \A q \in Resumes \ {r} : Called(r).calls[q] = trace.calls[q]
           /\ Called(r).seconds = trace.seconds
           /\ Called(r).died = trace.died /\ Called(r).streak = trace.streak
           /\ Called(r).overlap = trace.overlap /\ Called(r).vain = trace.vain
           /\ Called(r).lost = trace.lost /\ Called(r).bare = trace.bare
BY DEF Called, History

LEMMA CalledTwice ==
    ASSUME trace \in History, NEW r \in Resumes
    PROVE  /\ CalledAgain(r) \in History
           /\ CalledAgain(r).seconds[r] = trace.seconds[r] + 1
           /\ \A q \in Resumes \ {r} : CalledAgain(r).seconds[q] = trace.seconds[q]
           /\ CalledAgain(r).calls = trace.calls
           /\ CalledAgain(r).died = trace.died /\ CalledAgain(r).streak = trace.streak
           /\ CalledAgain(r).overlap = trace.overlap /\ CalledAgain(r).vain = trace.vain
           /\ CalledAgain(r).lost = trace.lost /\ CalledAgain(r).bare = trace.bare
BY DEF CalledAgain, History

\* A delivery begins at one of five places, with the tries of its message.
LEMMA DeliveredTyped ==
    ASSUME NEW r \in Resumes, message[r] \in Nat
    PROVE  /\ Delivered(r) \in Worker
           /\ Delivered(r).at \in {"check", "store", "bury", "error", "finish"}
           /\ Delivered(r).at = "finish" => text[r] = "gone"
           /\ Delivered(r).tries = message[r]
<1> DEFINE to == Path(r)
           bad == IF text[r] = "empty" THEN "PERMANENT" ELSE "none"
<1>1. to \in {"check", "store", "bury", "error", "finish"} /\ (to = "finish" => text[r] = "gone")
  BY DEF Path
<1>2. bad \in {"none", "PERMANENT", "OTHER"}
  OBVIOUS
<1>3. Delivered(r) = [Rest EXCEPT !.at = to, !.tries = message[r], !.bad = bad]
  BY DEF Delivered
<1> HIDE DEF to, bad
<1> QED
  BY <1>1, <1>2, <1>3, RestIsAWorker DEF Rest, Worker, Places

\* Every step of a worker keeps the types, and a row once there stays.
LEMMA WorkTyped ==
    ASSUME Typed, NEW r \in Resumes, CopyInv(r), Work(r) \/ Mishap(r)
    PROVE  Typed' /\ (breaker # NoBreaker => breaker' # NoBreaker)
<1> USE DEF Typed
<1>p. worker[r] \in Worker /\ logRow[r] \in Log /\ message[r] \in Nat \cup {-1}
  OBVIOUS
<1>1. ASSUME BeginEmbed(r) PROVE Typed' /\ UNCHANGED breaker
  <2>1. UNCHANGED <<breaker, text, mishaps, trace>>
    BY <1>1 DEF BeginEmbed
  <2>2. message' \in [Resumes -> Nat \cup {-1}]
    BY <1>1 DEF BeginEmbed
  <2>3. CASE logRow[r].status = "SUCCESS"
    BY <1>1, <2>1, <2>2, <2>3 DEF BeginEmbed
  <2>4. CASE logRow[r].status # "SUCCESS"
    <3>1. worker' = [worker EXCEPT ![r] = Delivered(r)] /\ MarkTask(r, "RUNNING") /\ message[r] \in Nat
      BY <1>1, <2>4 DEF BeginEmbed
    <3>2. worker' \in [Resumes -> Worker]
      BY <3>1, DeliveredTyped, WorkerSet
    <3>3. logRow' \in [Resumes -> Log]
      BY <3>1, MarkWrites DEF Statuses
    <3> QED
      BY <2>1, <2>2, <3>2, <3>3
  <2> QED
    BY <2>1, <2>3, <2>4
<1>2. ASSUME Create(r) PROVE Typed' /\ UNCHANGED breaker
  <2>1. UNCHANGED <<breaker, logRow, message, text, mishaps, trace>>
    BY <1>2 DEF Create
  <2>2. CASE holder = NoHolder
    <3>1. worker' = [worker EXCEPT ![r].at = "call", ![r].copy = BreakerRow("CLOSED", 0, Cap, FALSE)]
      BY <1>2, <2>2 DEF Create
    <3>2. worker' = [worker EXCEPT ![r] = [worker[r] EXCEPT !.at = "call", !.copy = BreakerRow("CLOSED", 0, Cap, FALSE)]]
      BY <3>1, <1>p DEF Worker
    <3>3. [worker[r] EXCEPT !.at = "call", !.copy = BreakerRow("CLOSED", 0, Cap, FALSE)] \in Worker
      BY <1>p, RowIsTyped DEF Worker, Places
    <3>4. worker' \in [Resumes -> Worker]
      BY <3>2, <3>3, WorkerSet
    <3> QED
      BY <2>1, <3>4
  <2>3. CASE holder # NoHolder
    <3>1. To(r, "insert")
      BY <1>2, <2>3 DEF Create
    <3>2. worker' \in [Resumes -> Worker]
      BY <3>1, ToMoves DEF Places
    <3> QED
      BY <2>1, <3>2
  <2> QED
    BY <2>2, <2>3, <2>1
<1>3. ASSUME NameTaken(r) PROVE Typed' /\ UNCHANGED breaker
  <2>1. worker' = [worker EXCEPT ![r] = [worker[r] EXCEPT !.at = "error", !.bad = "OTHER"]]
    BY <1>3, <1>p DEF NameTaken, Worker
  <2>2. [worker[r] EXCEPT !.at = "error", !.bad = "OTHER"] \in Worker
    BY <1>p DEF Worker, Places
  <2>3. worker' \in [Resumes -> Worker]
    BY <2>1, <2>2, WorkerSet
  <2> QED
    BY <1>3, <2>3 DEF NameTaken
<1>4. ASSUME CheckBreaker(r) PROVE Typed' /\ UNCHANGED breaker
  <2>1. worker' = [worker EXCEPT ![r] = [worker[r] EXCEPT !.at = Decide(breaker), !.copy = breaker]]
    BY <1>4, <1>p DEF CheckBreaker, Worker
  <2>2. [worker[r] EXCEPT !.at = Decide(breaker), !.copy = breaker] \in Worker
    BY <1>4, <1>p, RowIsTyped DEF CheckBreaker, Worker, Places, Decide
  <2>3. worker' \in [Resumes -> Worker]
    BY <2>1, <2>2, WorkerSet
  <2> QED
    BY <1>4, <2>3 DEF CheckBreaker
<1>5. ASSUME Probe(r) PROVE Typed' /\ UNCHANGED breaker
  <2>1. breaker \in Committed
    BY <1>5 DEF Probe, CopyInv, IsAt
  <2>2. [breaker EXCEPT !.state = "HALF_OPEN"] \in Copies
    BY <2>1 DEF Committed, Copies
  <2> DEFINE c == [breaker EXCEPT !.state = "HALF_OPEN"]
  <2>3. worker' = [worker EXCEPT ![r] = [worker[r] EXCEPT !.at = "call", !.probe = TRUE, !.copy = c]]
    BY <1>5, <1>p DEF Probe, Worker
  <2>4. c \in Copies
    BY <2>2
  <2> HIDE DEF c
  <2>5. [worker[r] EXCEPT !.at = "call", !.probe = TRUE, !.copy = c] \in Worker
    BY <1>p, <2>4 DEF Worker, Places
  <2>6. worker' \in [Resumes -> Worker]
    BY <2>3, <2>5, WorkerSet
  <2> QED
    BY <1>5, <2>6 DEF Probe
<1>6. ASSUME Postpone(r) PROVE Typed' /\ UNCHANGED breaker
  BY <1>6, ToMoves, MarkWrites DEF Postpone, Places, Statuses
<1>7. ASSUME CallWorks(r) PROVE Typed' /\ breaker' # NoBreaker
  <2> DEFINE copy == worker[r].copy
             row == IF breaker = NoBreaker THEN copy ELSE breaker
  <2>1. copy \in Copies
    BY <1>7 DEF CallWorks, CopyInv, IsAt
  <2>2. row \in Committed \cup {copy}
    OBVIOUS
  <2>3. breaker' = Reset(row, copy)
    BY <1>7 DEF CallWorks
  <2> HIDE DEF row, copy
  <2>4. breaker' \in Committed
    BY <2>1, <2>2, <2>3, ResetTyped
  <2>5. worker' \in [Resumes -> Worker]
    BY <1>7, ToMoves DEF CallWorks, Places
  <2>6. trace' \in History
    <3>1. trace' = [Called(r) EXCEPT !.streak = 0]
      BY <1>7 DEF CallWorks
    <3> QED
      BY <3>1, CalledOnce DEF History
  <2> QED
    BY <1>7, <2>4, <2>5, <2>6, RowIsTyped DEF CallWorks
<1>8. ASSUME CallFails(r) PROVE Typed' /\ UNCHANGED breaker
  <2>1. PICK bad \in {"PERMANENT", "OTHER"} : worker' = [worker EXCEPT ![r].at = "count", ![r].bad = bad]
    BY <1>8 DEF CallFails
  <2>2. worker' = [worker EXCEPT ![r] = [worker[r] EXCEPT !.at = "count", !.bad = bad]]
    BY <2>1, <1>p DEF Worker
  <2>3. [worker[r] EXCEPT !.at = "count", !.bad = bad] \in Worker
    BY <1>p DEF Worker, Places
  <2>4. worker' \in [Resumes -> Worker]
    BY <2>2, <2>3, WorkerSet
  <2> QED
    BY <1>8, <2>4, CalledOnce DEF CallFails
<1>9. ASSUME ReadCount(r) PROVE Typed' /\ UNCHANGED breaker
  <2> DEFINE c == IF breaker = NoBreaker THEN BreakerRow("CLOSED", 0, DefaultCap, FALSE) ELSE breaker
             to == IF breaker = NoBreaker /\ holder # NoHolder THEN "lose" ELSE "bump"
  <2>1. worker' = [worker EXCEPT ![r] = [worker[r] EXCEPT !.copy = c, !.at = to]]
    BY <1>9, <1>p DEF ReadCount, Worker
  <2>2. c \in Copies /\ to \in Places
    BY RowIsTyped DEF Places
  <2> HIDE DEF c, to
  <2>3. [worker[r] EXCEPT !.copy = c, !.at = to] \in Worker
    BY <1>p, <2>2 DEF Worker
  <2>4. worker' \in [Resumes -> Worker]
    BY <2>1, <2>3, WorkerSet
  <2> QED
    BY <1>9, <2>4 DEF ReadCount
<1>10. ASSUME WriteCount(r) PROVE Typed' /\ breaker' # NoBreaker
  <2> DEFINE copy == worker[r].copy
             row == IF breaker = NoBreaker THEN copy ELSE breaker
  <2>1. copy \in Committed
    BY <1>10 DEF WriteCount, CopyInv, IsAt
  <2>2. row \in Committed
    BY <2>1
  <2>3. breaker' = Bumped(row, copy)
    BY <1>10 DEF WriteCount
  <2>4. PICK lapse \in BOOLEAN, vain \in BOOLEAN :
            trace' = [trace EXCEPT !.streak = @ + 1, !.overlap = lapse, !.vain = vain]
    <3>1. trace' = [trace EXCEPT !.streak = @ + 1, !.overlap = @ \/ row # copy,
                               !.vain = @ \/ (worker[r].probe /\ ~breaker'.cooling)]
      BY <1>10 DEF WriteCount
    <3>2. trace' = [trace EXCEPT !.streak = @ + 1, !.overlap = (trace.overlap \/ row # copy),
                               !.vain = (trace.vain \/ (worker[r].probe /\ ~breaker'.cooling))]
      BY <3>1
    <3> QED
      BY <3>2
  <2> HIDE DEF row, copy
  <2>5. breaker' \in Committed
    BY <2>1, <2>2, <2>3, BumpedTyped
  <2>6. worker' \in [Resumes -> Worker]
    BY <1>10, ToMoves DEF WriteCount, Places
  <2>7. trace' \in History
    <3>1. trace.streak + 1 \in Nat
      BY DEF History
    <3> QED
      BY <2>4, <3>1, Zenon DEF History
  <2> QED
    BY <1>10, <2>5, <2>6, <2>7, RowIsTyped DEF WriteCount
<1>11. ASSUME LoseCount(r) PROVE Typed' /\ UNCHANGED breaker
  <2>1. CASE breaker = NoBreaker
    BY <1>11, <2>1, ToMoves DEF LoseCount, Places
  <2>2. CASE breaker # NoBreaker
    <3>1. worker' = [worker EXCEPT ![r] = [worker[r] EXCEPT !.at = "error", !.bad = "OTHER"]]
      BY <1>11, <1>p, <2>2 DEF LoseCount, Worker
    <3>2. [worker[r] EXCEPT !.at = "error", !.bad = "OTHER"] \in Worker
      BY <1>p DEF Worker, Places
    <3>3. worker' \in [Resumes -> Worker]
      BY <3>1, <3>2, WorkerSet
    <3> QED
      BY <1>11, <3>3 DEF LoseCount
  <2> QED
    BY <2>1, <2>2
<1>12. ASSUME Settle(r) PROVE Typed' /\ UNCHANGED breaker
  <2>1. CASE worker[r].bad = "PERMANENT" \/ LastTry(r)
    BY <1>12, <2>1, ToMoves DEF Settle, Places
  <2>2. CASE ~(worker[r].bad = "PERMANENT" \/ LastTry(r))
    <3>1. (To(r, "again") \/ To(r, "resend")) /\ logRow' = [logRow EXCEPT ![r] = [status |-> "RETRY", retries |-> logRow[r].retries + 1]]
      BY <1>12, <2>2 DEF Settle
    <3>2. [status |-> "RETRY", retries |-> logRow[r].retries + 1] \in Log
      BY <1>p DEF Log, Statuses
    <3> QED
      BY <1>12, <3>1, <3>2, ToMoves DEF Settle, Places
  <2> QED
    BY <2>1, <2>2
<1>13. ASSUME Again(r) PROVE Typed' /\ UNCHANGED breaker
  <2>1. Raised(worker[r].tries) \in Nat
    BY <1>p DEF Raised, Worker
  <2>2. worker' \in [Resumes -> Worker]
    BY <1>13, RestIsAWorker DEF Again, Stop
  <2> QED
    BY <1>13, <2>1, <2>2 DEF Again
<1>14. ASSUME Embed(r) PROVE Typed' /\ UNCHANGED breaker
  <2>t. trace' \in History
    BY <1>14, CalledTwice DEF Embed
  <2>1. CASE To(r, "finish")
    BY <1>14, <2>t, <2>1, ToMoves DEF Embed, Places
  <2>2. CASE \E bad \in {"PERMANENT", "OTHER"} : worker' = [worker EXCEPT ![r].at = "error", ![r].bad = bad]
    BY <1>14, <2>t, <2>2 DEF Embed, Places, Worker
  <2> QED
    BY <1>14, <2>1, <2>2 DEF Embed
<1>15. ASSUME StoreVector(r) PROVE Typed' /\ UNCHANGED breaker
  BY <1>15, ToMoves DEF StoreVector, Places
<1>16. ASSUME Finish(r) PROVE Typed' /\ UNCHANGED breaker
  BY <1>16, RestIsAWorker, MarkWrites DEF Finish, Stop, Statuses
<1>17. ASSUME Bury(r) PROVE Typed' /\ UNCHANGED breaker
  BY <1>17, ToMoves, RestIsAWorker, MarkWrites DEF Bury, Stop, Statuses, Places
<1>18. ASSUME LoseWorker(r) PROVE Typed' /\ UNCHANGED breaker
  <2>1. trace' \in History
    BY <1>18 DEF LoseWorker, History
  <2>2. message' \in [Resumes -> Nat \cup {-1}]
    BY <1>18, <1>p DEF LoseWorker, Worker
  <2>3. mishaps' \in Nat
    BY <1>18 DEF LoseWorker
  <2> QED
    BY <1>18, <2>1, <2>2, <2>3, RestIsAWorker DEF LoseWorker, Stop
<1>19. ASSUME RefuseRetry(r) PROVE Typed' /\ UNCHANGED breaker
  <2>1. UNCHANGED <<breaker, logRow, message, text>> /\ mishaps' \in Nat
    BY <1>19 DEF RefuseRetry
  <2>2. CASE worker[r].at = "again"
    <3>1. worker' = [worker EXCEPT ![r] = [worker[r] EXCEPT !.at = "error", !.bad = "OTHER"]] /\ UNCHANGED trace
      BY <1>19, <1>p, <2>2 DEF RefuseRetry, IsAt, Worker
    <3>2. [worker[r] EXCEPT !.at = "error", !.bad = "OTHER"] \in Worker
      BY <1>p DEF Worker, Places
    <3>3. worker' \in [Resumes -> Worker]
      BY <3>1, <3>2, WorkerSet
    <3> QED
      BY <2>1, <3>1, <3>3
  <2>3. CASE worker[r].at # "again"
    <3>1. Stop(r) /\ trace' = [trace EXCEPT !.lost = @ \cup {r}]
      BY <1>19, <2>3 DEF RefuseRetry, IsAt
    <3>2. trace' \in History
      BY <3>1 DEF History
    <3> QED
      BY <2>1, <3>1, <3>2, RestIsAWorker DEF Stop
  <2> QED
    BY <2>2, <2>3
<1>20. ASSUME LoseLetter(r) PROVE Typed' /\ UNCHANGED breaker
  <2>1. trace' = [trace EXCEPT !.bare = @ \cup {r}] /\ mishaps' \in Nat
    BY <1>20 DEF LoseLetter
  <2>2. trace' \in History
    BY <2>1 DEF History
  <2>3. worker' \in [Resumes -> Worker]
    BY <1>20, ToMoves DEF LoseLetter, Places
  <2> QED
    BY <1>20, <2>1, <2>2, <2>3 DEF LoseLetter
<1> QED
  BY <1>1, <1>2, <1>3, <1>4, <1>5, <1>6, <1>7, <1>8, <1>9, <1>10, <1>11, <1>12, <1>13, <1>14, <1>15,
     <1>16, <1>17, <1>18, <1>19, <1>20 DEF Work, Mishap

\* A step of one task leaves the others' logs, messages, calls and results.
LEMMA OthersStay ==
    ASSUME Typed, NEW r \in Resumes, Work(r) \/ Mishap(r), NEW q \in Resumes, q # r
    PROVE  /\ worker'[q] = worker[q] /\ logRow'[q] = logRow[q] /\ message'[q] = message[q]
           /\ trace'.calls[q] = trace.calls[q] /\ trace'.seconds[q] = trace.seconds[q]
           /\ trace'.died[q] = trace.died[q] /\ UNCHANGED text
           /\ q \in trace.lost => q \in trace'.lost
           /\ q \in trace.bare => q \in trace'.bare
           /\ q \in vector => q \in vector'
           /\ q \in letters => q \in letters'
           /\ q \in reviewed => q \in reviewed'
<1> USE DEF Typed
<1>1. worker'[q] = worker[q]
  BY DEF Work, BeginEmbed, Create, NameTaken, CheckBreaker, Probe, Postpone, CallWorks, CallFails, ReadCount, WriteCount,
         LoseCount, Settle, Again, Embed, StoreVector, Finish, Bury, Mishap, LoseWorker, RefuseRetry, LoseLetter, To, Stop
<1>2. logRow'[q] = logRow[q]
  BY DEF Work, BeginEmbed, Create, NameTaken, CheckBreaker, Probe, Postpone, CallWorks, CallFails, ReadCount, WriteCount,
         LoseCount, Settle, Again, Embed, StoreVector, Finish, Bury, Mishap, LoseWorker, RefuseRetry, LoseLetter, MarkTask, results
<1>3. message'[q] = message[q]
  BY DEF Work, BeginEmbed, Create, NameTaken, CheckBreaker, Probe, Postpone, CallWorks, CallFails, ReadCount, WriteCount,
         LoseCount, Settle, Again, Embed, StoreVector, Finish, Bury, Mishap, LoseWorker, RefuseRetry, LoseLetter, results
<1> DEFINE Same == /\ trace'.calls[q] = trace.calls[q] /\ trace'.seconds[q] = trace.seconds[q]
                   /\ trace'.died[q] = trace.died[q]
                   /\ q \in trace.lost => q \in trace'.lost
                   /\ q \in trace.bare => q \in trace'.bare
<1>4. Same
  <2>1. ASSUME trace' = Called(r) \/ trace' = [Called(r) EXCEPT !.streak = 0]
        PROVE  Same
    <3> DEFINE h == Called(r)
    <3>1. /\ h \in History /\ h.calls[q] = trace.calls[q] /\ h.seconds = trace.seconds /\ h.died = trace.died
          /\ h.lost = trace.lost /\ h.bare = trace.bare
      BY CalledOnce
    <3>2. trace' = h \/ trace' = [h EXCEPT !.streak = 0]
      BY <2>1
    <3> HIDE DEF h
    <3> QED
      BY <3>1, <3>2 DEF History
  <2>2. CASE WriteCount(r)
    BY <2>2 DEF WriteCount, History
  <2>3. CASE LoseWorker(r)
    BY <2>3 DEF LoseWorker, History
  <2>4. CASE CallWorks(r) \/ CallFails(r)
    BY <2>1, <2>4 DEF CallWorks, CallFails
  <2>5. CASE Embed(r)
    BY <2>5, CalledTwice DEF Embed
  <2>6. CASE RefuseRetry(r) \/ LoseLetter(r)
    BY <2>6 DEF RefuseRetry, LoseLetter, History
  <2>7. ASSUME Work(r), ~WriteCount(r), ~(CallWorks(r) \/ CallFails(r)), ~Embed(r) PROVE UNCHANGED trace
    BY <2>7 DEF Work, BeginEmbed, Create, NameTaken, CheckBreaker, Probe, Postpone, ReadCount,
                LoseCount, Settle, Again, StoreVector, Finish, Bury
  <2> QED
    BY <2>2, <2>3, <2>4, <2>5, <2>6, <2>7 DEF Mishap
<1>5. /\ q \in vector => q \in vector'
      /\ q \in letters => q \in letters'
      /\ q \in reviewed => q \in reviewed'
  BY DEF Work, BeginEmbed, Create, NameTaken, CheckBreaker, Probe, Postpone, CallWorks, CallFails, ReadCount, WriteCount,
         LoseCount, Settle, Again, Embed, StoreVector, Finish, Bury, Mishap, LoseWorker, RefuseRetry, LoseLetter, results
<1>6. UNCHANGED text
  BY DEF Work, BeginEmbed, Create, NameTaken, CheckBreaker, Probe, Postpone, CallWorks, CallFails, ReadCount, WriteCount,
         LoseCount, Settle, Again, Embed, StoreVector, Finish, Bury, Mishap, LoseWorker, RefuseRetry, LoseLetter
<1> QED
  BY <1>1, <1>2, <1>3, <1>4, <1>5, <1>6

\* What it leaves it also keeps in order.
LEMMA OthersStand ==
    ASSUME Typed, NEW r \in Resumes, Work(r) \/ Mishap(r), breaker # NoBreaker => breaker' # NoBreaker,
           NEW q \in Resumes, q # r, TaskInv(q)
    PROVE  TaskInv(q)'
BY OthersStay DEF TaskInv, CopyInv, BudgetInv, SecondsInv, WholeInv, Stored, Lettered

-----------------------------------------------------------------------------
(* The acting task.                                                         *)

LEMMA TaskStep ==
    ASSUME Typed, Typed', NEW r \in Resumes, TaskInv(r), Work(r) \/ Mishap(r)
    PROVE  TaskInv(r)'
<1> USE DEF Typed
<1>p. worker[r] \in Worker /\ logRow[r] \in Log /\ message[r] \in Nat \cup {-1}
  OBVIOUS
<1>t. UNCHANGED text
  BY DEF Work, BeginEmbed, Create, NameTaken, CheckBreaker, Probe, Postpone, CallWorks, CallFails, ReadCount, WriteCount,
         LoseCount, Settle, Again, Embed, StoreVector, Finish, Bury, Mishap, LoseWorker, RefuseRetry, LoseLetter
<1> USE <1>t
<1>n. /\ trace.calls[r] \in Nat /\ trace.seconds[r] \in Nat /\ trace.died[r] \in Nat /\ worker[r].tries \in Nat /\ logRow[r].retries \in Nat
      /\ MaxEmbedTries \in Nat /\ MaxTaskTries \in Nat /\ MaxTaskTries >= 1 /\ MaxTaskTries <= MaxEmbedTries
  BY <1>p, BreakerAssumption DEF Worker, Log, History
<1>i. CopyInv(r) /\ BudgetInv(r) /\ SecondsInv(r) /\ WholeInv(r)
  BY DEF TaskInv
<1>c. \A place \in Places : To(r, place) => worker'[r] = [worker[r] EXCEPT !.at = place]
  BY ToMoves
<1>m. \A status \in Statuses : MarkTask(r, status) => logRow'[r] = [logRow[r] EXCEPT !.status = status]
  BY MarkWrites
<1>1. ASSUME BeginEmbed(r) PROVE TaskInv(r)'
  <2>1. /\ worker[r].at = "idle" /\ message[r] # -1 /\ message[r] \in Nat /\ message'[r] = -1
        /\ UNCHANGED <<trace, vector, letters, reviewed>>
    BY <1>1, <1>p DEF BeginEmbed, IsAt, results
  <2>2. CASE logRow[r].status = "SUCCESS"
    BY <1>1, <1>i, <2>1, <2>2 DEF BeginEmbed, TaskInv, CopyInv, BudgetInv, SecondsInv, Unrepeated, WholeInv, Stored, Lettered
  <2>3. CASE logRow[r].status # "SUCCESS"
    <3>1. /\ worker'[r].at \in {"check", "store", "bury", "error", "finish"} /\ worker'[r].tries = message[r]
          /\ worker'[r].at = "finish" => text[r] = "gone"
      <4>1. worker' = [worker EXCEPT ![r] = Delivered(r)]
        BY <1>1, <2>3 DEF BeginEmbed
      <4> QED
        BY <2>1, <4>1, DeliveredTyped
    <3>2. logRow'[r] = [logRow[r] EXCEPT !.status = "RUNNING"]
      BY <1>1, <2>3, <1>m DEF BeginEmbed, Statuses
    <3>3. logRow'[r].status = "RUNNING" /\ logRow'[r].retries = logRow[r].retries
      BY <3>2, <1>p DEF Log
    <3>4. BudgetInv(r)' /\ SecondsInv(r)'
      BY <1>i, <1>n, <2>1, <3>1, <3>3 DEF BudgetInv, SecondsInv, Unrepeated
    <3> QED
      BY <2>1, <3>1, <3>3, <3>4 DEF TaskInv, CopyInv, WholeInv, Stored, Lettered
  <2> QED
    BY <2>2, <2>3
<1>2. ASSUME UNCHANGED <<logRow, message, trace, vector, letters, reviewed>>,
             worker[r].at \in {"check", "insert", "probe"},
             worker'[r].at \in {"insert", "probe", "call", "wait", "error"},
             worker'[r].tries = worker[r].tries,
             worker'[r].at = "call" => worker'[r].copy \in Copies,
             worker'[r].at = "probe" => breaker' # NoBreaker
      PROVE  TaskInv(r)'
  <2>1. BudgetInv(r)' /\ SecondsInv(r)'
    BY <1>i, <1>n, <1>2 DEF BudgetInv, SecondsInv, Unrepeated
  <2> QED
    BY <1>i, <1>2, <2>1 DEF TaskInv, CopyInv, WholeInv, Stored, Lettered
<1>3. ASSUME Create(r) PROVE TaskInv(r)'
  <2>1. worker[r].at \in {"check", "insert"}
    BY <1>3 DEF Create, IsAt
  <2>2. CASE holder = NoHolder
    <3>1. /\ worker'[r].at = "call" /\ worker'[r].tries = worker[r].tries
          /\ worker'[r].copy = BreakerRow("CLOSED", 0, Cap, FALSE)
      <4> DEFINE c == BreakerRow("CLOSED", 0, Cap, FALSE)
      <4>1. worker' = [worker EXCEPT ![r].at = "call", ![r].copy = c]
        BY <1>3, <2>2 DEF Create
      <4> HIDE DEF c
      <4>2. worker'[r].at = "call" /\ worker'[r].tries = worker[r].tries /\ worker'[r].copy = c
        BY <4>1, <1>p DEF Worker
      <4> QED
        BY <4>2 DEF c
    <3>2. worker'[r].copy \in Copies
      BY <3>1, RowIsTyped
    <3>3. UNCHANGED <<logRow, message, trace, vector, letters, reviewed>>
      BY <1>3 DEF Create, results
    <3> QED
      BY <1>2, <2>1, <3>1, <3>2, <3>3
  <2>3. CASE holder # NoHolder
    <3>1. worker'[r].at = "insert" /\ worker'[r].tries = worker[r].tries
      BY <1>3, <1>c, <1>p, <2>3 DEF Create, Worker, Places
    <3> QED
      BY <1>2, <1>3, <2>1, <3>1 DEF Create, results
  <2> QED
    BY <2>2, <2>3
<1>4. ASSUME NameTaken(r) PROVE TaskInv(r)'
  <2>1. worker'[r].at = "error" /\ worker'[r].tries = worker[r].tries
    BY <1>4, <1>p DEF NameTaken, Worker
  <2> QED
    BY <1>2, <1>4, <2>1 DEF NameTaken, IsAt, results
<1>5. ASSUME CheckBreaker(r) PROVE TaskInv(r)'
  <2>1. /\ worker'[r].at = Decide(breaker) /\ worker'[r].tries = worker[r].tries /\ worker'[r].copy = breaker
    BY <1>5, <1>p DEF CheckBreaker, Worker
  <2>2. breaker \in Copies /\ breaker' # NoBreaker
    BY <1>5, RowIsTyped DEF CheckBreaker
  <2> QED
    BY <1>2, <1>5, <2>1, <2>2 DEF CheckBreaker, Decide, IsAt, results
<1>6. ASSUME Probe(r) PROVE TaskInv(r)'
  <2>1. breaker \in Committed
    BY <1>6, <1>i DEF Probe, CopyInv, IsAt
  <2> DEFINE c == [breaker EXCEPT !.state = "HALF_OPEN"]
  <2>2. c \in Copies
    BY <2>1 DEF Committed, Copies
  <2>3. /\ worker'[r].at = "call" /\ worker'[r].tries = worker[r].tries /\ worker'[r].copy = c
    BY <1>6, <1>p DEF Probe, Worker
  <2> HIDE DEF c
  <2> QED
    BY <1>2, <1>6, <2>2, <2>3 DEF Probe, IsAt, results
<1>7. ASSUME Postpone(r) PROVE TaskInv(r)'
  <2>1. worker[r].at = "wait" /\ worker'[r].at = "again" /\ worker'[r].tries = worker[r].tries
    BY <1>7, <1>c, <1>p DEF Postpone, IsAt, Worker, Places
  <2>2. logRow'[r].status = "RETRY" /\ logRow'[r].retries = logRow[r].retries
    BY <1>7, <1>m, <1>p DEF Postpone, Log, Statuses
  <2>3. UNCHANGED <<message, trace, vector, letters, reviewed>>
    BY <1>7 DEF Postpone, results
  <2>4. BudgetInv(r)' /\ SecondsInv(r)'
    BY <1>i, <1>n, <2>1, <2>2, <2>3 DEF BudgetInv, SecondsInv, Unrepeated
  <2> QED
    BY <2>1, <2>2, <2>3, <2>4 DEF TaskInv, CopyInv, WholeInv, Stored, Lettered
<1>8. ASSUME trace'.calls[r] = trace.calls[r] + 1, trace'.seconds[r] = trace.seconds[r],
             trace'.died[r] = trace.died[r], trace'.lost = trace.lost, trace'.bare = trace.bare,
             UNCHANGED <<logRow, message, vector, letters, reviewed>>,
             worker[r].at = "call", worker'[r].at \in {"embed", "count"}, worker'[r].tries = worker[r].tries
      PROVE  TaskInv(r)'
  <2>1. BudgetInv(r)' /\ SecondsInv(r)'
    BY <1>i, <1>n, <1>8 DEF BudgetInv, SecondsInv, Unrepeated
  <2> QED
    BY <1>i, <1>8, <2>1 DEF TaskInv, CopyInv, WholeInv, Stored, Lettered
<1>9. ASSUME CallWorks(r) PROVE TaskInv(r)'
  <2>1. worker[r].at = "call" /\ worker'[r].at = "embed" /\ worker'[r].tries = worker[r].tries
    BY <1>9, <1>c, <1>p DEF CallWorks, IsAt, Worker, Places
  <2>2. /\ trace'.calls[r] = trace.calls[r] + 1 /\ trace'.seconds[r] = trace.seconds[r]
        /\ trace'.died[r] = trace.died[r] /\ trace'.lost = trace.lost /\ trace'.bare = trace.bare
    <3>1. trace' = [Called(r) EXCEPT !.streak = 0]
      BY <1>9 DEF CallWorks
    <3> QED
      BY <3>1, CalledOnce DEF History
  <2> QED
    BY <1>8, <1>9, <2>1, <2>2 DEF CallWorks, results
<1>10. ASSUME CallFails(r) PROVE TaskInv(r)'
  <2>1. worker[r].at = "call" /\ worker'[r].at = "count" /\ worker'[r].tries = worker[r].tries
    BY <1>10, <1>p DEF CallFails, IsAt, Worker
  <2>2. /\ trace'.calls[r] = trace.calls[r] + 1 /\ trace'.seconds[r] = trace.seconds[r]
        /\ trace'.died[r] = trace.died[r] /\ trace'.lost = trace.lost /\ trace'.bare = trace.bare
    BY <1>10, CalledOnce DEF CallFails
  <2> QED
    BY <1>8, <1>10, <2>1, <2>2 DEF CallFails, results
<1>11. ASSUME trace'.calls[r] = trace.calls[r], trace'.seconds[r] = trace.seconds[r],
              trace'.died[r] = trace.died[r], trace'.lost = trace.lost, trace'.bare = trace.bare,
              UNCHANGED <<logRow, message, letters, reviewed>>, r \in vector => r \in vector',
              worker[r].at \in {"count", "bump", "lose", "store", "settle", "error"},
              worker'[r].at \in {"finish", "bump", "lose", "settle", "error", "bury"},
              worker'[r].at \in {"bump", "lose", "settle"} => worker[r].at \in {"count", "bump", "lose"},
              worker'[r].tries = worker[r].tries,
              worker'[r].at \in {"bump", "lose"} => worker'[r].copy \in Committed,
              worker'[r].at = "finish" => r \in vector'
       PROVE  TaskInv(r)'
  <2>1. BudgetInv(r)' /\ SecondsInv(r)'
    BY <1>i, <1>n, <1>11 DEF BudgetInv, SecondsInv, Unrepeated
  <2> QED
    BY <1>i, <1>11, <2>1 DEF TaskInv, CopyInv, WholeInv, Stored, Lettered
<1>12. ASSUME ReadCount(r) PROVE TaskInv(r)'
  <2> DEFINE c == IF breaker = NoBreaker THEN BreakerRow("CLOSED", 0, DefaultCap, FALSE) ELSE breaker
             to == IF breaker = NoBreaker /\ holder # NoHolder THEN "lose" ELSE "bump"
  <2>1. c \in Committed /\ to \in {"lose", "bump"}
    BY RowIsTyped
  <2>2. worker' = [worker EXCEPT ![r].copy = c, ![r].at = to]
    BY <1>12 DEF ReadCount
  <2> HIDE DEF c, to
  <2>3. worker'[r].copy = c /\ worker'[r].at = to /\ worker'[r].tries = worker[r].tries
    BY <2>2, <1>p DEF Worker
  <2> QED
    BY <1>11, <1>12, <2>1, <2>3 DEF ReadCount, IsAt, results
<1>13. ASSUME WriteCount(r) PROVE TaskInv(r)'
  <2>1. worker[r].at = "bump" /\ worker'[r].at = "settle" /\ worker'[r].tries = worker[r].tries
    BY <1>13, <1>c, <1>p DEF WriteCount, IsAt, Worker, Places
  <2>2. /\ trace'.calls[r] = trace.calls[r] /\ trace'.seconds[r] = trace.seconds[r]
        /\ trace'.died[r] = trace.died[r] /\ trace'.lost = trace.lost /\ trace'.bare = trace.bare
    BY <1>13 DEF WriteCount, History
  <2> QED
    BY <1>11, <1>13, <2>1, <2>2 DEF WriteCount, results
<1>14. ASSUME LoseCount(r) PROVE TaskInv(r)'
  <2>1. CASE breaker = NoBreaker
    <3>1. /\ worker[r].at = "lose" /\ worker'[r].at = "bump" /\ worker'[r].tries = worker[r].tries
          /\ worker'[r].copy = worker[r].copy
      BY <1>14, <1>c, <1>p, <2>1 DEF LoseCount, IsAt, Worker, Places
    <3> QED
      BY <1>i, <1>11, <1>14, <3>1 DEF LoseCount, CopyInv, results
  <2>2. CASE breaker # NoBreaker
    <3>1. /\ worker[r].at = "lose" /\ worker'[r].at = "error" /\ worker'[r].tries = worker[r].tries
      BY <1>14, <1>p, <2>2 DEF LoseCount, IsAt, Worker
    <3> QED
      BY <1>11, <1>14, <3>1 DEF LoseCount, results
  <2> QED
    BY <2>1, <2>2
<1>15. ASSUME Settle(r) PROVE TaskInv(r)'
  <2>1. worker[r].at \in {"settle", "error"} /\ UNCHANGED <<message, trace, vector, letters, reviewed>>
    BY <1>15 DEF Settle, results
  <2>2. CASE worker[r].bad = "PERMANENT" \/ LastTry(r)
    <3>1. worker'[r].at = "bury" /\ worker'[r].tries = worker[r].tries /\ UNCHANGED logRow
      BY <1>15, <1>c, <1>p, <2>2 DEF Settle, Worker, Places
    <3> QED
      BY <1>11, <2>1, <3>1
  <2>3. CASE ~(worker[r].bad = "PERMANENT" \/ LastTry(r))
    <3>1. /\ worker'[r].at = IF worker[r].at = "settle" THEN "again" ELSE "resend"
          /\ worker'[r].tries = worker[r].tries
      BY <1>15, <1>c, <1>p, <2>3 DEF Settle, IsAt, Worker, Places
    <3>2. logRow'[r].status = "RETRY" /\ logRow'[r].retries = logRow[r].retries + 1
      BY <1>15, <2>3 DEF Settle
    <3>3. \/ worker[r].at = "settle" /\ logRow[r].retries + 1 < MaxEmbedTries
          \/ worker[r].at = "error" /\ worker[r].tries + 1 < MaxTaskTries
      BY <1>n, <2>1, <2>3 DEF LastTry, IsAt
    <3>4. BudgetInv(r)' /\ SecondsInv(r)'
      BY <1>i, <1>n, <2>1, <3>1, <3>2, <3>3 DEF BudgetInv, SecondsInv, Unrepeated
    <3> QED
      BY <2>1, <3>1, <3>2, <3>4 DEF TaskInv, CopyInv, WholeInv, Stored, Lettered
  <2> QED
    BY <2>2, <2>3
<1>16. ASSUME Again(r) PROVE TaskInv(r)'
  <2>1. /\ worker[r].at \in {"again", "resend"} /\ worker'[r].at = "idle" /\ message'[r] = Raised(worker[r].tries)
        /\ UNCHANGED <<logRow, trace, vector, letters, reviewed>>
    BY <1>16 DEF Again, IsAt, Stop, Rest, results
  <2>2. /\ message'[r] \in Nat
        /\ message'[r] < MaxTaskTries => message'[r] = worker[r].tries + 1 /\ worker[r].tries < MaxTaskTries
    BY <1>n, <2>1 DEF Raised
  <2>3. BudgetInv(r)' /\ SecondsInv(r)'
    BY <1>i, <1>n, <2>1, <2>2 DEF BudgetInv, SecondsInv, Unrepeated
  <2> QED
    BY <1>i, <2>1, <2>2, <2>3 DEF TaskInv, CopyInv, WholeInv, Stored, Lettered
<1>17. ASSUME Embed(r) PROVE TaskInv(r)'
  <2>1. /\ worker[r].at = "embed" /\ UNCHANGED <<logRow, message, letters, reviewed>>
        /\ trace'.calls[r] = trace.calls[r] /\ trace'.seconds[r] = trace.seconds[r] + 1
        /\ trace'.died[r] = trace.died[r] /\ trace'.lost = trace.lost /\ trace'.bare = trace.bare
    BY <1>17, CalledTwice DEF Embed, IsAt
  <2>2. /\ worker'[r].at \in {"finish", "error"} /\ worker'[r].tries = worker[r].tries
        /\ r \in vector => r \in vector'
        /\ worker'[r].at = "finish" => r \in vector'
    <3>1. CASE To(r, "finish") /\ vector' = vector \cup {r}
      BY <1>c, <1>p, <3>1 DEF Worker, Places
    <3>2. CASE /\ \E bad \in {"PERMANENT", "OTHER"} : worker' = [worker EXCEPT ![r].at = "error", ![r].bad = bad]
               /\ UNCHANGED vector
      BY <1>p, <3>2 DEF Worker
    <3> QED
      BY <1>17, <3>1, <3>2 DEF Embed
  <2>3. BudgetInv(r)' /\ SecondsInv(r)'
    BY <1>i, <1>n, <2>1, <2>2 DEF BudgetInv, SecondsInv, Unrepeated
  <2> QED
    BY <1>i, <2>1, <2>2, <2>3 DEF TaskInv, CopyInv, WholeInv, Stored, Lettered
<1>18. ASSUME StoreVector(r) PROVE TaskInv(r)'
  <2>1. worker'[r].at = "finish" /\ worker'[r].tries = worker[r].tries
    BY <1>18, <1>c, <1>p DEF StoreVector, Worker, Places
  <2> QED
    BY <1>11, <1>18, <2>1 DEF StoreVector, IsAt
<1>19. ASSUME Finish(r) PROVE TaskInv(r)'
  <2>1. /\ worker[r].at = "finish" /\ worker'[r].at = "idle"
        /\ UNCHANGED <<message, trace, vector, letters, reviewed>>
    BY <1>19 DEF Finish, IsAt, Stop, Rest, results
  <2>2. logRow'[r].status = "SUCCESS" /\ logRow'[r].retries = logRow[r].retries
    BY <1>19, <1>m, <1>p DEF Finish, Log, Statuses
  <2>3. BudgetInv(r)' /\ SecondsInv(r)'
    BY <1>i, <1>n, <2>1, <2>2 DEF BudgetInv, SecondsInv, Unrepeated
  <2> QED
    BY <1>i, <2>1, <2>2, <2>3 DEF TaskInv, CopyInv, WholeInv, Stored, Lettered
<1>20. ASSUME Bury(r) PROVE TaskInv(r)'
  <2>1. worker[r].at \in {"bury", "dead", "review"} /\ UNCHANGED <<message, trace, vector>>
    BY <1>20 DEF Bury, IsAt, results
  <2>2. CASE worker[r].at = "bury"
    <3>1. /\ worker'[r].at = "dead" /\ worker'[r].tries = worker[r].tries
          /\ letters' = letters \cup {r} /\ UNCHANGED <<logRow, reviewed>>
      BY <1>20, <1>c, <1>p, <2>2 DEF Bury, IsAt, Worker, Places
    <3>2. BudgetInv(r)' /\ SecondsInv(r)'
      BY <1>i, <1>n, <2>1, <2>2, <3>1 DEF BudgetInv, SecondsInv, Unrepeated
    <3> QED
      BY <1>i, <2>1, <3>1, <3>2 DEF TaskInv, CopyInv, WholeInv, Stored, Lettered
  <2>3. CASE worker[r].at = "dead"
    <3>1. MarkTask(r, "DEAD") /\ To(r, "review") /\ UNCHANGED <<letters, reviewed>>
      BY <1>20, <2>3 DEF Bury, IsAt, results
    <3>2. worker'[r].at = "review" /\ worker'[r].tries = worker[r].tries
      BY <1>c, <1>p, <3>1 DEF Worker, Places
    <3>3. logRow'[r].status = "DEAD" /\ logRow'[r].retries = logRow[r].retries
      BY <1>m, <1>p, <3>1 DEF Log, Statuses
    <3>4. BudgetInv(r)' /\ SecondsInv(r)'
      BY <1>i, <1>n, <2>1, <2>3, <3>2, <3>3 DEF BudgetInv, SecondsInv, Unrepeated
    <3> QED
      BY <1>i, <2>1, <2>3, <3>1, <3>2, <3>3, <3>4 DEF TaskInv, CopyInv, WholeInv, Stored, Lettered
  <2>4. CASE worker[r].at = "review"
    <3>1. /\ worker'[r].at = "idle" /\ reviewed' = reviewed \cup {r} /\ UNCHANGED <<logRow, letters>>
      BY <1>20, <2>4 DEF Bury, IsAt, Stop, Rest
    <3>2. BudgetInv(r)' /\ SecondsInv(r)'
      BY <1>i, <1>n, <2>1, <2>4, <3>1 DEF BudgetInv, SecondsInv, Unrepeated
    <3> QED
      BY <1>i, <2>1, <2>4, <3>1, <3>2 DEF TaskInv, CopyInv, WholeInv, Stored, Lettered
  <2> QED
    BY <2>1, <2>2, <2>3, <2>4
<1>21. ASSUME LoseWorker(r) PROVE TaskInv(r)'
  <2>1. /\ worker[r].at # "idle" /\ worker'[r].at = "idle" /\ UNCHANGED <<logRow, vector, letters, reviewed>>
        /\ message[r] = -1
    BY <1>21, <1>i DEF LoseWorker, IsAt, Stop, Rest, BudgetInv, results
  <2>2. message'[r] = worker[r].tries
    BY <1>21, <2>1 DEF LoseWorker
  <2>3. /\ trace'.calls[r] = trace.calls[r] /\ trace'.seconds[r] = trace.seconds[r]
        /\ trace'.died[r] = trace.died[r] + 1 /\ trace'.lost = trace.lost /\ trace'.bare = trace.bare
    BY <1>21 DEF LoseWorker, History
  <2>4. BudgetInv(r)' /\ SecondsInv(r)'
    BY <1>i, <1>n, <2>1, <2>2, <2>3 DEF BudgetInv, SecondsInv, Unrepeated
  <2> QED
    BY <1>i, <1>n, <2>1, <2>2, <2>4 DEF TaskInv, CopyInv, WholeInv, Stored, Lettered
<1>22. ASSUME RefuseRetry(r) PROVE TaskInv(r)'
  <2>1. UNCHANGED <<logRow, message, vector, letters, reviewed>>
    BY <1>22 DEF RefuseRetry, results
  <2>2. CASE worker[r].at = "again"
    <3>1. worker'[r].at = "error" /\ worker'[r].tries = worker[r].tries /\ UNCHANGED trace
      BY <1>22, <1>p, <2>2 DEF RefuseRetry, IsAt, Worker
    <3>2. BudgetInv(r)' /\ SecondsInv(r)'
      BY <1>i, <1>n, <2>1, <2>2, <3>1 DEF BudgetInv, SecondsInv, Unrepeated
    <3> QED
      BY <1>i, <2>1, <2>2, <3>1, <3>2 DEF TaskInv, CopyInv, WholeInv, Stored, Lettered
  <2>3. CASE worker[r].at # "again"
    <3>1. Stop(r) /\ trace' = [trace EXCEPT !.lost = @ \cup {r}] /\ worker[r].at = "resend"
      BY <1>22, <2>3 DEF RefuseRetry, IsAt
    <3>2. worker'[r].at = "idle"
      BY <3>1 DEF Stop, Rest
    <3>3. /\ trace'.calls[r] = trace.calls[r] /\ trace'.seconds[r] = trace.seconds[r]
          /\ trace'.died[r] = trace.died[r] /\ r \in trace'.lost /\ trace'.bare = trace.bare
      BY <3>1 DEF History
    <3>4. message[r] = -1 /\ message'[r] = -1
      BY <1>i, <2>1, <3>1 DEF BudgetInv
    <3>5. BudgetInv(r)' /\ SecondsInv(r)'
      BY <1>i, <1>n, <2>1, <3>1, <3>2, <3>3, <3>4 DEF BudgetInv, SecondsInv, Unrepeated
    <3> QED
      BY <1>i, <2>1, <3>1, <3>2, <3>3, <3>5 DEF TaskInv, CopyInv, WholeInv, Stored, Lettered
  <2> QED
    BY <2>2, <2>3
<1>23. ASSUME LoseLetter(r) PROVE TaskInv(r)'
  <2>1. /\ worker[r].at = "bury" /\ worker'[r].at = "dead" /\ worker'[r].tries = worker[r].tries
        /\ UNCHANGED <<logRow, message, vector, letters, reviewed>>
    BY <1>23, <1>c, <1>p DEF LoseLetter, IsAt, Worker, Places, results
  <2>2. trace' = [trace EXCEPT !.bare = @ \cup {r}]
    BY <1>23 DEF LoseLetter
  <2>3. /\ trace'.calls[r] = trace.calls[r] /\ trace'.seconds[r] = trace.seconds[r]
        /\ trace'.died[r] = trace.died[r] /\ trace'.lost = trace.lost /\ r \in trace'.bare
    BY <2>2 DEF History
  <2>4. BudgetInv(r)' /\ SecondsInv(r)'
    BY <1>i, <1>n, <2>1, <2>3 DEF BudgetInv, SecondsInv, Unrepeated
  <2> QED
    BY <1>i, <2>1, <2>3, <2>4 DEF TaskInv, CopyInv, WholeInv, Stored, Lettered
<1> QED
  BY <1>1, <1>3, <1>4, <1>5, <1>6, <1>7, <1>9, <1>10, <1>12, <1>13, <1>14, <1>15,
     <1>16, <1>17, <1>18, <1>19, <1>20, <1>21, <1>22, <1>23 DEF Work, Mishap

-----------------------------------------------------------------------------
(* The count of failures.                                                   *)

\* Only a success, a count and the end of the cooldown touch the row or the streak.
LEMMA StreakStep ==
    ASSUME Typed, Typed', NEW r \in Resumes, CopyInv(r), StreakInv, Work(r) \/ Mishap(r)
    PROVE  StreakInv'
<1> USE DEF Typed
<1>1. CASE CallWorks(r)
  <2> DEFINE copy == worker[r].copy
             row == IF breaker = NoBreaker THEN copy ELSE breaker
  <2>1. copy \in Copies
    BY <1>1 DEF CallWorks, CopyInv, IsAt
  <2>2. row \in Committed \cup {copy}
    OBVIOUS
  <2>3. breaker' = Reset(row, copy)
    BY <1>1 DEF CallWorks
  <2> HIDE DEF row, copy
  <2>4. breaker' \in Committed
    BY <2>1, <2>2, <2>3, ResetTyped
  <2>5. trace'.streak = 0
    <3>1. trace' = [Called(r) EXCEPT !.streak = 0]
      BY <1>1 DEF CallWorks
    <3> QED
      BY <3>1, CalledOnce DEF History
  <2>6. breaker'.count \in Nat /\ breaker'.cap \in Nat \ {0}
    BY <2>4, BreakerAssumption DEF Committed
  <2> QED
    BY <2>4, <2>5, <2>6, RowIsTyped DEF StreakInv
<1>2. CASE WriteCount(r)
  <2> DEFINE copy == worker[r].copy
             row == IF breaker = NoBreaker THEN copy ELSE breaker
  <2>1. copy \in Committed
    BY <1>2 DEF WriteCount, CopyInv, IsAt
  <2>2. row \in Committed
    BY <2>1
  <2>3. breaker' = Bumped(row, copy)
    BY <1>2 DEF WriteCount
  <2>4. trace'.streak = trace.streak + 1 /\ (trace'.overlap = (trace.overlap \/ row # copy))
    BY <1>2 DEF WriteCount, History
  <2>5. breaker = NoBreaker => trace.streak = 0
    BY DEF StreakInv
  <2>6. breaker # NoBreaker => row = breaker
    OBVIOUS
  <2> HIDE DEF row, copy
  <2>7. /\ breaker' \in Committed /\ breaker'.count = copy.count + 1 /\ breaker'.cap = row.cap
        /\ row = copy => \/ breaker'.state = "OPEN"
                         \/ copy.count + 1 < row.cap
    BY <2>1, <2>2, <2>3, BumpedTyped
  <2>8. SUFFICES ASSUME ~trace.overlap, row = copy
        PROVE  /\ trace'.streak <= breaker'.count
               /\ breaker'.state = "OPEN" \/ trace'.streak < breaker'.cap
    BY <2>4, <2>7, RowIsTyped DEF StreakInv
  <2>9. trace.streak \in Nat /\ copy.count \in Nat /\ row.cap \in Nat
    BY <2>1, <2>2, BreakerAssumption DEF Committed, History
  <2>10. trace.streak <= copy.count
    BY <2>5, <2>6, <2>8, <2>9 DEF StreakInv
  <2> QED
    BY <2>4, <2>7, <2>8, <2>9, <2>10
<1>3. CASE ~CallWorks(r) /\ ~WriteCount(r)
  <2>1. UNCHANGED breaker
    BY <1>3 DEF Work, BeginEmbed, Create, NameTaken, CheckBreaker, Probe, Postpone, CallFails, ReadCount,
                LoseCount, Settle, Again, Embed, StoreVector, Finish, Bury, Mishap, LoseWorker, RefuseRetry, LoseLetter
  <2>2. trace'.streak = trace.streak /\ trace'.overlap = trace.overlap
    <3>1. CASE CallFails(r)
      BY <3>1, CalledOnce DEF CallFails
    <3>2. CASE LoseWorker(r)
      BY <3>2 DEF LoseWorker, History
    <3>3. CASE Embed(r)
      BY <3>3, CalledTwice DEF Embed
    <3>4. CASE RefuseRetry(r) \/ LoseLetter(r)
      BY <3>4 DEF RefuseRetry, LoseLetter, History
    <3>5. CASE ~CallFails(r) /\ ~Embed(r) /\ ~Mishap(r)
      BY <1>3, <3>5 DEF Work, BeginEmbed, Create, NameTaken, CheckBreaker, Probe, Postpone, ReadCount,
                  LoseCount, Settle, Again, StoreVector, Finish, Bury
    <3> QED
      BY <3>1, <3>2, <3>3, <3>4, <3>5 DEF Mishap
  <2> QED
    BY <2>1, <2>2 DEF StreakInv
<1> QED
  BY <1>1, <1>2, <1>3

-----------------------------------------------------------------------------
LEMMA BreakerStarts == BreakerInit => BreakerInv
<1> SUFFICES ASSUME BreakerInit PROVE BreakerInv
  OBVIOUS
<1>1. PICK trial \in Trials :
          /\ text = trial.texts /\ mishaps = trial.mishaps
          /\ breaker = IF trial.known THEN BreakerRow("CLOSED", 0, Cap, FALSE) ELSE NoBreaker
          /\ logRow = [r \in Resumes |-> [status |-> "QUEUED", retries |-> 0]]
          /\ message = [r \in Resumes |-> 0]
          /\ worker = [r \in Resumes |-> Rest]
          /\ trace = [calls |-> [r \in Resumes |-> 0], seconds |-> [r \in Resumes |-> 0],
                      died |-> [r \in Resumes |-> 0], lost |-> {}, bare |-> {},
                      streak |-> 0, overlap |-> FALSE, vain |-> FALSE]
  BY DEF BreakerInit
<1>2. /\ text \in [Resumes -> {"fresh", "twin", "leak", "empty", "gone"}] /\ mishaps \in Nat
      /\ breaker \in Committed \cup {NoBreaker}
  BY <1>1, BreakerAssumption, RowIsTyped
<1>3. logRow \in [Resumes -> Log] /\ message \in [Resumes -> Nat \cup {-1}]
  BY <1>1 DEF Log, Statuses
<1>4. worker \in [Resumes -> Worker]
  BY <1>1, RestIsAWorker
<1>5. trace \in History
  BY <1>1 DEF History
<1>6. StreakInv
  <2>1. trace.streak = 0
    BY <1>1
  <2>2. breaker # NoBreaker => breaker.count = 0 /\ breaker.cap = Cap
    BY <1>1 DEF BreakerRow
  <2> QED
    BY <2>1, <2>2, BreakerAssumption DEF StreakInv
<1>7. ASSUME NEW r \in Resumes PROVE TaskInv(r)
  <2>1. /\ worker[r].at = "idle" /\ message[r] = 0 /\ logRow[r].status = "QUEUED" /\ logRow[r].retries = 0
        /\ trace.calls[r] = 0 /\ trace.seconds[r] = 0 /\ trace.died[r] = 0
    BY <1>1 DEF Rest
  <2>2. MaxEmbedTries \in Nat /\ MaxEmbedTries > 0 /\ MaxTaskTries \in Nat /\ MaxTaskTries > 0
    BY BreakerAssumption
  <2>3. BudgetInv(r) /\ SecondsInv(r)
    BY <2>1, <2>2 DEF BudgetInv, SecondsInv, Unrepeated
  <2> QED
    BY <2>1, <2>3 DEF TaskInv, CopyInv, WholeInv
<1> QED
  BY <1>2, <1>3, <1>4, <1>5, <1>6, <1>7 DEF BreakerInv, Typed

LEMMA BreakerInductive == BreakerInv /\ [BreakerNext]_breakerVars => BreakerInv'
<1> SUFFICES ASSUME BreakerInv, [BreakerNext]_breakerVars PROVE BreakerInv'
  OBVIOUS
<1> USE DEF BreakerInv
<1>1. CASE CoolDown
  <2>1. /\ breaker \in Committed /\ breaker' = [breaker EXCEPT !.cooling = FALSE]
        /\ UNCHANGED <<logRow, message, worker, text, vector, letters, reviewed, mishaps, trace>>
    BY <1>1 DEF CoolDown, Typed, results
  <2>2. /\ breaker' \in Committed /\ breaker'.state = breaker.state
        /\ breaker'.count = breaker.count /\ breaker'.cap = breaker.cap
    BY <2>1 DEF Committed
  <2>3. breaker # NoBreaker /\ breaker' # NoBreaker
    BY <2>1, <2>2, RowIsTyped
  <2>4. Typed'
    BY <2>1, <2>2 DEF Typed
  <2>5. StreakInv'
    BY <2>1, <2>2, <2>3 DEF StreakInv
  <2>6. ASSUME NEW r \in Resumes PROVE TaskInv(r)'
    BY <2>1, <2>3 DEF TaskInv, CopyInv, BudgetInv, SecondsInv, WholeInv, Stored, Lettered
  <2> QED
    BY <2>4, <2>5, <2>6
<1>2. ASSUME NEW r \in Resumes, Work(r) \/ Mishap(r) PROVE BreakerInv'
  <2>1. Typed' /\ (breaker # NoBreaker => breaker' # NoBreaker)
    BY <1>2, WorkTyped DEF TaskInv
  <2>2. TaskInv(r)'
    BY <1>2, <2>1, TaskStep
  <2>3. ASSUME NEW q \in Resumes, q # r PROVE TaskInv(q)'
    BY <1>2, <2>1, <2>3, OthersStand
  <2>4. StreakInv'
    BY <1>2, <2>1, StreakStep DEF TaskInv
  <2> QED
    BY <2>1, <2>2, <2>3, <2>4
<1>3. CASE UNCHANGED breakerVars
  BY <1>3 DEF breakerVars, results, Typed, StreakInv, TaskInv, CopyInv, BudgetInv, SecondsInv, WholeInv, Stored, Lettered
<1> QED
  BY <1>1, <1>2, <1>3 DEF BreakerNext

\* What the breaker's row, the workers' copies of it and the tasks' budgets have to do with
\* each other at every step (circuit_breaker_repository.py, process_embedding_task).
THEOREM BreakerAlways == BreakerSpec => []BreakerInv
BY BreakerStarts, BreakerInductive, PTL DEF BreakerSpec

\* As many counted failures in a row as the threshold open the breaker, as long as no count is
\* written over a row that another worker changed in between (increment_failure).
THEOREM CountedFailuresOpen == BreakerSpec => []FailuresTrip
<1>1. BreakerInv => FailuresTrip
  <2> SUFFICES ASSUME BreakerInv, breaker # NoBreaker, trace.streak >= breaker.cap, ~trace.overlap
               PROVE  breaker.state = "OPEN"
    BY DEF FailuresTrip
  <2>1. trace.streak \in Nat /\ breaker.cap \in Nat
    BY BreakerAssumption DEF BreakerInv, Typed, History, Committed
  <2> QED
    BY <2>1 DEF BreakerInv, StreakInv
<1> QED
  BY <1>1, BreakerAlways, PTL

\* However failures, other errors, refused and postponed deliveries and deaths of workers mix,
\* an embedding task keeps to its two budgets, of calls under the breaker's eyes and of the second
\* calls after them, and one at rest has its vector, or its dead letter and its candidates under
\* review (generate_resume_embedding_task and its retry and dead-letter handlers).
THEOREM TasksEndWhole == BreakerSpec => []TasksEndInBudget
<1>1. BreakerInv => TasksEndInBudget
  BY DEF BreakerInv, TaskInv, BudgetInv, SecondsInv, WholeInv, Stored, Lettered, TasksEndInBudget, CallsWithinBudget, NothingHalfDone, IsAt
<1> QED
  BY <1>1, BreakerAlways, PTL

-----------------------------------------------------------------------------
(* The cooldown.  Only an open row cools; only the probe that holds the row *)
(* calls with a copy that is not closed, so only its success closes it.     *)

CoolingIsOpen == breaker # NoBreaker /\ breaker.cooling => breaker.state = "OPEN"

HoldInv(r) ==
    /\ worker[r].at = "call" => \/ worker[r].copy.state = "CLOSED" /\ ~worker[r].copy.cooling
                                \/ worker[r].copy.state = "HALF_OPEN" /\ holder = r /\ worker[r].probe
    /\ worker[r].at \in {"bump", "lose"} => (worker[r].copy.cooling => worker[r].copy.state = "OPEN")

CoolInv == BreakerInv /\ CoolingIsOpen /\ \A r \in Resumes : HoldInv(r)

LEMMA ResetCools ==
    ASSUME NEW copy \in Copies, NEW row \in Committed \cup {copy},
           row.cooling => row.state = "OPEN" \/ copy.state # "CLOSED"
    PROVE  /\ Reset(row, copy).cooling => Reset(row, copy).state = "OPEN"
           /\ copy.state = "CLOSED" /\ row.state = "OPEN" => Reset(row, copy).state = "OPEN"
BY DEF Reset, Committed, Copies

LEMMA BumpedCools ==
    ASSUME NEW copy \in Committed, NEW row \in Committed, row.cooling => row.state = "OPEN"
    PROVE  /\ Bumped(row, copy).cooling => Bumped(row, copy).state = "OPEN"
           /\ row.state = "OPEN" => Bumped(row, copy).state = "OPEN"
BY DEF Bumped, Committed

\* Nobody else takes the row from the worker that holds it.
LEMMA HolderKeeps ==
    ASSUME NEW r \in Resumes, Work(r) \/ Mishap(r), NEW q \in Resumes, q # r, holder = q
    PROVE  holder' = q
BY BreakerAssumption
   DEF Work, BeginEmbed, Create, NameTaken, CheckBreaker, Probe, Postpone, CallWorks, CallFails, ReadCount, WriteCount,
       LoseCount, Settle, Again, Embed, StoreVector, Finish, Bury, Mishap, LoseWorker, RefuseRetry, LoseLetter, Freed

\* A worker comes to its call with a closed copy, or as the probe that holds the row.
LEMMA HoldStep ==
    ASSUME Typed, CoolingIsOpen, NEW r \in Resumes, CopyInv(r), HoldInv(r), Work(r) \/ Mishap(r)
    PROVE  HoldInv(r)'
<1> USE DEF Typed
<1>p. worker[r] \in Worker
  OBVIOUS
<1>c. \A place \in Places : To(r, place) => worker'[r] = [worker[r] EXCEPT !.at = place]
  BY ToMoves
<1>1. CASE Create(r)
  <2>1. CASE holder = NoHolder
    <3> DEFINE c == BreakerRow("CLOSED", 0, Cap, FALSE)
    <3>1. worker' = [worker EXCEPT ![r].at = "call", ![r].copy = c]
      BY <1>1, <2>1 DEF Create
    <3>2. c.state = "CLOSED" /\ c.cooling = FALSE
      BY DEF BreakerRow
    <3> HIDE DEF c
    <3>3. worker'[r].at = "call" /\ worker'[r].copy = c
      BY <3>1, <1>p DEF Worker
    <3> QED
      BY <3>2, <3>3 DEF HoldInv
  <2>2. CASE holder # NoHolder
    <3>1. worker'[r].at = "insert"
      BY <1>1, <1>c, <1>p, <2>2 DEF Create, Worker, Places
    <3> QED
      BY <3>1 DEF HoldInv
  <2> QED
    BY <2>1, <2>2
<1>2. CASE CheckBreaker(r)
  <2>1. worker'[r].at = Decide(breaker) /\ worker'[r].copy = breaker
    BY <1>2, <1>p DEF CheckBreaker, Worker
  <2>2. breaker \in Committed /\ (breaker.cooling => breaker.state = "OPEN")
    BY <1>2 DEF CheckBreaker, CoolingIsOpen
  <2> QED
    BY <2>1, <2>2 DEF HoldInv, Decide, Committed
<1>3. CASE Probe(r)
  <2>1. breaker \in Committed
    BY <1>3 DEF Probe, CopyInv, IsAt
  <2> DEFINE c == [breaker EXCEPT !.state = "HALF_OPEN"]
  <2>2. c.state = "HALF_OPEN"
    BY <2>1 DEF Committed
  <2>3. worker' = [worker EXCEPT ![r].at = "call", ![r].probe = TRUE, ![r].copy = c]
    BY <1>3 DEF Probe
  <2> HIDE DEF c
  <2>4. worker'[r].at = "call" /\ worker'[r].probe /\ worker'[r].copy = c
    BY <2>3, <1>p DEF Worker
  <2> QED
    BY <1>3, <2>2, <2>4 DEF HoldInv, Probe
<1>4. CASE ReadCount(r)
  <2> DEFINE c == IF breaker = NoBreaker THEN BreakerRow("CLOSED", 0, DefaultCap, FALSE) ELSE breaker
             to == IF breaker = NoBreaker /\ holder # NoHolder THEN "lose" ELSE "bump"
  <2>1. /\ c.cooling => c.state = "OPEN"
        /\ to # "call"
    BY DEF BreakerRow, CoolingIsOpen
  <2>2. worker' = [worker EXCEPT ![r].copy = c, ![r].at = to]
    BY <1>4 DEF ReadCount
  <2> HIDE DEF c, to
  <2>3. worker'[r].copy = c /\ worker'[r].at = to
    BY <2>2, <1>p DEF Worker
  <2> QED
    BY <2>1, <2>3 DEF HoldInv
<1>5. CASE LoseCount(r)
  <2>1. \/ worker'[r].at = "error"
        \/ worker[r].at = "lose" /\ worker'[r].at = "bump" /\ worker'[r].copy = worker[r].copy
    <3>1. CASE breaker = NoBreaker
      BY <1>5, <1>c, <1>p, <3>1 DEF LoseCount, IsAt, Worker, Places
    <3>2. CASE breaker # NoBreaker
      BY <1>5, <1>p, <3>2 DEF LoseCount, Worker
    <3> QED
      BY <3>1, <3>2
  <2> QED
    BY <2>1 DEF HoldInv
<1>6. CASE NameTaken(r) \/ CallFails(r)
  <2>1. worker'[r].at \in {"error", "count"}
    BY <1>6, <1>p DEF NameTaken, CallFails, Worker
  <2> QED
    BY <2>1 DEF HoldInv
<1>7. CASE BeginEmbed(r)
  <2>1. worker'[r].at \in {"idle", "check", "store", "bury", "error", "finish"}
    <3>1. CASE logRow[r].status = "SUCCESS"
      BY <1>7, <3>1 DEF BeginEmbed, IsAt
    <3>2. CASE logRow[r].status # "SUCCESS"
      <4>1. worker' = [worker EXCEPT ![r] = Delivered(r)] /\ message[r] \in Nat
        BY <1>7, <3>2 DEF BeginEmbed
      <4> QED
        BY <4>1, DeliveredTyped
    <3> QED
      BY <3>1, <3>2
  <2> QED
    BY <2>1 DEF HoldInv
<1>8. CASE \/ Postpone(r) \/ CallWorks(r) \/ WriteCount(r) \/ Settle(r) \/ Again(r) \/ Embed(r) \/ StoreVector(r)
           \/ Finish(r) \/ Bury(r) \/ Mishap(r)
  <2>1. \/ \E place \in {"again", "resend", "embed", "settle", "bury", "finish", "dead", "review"} : To(r, place)
        \/ Stop(r)
        \/ \E bad \in {"PERMANENT", "OTHER"} : worker' = [worker EXCEPT ![r].at = "error", ![r].bad = bad]
    BY <1>8 DEF Postpone, CallWorks, WriteCount, Settle, Again, Embed, StoreVector, Finish, Bury, Mishap, LoseWorker, RefuseRetry, LoseLetter
  <2>2. worker'[r].at \in {"again", "resend", "embed", "settle", "bury", "finish", "dead", "review", "idle", "error"}
    <3>1. CASE \E place \in {"again", "resend", "embed", "settle", "bury", "finish", "dead", "review"} : To(r, place)
      BY <3>1, <1>c, <1>p DEF Worker, Places
    <3>2. CASE Stop(r)
      BY <3>2 DEF Stop, Rest
    <3>3. CASE \E bad \in {"PERMANENT", "OTHER"} : worker' = [worker EXCEPT ![r].at = "error", ![r].bad = bad]
      BY <3>3, <1>p DEF Worker
    <3> QED
      BY <2>1, <3>1, <3>2, <3>3
  <2> QED
    BY <2>2 DEF HoldInv
<1> QED
  BY <1>1, <1>2, <1>3, <1>4, <1>5, <1>6, <1>7, <1>8 DEF Work

\* What a worker's step does to the row.
LEMMA CoolStep ==
    ASSUME Typed, CoolingIsOpen, NEW r \in Resumes, CopyInv(r), HoldInv(r), Work(r) \/ Mishap(r)
    PROVE  /\ CoolingIsOpen'
           /\ /\ breaker # NoBreaker /\ breaker.state = "OPEN"
              /\ holder = NoHolder \/ ~worker[holder].probe
              => breaker'.state = "OPEN"
<1> USE DEF Typed
<1>1. CASE CallWorks(r)
  <2> DEFINE copy == worker[r].copy
             row == IF breaker = NoBreaker THEN copy ELSE breaker
  <2>1. /\ copy \in Copies
        /\ \/ copy.state = "CLOSED" /\ ~copy.cooling
           \/ copy.state = "HALF_OPEN" /\ holder = r /\ worker[r].probe
    BY <1>1 DEF CallWorks, CopyInv, HoldInv, IsAt
  <2>2. row \in Committed \cup {copy}
    OBVIOUS
  <2>3. breaker' = Reset(row, copy)
    BY <1>1 DEF CallWorks
  <2>4. row.cooling => row.state = "OPEN" \/ copy.state # "CLOSED"
    BY <2>1 DEF CoolingIsOpen
  <2>5. breaker # NoBreaker => row = breaker
    OBVIOUS
  <2> HIDE DEF row, copy
  <2>6. /\ breaker'.cooling => breaker'.state = "OPEN"
        /\ copy.state = "CLOSED" /\ row.state = "OPEN" => breaker'.state = "OPEN"
    BY <2>1, <2>2, <2>3, <2>4, ResetCools
  <2> QED
    BY <2>1, <2>5, <2>6, BreakerAssumption DEF CoolingIsOpen
<1>2. CASE WriteCount(r)
  <2> DEFINE copy == worker[r].copy
             row == IF breaker = NoBreaker THEN copy ELSE breaker
  <2>1. copy \in Committed
    BY <1>2 DEF WriteCount, CopyInv, IsAt
  <2>2. row \in Committed
    BY <2>1
  <2>3. breaker' = Bumped(row, copy)
    BY <1>2 DEF WriteCount
  <2>4. row.cooling => row.state = "OPEN"
    BY <1>2 DEF WriteCount, HoldInv, CoolingIsOpen, IsAt
  <2>5. breaker # NoBreaker => row = breaker
    OBVIOUS
  <2> HIDE DEF row, copy
  <2>6. /\ breaker'.cooling => breaker'.state = "OPEN"
        /\ row.state = "OPEN" => breaker'.state = "OPEN"
    BY <2>1, <2>2, <2>3, <2>4, BumpedCools
  <2> QED
    BY <2>5, <2>6 DEF CoolingIsOpen
<1>3. CASE ~CallWorks(r) /\ ~WriteCount(r)
  <2>1. UNCHANGED breaker
    BY <1>3 DEF Work, BeginEmbed, Create, NameTaken, CheckBreaker, Probe, Postpone, CallFails, ReadCount,
                LoseCount, Settle, Again, Embed, StoreVector, Finish, Bury, Mishap, LoseWorker, RefuseRetry, LoseLetter
  <2> QED
    BY <2>1 DEF CoolingIsOpen
<1> QED
  BY <1>1, <1>2, <1>3

LEMMA CoolInductive ==
    CoolInv /\ [BreakerNext]_breakerVars
      => /\ CoolInv'
         /\ breaker # NoBreaker /\ breaker.cooling /\ (holder = NoHolder \/ ~worker[holder].probe)
              => breaker'.state = "OPEN"
<1> SUFFICES ASSUME CoolInv, [BreakerNext]_breakerVars
             PROVE  /\ CoolInv'
                    /\ breaker # NoBreaker /\ breaker.cooling /\ (holder = NoHolder \/ ~worker[holder].probe)
                         => breaker'.state = "OPEN"
  OBVIOUS
<1> USE DEF CoolInv
<1>i. BreakerInv'
  BY BreakerInductive
<1>1. CASE CoolDown
  <2>1. /\ breaker \in Committed /\ breaker' = [breaker EXCEPT !.cooling = FALSE] /\ UNCHANGED <<worker, holder>>
    BY <1>1 DEF CoolDown, BreakerInv, Typed
  <2>2. breaker'.state = breaker.state /\ breaker'.cooling = FALSE
    BY <2>1 DEF Committed
  <2>3. \A r \in Resumes : HoldInv(r)'
    BY <2>1 DEF HoldInv
  <2> QED
    BY <1>i, <2>2, <2>3 DEF CoolingIsOpen
<1>2. ASSUME NEW r \in Resumes, Work(r) \/ Mishap(r)
      PROVE  /\ CoolInv'
             /\ breaker # NoBreaker /\ breaker.cooling /\ (holder = NoHolder \/ ~worker[holder].probe)
                  => breaker'.state = "OPEN"
  <2>1. Typed /\ CopyInv(r)
    BY DEF BreakerInv, TaskInv
  <2>2. HoldInv(r)'
    BY <1>2, <2>1, HoldStep
  <2>3. ASSUME NEW q \in Resumes, q # r PROVE HoldInv(q)'
    BY <1>2, <2>1, <2>3, OthersStay, HolderKeeps DEF HoldInv
  <2>4. /\ CoolingIsOpen'
        /\ /\ breaker # NoBreaker /\ breaker.state = "OPEN"
           /\ holder = NoHolder \/ ~worker[holder].probe
           => breaker'.state = "OPEN"
    BY <1>2, <2>1, CoolStep
  <2> QED
    BY <1>i, <2>2, <2>3, <2>4 DEF CoolingIsOpen
<1>3. CASE UNCHANGED breakerVars
  BY <1>i, <1>3 DEF breakerVars, CoolingIsOpen, HoldInv
<1> QED
  BY <1>1, <1>2, <1>3 DEF BreakerNext

\* An open breaker serves its cooldown whatever calls were under way when it opened: reset()
\* writes only the columns the caller's copy differs in, so only a probe can close it early.
THEOREM OpenBreakersServe == BreakerSpec => CooldownServed
<1>1. BreakerInit => CoolInv
  <2> SUFFICES ASSUME BreakerInit PROVE CoolInv
    OBVIOUS
  <2>1. breaker # NoBreaker => breaker.cooling = FALSE
    BY DEF BreakerInit, BreakerRow
  <2>2. \A r \in Resumes : HoldInv(r)
    BY DEF BreakerInit, Rest, HoldInv
  <2> QED
    BY <2>1, <2>2, BreakerStarts DEF CoolInv, CoolingIsOpen
<1>2. BreakerSpec => []CoolInv
  BY <1>1, CoolInductive, PTL DEF BreakerSpec
<1> QED
  BY <1>2, CoolInductive, PTL DEF BreakerSpec, CooldownServed
=============================================================================
