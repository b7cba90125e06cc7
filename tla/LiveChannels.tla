---------------------------- MODULE LiveChannels ----------------------------
(***************************************************************************)
(* One WebSocket channel of one API process: a worker commits the progress *)
(* of a task and publishes it, Redis Pub/Sub carries it to the listener    *)
(* the channel has while it has clients, and ConnectionManager sends it to *)
(* them.  Pub/Sub keeps no backlog: a client that connects is first sent a *)
(* snapshot of what was committed.  An event is the number of its commit.  *)
(***************************************************************************)
EXTENDS Naturals, Sequences, FiniteSets

CONSTANTS Clients,
          Events,       \* how many events the worker has to tell
          MaxDrops      \* how often Redis loses a connection

ASSUME ChannelAssumption == Events \in Nat /\ MaxDrops \in Nat

VARIABLES kind,      \* progress of a task or of the uploads of a user, or a board
          rows,      \* events committed
          base,      \* the last reset: the rows of the events before it are deleted
          told,      \* events published, or given up
          listener,  \* the channel's task: none, starting, live, backoff
          inbox,     \* messages the listener has not relayed yet
          conns,     \* connections of the channel
          client,    \* the session of every client
          drops

channelVars == <<kind, rows, base, told, listener, inbox, conns, client, drops>>

Kinds == {"progress", "board"}
Numbers == 1..Events
Newest(S) == CHOOSE e \in S : \A x \in S : x <= e
Away == [pc |-> "away", snap |-> {}, got |-> {}, last |-> 0, covered |-> FALSE]

SessionRecord == [pc : {"away", "joined", "read", "watching", "broken", "gone"}, snap : SUBSET Numbers,
                  got : SUBSET Numbers, last : 0..Events, covered : BOOLEAN]

\* "covered": the snapshot was read under a live subscription, and since the
\* client joined Redis neither dropped the connection nor refused an event.
ChannelTypeOK ==
    /\ kind \in Kinds /\ base \in 0..rows
    /\ rows \in 0..Events /\ told \in 0..rows /\ drops \in 0..MaxDrops
    /\ listener \in {"none", "starting", "live", "backoff"}
    /\ inbox \in Seq(Numbers) /\ conns \subseteq Clients
    /\ client \in [Clients -> SessionRecord]

ChannelInit ==
    /\ kind \in Kinds /\ base = 0
    /\ rows = 0 /\ told = 0 /\ listener = "none" /\ inbox = <<>> /\ conns = {} /\ drops = 0
    /\ client = [c \in Clients |-> Away]

----------------------------------------------------------------------------
(* The worker *)

\* complete_stage, link_document_id: the row is committed first.
CommitRow ==
    /\ kind = "progress" /\ rows < Events /\ told = rows
    /\ rows' = rows + 1
    /\ UNCHANGED <<kind, base, told, listener, inbox, conns, client, drops>>

\* A candidate is added to the board, moved, rescored or removed.
CommitBoard ==
    /\ kind = "board" /\ rows < Events /\ told = rows
    /\ rows' = rows + 1
    /\ UNCHANGED <<kind, base, told, listener, inbox, conns, client, drops>>

\* A replay from the start deletes the rows of the old run.
CommitReset ==
    /\ kind # "board" /\ base = 0 /\ 0 < rows /\ rows < Events /\ told = rows
    /\ rows' = rows + 1 /\ base' = rows + 1
    /\ UNCHANGED <<kind, told, listener, inbox, conns, client, drops>>

\* publish_event: whoever is subscribed now has it.
Publish ==
    /\ told < rows
    /\ told' = rows
    /\ inbox' = IF listener = "live" THEN Append(inbox, rows) ELSE inbox
    /\ UNCHANGED <<kind, base, rows, listener, conns, client, drops>>

Uncovered == [c \in Clients |-> [client[c] EXCEPT !.covered = FALSE]]

\* Redis refuses it: logged, never sent again.
PublishFails ==
    /\ told < rows /\ drops < MaxDrops
    /\ told' = rows /\ drops' = drops + 1 /\ client' = Uncovered
    /\ UNCHANGED <<kind, base, rows, listener, inbox, conns>>

----------------------------------------------------------------------------
(* The listener task *)

Subscribed ==
    /\ listener = "starting" /\ listener' = "live"
    /\ UNCHANGED <<kind, base, rows, told, inbox, conns, client, drops>>

\* The next message goes to every connection; the socket of one may be dead.
Relay(dead) ==
    /\ listener = "live" /\ inbox # <<>> /\ dead \subseteq conns
    /\ inbox' = Tail(inbox)
    /\ conns' = conns \ dead
    /\ client' = [c \in Clients |->
         IF c \in dead THEN [client[c] EXCEPT !.pc = "broken"]
         ELSE IF c \in conns THEN [client[c] EXCEPT !.got = @ \cup {Head(inbox)}, !.last = Head(inbox)]
         ELSE client[c]]
    /\ UNCHANGED <<kind, base, rows, told, listener, drops>>

ConnectionLost_Ends ==
    /\ listener = "live" /\ drops < MaxDrops
    /\ listener' = "none" /\ inbox' = <<>> /\ drops' = drops + 1 /\ client' = Uncovered
    /\ UNCHANGED <<kind, base, rows, told, conns>>

\* The connection is lost, and what it had delivered with it.
ConnectionLost ==
    /\ listener = "live" /\ drops < MaxDrops
    /\ listener' = "backoff" /\ inbox' = <<>> /\ drops' = drops + 1 /\ client' = Uncovered
    /\ UNCHANGED <<kind, base, rows, told, conns>>

Retry ==
    /\ listener = "backoff" /\ listener' = "starting"
    /\ UNCHANGED <<kind, base, rows, told, inbox, conns, client, drops>>

----------------------------------------------------------------------------
(* _run_websocket_session, once the role of the client is checked *)

\* manager.connect, then subscribe: nothing awaited in between.  The task is
\* created here; its subscription takes effect later.
Join(c) ==
    /\ client[c].pc = "away"
    /\ client' = [client EXCEPT ![c].pc = "joined", ![c].covered = TRUE]
    /\ conns' = conns \cup {c}
    /\ listener' = IF listener = "none" THEN "starting" ELSE listener
    /\ UNCHANGED <<kind, base, rows, told, inbox, drops>>

\* Closed with 1008 before anything is registered.
Refuse(c) ==
    /\ client[c].pc = "away"
    /\ client' = [client EXCEPT ![c].pc = "gone"]
    /\ UNCHANGED <<kind, base, rows, told, listener, inbox, conns, drops>>

\* What the status services replay: the rows of the current run.
Replayed == (base + 1)..rows

\* snapshot_fn runs in a thread: live events may overtake what it read.
ReadSnapshot(c) ==
    /\ kind # "board" /\ client[c].pc = "joined"
    /\ client' = [client EXCEPT ![c].pc = "read", ![c].snap = Replayed, ![c].covered = @ /\ listener = "live"]
    /\ UNCHANGED <<kind, base, rows, told, listener, inbox, conns, drops>>

SendSnapshot(c) ==
    /\ client[c].pc = "read"
    /\ client' = [client EXCEPT ![c].pc = "watching", ![c].snap = {}, ![c].got = @ \cup client[c].snap,
                                ![c].last = IF client[c].snap = {} THEN @ ELSE Newest(client[c].snap)]
    /\ UNCHANGED <<kind, base, rows, told, listener, inbox, conns, drops>>

\* A board has no snapshot: its client fetches the board over HTTP.
WatchBoard(c) ==
    /\ kind = "board" /\ client[c].pc = "joined"
    /\ client' = [client EXCEPT ![c].pc = "watching", ![c].covered = FALSE]
    /\ UNCHANGED <<kind, base, rows, told, listener, inbox, conns, drops>>

\* Disconnect, token expiry, error: the last client takes the listener along.
Leave_All(c) ==
    /\ client[c].pc \notin {"away", "gone"}
    /\ client' = [client EXCEPT ![c] = [Away EXCEPT !.pc = "gone"]]
    /\ conns' = conns \ {c}
    /\ listener' = "none" /\ inbox' = <<>>
    /\ UNCHANGED <<kind, base, rows, told, drops>>

Leave(c) ==
    /\ client[c].pc \notin {"away", "gone"}
    /\ client' = [client EXCEPT ![c] = [Away EXCEPT !.pc = "gone"]]
    /\ conns' = conns \ {c}
    /\ IF conns' = {} THEN listener' = "none" /\ inbox' = <<>> ELSE UNCHANGED <<listener, inbox>>
    /\ UNCHANGED <<kind, base, rows, told, drops>>

Session(c) == Refuse(c) \/ Join(c) \/ ReadSnapshot(c) \/ SendSnapshot(c) \/ WatchBoard(c) \/ Leave(c)

ChannelNext ==
    \/ CommitRow \/ CommitBoard \/ CommitReset \/ Publish \/ PublishFails
    \/ Subscribed \/ ConnectionLost \/ Retry \/ \E dead \in SUBSET conns : Relay(dead)
    \/ \E c \in Clients : Session(c)

ChannelSpec == ChannelInit /\ [][ChannelNext]_channelVars

----------------------------------------------------------------------------
Has(c) == client[c].got \cup {inbox[i] : i \in DOMAIN inbox}

(* A client whose snapshot was read under a live subscription has, or will  *)
(* be relayed, every event published since the last reset, however clients  *)
(* come and go; and, if Redis never failed, the reset itself when it was    *)
(* told of the deleted run.                                                 *)
NothingSlipsBy ==
    \A c \in Clients : client[c].pc = "watching" /\ client[c].covered =>
        /\ (base + 1)..told \subseteq Has(c)
        /\ drops = 0 /\ base <= told /\ (\E e \in client[c].got : e < base) => base \in Has(c)

(* A connected client is served: the channel gets a live listener, also     *)
(* after Redis dropped it, for as long as the client stays.                 *)
EveryoneIsServed ==
    \A c \in Clients : (c \in conns) ~> (listener = "live" \/ c \notin conns)

(* The session's docstring: between subscribing and the snapshot there is   *)
(* at worst a duplicate of a delivered event, "never a lost one".           *)
NeverLost ==
    \A c \in Clients : kind # "board" /\ client[c].pc = "watching" /\ drops = 0 => (base + 1)..told \subseteq Has(c)

(* ... and the duplicate is harmless: nothing older is shown after it.      *)
NeverBackwards ==
    \A c \in Clients : client[c].pc = "watching" => \A e \in client[c].got : e <= client[c].last
=============================================================================
