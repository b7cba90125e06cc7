-------------------------- MODULE EmbeddingBreaker --------------------------
(***************************************************************************)
(* The EMBED_RESUME tasks of several resumes and the circuit breaker row   *)
(* they share.  Each worker keeps its own copy of the row, as read, over   *)
(* the whole call of the embedding service; an UPDATE writes only the      *)
(* columns that differ from the copy; the UPDATE to HALF_OPEN and the      *)
(* INSERT of the first row stay uncommitted during the call, so that       *)
(* whoever wants to write the row waits for the holder.                    *)
(***************************************************************************)
EXTENDS Integers, FiniteSets

CONSTANTS
    Resumes,          \* one embedding task each
    Cap, DefaultCap,  \* failure threshold: of the platform config, of the repository's signature
    MaxEmbedTries, MaxTaskTries,
    Trials,           \* bound: [mishaps: how many, texts: of each resume, known: is there a row?]
    NoBreaker, NoHolder

\* As seeded: an embedding may fail four times, the task three times; no threshold is zero.
ASSUME BreakerAssumption ==
    /\ Cap \in Nat \ {0} /\ DefaultCap \in Nat \ {0}
    /\ MaxEmbedTries \in Nat /\ MaxTaskTries \in 1..MaxEmbedTries
    /\ \A trial \in Trials : /\ trial.mishaps \in Nat /\ trial.known \in BOOLEAN
                             /\ trial.texts \in [Resumes -> {"fresh", "twin", "leak", "empty", "gone"}]
    /\ NoHolder \notin Resumes
    /\ NoBreaker \notin [state : {"CLOSED", "OPEN", "HALF_OPEN"}, count : Nat, cap : {Cap, DefaultCap}, cooling : BOOLEAN]

VARIABLES
    breaker,   \* the committed row: [state, count, cap, cooling: is retry_after ahead?] or NoBreaker
    holder,    \* who has an uncommitted INSERT or UPDATE of the row
    logRow,    \* task log of each resume: [status, retries]
    message,   \* Celery's request.retries of the message in the broker, -1: there is none
    worker,    \* control state: [at, tries, copy, probe: was its copy HALF_OPEN?, bad: class of the failure]
    text,      \* what the resume gives to embed: "fresh", "twin" of another, "leak" of PII, "empty",
               \* or the resume is "gone"
    vector,    \* resumes with an embedding row
    letters,   \* resumes with a dead letter
    reviewed,  \* resumes whose candidates are in MANUAL_REVIEW
    mishaps,   \* how many more workers may die, retries the broker refuse, dead letters fail to be saved
    trace      \* history: [calls, seconds: of the service for each resume, under the breaker's eyes and after,
               \* died: workers during its task, lost: whose retry was refused, bare: whose dead letter failed,
               \* streak: failures counted since a call last succeeded, overlap: a count of a row no longer as read,
               \* vain: a probe failed and no cooldown runs]

breakerVars == <<breaker, holder, logRow, message, worker, text, vector, letters, reviewed, mishaps, trace>>
results == <<vector, letters, reviewed>>

---------------------------------------------------------------------------
BreakerRow(s, n, k, c) == [state |-> s, count |-> n, cap |-> k, cooling |-> c]
Rest == [at |-> "idle", tries |-> 0, copy |-> NoBreaker, probe |-> FALSE, bad |-> "none"]

BreakerInit ==
    \E trial \in Trials :
        /\ text = trial.texts /\ mishaps = trial.mishaps
        /\ breaker = IF trial.known THEN BreakerRow("CLOSED", 0, Cap, FALSE) ELSE NoBreaker
        /\ holder = NoHolder
        /\ logRow = [r \in Resumes |-> [status |-> "QUEUED", retries |-> 0]]
        /\ message = [r \in Resumes |-> 0]
        /\ worker = [r \in Resumes |-> Rest]
        /\ vector = {} /\ letters = {} /\ reviewed = {}
        /\ trace = [calls |-> [r \in Resumes |-> 0], seconds |-> [r \in Resumes |-> 0],
                    died |-> [r \in Resumes |-> 0], lost |-> {}, bare |-> {},
                    streak |-> 0, overlap |-> FALSE, vain |-> FALSE]

To(r, at) == worker' = [worker EXCEPT ![r].at = at]
IsAt(r, at) == worker[r].at = at
Stop(r) == worker' = [worker EXCEPT ![r] = Rest]
MarkTask(r, status) == logRow' = [logRow EXCEPT ![r].status = status]

---------------------------------------------------------------------------
(* A delivery. *)

\* Where its text leads a delivery: to the breaker, to an equal text's vector (its own, of an
\* earlier delivery, as well), to no vector at all, to the dead letters, or into an error.
Path(r) ==
    CASE text[r] = "gone" -> "finish"
      [] text[r] = "leak" -> "bury"
      [] text[r] = "empty" -> "error"
      [] text[r] = "twin" \/ (text[r] = "fresh" /\ r \in vector) -> "store"
      [] OTHER -> "check"

Delivered(r) ==
    [Rest EXCEPT !.at = Path(r), !.tries = message[r], !.bad = IF text[r] = "empty" THEN "PERMANENT" ELSE "none"]

BeginEmbed_NotDead(r) ==
    /\ IsAt(r, "idle") /\ message[r] >= 0
    /\ IF logRow[r].status \in {"SUCCESS", "DEAD"}
       THEN UNCHANGED <<logRow, worker>>
       ELSE MarkTask(r, "RUNNING") /\ worker' = [worker EXCEPT ![r] = Delivered(r)]
    /\ message' = [message EXCEPT ![r] = -1]
    /\ UNCHANGED <<breaker, holder, text, mishaps, trace>> /\ UNCHANGED results

BeginEmbed(r) ==
    /\ IsAt(r, "idle") /\ message[r] >= 0
    /\ IF logRow[r].status = "SUCCESS"
       THEN UNCHANGED <<logRow, worker>>
       ELSE MarkTask(r, "RUNNING") /\ worker' = [worker EXCEPT ![r] = Delivered(r)]
    /\ message' = [message EXCEPT ![r] = -1]
    /\ UNCHANGED <<breaker, holder, text, mishaps, trace>> /\ UNCHANGED results

\* get_or_create: the first task of a new installation inserts the row, others wait for its
\* commit and then fail on the unique name.
Create(r) ==
    /\ \/ IsAt(r, "check") /\ breaker = NoBreaker
       \/ IsAt(r, "insert") /\ holder = NoHolder /\ breaker = NoBreaker
    /\ IF holder = NoHolder
       THEN /\ holder' = r
            /\ worker' = [worker EXCEPT ![r].at = "call", ![r].copy = BreakerRow("CLOSED", 0, Cap, FALSE)]
       ELSE To(r, "insert") /\ UNCHANGED holder
    /\ UNCHANGED <<breaker, logRow, message, text, mishaps, trace>> /\ UNCHANGED results

NameTaken(r) ==
    /\ IsAt(r, "insert") /\ holder = NoHolder /\ breaker # NoBreaker
    /\ worker' = [worker EXCEPT ![r].at = "error", ![r].bad = "OTHER"]
    /\ UNCHANGED <<breaker, holder, logRow, message, text, mishaps, trace>> /\ UNCHANGED results

Decide_Forever(row) == IF row.state = "OPEN" THEN "wait" ELSE "call"

\* Whoever finds the cooldown over becomes a probe.
Decide(row) ==
    IF row.state = "OPEN" THEN (IF row.cooling THEN "wait" ELSE "probe") ELSE "call"

CheckBreaker(r) ==
    /\ IsAt(r, "check") /\ breaker # NoBreaker
    /\ worker' = [worker EXCEPT ![r].at = Decide(breaker), ![r].copy = breaker]
    /\ UNCHANGED <<breaker, holder, logRow, message, text, mishaps, trace>> /\ UNCHANGED results

Probe(r) ==
    /\ IsAt(r, "probe") /\ holder = NoHolder
    /\ holder' = r
    /\ worker' = [worker EXCEPT ![r].at = "call", ![r].probe = TRUE,
                                     ![r].copy = [breaker EXCEPT !.state = "HALF_OPEN"]]
    /\ UNCHANGED <<breaker, logRow, message, text, mishaps, trace>> /\ UNCHANGED results

\* The breaker is open: the row says RETRY, then the message goes back with a countdown.
Postpone(r) ==
    /\ IsAt(r, "wait")
    /\ MarkTask(r, "RETRY") /\ To(r, "again")
    /\ UNCHANGED <<breaker, holder, message, text, mishaps, trace>> /\ UNCHANGED results

---------------------------------------------------------------------------
(* The call of the service, and what the breaker learns of it. *)

Reset_All(row, copy) == [row EXCEPT !.state = "CLOSED", !.count = 0, !.cooling = FALSE]

\* reset(): only the columns in which the worker's copy is not yet reset are written.
Reset(row, copy) ==
    [row EXCEPT !.state = IF copy.state = "CLOSED" THEN @ ELSE "CLOSED",
                !.count = IF copy.count = 0 THEN @ ELSE 0,
                !.cooling = IF copy.state = "CLOSED" THEN @ ELSE FALSE]

Freed(r) == IF holder = r THEN NoHolder ELSE holder
Called(r) == [trace EXCEPT !.calls[r] = @ + 1]
CalledAgain(r) == [trace EXCEPT !.seconds[r] = @ + 1]

CallWorks(r) ==
    LET copy == worker[r].copy
        row == IF breaker = NoBreaker THEN copy ELSE breaker IN
    /\ IsAt(r, "call")
    /\ Reset(copy, copy) = copy \/ holder \in {r, NoHolder}
    /\ breaker' = Reset(row, copy)
    /\ holder' = Freed(r)
    /\ To(r, "embed")
    /\ trace' = [Called(r) EXCEPT !.streak = 0]
    /\ UNCHANGED <<logRow, message, text, mishaps>> /\ UNCHANGED results

\* rollback(): the probe's HALF_OPEN, or the first row, is gone with it.
CallFails(r) ==
    /\ IsAt(r, "call")
    /\ holder' = Freed(r)
    /\ \E bad \in {"PERMANENT", "OTHER"} :
           worker' = [worker EXCEPT ![r].at = "count", ![r].bad = bad]
    /\ trace' = Called(r)
    /\ UNCHANGED <<breaker, logRow, message, text, mishaps>> /\ UNCHANGED results

\* increment_failure() reads the row afresh, ...
ReadCount(r) ==
    /\ IsAt(r, "count")
    /\ worker' = [worker EXCEPT
           ![r].copy = IF breaker = NoBreaker THEN BreakerRow("CLOSED", 0, DefaultCap, FALSE) ELSE breaker,
           ![r].at = IF breaker = NoBreaker /\ holder # NoHolder THEN "lose" ELSE "bump"]
    /\ holder' = IF breaker = NoBreaker /\ holder = NoHolder THEN r ELSE holder
    /\ UNCHANGED <<breaker, logRow, message, text, mishaps, trace>> /\ UNCHANGED results

Opens_Above(copy) == copy.state # "OPEN" /\ copy.count + 1 > copy.cap

Opens(copy) == copy.state # "OPEN" /\ copy.count + 1 >= copy.cap

Bumped(row, copy) ==
    [row EXCEPT !.count = copy.count + 1,
                !.state = IF Opens(copy) THEN "OPEN" ELSE @,
                !.cooling = IF Opens(copy) THEN TRUE ELSE @]

\* ... and writes the incremented number and, at the threshold, the cooldown.
WriteCount(r) ==
    LET copy == worker[r].copy
        row == IF breaker = NoBreaker THEN copy ELSE breaker IN
    /\ IsAt(r, "bump") /\ holder \in {r, NoHolder}
    /\ breaker' = Bumped(row, copy)
    /\ holder' = Freed(r)
    /\ To(r, "settle")
    /\ trace' = [trace EXCEPT !.streak = @ + 1, !.overlap = @ \/ row # copy,
                            !.vain = @ \/ (worker[r].probe /\ ~breaker'.cooling)]
    /\ UNCHANGED <<logRow, message, text, mishaps>> /\ UNCHANGED results

\* The INSERT of a counter waited for another INSERT: its outcome decides.
LoseCount(r) ==
    /\ IsAt(r, "lose") /\ holder = NoHolder
    /\ IF breaker = NoBreaker
       THEN holder' = r /\ To(r, "bump")
       ELSE UNCHANGED holder /\ worker' = [worker EXCEPT ![r].at = "error", ![r].bad = "OTHER"]
    /\ UNCHANGED <<breaker, logRow, message, text, mishaps, trace>> /\ UNCHANGED results

---------------------------------------------------------------------------
(* Retries: a failed call is counted on the log's retries, any other error *)
(* on Celery's, which a postponed delivery raises too.                     *)

LastTry_After(r) ==
    IF IsAt(r, "settle") THEN logRow[r].retries + 1 > MaxEmbedTries ELSE worker[r].tries + 1 >= MaxTaskTries

LastTry(r) ==
    IF IsAt(r, "settle") THEN logRow[r].retries + 1 >= MaxEmbedTries ELSE worker[r].tries + 1 >= MaxTaskTries

Settle(r) ==
    /\ worker[r].at \in {"settle", "error"}
    /\ IF worker[r].bad = "PERMANENT" \/ LastTry(r)
       THEN To(r, "bury") /\ UNCHANGED logRow
       ELSE /\ To(r, IF IsAt(r, "settle") THEN "again" ELSE "resend")
            /\ logRow' = [logRow EXCEPT ![r] = [status |-> "RETRY", retries |-> @.retries + 1]]
    /\ UNCHANGED <<breaker, holder, message, text, mishaps, trace>> /\ UNCHANGED results

\* Bound: deliveries beyond the retries of the task are counted alike (Celery's ceiling is 1000).
Raised(n) == IF n < MaxTaskTries THEN n + 1 ELSE n

\* A worker that dies between this publish and its ack is left out: two deliveries of one task.
Again(r) ==
    /\ worker[r].at \in {"again", "resend"}
    /\ message' = [message EXCEPT ![r] = Raised(worker[r].tries)]
    /\ Stop(r)
    /\ UNCHANGED <<breaker, holder, logRow, text, mishaps, trace>> /\ UNCHANGED results

\* After a call that worked the service is called again, outside the handler of the first call
\* and unseen by the breaker; this second call is the one whose vector is stored.
Embed(r) ==
    /\ IsAt(r, "embed")
    /\ trace' = CalledAgain(r)
    /\ \/ To(r, "finish") /\ vector' = vector \cup {r}
       \/ \E bad \in {"PERMANENT", "OTHER"} :
              worker' = [worker EXCEPT ![r].at = "error", ![r].bad = bad] /\ UNCHANGED vector
    /\ UNCHANGED <<breaker, holder, logRow, message, text, letters, reviewed, mishaps>>

\* The vector of an equal text is copied without a call.
StoreVector(r) ==
    /\ IsAt(r, "store")
    /\ vector' = vector \cup {r} /\ To(r, "finish")
    /\ UNCHANGED <<breaker, holder, logRow, message, text, letters, reviewed, mishaps, trace>>

Finish(r) ==
    /\ IsAt(r, "finish")
    /\ MarkTask(r, "SUCCESS") /\ Stop(r)
    /\ UNCHANGED <<breaker, holder, message, text, mishaps, trace>> /\ UNCHANGED results

\* The dead letter, the log and the candidates are three commits.
Bury(r) ==
    \/ /\ IsAt(r, "bury") /\ letters' = letters \cup {r} /\ To(r, "dead")
       /\ UNCHANGED <<breaker, holder, logRow, message, text, vector, reviewed, mishaps, trace>>
    \/ /\ IsAt(r, "dead") /\ MarkTask(r, "DEAD") /\ To(r, "review")
       /\ UNCHANGED <<breaker, holder, message, text, mishaps, trace>> /\ UNCHANGED results
    \/ /\ IsAt(r, "review") /\ reviewed' = reviewed \cup {r} /\ Stop(r)
       /\ UNCHANGED <<breaker, holder, logRow, message, text, vector, letters, mishaps, trace>>

---------------------------------------------------------------------------
(* Mishaps: the worker process dies and the broker delivers again; the     *)
(* broker refuses a retry; a dead letter cannot be saved.  Time passes.    *)

LoseWorker(r) ==
    /\ mishaps > 0 /\ ~IsAt(r, "idle")
    /\ mishaps' = mishaps - 1
    /\ message' = [message EXCEPT ![r] = IF message[r] >= 0 THEN @ ELSE worker[r].tries]
    /\ holder' = Freed(r) /\ Stop(r)
    /\ trace' = [trace EXCEPT !.died[r] = @ + 1]
    /\ UNCHANGED <<breaker, logRow, text>> /\ UNCHANGED results

\* A refused retry of the delivery itself is one more error of it, which the outer handler
\* retries; refused there it is rejected, and the row says RETRY with no message behind it.
RefuseRetry(r) ==
    /\ mishaps > 0 /\ mishaps' = mishaps - 1
    /\ \/ /\ IsAt(r, "again")
          /\ worker' = [worker EXCEPT ![r].at = "error", ![r].bad = "OTHER"] /\ UNCHANGED trace
       \/ /\ IsAt(r, "resend")
          /\ Stop(r) /\ trace' = [trace EXCEPT !.lost = @ \cup {r}]
    /\ UNCHANGED <<breaker, holder, logRow, message, text>> /\ UNCHANGED results

\* The failed INSERT is logged, and the task given up without its dead letter.
LoseLetter(r) ==
    /\ mishaps > 0 /\ mishaps' = mishaps - 1
    /\ IsAt(r, "bury") /\ To(r, "dead")
    /\ trace' = [trace EXCEPT !.bare = @ \cup {r}]
    /\ UNCHANGED <<breaker, holder, logRow, message, text>> /\ UNCHANGED results

CoolDown ==
    /\ breaker # NoBreaker /\ breaker.cooling
    /\ breaker' = [breaker EXCEPT !.cooling = FALSE]
    /\ UNCHANGED <<holder, logRow, message, worker, text, mishaps, trace>> /\ UNCHANGED results

Work(r) ==
    \/ BeginEmbed(r) \/ Create(r) \/ NameTaken(r) \/ CheckBreaker(r) \/ Probe(r) \/ Postpone(r)
    \/ CallWorks(r) \/ CallFails(r) \/ ReadCount(r) \/ WriteCount(r) \/ LoseCount(r)
    \/ Settle(r) \/ Again(r) \/ Embed(r) \/ StoreVector(r) \/ Finish(r) \/ Bury(r)

Mishap(r) == LoseWorker(r) \/ RefuseRetry(r) \/ LoseLetter(r)

BreakerNext == CoolDown \/ \E r \in Resumes : Work(r) \/ Mishap(r)

BreakerSpec == BreakerInit /\ [][BreakerNext]_breakerVars

BreakerTypeOK ==
    /\ breaker \in {NoBreaker} \cup [state : {"CLOSED", "OPEN"}, count : Nat, cap : {Cap, DefaultCap}, cooling : BOOLEAN]
    /\ holder \in Resumes \cup {NoHolder}
    /\ \A r \in Resumes : holder = r => worker[r].at \in {"call", "bump"}
    /\ vector \cup letters \cup reviewed \subseteq Resumes

BreakerFair == WF_breakerVars(CoolDown) /\ \A r \in Resumes : WF_breakerVars(Work(r))

---------------------------------------------------------------------------
\* A breaker that has opened stays open for its whole cooldown: neither the success of a call
\* that began before (reset, circuit_breaker_repository.py:84-94, writes only the columns the
\* worker's stale copy differs in) nor a late count closes it.  A probe may: one that found an
\* earlier cooldown over, before a late count began this one.
CooldownServed ==
    [][breaker # NoBreaker /\ breaker.cooling /\ (holder = NoHolder \/ ~worker[holder].probe)
         => breaker'.state = "OPEN"]_breakerVars

\* As many counted failures since the last success as the row's threshold have opened the
\* breaker, unless the row changed under one of the counts (increment_failure is a read and a
\* write without a lock, circuit_breaker_repository.py:52-69).
FailuresTrip ==
    breaker # NoBreaker /\ trace.streak >= breaker.cap /\ ~trace.overlap => breaker.state = "OPEN"

\* However failed calls, other errors, refused and postponed deliveries mix, the calls of one
\* resume's task under the breaker's eyes are at most MAX_EMBED_RETRY_COUNT, and the second calls
\* that follow the successful ones (embedding_tasks.py:347-348) at most the max_attempts of the
\* task, each with one more for every worker that died.  The service may thus be called as often
\* as the sum of the two.
CallsWithinBudget ==
    \A r \in Resumes : /\ trace.calls[r] <= MaxEmbedTries + trace.died[r]
                       /\ trace.seconds[r] <= MaxTaskTries + trace.died[r]

\* A task at rest has done all of it: a success has its vector, unless the resume is gone; a dead
\* one has its candidates under manual review and its dead letter, whichever of the three commits
\* a worker died after, unless that letter could not be saved.  Only a retry that the broker
\* refused leaves a task undone.
NothingHalfDone ==
    \A r \in Resumes : IsAt(r, "idle") /\ message[r] = -1 =>
        \/ logRow[r].status = "SUCCESS" /\ (r \in vector \/ text[r] = "gone")
        \/ logRow[r].status = "DEAD" /\ r \in reviewed /\ r \in letters \cup trace.bare
        \/ logRow[r].status = "RETRY" /\ r \in trace.lost

\* Giving up and succeeding are whole, and within the budget of calls.
TasksEndInBudget == CallsWithinBudget /\ NothingHalfDone

\* Every embedding task comes to rest, however often the open breaker sends it back.
EveryEmbedDecided == \A r \in Resumes : <>[](IsAt(r, "idle") /\ message[r] = -1)

\* "A HALF_OPEN probe that fails must re-open with a fresh retry_after"
\* (test_circuit_breaker_repository.py:60-68).
FailedProbeReopens == ~trace.vain
=============================================================================
