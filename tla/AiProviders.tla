---------------------------- MODULE AiProviders ----------------------------
(* The AI providers of Settings: one row per provider, one of them active.    *)
(* Admins check, register, edit, activate and delete; every AI task reads the *)
(* active row when it starts and keeps what it read.  A request is a chain of *)
(* steps: each of its reads, its call to the provider, its commit.            *)
EXTENDS Integers, FiniteSets

CONSTANTS
  Providers, Models, Keys, Admins, Tasks,
  Owner,      \* the provider whose prefix a key carries, or None
  Plans,      \* the request of every admin
  Tables,     \* the registrations a behaviour may start from
  MaxRows,    \* bound: registrations ever made
  MaxTries,   \* bound: calls of one AI task
  NoRow, None

ASSUME ProviderConstants ==
  /\ Owner \in [Keys -> Providers \cup {None}]
  /\ MaxRows \in Nat /\ MaxTries \in Nat

Ids == 1 .. MaxRows
Row == [provider : Providers, model : Models, key : Keys, active : BOOLEAN]
Request == [op : {"check", "create", "update", "activate", "delete"}, provider : Providers,
            row : Nat, model : Models, key : Keys \cup {None}]

\* A registration brings its key, and the other changes name a row by its id; ids are
\* handed out in order, from 1.
ASSUME PlansAssumption ==
  \A p \in Plans : /\ p \in [Admins -> Request]
                   /\ \A a \in Admins : /\ p[a].op = "create" => p[a].key \in Keys
                                        /\ p[a].op \in {"update", "activate", "delete"} => p[a].row \in Ids
ASSUME TablesAssumption ==
  /\ NoRow \notin Row /\ None \notin Keys
  /\ \A t \in Tables : /\ t \in [Ids -> Row \cup {NoRow}]
                       /\ \E n \in 0 .. MaxRows : \A i \in Ids : t[i] # NoRow <=> i <= n

VARIABLES
  plan,        \* what the admins ask in this behaviour
  configs,        \* ai_provider_config
  issued,      \* the row ids handed out so far
  marker,      \* the passed checks Redis still remembers
  adm,         \* the request of each admin, as far as it has come
  task,        \* the AI tasks
  checked,     \* every <<provider, model, key>> a provider has ever accepted
  overlapped,  \* configs edited from a stale read
  lateDelete   \* a row was deleted after it became active

providerVars == <<plan, configs, issued, marker, adm, task, checked, overlapped, lateDelete>>

Registered == {i \in Ids : configs[i] # NoRow}
Active == {i \in Registered : configs[i].active}
RowOf(p) == {i \in Registered : configs[i].provider = p}
Triple(r) == <<r.provider, r.model, r.key>>

Progress == [step : {"begin", "verify", "current", "write", "done"},
             loaded : Row \cup {NoRow}, key : Keys \cup {None}, current : SUBSET Ids]

ProvidersTypeOK ==
  /\ plan \in Plans /\ configs \in [Ids -> Row \cup {NoRow}] /\ issued \in 0 .. MaxRows
  /\ marker \subseteq checked
  /\ adm \in [Admins -> Progress]
  /\ overlapped \subseteq Ids /\ lateDelete \in BOOLEAN

ProvidersInit ==
  /\ plan \in Plans /\ configs \in Tables /\ marker = {}
  /\ issued = Cardinality(Registered)
  /\ adm = [a \in Admins |-> [step |-> "begin", loaded |-> NoRow, key |-> None, current |-> {}]]
  /\ task = [t \in Tasks |-> [step |-> "queued", row |-> 0, uses |-> None, tries |-> 0, cause |-> None]]
  /\ checked = {Triple(configs[i]) : i \in Registered}
  /\ overlapped = {} /\ lateDelete = FALSE

-----------------------------------------------------------------------------
(* The request: what it reads first. *)

Goto(a, s) == adm' = [adm EXCEPT ![a].step = s]
Untouched == UNCHANGED <<plan, configs, issued, marker, task, checked, overlapped, lateDelete>>

StoredKey(p) == IF RowOf(p) = {} THEN None ELSE configs[CHOOSE i \in RowOf(p) : TRUE].key

BeginCheck(a) ==
  LET k == IF plan[a].key # None THEN plan[a].key ELSE StoredKey(plan[a].provider)
  IN  adm' = [adm EXCEPT ![a].key = k, ![a].step = IF k = None THEN "done" ELSE "verify"]

BeginCreate(a) ==
  adm' = [adm EXCEPT ![a].key = plan[a].key,
                     ![a].step = IF RowOf(plan[a].provider) = {} THEN "verify" ELSE "done"]

BeginUpdate(a) ==
  LET r == configs[plan[a].row]
  IN  IF r = NoRow THEN Goto(a, "done")
      ELSE adm' = [adm EXCEPT ![a].step = "verify", ![a].loaded = r,
                              ![a].key = IF plan[a].key # None THEN plan[a].key ELSE r.key]

BeginActivate(a) ==
  IF plan[a].row \in Registered \ Active
  THEN adm' = [adm EXCEPT ![a].step = "current", ![a].loaded = configs[plan[a].row]]
  ELSE Goto(a, "done")

BeginDelete_Any(a) ==
  IF plan[a].row \in Registered /\ Cardinality(Registered) > 1
  THEN adm' = [adm EXCEPT ![a].step = "write", ![a].loaded = configs[plan[a].row]]
  ELSE Goto(a, "done")

BeginDelete(a) ==
  IF plan[a].row \in Registered \ Active /\ Cardinality(Registered) > 1
  THEN adm' = [adm EXCEPT ![a].step = "write", ![a].loaded = configs[plan[a].row]]
  ELSE Goto(a, "done")

Begin(a) ==
  /\ adm[a].step = "begin" /\ Untouched
  /\ \/ plan[a].op = "check" /\ BeginCheck(a)
     \/ plan[a].op = "create" /\ BeginCreate(a)
     \/ plan[a].op = "update" /\ BeginUpdate(a)
     \/ plan[a].op = "activate" /\ BeginActivate(a)
     \/ plan[a].op = "delete" /\ BeginDelete(a)

-----------------------------------------------------------------------------
(* The call to the provider, spared when a check of the same values passed   *)
(* a moment ago.                                                              *)

Asked(a) ==
  <<IF plan[a].op = "update" THEN adm[a].loaded.provider ELSE plan[a].provider, plan[a].model, adm[a].key>>
AfterVerify(a) == IF plan[a].op = "create" THEN "current" ELSE "write"
Mismatch(triple) == Owner[triple[3]] \notin {None, triple[1]}

Remembered_AnyModel(triple) == \E m \in Models : <<triple[1], m, triple[3]>> \in marker

Remembered(triple) == triple \in marker

VerifyRemembered(a) ==
  /\ adm[a].step = "verify" /\ plan[a].op # "check" /\ Remembered(Asked(a))
  /\ Goto(a, AfterVerify(a)) /\ Untouched

VerifyPasses(a) ==
  /\ adm[a].step = "verify" /\ ~Mismatch(Asked(a))
  /\ plan[a].op # "check" => ~Remembered(Asked(a))
  /\ checked' = checked \cup {Asked(a)}
  /\ \/ plan[a].op = "check" /\ marker' = marker \cup {Asked(a)} /\ Goto(a, "done")
     \/ plan[a].op = "check" /\ UNCHANGED marker /\ Goto(a, "done")          \* Redis is down
     \/ plan[a].op # "check" /\ UNCHANGED marker /\ Goto(a, AfterVerify(a))
  /\ UNCHANGED <<plan, configs, issued, task, overlapped, lateDelete>>

VerifyFails(a) ==
  /\ adm[a].step = "verify" /\ (plan[a].op # "check" => ~Remembered(Asked(a)))
  /\ Goto(a, "done") /\ Untouched

MarkerExpires ==
  /\ \E triple \in marker : marker' = marker \ {triple}
  /\ UNCHANGED <<plan, configs, issued, adm, task, checked, overlapped, lateDelete>>

-----------------------------------------------------------------------------
(* The commit. *)

ReadCurrent(a) ==
  /\ adm[a].step = "current" /\ Untouched
  /\ adm' = [adm EXCEPT ![a].step = "write", ![a].current = Active]

\* No two configs of one provider, no two active configs: the indexes refuse them.
Allowed(new) ==
  LET held == {i \in Ids : new[i] # NoRow}
  IN  \A i, j \in held : i # j => /\ new[i].provider # new[j].provider
                                  /\ ~(new[i].active /\ new[j].active)

\* A refused commit is rolled back and the admin is told to try again.
Save(new) == configs' = IF Allowed(new) THEN new ELSE configs

Insert(a) ==
  LET row == [provider |-> plan[a].provider, model |-> plan[a].model, key |-> plan[a].key,
              active |-> adm[a].current = {}]
  IN  /\ plan[a].op = "create" /\ issued < MaxRows
      /\ issued' = issued + 1 /\ Save([configs EXCEPT ![issued + 1] = row])
      /\ UNCHANGED <<overlapped, lateDelete>>

\* Only the columns that changed since the row was read are written.
Edit(a) ==
  LET i == plan[a].row
      old == adm[a].loaded
      new == [configs[i] EXCEPT !.model = IF plan[a].model # old.model THEN plan[a].model ELSE @,
                             !.key = IF plan[a].key # None THEN plan[a].key ELSE @]
  IN  /\ plan[a].op = "update"
      /\ IF configs[i] = NoRow THEN UNCHANGED <<configs, overlapped>>
         ELSE /\ Save([configs EXCEPT ![i] = new])
              /\ overlapped' = IF <<configs[i].model, configs[i].key>> # <<old.model, old.key>>
                               THEN overlapped \cup {i} ELSE overlapped
      /\ UNCHANGED <<issued, lateDelete>>

\* The active row is cleared first, then the chosen one is set.
Switch(a) ==
  LET i == plan[a].row
      cleared == [j \in Ids |-> IF j \in adm[a].current /\ j # i THEN [configs[j] EXCEPT !.active = FALSE] ELSE configs[j]]
  IN  /\ plan[a].op = "activate"
      /\ IF {i} \cup adm[a].current \subseteq Registered
         THEN Save([cleared EXCEPT ![i].active = TRUE]) ELSE UNCHANGED configs
      /\ UNCHANGED <<issued, overlapped, lateDelete>>

Remove(a) ==
  LET i == plan[a].row
  IN  /\ plan[a].op = "delete"
      /\ configs' = [configs EXCEPT ![i] = NoRow]
      /\ lateDelete' = (lateDelete \/ (i \in Active /\ ~adm[a].loaded.active))
      /\ UNCHANGED <<issued, overlapped>>

Apply(a) ==
  /\ adm[a].step = "write" /\ Goto(a, "done")
  /\ Insert(a) \/ Edit(a) \/ Switch(a) \/ Remove(a)
  /\ UNCHANGED <<plan, marker, task, checked>>

\* The key cannot be decrypted or encrypted, or the database fails.
Fail(a) == adm[a].step \notin {"begin", "done"} /\ Goto(a, "done") /\ Untouched

-----------------------------------------------------------------------------
(* AI tasks. *)

\* What a provider answers in each situation: an HTTP status (0: none came)
\* and the phrases its message holds.
Reply(c, s, words) == [cause |-> c, status |-> s, says |-> words]
Replies ==
  { Reply("minute", 429, {"PerMinute", "quota", "retry in"}), Reply("minute", 429, {"per minute", "retry in"}),
    Reply("minute", 429, {}),
    Reply("day", 429, {"PerDay", "quota", "retry in"}), Reply("day", 429, {"per day", "retry in"}),
    Reply("credits", 429, {"credits", "quota"}), Reply("credits", 400, {"credits"}),
    Reply("credits", 402, {"credits"}), Reply("quota", 429, {"quota"}),
    Reply("down", 500, {}), Reply("down", 503, {}), Reply("down", 0, {}),
    Reply("key", 400, {"invalid key"}), Reply("key", 401, {}), Reply("access", 403, {}),
    Reply("model", 404, {"no model"}), Reply("model", 400, {"no model"}), Reply("request", 400, {}),
    Reply("output", 200, {}), Reply("refused", 200, {}) }

\* The situations that pass by themselves while a task waits to be retried.
Passing == {"minute", "down"}

QuotaReason_MinuteFirst(r) ==
  IF r.says \cap {"PerMinute", "per minute", "retry in"} # {} THEN "RATE_LIMITED"
  ELSE IF r.says \cap {"PerDay", "per day"} # {} THEN "DAILY_LIMIT"
  ELSE IF "credits" \in r.says THEN "CREDITS_EXHAUSTED"
  ELSE IF "quota" \in r.says THEN "QUOTA_EXHAUSTED" ELSE None

QuotaReason(r) ==
  IF r.says \cap {"PerDay", "per day"} # {} THEN "DAILY_LIMIT"
  ELSE IF r.says \cap {"PerMinute", "per minute", "retry in"} # {} THEN "RATE_LIMITED"
  ELSE IF "credits" \in r.says THEN "CREDITS_EXHAUSTED"
  ELSE IF "quota" \in r.says THEN "QUOTA_EXHAUSTED" ELSE None

ReasonFor(r) ==
  IF "invalid key" \in r.says \/ r.status = 401 THEN "INVALID_KEY"
  ELSE IF QuotaReason(r) # None /\ r.status < 500 THEN QuotaReason(r)
  ELSE IF "no model" \in r.says \/ r.status = 404 THEN "MODEL_NOT_FOUND"
  ELSE IF r.status = 403 THEN "NO_ACCESS"
  ELSE IF r.status = 429 THEN "RATE_LIMITED"
  ELSE IF r.status = 0 \/ r.status >= 500 THEN "UNAVAILABLE" ELSE "BAD_REQUEST"

Permanent == {"INVALID_KEY", "NO_ACCESS", "MODEL_NOT_FOUND", "DAILY_LIMIT", "CREDITS_EXHAUSTED",
              "QUOTA_EXHAUSTED", "BAD_OUTPUT", "REFUSED", "BAD_REQUEST"}

\* An answer that came but cannot be used fails for good; the rest by its reason.
Retried(r) == r.status # 200 /\ ReasonFor(r) \notin Permanent

\* A task takes the active row, or Gemini of the environment when there is
\* none or its key cannot be read.
Resolve(t) ==
  /\ task[t].step \in {"queued", "retrying"} /\ task[t].tries < MaxTries
  /\ \/ \E i \in Active : task' = [task EXCEPT ![t].step = "calling", ![t].row = i, ![t].uses = Triple(configs[i])]
     \/ task' = [task EXCEPT ![t].step = "calling", ![t].row = 0, ![t].uses = None]
  /\ UNCHANGED <<plan, configs, issued, marker, adm, checked, overlapped, lateDelete>>

Call(t) ==
  /\ task[t].step = "calling"
  /\ \/ task' = [task EXCEPT ![t].step = "answered"]
     \/ \E r \in Replies :
          task' = [task EXCEPT ![t].step = IF Retried(r) THEN "retrying" ELSE "failed",
                               ![t].tries = @ + 1, ![t].cause = r.cause]
  /\ UNCHANGED <<plan, configs, issued, marker, adm, checked, overlapped, lateDelete>>

ProvidersNext ==
  \/ \E a \in Admins : Begin(a) \/ VerifyRemembered(a) \/ VerifyPasses(a) \/ VerifyFails(a)
                       \/ ReadCurrent(a) \/ Apply(a) \/ Fail(a)
  \/ \E t \in Tasks : Resolve(t) \/ Call(t)
  \/ MarkerExpires

ProvidersSpec == ProvidersInit /\ [][ProvidersNext]_providerVars

-----------------------------------------------------------------------------
(* Registering, activating and deleting at once: there is never more than    *)
(* one active provider, and once there is one there always is, except when a *)
(* row is deleted between its activation and the deletion's own check.        *)
ActiveKept ==
  [][ lateDelete' \/ Cardinality(Active') = 1 \/ (Active = {} /\ Active' = {}) ]_providerVars

(* No task calls a provider with a model and a key that never passed a check *)
(* together, whatever was edited, remembered or activated meanwhile; two     *)
(* overlapping edits of one row, one of the model and one of the key, are    *)
(* the exception.                                                             *)
TasksUseCheckedValues ==
  \A t \in Tasks : task[t].row # 0 => task[t].uses \in checked \/ task[t].row \in overlapped

(* A failed call is retried exactly when what made it fail passes by itself: *)
(* never a spent day, an empty account or a refused key, always an outage.   *)
RetriedIffItPasses ==
  \A t \in Tasks : /\ task[t].step = "retrying" => task[t].cause \in Passing
                   /\ task[t].step = "failed" => task[t].cause \notin Passing
=============================================================================
