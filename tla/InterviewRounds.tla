--------------------------- MODULE InterviewRounds --------------------------
(* The interview rounds of one candidate and the mail about them:            *)
(* InterviewScheduleService (schedule, reschedule, cancel, complete, request *)
(* feedback), the cancellation a stage change cascades, the interviewers'    *)
(* feedback, the hourly feedback-request sweep, and the outbox of            *)
(* email_notifications rows with the Celery task that sends them.            *)
(*                                                                           *)
(* A request reads the round, calls the calendar and commits much later; it  *)
(* then checks which notices were queued already and queues the others.      *)
(* Load, Save, Check and Enqueue are those four points: between any two,     *)
(* other requests, the sweep and the mailer run.  SQLAlchemy writes only the *)
(* columns a request changed from what it had read (Write).                  *)
EXTENDS Integers, Sequences, FiniteSets, SequencesExt

CONSTANTS
  Clerks,     \* HR users, one request at a time each
  Beat,       \* the hourly sweep
  Times,      \* interview times; a round has ended when the clock is past it
  MaxTime, MaxRounds, MaxTries,
  Agendas     \* how many requests and faults of each kind a behaviour has, and
              \* which panels and times its requests name

ASSUME RoundsAssumption ==
  /\ Beat \notin Clerks
  /\ \A a \in Agendas : /\ {"panels", "times"} \subseteq DOMAIN a /\ a.times \subseteq Times
                        /\ \A p \in a.panels : IsFiniteSet(p)

VARIABLES
  now,       \* the clock
  rounds,    \* interview_schedules rows, by round number
  panel,     \* interview_interviewers rows
  feedback,  \* the panel rows with an interview_feedback row
  outbox,    \* email_notifications rows, in order of creation
  broker,    \* message ids waiting for the mailer, oldest first
  mailer,    \* the notification SES accepted and the row does not say so yet
  req,       \* what each clerk and the sweep are doing
  closed,    \* the candidate has left INTERVIEW
  budget     \* what is left of the scenario

roundsVars == <<now, rounds, panel, feedback, outbox, broker, mailer, req, closed, budget>>

Operations == {"schedule", "reschedule", "cancel", "complete", "request_feedback"}

Status == {"PENDING", "SCHEDULED", "RESCHEDULED", "COMPLETED", "CANCELLED"}

\* _ACTIVE_STATUSES; the sweep and request_feedback leave PENDING out.
ActiveStatuses == {"PENDING", "SCHEDULED", "RESCHEDULED"}

Booked == {"SCHEDULED", "RESCHEDULED"}

Notices == {"scheduled", "rescheduled", "cancelled", "invitation", "moved",
            "removed", "called_off", "feedback_requested"}

NoRequest == [op |-> "idle"]

Candidate == 0  \* the addressee of a notice that is not to a panel row

NoMail == 0

Use(kind) == budget[kind] > 0 /\ budget' = [budget EXCEPT ![kind] = @ - 1]

Ended(r) == rounds[r].start # 0 /\ rounds[r].start < now

\* get_active_interviewers
Active(r) == {i \in DOMAIN panel : panel[i].round = r /\ panel[i].active}

-----------------------------------------------------------------------------
(* The outbox                                                                *)

\* A FAILED notice counts as sent.
Notified_Failed(kind, r, to) ==
  \E m \in DOMAIN outbox :
    outbox[m].kind = kind /\ outbox[m].round = r /\ outbox[m].to = to

\* The notices of a kind to an addressee about a round that were queued or sent.
Notified(kind, r, to) ==
  \E m \in DOMAIN outbox :
    /\ outbox[m].kind = kind /\ outbox[m].round = r /\ outbox[m].to = to
    /\ outbox[m].status \in {"QUEUED", "SENT"}

\* The candidate's notice of what a request did, once per round and kind.
ToCandidate(kind, r) == IF Notified(kind, r, Candidate) THEN {} ELSE {<<kind, Candidate>>}

\* An invitation to the members without one; a moved round tells the others.
ToPanel(r, moved) ==
  LET invited == {i \in Active(r) : Notified("invitation", r, i)}
  IN {<<"invitation", i>> : i \in Active(r) \ invited}
     \cup (IF moved THEN {<<"moved", i>> : i \in {j \in invited : ~Notified("moved", r, j)}}
           ELSE {})

ToRemoved(r, removed) == {<<"removed", i>> : i \in {j \in removed : ~Notified("removed", r, j)}}

\* queue_pending_feedback_requests_for_round
ToAsk(r) ==
  {<<"feedback_requested", i>> :
     i \in {j \in Active(r) \ feedback : ~Notified("feedback_requested", r, j)}}

\* Rows created and committed one by one, each then published; the text is what the row says
\* now.  From the publish the broker refuses on, a row stays QUEUED with no message.
Enqueued(r, notices, sent) ==
  LET new == [k \in 1..Cardinality(notices) |->
                LET n == SetToSeq(notices)[k]
                IN [kind |-> n[1], round |-> r, to |-> n[2], start |-> rounds[r].start,
                    status |-> "QUEUED", tries |-> 0, sent |-> 0]]
  IN /\ outbox' = outbox \o new
     /\ broker' = broker \o [k \in 1..sent |-> Len(outbox) + k]

\* The status is not looked at before SES is called.
SendBegins_Blind ==
  /\ mailer = NoMail /\ broker # <<>>
  /\ mailer' = Head(broker)
  /\ outbox' = [outbox EXCEPT ![Head(broker)].sent = @ + 1]
  /\ UNCHANGED <<now, rounds, panel, feedback, broker, req, closed, budget>>

\* send_candidate_email_task: the notification at the head of the queue.
SendBegins ==
  /\ mailer = NoMail /\ broker # <<>>
  /\ LET m == Head(broker)
     IN IF outbox[m].status = "SENT"
        THEN broker' = Tail(broker) /\ UNCHANGED <<outbox, mailer>>
        ELSE /\ mailer' = m
             /\ outbox' = [outbox EXCEPT ![m].sent = @ + 1]
             /\ UNCHANGED broker
  /\ UNCHANGED <<now, rounds, panel, feedback, req, closed, budget>>

\* SENT is committed; the message is acknowledged when the task returns.
SendRecorded ==
  /\ mailer # NoMail
  /\ outbox' = [outbox EXCEPT ![mailer].status = "SENT"]
  /\ mailer' = NoMail
  /\ \/ broker' = Tail(broker) /\ UNCHANGED budget
     \/ Use("crash") /\ UNCHANGED broker
  /\ UNCHANGED <<now, rounds, panel, feedback, req, closed>>

\* SENT is committed, and then the log's mark_success fails: the error handler retries the
\* task or, at the last attempt, marks the notification FAILED after all.
SendUnlogged ==
  /\ mailer # NoMail /\ Use("unlogged")
  /\ mailer' = NoMail
  /\ \/ /\ outbox[mailer].tries + 1 < MaxTries
        /\ outbox' = [outbox EXCEPT ![mailer].tries = @ + 1, ![mailer].status = "SENT"]
        /\ broker' = Append(Tail(broker), mailer)
     \/ /\ outbox' = [outbox EXCEPT ![mailer].tries = @ + 1, ![mailer].status = "FAILED"]
        /\ broker' = Tail(broker)
  /\ UNCHANGED <<now, rounds, panel, feedback, req, closed>>

\* The worker dies between SES and the commit: the message is delivered again.
MailerCrashes ==
  /\ mailer # NoMail /\ Use("crash") /\ mailer' = NoMail
  /\ UNCHANGED <<now, rounds, panel, feedback, outbox, broker, req, closed>>

\* SES refuses: a transient error goes back to the queue until the attempts
\* are used up; a permanent one, or the last, dead-letters and fails the row.
SendFails ==
  /\ mailer = NoMail /\ broker # <<>> /\ Use("refuse")
  /\ LET m == Head(broker) IN
       /\ outbox[m].status # "SENT"
       /\ \/ /\ outbox[m].tries + 1 < MaxTries
             /\ outbox' = [outbox EXCEPT ![m].tries = @ + 1]
             /\ broker' = Append(Tail(broker), m)
          \/ /\ outbox' = [outbox EXCEPT ![m].tries = @ + 1, ![m].status = "FAILED"]
             /\ broker' = Tail(broker)
  /\ UNCHANGED <<now, rounds, panel, feedback, mailer, req, closed>>

-----------------------------------------------------------------------------
(* Requests                                                                  *)

Clocked == UNCHANGED <<now, feedback, mailer, closed>>

\* The round a request of each kind is about: schedule takes the latest one.
Target(op) == IF op = "schedule" THEN {Len(rounds)} ELSE DOMAIN rounds

\* The status checks at the top of each method.
MayReschedule(r) == rounds[r].status \in Booked \cup {"CANCELLED"}

MayCancel(r) == rounds[r].status # "CANCELLED"

MayComplete(r) == rounds[r].status \notin {"COMPLETED", "CANCELLED"} /\ Ended(r)

MayRequestFeedback(r) ==
  rounds[r].status \in Booked /\ rounds[r].start # 0 /\ rounds[r].start <= now

Accepts(op, r) ==
  CASE op = "schedule"         -> TRUE
    [] op = "reschedule"       -> MayReschedule(r)
    [] op = "cancel"           -> MayCancel(r)
    [] op = "complete"         -> MayComplete(r)
    [] op = "request_feedback" -> MayRequestFeedback(r)

Load(c) ==
  /\ req[c] = NoRequest
  /\ \E op \in Operations : Use(op) /\ \E r \in Target(op), t \in budget.times, p \in budget.panels :
       /\ Accepts(op, r)
       /\ req' = [req EXCEPT ![c] =
            [op |-> op, at |-> IF op = "request_feedback" THEN "check" ELSE "save",
             round |-> r, read |-> rounds[r], start |-> t, panel |-> p,
             event |-> FALSE, removed |-> {}]]
  /\ UNCHANGED <<rounds, panel, outbox, broker>> /\ Clocked

\* A column is written when it differs from what the request had read.
Write(read, new, row) == IF new = read THEN row ELSE new

\* Newcomers are not told from the members who stay.
Seat_Twice(r, p) ==
  LET kept == {i \in Active(r) : panel[i].who \in p}
      fresh == SetToSeq(p)
  IN [i \in DOMAIN panel |-> [panel[i] EXCEPT !.active =
                                IF i \in Active(r) THEN i \in kept ELSE @]]
     \o [k \in DOMAIN fresh |-> [round |-> r, who |-> fresh[k], active |-> TRUE]]

\* replace_interviewers: members are kept by name, the others switched off,
\* newcomers get a row of their own.
Seat(r, p) ==
  LET kept == {i \in Active(r) : panel[i].who \in p}
      fresh == SetToSeq(p \ {panel[i].who : i \in kept})
  IN [i \in DOMAIN panel |-> [panel[i] EXCEPT !.active =
                                IF i \in Active(r) THEN i \in kept ELSE @]]
     \o [k \in DOMAIN fresh |-> [round |-> r, who |-> fresh[k], active |-> TRUE]]

Dropped(r, p) == {i \in Active(r) : panel[i].who \notin p}

\* A request whose transaction is committed goes on to its notices.
Committed(c, r, event, removed) ==
  req' = [req EXCEPT ![c] = [@ EXCEPT !.at = "check", !.round = r,
                                      !.event = event, !.removed = removed]]

\* A blank round gets its first booking; filled counts them.
Booking(q, n) == [status |-> "SCHEDULED", start |-> q.start, filled |-> n]

\* The existing round is taken as this request's own.
SaveSchedule_Overwrite(c) ==
  LET q == req[c]
      r == IF q.read.status = "PENDING" THEN q.round ELSE q.round + 1
  IN /\ q.op = "schedule" /\ q.at = "save" /\ r <= MaxRounds
     /\ rounds' = IF r > Len(rounds)
                  THEN Append(rounds, Booking(q, 1))
                  ELSE [rounds EXCEPT ![r] = Booking(q, @.filled + 1)]
     /\ panel' = Seat(r, q.panel)
     /\ Committed(c, r, FALSE, Dropped(r, q.panel))
     /\ UNCHANGED <<outbox, broker, budget>> /\ Clocked

\* A PENDING round is filled in place; otherwise the next round is inserted,
\* and the loser of UNIQUE(campaign_candidate_id, round_number) changes nothing.
SaveSchedule(c) ==
  LET q == req[c]
      r == IF q.read.status = "PENDING" THEN q.round ELSE q.round + 1
  IN /\ q.op = "schedule" /\ q.at = "save" /\ r <= MaxRounds
     /\ IF r > q.round /\ r <= Len(rounds)
        THEN req' = [req EXCEPT ![c] = NoRequest] /\ UNCHANGED <<rounds, panel>>
        ELSE /\ rounds' = IF r > Len(rounds)
                          THEN Append(rounds, Booking(q, 1))
                          ELSE [rounds EXCEPT ![r] = Booking(q, @.filled + 1)]
             /\ panel' = Seat(r, q.panel)
             /\ Committed(c, r, FALSE, Dropped(r, q.panel))
     /\ UNCHANGED <<outbox, broker, budget>> /\ Clocked

\* An edit that keeps the time is quiet; reactivating a cancelled round is not.
SaveReschedule(c) ==
  LET q == req[c]   r == q.round
      event == q.read.status = "CANCELLED" \/ q.start # q.read.start
      status == IF event THEN "RESCHEDULED" ELSE q.read.status
  IN /\ q.op = "reschedule" /\ q.at = "save"
     /\ rounds' = [rounds EXCEPT ![r].status = Write(q.read.status, status, @),
                                 ![r].start = Write(q.read.start, q.start, @)]
     /\ panel' = Seat(r, q.panel)
     /\ Committed(c, r, event, Dropped(r, q.panel))
     /\ UNCHANGED <<outbox, broker, budget>> /\ Clocked

SaveCancel(c) ==
  /\ req[c].op = "cancel" /\ req[c].at = "save"
  /\ rounds' = [rounds EXCEPT ![req[c].round].status = "CANCELLED"]
  /\ Committed(c, req[c].round, FALSE, {})
  /\ UNCHANGED <<panel, outbox, broker, budget>> /\ Clocked

SaveComplete(c) ==
  /\ req[c].op = "complete" /\ req[c].at = "save"
  /\ rounds' = [rounds EXCEPT ![req[c].round].status = "COMPLETED"]
  /\ Committed(c, req[c].round, FALSE, {})
  /\ UNCHANGED <<panel, outbox, broker, budget>> /\ Clocked

\* The notices a committed request finds still to be queued.
Due(q) ==
  LET r == q.round IN
  CASE q.op = "schedule" -> ToCandidate("scheduled", r) \cup ToPanel(r, FALSE)
                            \cup ToRemoved(r, q.removed)
    [] q.op = "reschedule" -> (IF q.event THEN ToCandidate("rescheduled", r) ELSE {})
                              \cup ToPanel(r, q.event) \cup ToRemoved(r, q.removed)
    [] q.op = "cancel" -> ToCandidate("cancelled", r)
         \cup {<<"called_off", i>> : i \in {j \in Active(r) : ~Notified("called_off", r, j)}}
    [] OTHER -> ToAsk(r)

Check(c) ==
  /\ req[c] # NoRequest /\ req[c].at = "check"
  /\ req' = [req EXCEPT ![c] = [op |-> "notify", at |-> "enqueue", round |-> req[c].round,
                                notices |-> Due(req[c])]]
  /\ UNCHANGED <<rounds, panel, outbox, broker, budget>> /\ Clocked

Enqueue(c) ==
  /\ req[c] # NoRequest /\ req[c].at = "enqueue"
  /\ \E sent \in 0..Cardinality(req[c].notices) :
       /\ Enqueued(req[c].round, req[c].notices, sent)
       /\ IF sent = Cardinality(req[c].notices) THEN UNCHANGED budget ELSE Use("unsent")
  /\ req' = [req EXCEPT ![c] = NoRequest]
  /\ UNCHANGED <<rounds, panel>> /\ Clocked

-----------------------------------------------------------------------------
(* The sweep, the interviewers and the stage machine                         *)

\* get_ended_active_rounds, one round of it with someone left to ask.
Sweep ==
  \E r \in DOMAIN rounds :
    /\ req[Beat] = NoRequest
    /\ rounds[r].status \in Booked /\ Ended(r) /\ ToAsk(r) # {}
    /\ req' = [req EXCEPT ![Beat] = [op |-> "notify", at |-> "enqueue", round |-> r,
                                     notices |-> ToAsk(r)]]
    /\ UNCHANGED <<rounds, panel, outbox, broker, budget>> /\ Clocked

\* submit_feedback: a link works after the end, for a removed member too.
SubmitFeedback ==
  \E i \in DOMAIN panel \ feedback :
    /\ Ended(panel[i].round) /\ Use("feedback")
    /\ feedback' = feedback \cup {i}
    /\ UNCHANGED <<now, rounds, panel, outbox, broker, mailer, req, closed>>

\* cancel_active_rounds, in the transaction that takes the candidate out of
\* INTERVIEW.
Leave ==
  /\ ~closed /\ Use("leave") /\ closed' = TRUE
  /\ rounds' = [r \in DOMAIN rounds |->
                  IF rounds[r].status \in ActiveStatuses
                  THEN [rounds[r] EXCEPT !.status = "CANCELLED"] ELSE rounds[r]]
  /\ UNCHANGED <<now, panel, feedback, outbox, broker, mailer, req>>

Tick ==
  /\ now < MaxTime /\ now' = now + 1
  /\ UNCHANGED <<rounds, panel, feedback, outbox, broker, mailer, req, closed, budget>>

\* The candidate has just entered INTERVIEW: round 1 is PENDING.
RoundsInit ==
  /\ budget \in Agendas /\ now = 0 /\ closed = FALSE
  /\ rounds = <<[status |-> "PENDING", start |-> 0, filled |-> 0]>>
  /\ panel = <<>> /\ feedback = {} /\ outbox = <<>> /\ broker = <<>> /\ mailer = NoMail
  /\ req = [c \in Clerks \cup {Beat} |-> NoRequest]

Save(c) == SaveSchedule(c) \/ SaveReschedule(c) \/ SaveCancel(c) \/ SaveComplete(c)

Request(c) == Save(c) \/ Check(c) \/ Enqueue(c)

Mail == SendBegins \/ SendRecorded

RoundsNext ==
  \/ \E c \in Clerks : Load(c) \/ Save(c) \/ Check(c)
  \/ \E c \in Clerks \cup {Beat} : Enqueue(c)
  \/ Sweep \/ SubmitFeedback \/ Leave \/ Tick
  \/ Mail \/ SendUnlogged \/ MailerCrashes \/ SendFails

RoundsSpec == RoundsInit /\ [][RoundsNext]_roundsVars

\* Threads and workers keep running, and Beat keeps its schedule.
RoundsFairness ==
  /\ \A c \in Clerks : WF_roundsVars(Request(c))
  /\ WF_roundsVars(Enqueue(Beat)) /\ WF_roundsVars(Sweep) /\ WF_roundsVars(Mail)

RoundsFairSpec == RoundsSpec /\ RoundsFairness

-----------------------------------------------------------------------------

RoundsOK ==
  /\ Len(rounds) \in 1..MaxRounds
  /\ \A r \in DOMAIN rounds :
       rounds[r].status \in Status /\ rounds[r].start \in Times \cup {0}

OutboxOK ==
  \A m \in DOMAIN outbox :
    /\ outbox[m].kind \in Notices /\ outbox[m].round \in DOMAIN rounds
    /\ outbox[m].to = Candidate \/ panel[outbox[m].to].round = outbox[m].round
    /\ outbox[m].status \in {"QUEUED", "SENT", "FAILED"} /\ outbox[m].tries \in 0..MaxTries

\* Nobody sits twice on a round.
PanelOK ==
  \A i, j \in DOMAIN panel :
    panel[i].active /\ panel[j].active /\ panel[i].round = panel[j].round
      /\ panel[i].who = panel[j].who => i = j

\* The tables stay well formed: a notice is about the round its addressee sits
\* on, nobody sits twice on a round, and only a PENDING round, or one cancelled
\* before it was booked, has no time.
RoundsTypeOK ==
  /\ RoundsOK /\ OutboxOK /\ PanelOK
  /\ \A r \in DOMAIN rounds : rounds[r].start = 0 => rounds[r].status \in {"PENDING", "CANCELLED"}

\* However many "Schedule RoundsNext Round" calls race, one of them fills the next
\* round and the losers touch nothing (create_next_round's SAVEPOINT).
NextRoundFilledOnce == \A r \in DOMAIN rounds : r > 1 => rounds[r].filled = 1

\* A notification recorded as SENT is never handed to SES again, whatever is
\* redelivered (send_candidate_email_task's status check).
RecordedNeverResent ==
  [][ \A m \in DOMAIN outbox :
        outbox[m].status = "SENT" => outbox'[m].sent = outbox[m].sent ]_roundsVars

\* Every member of an ended, still booked round is asked for feedback or has
\* given it, through failures of the mail: the sweep queues a FAILED request
\* again (get_ended_active_rounds, queue_pending_feedback_requests_for_round).
Unasked(i) ==
  /\ i \in DOMAIN panel
  /\ LET r == panel[i].round
     IN rounds[r].status \in Booked /\ Ended(r) /\ i \in Active(r) \ feedback
  /\ ~\E m \in DOMAIN outbox : outbox[m].kind = "feedback_requested"
                               /\ outbox[m].to = i /\ outbox[m].status = "SENT"

EndedIsAsked == \A i \in 1..2 : Unasked(i) ~> ~Unasked(i)

\* Once every request and every mail is done, the last notice the candidate
\* got about a booked round tells its time: "each round's
\* schedule/reschedule/cancel is its own notification-worthy event"
\* (candidate_notification_emails.py).
CandidateToldLatest ==
  (\A c \in DOMAIN req : req[c] = NoRequest) /\ broker = <<>> =>
    \A r \in DOMAIN rounds : rounds[r].status \in Booked =>
      \E m \in DOMAIN outbox :
        /\ outbox[m].round = r /\ outbox[m].to = Candidate
        /\ outbox[m].start = rounds[r].start
        /\ outbox[m].status = "SENT"
        /\ \A n \in DOMAIN outbox : n > m =>
             ~(outbox[n].round = r /\ outbox[n].to = Candidate)
=============================================================================
