-------------------------- MODULE CampaignFigures --------------------------
(***************************************************************************)
(* The figures campaigns are watched by: the funnel, the processing queue, *)
(* the dead letters, the flags of a list row, the stalled candidates, and  *)
(* the two daily sweeps that raise alerts from them.                       *)
(*                                                                         *)
(* Nothing is stored for a figure: each is a query over candidates, stage  *)
(* history, task log and dead-letter rows.  Most are written twice, for    *)
(* one campaign and for all campaigns at once.  The rows change here in    *)
(* the ways the queries tell apart; how they come to change is the subject *)
(* of CandidateStages, ScoringChain and CampaignLifecycle.                 *)
(***************************************************************************)
EXTENDS Integers, Sequences, FiniteSets, FiniteSetsExt

CONSTANTS
    Cands,       \* campaign_candidate ids
    CampaignIds,
    CampaignOf,  \* the campaign of each candidate
    ResumeOf,    \* the resume of each; two campaigns may share one
    Openings,    \* max_candidates of each campaign
    Sla,         \* [SCREENING, HM_REVIEW, INTERVIEW -> Nat]: the stall limits, in ticks
    StaleAfter,  \* STALE_CAMPAIGN_DAYS, in ticks
    Limits,      \* the thresholds: [dead, rate, fraud, advice, many -> Nat]
    MaxReplays,  \* MAX_DLQ_REPLAYS_PER_TASK
    MaxClock,    \* bound: ticks of the clock
    Mixes,       \* bound: what one behaviour mixes, [kinds: of write, present: candidates at
                 \* the start, steps: number of writes]
    NoValue

Table == INSTANCE AllowedTransitions

ASSUME FiguresAssumption ==
    /\ IsFiniteSet(Cands) /\ CampaignOf \in [Cands -> CampaignIds]
    /\ NoValue \notin Int /\ NoValue \notin Table!Stages
    /\ Openings \in [CampaignIds -> Nat \cup {NoValue}]
    /\ StaleAfter \in Nat /\ MaxReplays \in Nat
    /\ Limits.rate \in Nat /\ Limits.advice \in Nat /\ Limits.many \in Nat
    /\ \A m \in Mixes : m.present \subseteq Cands

VARIABLES
    status,   \* status of each campaign
    cc,       \* campaign_candidates rows; Unknown until added
    log,      \* celery_task_log rows of the candidates' tasks
    dlq,      \* dead_letter_queue rows, oldest first
    told,     \* stalled candidates of each campaign's latest STALLED_CANDIDATES_ALERT
    now,
    mix, steps

figureVars == <<status, cc, log, dlq, told, now, mix, steps>>

---------------------------------------------------------------------------
Types == {"AI_EVALUATE", "COMPOSITE_SCORE", "EMBED_RESUME"}
Replayable == {"AI_EVALUATE", "EMBED_RESUME"}   \* _DLQ_REPLAY_BUILDERS
\* A task's rows carry the candidate, or, when it works on a resume, only the resume.
OfResume(type) == type = "EMBED_RESUME"
Active == {"QUEUED", "RUNNING", "RETRY"}

\* touched: updated_at.  since: changed_at of the history row that led to the stage.
\* rejections: history rows of a deterministic rejection.  out: is one the current decision?
Unknown == [stage |-> NoValue]
New == [stage |-> "UPLOADED", prev |-> Table!None, touched |-> NoValue, since |-> now, added |-> now,
          rejections |-> 0, out |-> FALSE]

Present == {c \in Cands : cc[c] # Unknown}
OfCampaign(k) == {c \in Present : CampaignOf[c] = k}

FiguresInit ==
    /\ status = [k \in CampaignIds |-> "ACTIVE"]
    /\ now = 0
    /\ mix \in Mixes
    /\ cc = [c \in Cands |-> IF c \in mix.present THEN New ELSE Unknown]
    /\ log = <<>> /\ dlq = <<>>
    /\ told = [k \in CampaignIds |-> {}]
    /\ steps = 0

---------------------------------------------------------------------------
(* How the rows change. *)

Writes(kind) == kind \in mix.kinds /\ steps < mix.steps /\ steps' = steps + 1 /\ UNCHANGED mix

AddCandidate(c) ==
    /\ Writes("add") /\ cc[c] = Unknown
    /\ cc' = [cc EXCEPT ![c] = New]
    /\ UNCHANGED <<status, log, dlq, told, now>>

\* Every writer of a stage writes the history row; updated_at is the scoring tasks' to set.
Entered(r, to) == [r EXCEPT !.prev = r.stage, !.stage = to, !.since = now]

\* Deterministic scoring: into SCREENING, the score, perhaps the rejection.
Screened(c) ==
    /\ Writes("screen") /\ c \in Present
    /\ cc[c].stage \in {"UPLOADED", "SCREENING"}
    /\ LET r == IF cc[c].stage = "UPLOADED" THEN Entered(cc[c], "SCREENING") ELSE cc[c]
           scored == [r EXCEPT !.touched = now]
           rejected == [Entered(scored, "REJECTED") EXCEPT !.rejections = @ + 1, !.out = TRUE]
       IN  cc' \in {[cc EXCEPT ![c] = scored], [cc EXCEPT ![c] = rejected]}
    /\ UNCHANGED <<status, log, dlq, told, now>>

\* A recruiter's or hiring manager's move: dragging keeps the decision on the row, an
\* override or a batch decision takes its place.
MovedByHand(c) ==
    /\ Writes("move") /\ c \in Present
    /\ \E who \in {"RECRUITER", "HIRING_MANAGER"}, to \in Table!Stages :
          /\ Table!MayMove(who, cc[c].prev, cc[c].stage, to)
          /\ \E kept \in {cc[c].out, FALSE} : cc' = [cc EXCEPT ![c] = [Entered(@, to) EXCEPT !.out = kept]]
    /\ UNCHANGED <<status, log, dlq, told, now>>

Submit(c, type) ==
    /\ Writes("task") /\ c \in Present
    /\ \A i \in DOMAIN log : log[i].cand = c /\ log[i].type = type => log[i].status \notin Active
    /\ log' = Append(log, [cand |-> c, type |-> type, status |-> "QUEUED"])
    /\ UNCHANGED <<status, cc, dlq, told, now>>

StartTask(i) ==
    /\ Writes("task") /\ log[i].status \in {"QUEUED", "RETRY"}
    /\ log' = [log EXCEPT ![i].status = "RUNNING"]
    /\ UNCHANGED <<status, cc, dlq, told, now>>

\* The key of a chain: coalesce(campaign_candidate_id, resume_id).
Entity(row) == IF OfResume(row.type) THEN ResumeOf[row.cand] ELSE row.cand
SameChain(a, b) == a.type = b.type /\ Entity(a) = Entity(b)

\* resolve_open, in the transaction of mark_success.
Resolved(row) ==
    [i \in DOMAIN dlq |-> IF SameChain(dlq[i], row) THEN [dlq[i] EXCEPT !.resolved = TRUE] ELSE dlq[i]]

Finish(i) ==
    /\ Writes("task") /\ log[i].status = "RUNNING"
    /\ log' = [log EXCEPT ![i].status = "SUCCESS"]
    /\ dlq' = Resolved(log[i])
    /\ LET c == log[i].cand
           evaluated == [cc EXCEPT ![c].touched = now]
       IN  \/ log[i].type # "AI_EVALUATE" /\ UNCHANGED cc
           \/ log[i].type = "AI_EVALUATE" /\ cc' = evaluated
           \/ /\ log[i].type = "AI_EVALUATE" /\ cc[c].stage = "SCREENING"
              /\ cc' = [evaluated EXCEPT ![c] = Entered(@, "SHORTLISTED")]
    /\ UNCHANGED <<status, told, now>>

\* Retried, or dead-lettered.
FailTask(i) ==
    /\ Writes("task") /\ log[i].status = "RUNNING"
    /\ \/ log' = [log EXCEPT ![i].status = "RETRY"] /\ UNCHANGED dlq
       \/ /\ log' = [log EXCEPT ![i].status = "DEAD"]
          /\ dlq' = Append(dlq, [type |-> log[i].type, cand |-> log[i].cand,
                                 replayed |-> FALSE, resolved |-> FALSE])
    /\ UNCHANGED <<status, cc, told, now>>

\* suspend_queued_tasks and the resubmission; tasks without a candidate are not suspended.
Flip(k, from, to) ==
    [i \in DOMAIN log |->
        IF log[i].status = from /\ CampaignOf[log[i].cand] = k /\ ~OfResume(log[i].type)
        THEN [log[i] EXCEPT !.status = to] ELSE log[i]]

PauseOrResume(k) ==
    /\ Writes("pause")
    /\ IF status[k] = "ACTIVE"
       THEN status' = [status EXCEPT ![k] = "PAUSED"] /\ log' = Flip(k, "QUEUED", "PAUSED")
       ELSE status' = [status EXCEPT ![k] = "ACTIVE"] /\ log' = Flip(k, "PAUSED", "QUEUED")
    /\ UNCHANGED <<cc, dlq, told, now>>

Tick == "time" \in mix.kinds /\ now < MaxClock /\ now' = now + 1 /\ UNCHANGED <<status, cc, log, dlq, told, mix, steps>>

---------------------------------------------------------------------------
(* Dead letters. *)

\* By the candidate, or by the resume of any of the campaign's candidates.
Linked(k) ==
    {i \in DOMAIN dlq : IF OfResume(dlq[i].type)
                        THEN Entity(dlq[i]) \in {ResumeOf[c] : c \in OfCampaign(k)}
                        ELSE CampaignOf[dlq[i].cand] = k}

Chain(i) == {j \in DOMAIN dlq : SameChain(dlq[i], dlq[j])}
Replays(i) == Cardinality({j \in Chain(i) : dlq[j].replayed})

\* The newest attempt of each chain of these types.
Heads(k, types) ==
    LET rows == {i \in Linked(k) : dlq[i].type \in types}
    IN  {i \in rows : \A j \in rows : SameChain(dlq[i], dlq[j]) => j <= i}

OpenChains(k) == {i \in Heads(k, Types) : ~dlq[i].resolved}

\* What the dead-letter page says of a chain.
ChainStatus(i) ==
    IF dlq[i].resolved THEN "RESOLVED"
    ELSE IF dlq[i].replayed THEN "REPLAYING"
    ELSE IF Replays(i) >= MaxReplays THEN "LIMIT_REACHED" ELSE "OPEN"

DeadLetterPage(k, includeResolved) ==
    {[id |-> i, status |-> ChainStatus(i), history |-> Chain(i) \ {i}] :
        i \in {h \in Heads(k, Replayable) : includeResolved \/ ~dlq[h].resolved}}

\* An embedding that exists already leaves nothing to replay.  (The two other reasons to skip a
\* replay, a resume that is gone or has no parsed_json, do not occur here: rows are not deleted.)
Embedded(i) ==
    OfResume(dlq[i].type) /\ \E j \in DOMAIN log : SameChain(log[j], dlq[i]) /\ log[j].status = "SUCCESS"

\* Mutant: any dead letter of the campaign's can be replayed again
Accepted_Replayed(k, i) ==
    /\ i \in Linked(k)
    /\ ~dlq[i].resolved
    /\ dlq[i].type \in Replayable
    /\ ~Embedded(i)
    /\ Replays(i) < MaxReplays

\* replay_dead_letter_tasks: what is not skipped.
Accepted(k, i) ==
    /\ i \in Linked(k)
    /\ ~dlq[i].resolved
    /\ ~dlq[i].replayed
    /\ dlq[i].type \in Replayable
    /\ ~Embedded(i)
    /\ Replays(i) < MaxReplays

ReplayOne(k, i) ==
    /\ Writes("replay")
    /\ Accepted(k, i)
    /\ dlq' = [dlq EXCEPT ![i].replayed = TRUE]
    /\ log' = Append(log, [cand |-> dlq[i].cand, type |-> dlq[i].type, status |-> "QUEUED"])
    /\ UNCHANGED <<status, cc, told, now>>

\* reprocess_stalled_candidate: the candidate's rows never replayed; those resolved are
\* asked for too, and skipped.  Its effect is one ReplayOne after the other.
Reprocessable(c) == {i \in DOMAIN dlq : dlq[i].cand = c /\ ~OfResume(dlq[i].type) /\ ~dlq[i].replayed}
ReprocessRefused(c) == Reprocessable(c) = {}

---------------------------------------------------------------------------
(* Counts of one campaign, and the same for all campaigns with GROUP BY. *)

CountOf(k, rows) == Cardinality({c \in OfCampaign(k) : c \in rows})

\* A campaign without a row is not in the result.
Counts(rows) ==
    [k \in {CampaignOf[c] : c \in rows} |-> Cardinality({c \in rows : CampaignOf[c] = k})]
Lookup(f, k, default) == IF k \in DOMAIN f THEN f[k] ELSE default

InStage(s) == {c \in Present : cc[c].stage = s}
Shortlisted == InStage("SHORTLISTED")
Selected == InStage("SELECTED")
InReview == InStage("HM_REVIEW")
AwaitingDecision == InStage("INTERVIEW") \cup InStage("HM_REVIEW")
RejectedNow == {c \in Present : cc[c].out}

Overdue == {c \in InReview : cc[c].since <= now - Sla["HM_REVIEW"]}

IsPipelineStalled(k) ==
    OfCampaign(k) # {} /\ Max({cc[c].added : c \in OfCampaign(k)}) <= now - StaleAfter
PipelineStalledMap ==
    [k \in {CampaignOf[c] : c \in Present} |->
        \A c \in Present : CampaignOf[c] = k => cc[c].added <= now - StaleAfter]

StageCounts(k) == [s \in {cc[c].stage : c \in OfCampaign(k)} |-> CountOf(k, InStage(s))]
StageCountsBatch ==
    [k \in {CampaignOf[c] : c \in Present} |->
        [s \in {cc[c].stage : c \in OfCampaign(k)} |-> Counts(InStage(s))[k]]]

\* Only rows that carry a candidate belong to a campaign.
TasksOf(k) == {i \in DOMAIN log : ~OfResume(log[i].type) /\ CampaignOf[log[i].cand] = k}
TaskCounts(k) ==
    [s \in {log[i].status : i \in TasksOf(k)} |-> Cardinality({i \in TasksOf(k) : log[i].status = s})]
TaskCountsBatch ==
    LET rows == {i \in DOMAIN log : ~OfResume(log[i].type)}
        at(k) == {i \in rows : CampaignOf[log[i].cand] = k}
    IN  [k \in {CampaignOf[log[i].cand] : i \in rows} |->
            [s \in {log[i].status : i \in at(k)} |-> Cardinality({i \in at(k) : log[i].status = s})]]

NoCounts == [s \in {} |-> 0]

\* A rate is kept as the two numbers it is the quotient of.
Rate(part, whole) == [part |-> part, whole |-> whole]
Exceeds(rate, limit) == 100 * rate.part > limit * rate.whole
RejectionRate(k) == Rate(CountOf(k, RejectedNow), CountOf(k, Present))

\* Mutant: the share is taken of the rejected
RejectionRateBatch_OfRejected ==
    [k \in DOMAIN Counts(Present) |-> Rate(Lookup(Counts(RejectedNow), k, 0), Lookup(Counts(RejectedNow), k, 0))]

RejectionRateBatch ==
    [k \in DOMAIN Counts(Present) |-> Rate(Lookup(Counts(RejectedNow), k, 0), Counts(Present)[k])]

\* Time in SCREENING so far, added up over the candidates who are there, and their number.
TimeThere(rows) == [sum |-> SumFunction([c \in rows |-> now - cc[c].since]), n |-> Cardinality(rows)]
ScreeningTime(k) == TimeThere({c \in OfCampaign(k) : cc[c].stage = "SCREENING"})
ScreeningTimeBatch ==
    LET there == {c \in Present : cc[c].stage = "SCREENING"}
    IN  [k \in {CampaignOf[c] : c \in there} |-> TimeThere({c \in there : CampaignOf[c] = k})]

---------------------------------------------------------------------------
(* Stalled candidates: past the limit of their stage since updated_at.  NULL is before
   nothing. *)

PastLimit(r) ==
    /\ r.stage \in DOMAIN Sla
    /\ r.touched # NoValue
    /\ r.touched < now - Sla[r.stage]

Stalled(k) == {c \in OfCampaign(k) : PastLimit(cc[c])}

\* Mutant: the sweep measures every stage against the limit of SCREENING
StalledBatch_OneLimit(ks) ==
    LET rows == {c \in Present : /\ CampaignOf[c] \in ks /\ cc[c].stage \in DOMAIN Sla
                                 /\ cc[c].touched # NoValue /\ cc[c].touched < now - Sla["SCREENING"]}
    IN  [k \in {CampaignOf[c] : c \in rows} |-> {c \in rows : CampaignOf[c] = k}]

StalledBatch(ks) ==
    LET rows == {c \in Present : CampaignOf[c] \in ks /\ PastLimit(cc[c])}
    IN  [k \in {CampaignOf[c] : c \in rows} |-> {c \in rows : CampaignOf[c] = k}]

\* A dead task counts even after a later run of it succeeded.
HasDeadLetter(c) ==
    \/ \E i \in DOMAIN log : log[i].cand = c /\ log[i].status = "DEAD" /\ ~OfResume(log[i].type)
    \/ \E i \in DOMAIN dlq : dlq[i].cand = c /\ ~OfResume(dlq[i].type)

StallReason(c) ==
    CASE cc[c].stage = "SCREENING" -> IF HasDeadLetter(c) THEN "AI_EVALUATION_FAILED" ELSE "SCREENING_OVERDUE"
      [] cc[c].stage = "HM_REVIEW" -> "HM_REVIEW_OVERDUE"
      [] cc[c].stage = "INTERVIEW" -> "INTERVIEW_NOT_SCHEDULED"

StalledList(k) ==
    {[cand |-> c, stage |-> cc[c].stage, reason |-> StallReason(c), dead |-> HasDeadLetter(c)] : c \in Stalled(k)}

\* escalate_stalled_candidate leaves an audit entry only: the candidate stays in the list.
EscalationRefused(c) == cc[c].stage # "HM_REVIEW"

---------------------------------------------------------------------------
(* The sweeps: each is one transaction over the ACTIVE campaigns. *)

Watched == {k \in CampaignIds : status[k] = "ACTIVE"}

\* Mutant: a campaign's stalls are alerted of every day
StallAlerts_EveryDay(ks) == {k \in DOMAIN StalledBatch(ks) : StalledBatch(ks)[k] # {}}

\* detect_stalled_candidate_alerts: more of them than the latest alert told of.
StallAlerts(ks) ==
    {k \in DOMAIN StalledBatch(ks) : Cardinality(StalledBatch(ks)[k]) > Cardinality(told[k])}

StallSweep ==
    LET alerts == StallAlerts(Watched)
    IN  /\ Writes("sweep") /\ alerts # {}
        /\ told' = [k \in CampaignIds |-> IF k \in alerts THEN StalledBatch(Watched)[k] ELSE told[k]]
        /\ UNCHANGED <<status, cc, log, dlq, now>>

\* evaluate_campaign_health_alerts: only audit entries, the same ones again every day.
HealthAlerts ==
    {a \in Watched \X {"DEAD_TASK_COUNT_EXCEEDED", "DETERMINISTIC_REJECTION_RATE_EXCEEDED",
                       "SCREENING_SLA_EXCEEDED", "FRAUD_REVIEW_COUNT_EXCEEDED"} :
        LET k == a[1]
            tasks == Lookup(TaskCountsBatch, k, NoCounts)
            stages == Lookup(StageCountsBatch, k, NoCounts)
            screening == Lookup(ScreeningTimeBatch, k, [sum |-> 0, n |-> 0])
        IN  CASE a[2] = "DEAD_TASK_COUNT_EXCEEDED" -> Lookup(tasks, "DEAD", 0) > Limits.dead
              [] a[2] = "DETERMINISTIC_REJECTION_RATE_EXCEEDED" ->
                    Exceeds(Lookup(RejectionRateBatch, k, Rate(0, 0)), Limits.rate)
              [] a[2] = "SCREENING_SLA_EXCEEDED" -> screening.sum > screening.n * Sla["SCREENING"]
              [] a[2] = "FRAUD_REVIEW_COUNT_EXCEEDED" -> Lookup(stages, "FRAUD_REVIEW", 0) > Limits.fraud}

---------------------------------------------------------------------------
(* The screens. *)

Funnel == <<"UPLOADED", "SCREENING", "SHORTLISTED", "HM_REVIEW", "INTERVIEW", "SELECTED">>
Buckets == {"HOLD", "REJECTED", "FRAUD_REVIEW"}

\* get_pipeline_summary: the rate lost since the stage before, where anybody was.
PipelineSummary(k) ==
    LET at(s) == Lookup(StageCounts(k), s, 0)
    IN  [total |-> SumFunction(StageCounts(k)),
         funnel |-> [i \in DOMAIN Funnel |->
                        [n |-> at(Funnel[i]),
                         drop |-> IF i = 1 \/ at(Funnel[Max({1, i - 1})]) = 0 THEN NoValue
                                  ELSE Rate(at(Funnel[i - 1]) - at(Funnel[i]), at(Funnel[i - 1]))]],
         buckets |-> [s \in Buckets |-> at(s)]]

\* _estimate_completion over get_task_type_breakdown: a type nobody has completed yet has no
\* average to go by; breaker: is one of the monitored circuit breakers OPEN?
Remaining(k, t) == Cardinality({i \in TasksOf(k) : log[i].type = t /\ log[i].status \in Active})
Completed(k, t) == \E i \in TasksOf(k) : log[i].type = t /\ log[i].status = "SUCCESS"

Estimate(k, breaker) ==
    LET left == SumFunction([t \in Types |-> Remaining(k, t)])
    IN  [left |-> left,
         says |-> CASE left = 0 -> "UP_TO_DATE"
                    [] left > 0 /\ breaker -> "PAUSED"
                    [] left > 0 /\ ~breaker -> IF \E t \in Types : Remaining(k, t) > 0 /\ ~Completed(k, t)
                                               THEN "UNAVAILABLE" ELSE "MINUTES"]

ProcessingStatus(k, breaker) ==
    [tasks |-> [s \in Active \cup {"DEAD", "PAUSED"} |-> Lookup(TaskCounts(k), s, 0)],
     dlq |-> Cardinality(OpenChains(k)), estimate |-> Estimate(k, breaker)]

\* The annotations of a campaign's row in every list, from the batched counts.
ListRow(k) ==
    [candidates |-> Lookup(Counts(Present), k, 0),
     shortlisted |-> Lookup(Counts(Shortlisted), k, 0),
     approachingCap |-> Openings[k] # NoValue /\ 5 * Lookup(Counts(Selected), k, 0) >= 4 * Openings[k],
     overdueReview |-> Lookup(Counts(Overdue), k, 0) > 0,
     pipelineStalled |-> Lookup(PipelineStalledMap, k, FALSE)]

\* The same campaign on its own pages.
DetailPage(k) ==
    [candidates |-> CountOf(k, Present), selected |-> CountOf(k, Selected), openings |-> Openings[k]]

\* What the dialogs warn of.
ActiveTasks(k) == {i \in TasksOf(k) : log[i].status \in {"QUEUED", "RUNNING"}}
PauseImpact(k) == [candidates |-> CountOf(k, Present), queued |-> Cardinality(ActiveTasks(k))]
ResumeSummary(k) == [paused |-> Lookup(TaskCounts(k), "PAUSED", 0)]
ClosureImpact(k) == [candidates |-> CountOf(k, Present), stages |-> StageCounts(k),
                     running |-> Cardinality(ActiveTasks(k)), decisions |-> CountOf(k, AwaitingDecision)]
AllPositionsFilled(k) == Openings[k] # NoValue /\ CountOf(k, Selected) >= Openings[k]

\* Rejections as the analytics count them: every one there ever was; and the advice to review
\* the job description, once enough candidates are there.
Rejections(k) == SumFunction([c \in OfCampaign(k) |-> cc[c].rejections])
Advised(k) ==
    /\ CountOf(k, Present) > 0 /\ CountOf(k, Present) >= Limits.many
    /\ Exceeds(Rate(Rejections(k), CountOf(k, Present)), Limits.advice)

---------------------------------------------------------------------------
FiguresNext ==
    \/ \E c \in Cands : \/ AddCandidate(c) \/ Screened(c) \/ MovedByHand(c)
                        \/ \E t \in Types : Submit(c, t)
    \/ \E i \in DOMAIN log : StartTask(i) \/ Finish(i) \/ FailTask(i)
    \/ \E k \in CampaignIds : PauseOrResume(k) \/ \E i \in DOMAIN dlq : ReplayOne(k, i)
    \/ Tick \/ StallSweep

FiguresSpec == FiguresInit /\ [][FiguresNext]_figureVars

---------------------------------------------------------------------------
(* What one screen says of a campaign, the others and the sweeps say too, though their
   queries are written apart. *)
FiguresAgree ==
    \A k \in CampaignIds :
        /\ ListRow(k).candidates = DetailPage(k).candidates
        /\ PipelineSummary(k).total = DetailPage(k).candidates
        /\ ListRow(k).shortlisted = CountOf(k, Shortlisted)
        /\ ListRow(k).overdueReview => CountOf(k, InReview) > 0
        /\ ListRow(k).pipelineStalled = IsPipelineStalled(k)
        /\ AllPositionsFilled(k) => ListRow(k).approachingCap
        /\ Lookup(StalledBatch(CampaignIds), k, {}) = Stalled(k)
        /\ Lookup(StageCountsBatch, k, NoCounts) = StageCounts(k)
        /\ Lookup(TaskCountsBatch, k, NoCounts) = TaskCounts(k)
        /\ Lookup(ScreeningTimeBatch, k, [sum |-> 0, n |-> 0]) = ScreeningTime(k)
        /\ Lookup(RejectionRateBatch, k, Rate(0, 0)) = RejectionRate(k)
        /\ \A open \in BOOLEAN :
              LET p == ProcessingStatus(k, open)
              IN  /\ p.tasks["QUEUED"] + p.tasks["RUNNING"] + p.tasks["RETRY"] = p.estimate.left
                  /\ p.dlq >= Cardinality(DeadLetterPage(k, FALSE))
        /\ PauseImpact(k).queued = ClosureImpact(k).running
        /\ RejectionRate(k).part <= Rejections(k)
        /\ /\ <<k, "DETERMINISTIC_REJECTION_RATE_EXCEEDED">> \in HealthAlerts
           /\ Limits.advice <= Limits.rate /\ CountOf(k, Present) >= Limits.many
           => Advised(k)

(* What the dead-letter page calls open can be replayed, unless the resume has its embedding
   by another way, and nothing else of a chain's newest attempt can: the page and the replay
   keep the rules apart, over rows of several campaigns' candidates with one resume. *)
OpenIsReplayable ==
    \A k \in CampaignIds :
        \A e \in DeadLetterPage(k, TRUE) : Accepted(k, e.id) <=> (e.status = "OPEN" /\ ~Embedded(e.id))

(* The campaign's pages agree with each other, and with what a replay accepts. *)
FiguresAndPagesAgree == FiguresAgree /\ OpenIsReplayable

(* Nobody is alerted again of stalls they were told of: a further alert of a campaign tells of
   a candidate the one before did not. *)
AlertsTellSomethingNew ==
    [][\A k \in CampaignIds : told'[k] # told[k] => ~(told'[k] \subseteq told[k])]_told

(* A candidate is listed as stalled for sitting in one stage past its limit
   (CampaignRepository.get_stalled_candidates). *)
StalledSatThere ==
    \A k \in CampaignIds : \A c \in Stalled(k) : now - cc[c].since > Sla[cc[c].stage]
===========================================================================
