# A TLA+ verification project for the AI hiring platform

The platform takes job descriptions and resumes, parses them with an LLM, scores candidates in four
layers, moves them through a recruitment pipeline and keeps a talent pool. It is a FastAPI service,
Celery workers on a Redis broker, Celery Beat and a Postgres database; `app/` below means `src/app/`.

Contents: [1 system](#1-the-system), [2 reading the models](#2-how-to-read-the-models),
[3 modules](#3-the-modules), [4 runs](#4-the-runs), [5 proofs](#5-the-proofs),
[6 findings](#6-findings-and-observations), [7 not modelled](#7-not-modelled-and-why),
[8 what is left](#8-what-is-left).

## 1. The system

Three kinds of process share the database and the broker:

* **API processes** serve requests. A request is a short sequence of commits, usually ended by one
  `apply_async`. Nothing makes the last commit and the publish one step.
* **Celery workers** run tasks. `task_acks_late` and Redis' `visibility_timeout` (300 s,
  `app/core/celery_app.py`) make delivery at-least-once: a worker's death returns the message, and a
  run longer than the timeout is delivered again while it is still executing.
* **Beat and the start-up hook** run periodic scans that look for work that was lost, campaigns that
  expired, interviews that ended and candidates that stall.

Postgres transactions (READ COMMITTED) are the unit of atomicity. There are few row locks: what
protects the data are unique indexes, a few compare-and-set updates and idempotency keys, and, for
candidate stages, `SELECT ... FOR UPDATE` of a candidate or of its campaign. SQLAlchemy writes only
the columns that differ from the object a session loaded, and a second read of a loaded row returns
the old object.

### 1.1 Inventory

| Component | State | Operations | Hard behaviour | Module |
|---|---|---|---|---|
| Resume task, retry driver, dead letters | `celery_task_log`, `resumes.parse_status`, `candidate_skills`, `dead_letter_queue` | upload, run, retry, dead-letter, manual retry, replay, two sweeps | redelivery, crash between commits, publish refused, sweeps racing | `ResumeTask` |
| Bulk ZIP upload | job counters and status, file rows | upload, extract, parse a file, cancel, replay | counters of concurrent tasks, completion found by the last one | `BulkUpload` |
| Task screens, stage log, purge | stage rows, failure log, checkpoint, dead letter | bookkeeping of stages, four screens, manual purge | rows of several commits read without a transaction | `StageProgress` |
| Resume intake | candidates, resume versions, campaign links, pool vectors | upload with duplicate answers, pool addition, erasure, daily validation | check-then-act on hash, e-mail and version; erasure against running work | `ResumeIntake` |
| JD pipeline | `job_descriptions` versions, checkpoints | submit, edit, close, process, retry, attach to a campaign | redelivery after persistence, two updates of one version | `JdPipeline`, `JdVersions` |
| Scoring chain | scores, task rows, idempotency keys | four layer tasks, triggers, recovery scan, override, rescore | a trigger lost between commit and publish, two runs of a layer | `ScoringChain` |
| Screening rules | none (pure) | match skills, experience, education, capabilities; blend | renormalised weights, tiers, rounding | `ScreeningRules` |
| Candidate stages | stage, previous stage, decision columns, rounds, campaign status | transition, drag, bulk move, override, flag, revert, verdicts | two engines, stale objects, late verdicts, counts under the campaign lock | `AllowedTransitions`, `CandidateStages` |
| Candidate reports | none (queries over rows and history) | scorecard, ranked list, board, timeline, export | one row holds one decision; pages and exports while writers commit | `CandidateReports` |
| Campaign lifecycle | campaign row, weight history, paused tasks | edits, reset, pause, resume, close, reopen, deadline sweep, dead-letter replay | two edits, messages left in the broker by a pause | `CampaignLifecycle` |
| Campaign figures | none (queries), the last alert | funnel, queue, dead-letter page, stall and health alerts | each figure is written twice | `CampaignFigures` |
| Campaign lists, presets, defaults | preset rows, default weights, cached views | edit, list, cached pages, audit | an edit must name every view it changes | `CampaignLists` |
| Interviews and mail | rounds, panels, feedback, outbox | schedule, reschedule, cancel, complete, feedback, hourly sweep, send | calendar call between read and commit, send before commit | `InterviewRounds` |
| Talent pool | resumes, vectors, memberships | two searches, filters, profile, selection, pages | several queries that must agree on who is eligible | `PoolSearch` |
| Skills | unknown skills, occurrences, hierarchy | map, promote, create, dismiss; re-parent, deactivate, import | two administrators on one document; checks without locks | `SkillCuration`, `SkillHierarchy` |
| AI providers | one row per provider, verified markers | check, register, edit, activate, delete, resolve | what was checked is not what is stored | `AiProviders` |
| Embedding breaker | one breaker row, embedding tasks | call, count, trip, cool down, probe | copies of the row held over the call | `EmbeddingBreaker` |
| Cache | Redis entries, locks, tombstones | read through, invalidate | a slow loader after an invalidation | `CachedViews` |
| WebSocket | channel listener, clients | connect, snapshot, publish, reset, drop | Pub/Sub keeps no backlog | `LiveChannels` |
| Prompt templates | templates, the columns that name one | create, edit, delete, choose, use | chosen now, used later by another task | `PromptTemplates` |

### 1.2 How the parts interact

An upload commits the resume, the candidate and the campaign candidate, then the task row, then
publishes `process_resume_document`. The worker parses, persists, closes its row, moves the
candidates of the resume to SCREENING and queues embedding and deterministic scoring; each scoring
layer queues the next. Verdicts move candidates through the table of allowed transitions; entering
INTERVIEW makes a round, and the last selection closes the campaign. Dead letters and the sweeps feed
tasks back into the broker. Every commit that changes a cached view drops it, and publishes an event.
Skill curation queues a re-scoring of the resumes it touches.

## 2. How to read the models

One step is the code between two commits, broker calls or calls of an outside service; a request
that reads and later commits has a step for each. Messages are sets or bags: the broker may reorder.
A crash leaves what was committed and returns the message. Guards are the code's conditions and early
returns; a failure the code handles is a disjunct. Data is abstracted to what the properties tell
apart: a document is its hash, a skill a model value, a score one of two or three.

`X_Y` just before a definition `X` is a plausible bug in `X` (a dropped guard, a missing reset, a
swapped order). It is used by nothing: each property is known to be violated when `X` is replaced by
its variant, and `PROJECT.json` says which.

The MC modules give the constants their values. Components that share no row both write are placed
side by side in one run: a variable `area`, chosen at the start, says which of them the behaviour is
about, and the others stay in one fixed state. This adds state spaces instead of multiplying them and
hides no interaction: where components do interact (a resume task and its scoring row, a stage change
and its round, an erasure and the pool), one module holds both.

## 3. The modules

### 3.1 `ResumeTask`

One resume, the set `Requests` of API calls that concern it (an upload, manual retries, dead-letter
replays), `Workers` and `Scanners` (a Beat tick, the start-up hook, another app instance). A request
mints one `uuid4` task id, so the model uses the request itself as the task id.

| Variable | In the code |
|---|---|
| `log` | `celery_task_log`, one row per task id: status, `dispatch_failed`, `started_at` against the 15-minute cutoff, `completed_at`, `resume_id` |
| `resume` | `resumes.parse_status`, `resumes.task_id` |
| `skills` | `candidate_skills`: whether a matched row exists (unique index), how many unmatched rows (no index) |
| `dlq` | `dead_letter_queue` rows of the resume |
| `cand` | the campaign candidate: SCREENING reached, the DETERMINISTIC_SCORE row, the messages sent for it |
| `msgs` | every message ever published: queued, delivered to a worker, orphaned by a dead worker, lost, done |
| `run`, `req`, `scan` | where each worker, request and sweep is between two commits |
| `faults` | faults spent, each kind bounded by `MaxFaults` |

`UploadStore ... UploadDispatch` are `upload_resume`; `RetryRead/RetryCommit` and
`ReplayRead/ReplayCommit` keep the read and the commit of `retry_parse` and `replay_from_dlq` apart;
`CreateLog ... DispatchScoring` are `process_resume_document`; `DeadLetter ... MarkFailure` are
`RetryDriver` and the two `except` branches; `ScanQueued ... ScanEnds` are the two sweeps.

A task is dispatched for the first time once (`OneFirstDispatch`, proved); a task that ended in
FAILURE leaves no PENDING resume behind, unless the database failed under the error handler
(`NoSilentFailure`, proved); crashes of workers and sweeps, redeliveries and retries by hand never
strand a resume at PENDING, it takes a refused publish, a failing database, a lost broker entry or a
request that dies before its publish (`CrashesNeverStrand`, proved); a resume is eventually decided (`EventuallyDecided`). Proved and no
longer run on their own: `FlagMeansUnsent`, `ScoringOnce`, `RetryBudget`.

### 3.2 `BulkUpload`

One ZIP upload of a campaign, `Workers` that parse, and `Clerks` that cancel the job or replay
dead-lettered files. `Content` and `Person` say which entries are byte-identical and which belong to
one person; `Prior` and `Members` what was there before.

| Variable | In the code |
|---|---|
| `job` | the `bulk_upload_jobs` row: status, total and the three counters |
| `file` | `bulk_upload_job_files`: status, how often replayed (a new task id each time), whether the staged object still exists |
| `resumes`, `members`, `scored` | `resumes` rows this upload created; campaign candidates; resumes whose embedding and scoring were queued |
| `dead`, `queue` | dead letters per task id; parse messages in the broker (a multiset) |
| `open` | the campaign is ACTIVE |
| `run`, `ext`, `req` | where each worker, the extraction and each request is between two commits |
| `faults` | what has happened, each kind bounded by `MaxFaults` |

A worker's run goes through the claim (`try_start_processing`, which accepts RUNNING so that a
redelivery can go on), the duplicate check, the resume row, the two parsing stages, the commit that
settles the file together with its counter, the finaliser, and the follow-up.

Its counters are exact only while runs of a file exclude each other, which the code does not
enforce: `Exclusive` says when they do (no slow redelivery; no crash together with a retry or a
replay), and `CountersExact`, `OneRunPerFile` state their promise under it; `ClosedMeansResolved`
says that a job closed as COMPLETED or PARTIAL_FAILURE has no file left to work on. The finaliser
trusts the counters, so this too needs `Exclusive`, no failed commit (a file may be counted again)
and no replay. All three are proved. `JobSettles` is checked without crashes: a job that loses its
finaliser stays PROCESSING, the gap `docs/resume_intake_implementation_log.md:440` documents.

### 3.3 `StageProgress`

The trail one JD or resume task leaves: `log` (status, retries), `rows`
(`document_processing_stage_executions`, one per stage and attempt), `failures`
(`stage_failure_logs`), `checkpoint`, `dead`, `file`, and the worker's `run`, a Retry's `press`, the
broker's `queue`, and `seen`, the log as a screen read it before it reads the rest. `StartStage ...`
are the commits of `StageExecutionService` and `RetryDriver`; `FindDuplicate`, `SkipRest` (one commit
for each stage) and `DropUpload` the end of a duplicate JD; `Purge` is
`DeadLetterCleanupService`; the screens (status view, timeline, failure box, history list) are
operators over the rows.

`ScreensTellTheRun` joins four statements: the attempts left that a screen shows at a failed stage
are what the driver acts on (`BudgetIsTheDrivers`); a resume's timeline is of the attempt that is
running (`TimelineIsTheRun`); the failure box names the failure that ended the run
(`FailureIsTheLast`); and a screen that says SUCCESS shows every stage as done, although it read the
log before the stages (`SuccessShowsEveryStage`). It is proved. `upset` exempts a death after the fate
of an attempt was known and before the ack, and a purge of a task that had not failed. One worker consumes the messages one after the
other; two concurrent runs are `JdPipeline`'s and `ResumeTask`'s subject. Run `purge` shows that a
purge may delete the file of a live JD.

### 3.4 `ResumeIntake`

How a resume comes in and what becomes of its candidate: individual upload with its duplicate answers
(`none`, `use_existing`, `upload_anyway`), addition from the talent pool, erasure and its request,
fraud review, the daily eligibility job. `cand`, `resumes`, `members`, `log`, `vector` are the tables;
`broker`, `embeds`, `embedKey` the messages and their key; `check` what the daily job decided and has
not yet written; `raced` the persons two uploads gave a version at the same time; `ask` and `sess`
the requests. Parsing and embedding are one step each (`ResumeTask` and `EmbeddingBreaker` have the
detail).

`VersionsExact` (proved): a person's one active version is the latest, and no two have one number,
except for `raced` persons. `UploadedIsScored`: an application whose upload was answered comes to be scored or
its resume given up, also when the broker refused the message. `PoolFollowsStanding`: in the end
every vector is in the pool or out of it as its owner's standing says, whatever raced with the daily
job. `OneMembership` (beside the runs): nobody is in a campaign twice.

### 3.5 `JdPipeline` and `JdVersions`

`JdVersions` is the abstract store of JD versions: a version is published, supersedes its parent when
no other version of the lineage is live, or is closed. `JdPipeline` is the code: the routes
(`Submit`, `Upload`, text edit, reprocess, close, retry, attach), the task with its checkpoint, retry
driver and dead letters, `EMBED_JD`, and campaign creation, each request split into read and commit.
`OneLiveVersion == Versions!Spec` is the refinement: `INSTANCE JdVersions` maps `made` to the root and
parent of every row and `live` to the active ones, and every step of the pipeline, redeliveries and
lost races included, is a step of the store or a stutter. `EverySubmissionDecided`: a submission
that reached the broker ends in SUCCESS or FAILURE. `LiveVersionEmbedded` (beside the runs): a live version
comes to be embedded, unless its embedding was refused or given up.

### 3.6 `ScoringChain`

One campaign candidate: `cand` (stage, layer results, AI row, composite with the inputs it was
computed from), `task` (one entry per task id), `key` (who holds the permanent idempotency key of
EMBED and SEM), `dead`, `lost`, `queue`, `run`, and `env`, what the chain reads (campaign, embeddings,
weights, the true verdicts). Each enqueue is check, commit, publish; each layer run is start, long
computation, verdict, mark. The clerk is HR (override, rescore, weights, resubmission) and the Beat
scan.

`LiveRowIsBacked`: a QUEUED, RUNNING or RETRY row has a message, a worker or a sender about to
publish it, except for rows whose publish was lost. `VerdictNeedsPass`: the LLM's verdict is only stored for a candidate whose earlier layers
passed, whoever queued the task. `EverySemanticRuns`: whoever passed the deterministic layer is
scored semantically or handed to manual review, even when an embedding came late, between the task
that found none and the embedding task that looked for passed candidates.

### 3.7 `ScreeningRules`

`CandidateScoringService` and its two helpers as pure operators: skill tiers (exact, alias, child,
sibling, nearest by embedding), core and supporting coverage, experience and education gates,
capability coverage, the blend over the components that apply, and the rejection reason. Scores are
in hundredths of a percent and rounded half up, weights and tiers in tenths. The module walks through
resumes, adding one thing at a time; `GainNeverFails` says that, where the resume had the
datum before, more years, another degree or a better sentence never lower the score or turn a pass
into a rejection. (A datum that was missing before may: it makes a component applicable.) `match_education` is dead code and left out.

### 3.8 `AllowedTransitions` and `CandidateStages`

`AllowedTransitions` is the seeded table (`seeds/seed_allowed_transitions.py`) and its lookup: the
exact `previous_stage` row first, the wildcard row otherwise.

`CandidateStages` is everything that writes `pipeline_stage` in one campaign. Each request and each
task runs on a database session, and the model keeps what makes sessions hard:

| Variable | In the code |
|---|---|
| `row` | committed `campaign_candidates` rows: stage, previous stage, decision and its source, what an HR override replaced, `deterministic_passed`, the semantic pass |
| `round` | whether the candidate has an interview round, and whether one is active |
| `status` | the campaign: ACTIVE or CLOSED (PAUSED is treated as ACTIVE by these paths) |
| `tasks` | scoring messages per candidate |
| `sess[s].seen` | the rows the session loaded: SQLAlchemy's identity map |
| `sess[s].next` | rows it flushed and therefore has locked, not yet committed |
| `sess[s].camp` | its lock on the campaign row, and whether it set CLOSED |

`Merge` is the flush: only columns that differ from the loaded object are written. `LockedCandidate`
is `get_by_id_for_update`: the row is locked, but the object the session loaded before is returned
without a refresh. `Transition`, `Drag`, `BulkMove`, `Resubmit`, `Override`, `Flag`, `HrOverride`
and `Revert` load and check; `Write`, `Count` and `Commit` flush, count the openings under the
campaign lock and commit with the round hooks; `Abandon` is a refusal, an error, a deadlock victim or
a crash. A scoring task is two steps, taking the message with the row it loads and judging the row it
refreshes under the lock, because minutes of LLM time lie between them. Whether the next layer is
dispatched and which verdict a layer gives are free choices (`ScoringChain` decides them).

`InterviewHasRound`, `FilledCloses` and `VerdictFollowsTable` are checked and proved.

### 3.9 `CandidateReports`

What scorecard, ranked list, board, timeline, filters, rejection history and export say. `cc` are the
rows, `history` the stage-history rows: a set, as every row carries the start of its transaction, no two
are equal, and no query knows which was committed first. `tx` are the writers' open transactions,
`reader` the client paging or exporting. Writers are those of `CandidateStages` without their sessions.
`ReportsAgree` (proved, section 5) joins: a reason a scorecard shows as the deterministic rejection's is
that of one the candidate really had (`BannerNamesARejection`); an undisturbed walk through the pages
shows everyone once, in the order of the export (`PagesTellOneOrder`); summary, board, rejection figures
and lists, computed apart, count the same people (`ScreensAgree`).

### 3.10 `CampaignLifecycle`

The campaign row, the JD it needs, weight history, selections, and for each background task its
latest row, messages, runs and dead letters. Administrators' edits are read, validate, lock, commit
(`Begin`, `Proceed`); pause flips rows to PAUSED and leaves messages in the broker; resume publishes
and then writes; close fails jobs; the deadline sweep closes. `WeightHistoryIsChain`: each history
entry starts from the weights the previous one left (a reset, which loads before it locks, is
exempt); it is proved. `QueuedTaskDecided`: a task whose row says QUEUED, with a message or a committed
first dispatch, comes to a score, a failure or a run that found the campaign closed, unless a pause or a
close takes it out of the queue. A resume is where that could fail: it publishes before it writes the row,
and the worker may read PAUSED. Tasks that stay PAUSED or DEAD are claimed nothing of (section 6.1 says
what becomes of them), nor is the row a task leaves behind (6.2).

### 3.11 `CampaignFigures` and `CampaignLists`

`CampaignFigures`: status of campaigns, candidates, task log, dead letters, the last alert; the
figures are operators over them, one for a single campaign and one for all with GROUP BY, as in the
code. `FiguresAndPagesAgree`: both forms are equal, alerts imply the thresholds of the pages, and the
dead letters shown OPEN are those a replay accepts, except that a replay also skips a resume that is
embedded already. `AlertsTellSomethingNew` (`BackOffice_extra`): a further alert tells of a new stall.

`CampaignLists`: campaigns, presets, defaults, audit, `cache`, and edits split into reading and
validating (`Review`), the commit and the invalidation. `ListsAreCurrent` (proved): a manager is served
no campaign that never was his; a cached view is what the rows say once no invalidation is pending
and no worker died before one; and the last audit entry of a preset tells what the row is.

### 3.12 `InterviewRounds`

`rounds`, `panel`, `feedback` (the tables), `outbox` and `broker` (notices), `mailer` (SES accepted
and the row does not say so yet), `req`. `Load, Save, Check, Enqueue` are a request's four points;
`Sweep` the hourly job; `Mail...` the mail task. The calendar may refuse (external).
`NextRoundFilledOnce`: however many "Schedule Next Round" calls race, one fills the next round.
`RecordedNeverResent`: a notice recorded as SENT is never sent again, although the mail task may fail after
that commit, while closing its own log row, and be retried (`SendUnlogged`). Both are proved. A publish
may be refused (`Enqueued`): the row then stays QUEUED with no message. `EndedIsAsked` (beside the runs): the
panel of every ended round is asked for feedback.

### 3.13 `PoolSearch`

People, resume versions with their facts and vectors, memberships, clock, active embedding model, and
one reader walking the pages of a search while uploads, parsing, embedding, model switches, erasures,
the daily job, additions and assessments go on. `options` is the copy of the filter options in Redis: a
request that finds none computes and stores one (`FillOptions`), no write drops it, and it goes when its hour
is over (`ExpireOptions`). `QueriesAgree`: the search that leaves out a campaign's
members finds exactly whom the selection would add (`OfferedCanBeAdded`); for every listed person
whose version was parsed when the copy was loaded, the served options, however old, hold those that list the
person again (`OptionsLeadBack`; who was parsed since may have none until the copy expires); a campaign's own filters and
the pool's agree (`FiltersAgree`). `WalkIsExplained`: a walk to the last page skips somebody who
stayed only if somebody left meanwhile, and shows somebody twice only if somebody came. Both are proved.

### 3.14 `SkillCuration` and `SkillHierarchy`

`SkillCuration`: unknown skills (`row`), occurrences (`link`), canonical skills of documents, verified
JDs, catalog cache, and administrators' requests as read, write, announce, interleaved with documents
being persisted. `UnknownSkillsAccounted`: a VERIFIED JD has no pending occurrence, and every
raw skill of a stored document is pending, has become a skill of the document or was deleted by an
administrator; `late` exempts what was stored while a resolution was under way (section 6). `ChangedSkillsRescored` (`BackOffice_extra`): changed skills
are scored again. `SkillHierarchy`: parents and activity, edits validated and committed in two steps.
`ForestUnlessBypassed` (proved): the parents form a forest, unless two edits overlapped or an import
bypassed the check.

### 3.15 `EmbeddingBreaker`

The EMBED_RESUME tasks and the one breaker row they share. Each worker keeps its own `copy` over the
call of the service; an UPDATE writes only differing columns; HALF_OPEN and the first INSERT stay
uncommitted during the call (`holder`). `FailuresTrip`: as many counted failures since the last
success as the row's threshold have opened the breaker, unless the row changed under a count.
`CooldownServed`: an opened breaker stays open for its whole cooldown; only a probe that found an
earlier cooldown over may close it. `TasksEndInBudget` has two halves.

*Calls.* A delivery that gets a vector from the service asks for it twice: once under the breaker's eyes (`embedding_tasks.py:296`, `trace.calls`) and, when that worked, once
more for the vector that is stored (347-348, `trace.seconds`). The first kind stays within
MAX_EMBED_RETRY_COUNT, the second, whose failures are counted with all other errors, within the task's
`max_attempts`, each with one more for each worker that died: with the seeds, and no death, at most
seven calls.

*Whole.* A task at rest has its vector (unless its resume is gone), or its dead letter and manual
review, whichever of the commits a worker died after; exceptions are a retry the broker refused, whose row
says RETRY with no message behind it, and a dead letter that could not be saved (`trace.lost`, `trace.bare`;
a mishap is a death, a refusal or a lost letter). `EveryEmbedDecided`: every task comes to
rest although an open breaker sends it back.

### 3.16 `CachedViews`, `LiveChannels`, `AiProviders`, `PromptTemplates`

`CachedViews`: one view whose content is the number of the last commit it shows; readers miss, take
the lock, load, check the tombstone, set; writers commit, delete, write the tombstone; Redis may be
down. `StaleOutranInvalidation`: an entry older than a completed invalidation was checked before that
invalidation's tombstone existed and stored after its deletion had begun; every other stale value is
kept out. `LiveChannels`: one channel of one API process.
`NothingSlipsBy`: a client whose snapshot was read under a live subscription has, or will be
relayed, every event since the last reset. `EveryoneIsServed` (`Platform_extra`): a joined client is served. `AiProviders`: `TasksUseCheckedValues`:
no AI task uses a model and a key that never passed a check together, except after two overlapping
edits of one row; `ActiveKept` and `RetriedIffItPasses` are in `Platform_extra`. `PromptTemplates`: `ServedFits`: a task is given a prompt of the type it asks for, and AI
evaluation only an active one.

## 4. The runs

Run a configuration with `tlc -workers 2 -config <cfg> <module>`.

| Run | Module, configuration | Question | Instance |
|---|---|---|---|
| `resume_safety` | `MCResumeTask`, `ResumeTask_safety` | safety of one resume's processing | 2 requests, 2 workers, 2 sweeps, four fault mixes |
| `bulk_safety` | `MCBulkUpload`, `BulkUpload_safety` | counters, claims, closing | 2 files, 2 workers, 2 clerks, three mixes |
| `scoring_chain` | `MCScoringChain`, `ScoringChain_safety` | live rows, verdict order, nobody forgotten; screening rules | 2 workers, 1 clerk, 6 task ids, ten scenarios; 5 JDs, resumes of 2 skills and 2 degrees |
| `pipeline` | `MCPipeline`, `Pipeline_safety` | rounds, closing, late verdicts; what the screens say | 2 candidates, 2 sessions, 2 openings, every two kinds of request; 3 candidates, 2 writers, 1 reader |
| `recruiting` | `MCRecruiting`, `Recruiting_safety` | JD versions (refinement), submissions; intake, versions, pool | 2 submissions, 4 JD rows, 2 workers, 2 clerks, nine scenarios; 2-3 requests, 2 people, 2 files, 2 campaigns |
| `hiring` | `MCHiring`, `Hiring_safety` | weight history, tasks under pauses; rounds and notices | 2 admins, 3 tasks, 2 candidates; 2 clerks, 3 rounds, eight scenarios |
| `platform` | `MCPlatform`, `Platform_safety` | stale views, lost events, unchecked providers, wrong prompts | 2 readers or 2 writers, 1 outage; 2 clients, 3 events, 1 drop; every pair of 12 admin requests; every pair of editors' requests |
| `back_office` | `MCBackOffice`, `BackOffice_safety` | skills, hierarchy, figures, lists | 2 admins, 2 texts; 3 skills, 3 edits, 1 import; 3 candidates in 2 campaigns, 3-7 writes; 2 edits per scene |
| `background` | `MCBackground`, `Background_safety` | screens, breaker, pool searches | one task of each kind with failures, a death, a Retry, a purge; 2 embedding tasks; 3 people, 2 campaigns, 3-4 writes |
| `liveness` | `MCLiveness`, `Liveness` | does every resume, bulk job and embedding task come to rest | 2 requests, 1 worker, 1 sweep; 2 identical files, 2 workers; 2 embedding tasks |
| `purge` | `MCBackground`, `Background_purge` | violation: a purge deletes a live JD's file | as `background` |
| `probe` | `MCBackground`, `Background_probe` | violation: a failed probe begins no cooldown | as `background` |

**Bounds.** Every bound is a constant. Each kind of fault happens at most once or twice, and a mix, a
scenario, a scene, a trial or a plot names which kinds meet in one behaviour; each is a story (crashes
with redelivery; a broker outage with sweeps and requests; a failing database under the error
handlers; two edits of one row; an erasure under the daily job). Two actors of a kind suffice because
every race found in the code is between two holders of one row or of one stale copy; two attempts and
two replays reach the retry path, the dead letter and the replay of a replayed task. In `pipeline` the
first candidate starts at every `(previous_stage, stage)` pair the table can produce from an upload,
or freshly uploaded, evaluated, rejected or reset; the second waits at INTERVIEW, so that two
selections compete for the two openings. The breaker's thresholds are 2 (configured) and 3 (the
repository's default), small enough to trip and different, since the code uses both. Pages hold one or
two people, so that three people make a walk. Symmetry is used in `resume_safety`, `bulk_safety` and
`pipeline`, for workers, requests, sweeps, clerks and sessions only, and never with liveness.

**Deadlock.** A system whose work is done stops: all files settled, all requests and events spent. The
configurations disable the check for that reason. That nobody waits for ever is what the liveness
properties say.

**Fairness.** Weak fairness of a step that a live process takes next: a worker with a message, a
request in progress, a sweep, the extraction, the daily job, the mailer, a listener that subscribes or
backs off, the broker's visibility timeout, and the clock of the breaker's cooldown. Beat fires for
ever, and Celery and a thread of an API process run on unless they die, which is a step of its own.
Nothing makes a fault, a new request, a cancellation, a replay, a commit or a publish happen. Strong
fairness is assumed nowhere.

**Further configurations.** These are kept beside the runs; TLC checks them in the same way.

| Configuration | Module | Properties |
|---|---|---|
| `BulkUpload_extra` | `MCBulkUpload` | `TypeOK`, `RunningFinishes`, `CancelledFileStays`, `ProcessedStays` |
| `Platform_extra` | `MCPlatform` | `RetriedIffItPasses`, `EveryoneIsServed`, `ActiveKept` |
| `BackOffice_extra` | `MCBackOffice` | `ChangedSkillsRescored`, `AlertsTellSomethingNew` |

Other properties of the modules are beside the runs without a configuration: add the name to the
configuration of the module's run. `OneMembership`, `LiveVersionEmbedded` (`Recruiting_safety`),
`EndedIsAsked` (`Hiring_safety`) and `GainNeverUncovers` (`ScoringChain_safety`) hold; section 6.1 lists those that are violated.

## 5. The proofs

`tlapm` proves these for every value of the constants; TLC checked each inductive invariant first.
Each proof module EXTENDS the modules of its components: `ScoringChain_proofs` those of `ScoringChain`,
`ScreeningRules` and `CampaignFigures`, `CandidateStages_proofs` of `CandidateStages` and `CandidateReports`, `Recruiting_proofs` those of `JdPipeline` and
`ResumeIntake`, `Hiring_proofs` of `CampaignLifecycle`, `InterviewRounds` and `CampaignLists`, `BackOffice_proofs` of
`SkillCuration`, `SkillHierarchy`, `PoolSearch` and `StageProgress`, `Platform_proofs` of `EmbeddingBreaker`
and the four small components of `MCPlatform`.

| Module | Theorem | Statement |
|---|---|---|
| `ResumeTask_proofs` | `TypeCorrect` | `TypeOK` |
| | `DispatchInvariant` | the inductive invariant of dispatch |
| | `FlagSafe`, `FirstDispatchUnique` | `FlagMeansUnsent`, `OneFirstDispatch` |
| | `ScoringQueuedOnce`, `RetriesBounded` | `ScoringOnce`, `RetryBudget` |
| | `FailuresAreSeen` | `NoSilentFailure` |
| | `CrashesStrandNobody` | `CrashesNeverStrand` |
| `BulkUpload_proofs` | `BulkTyped` | the types, and what a worker's control state says of its record |
| | `FilesHaveOneRun` | `OneRunPerFile` |
| | `CountersCount` | `CountersExact` |
| | `ClosedJobsAreResolved` | `ClosedMeansResolved` |
| `ScoringChain_proofs` | `ChainTyped` | `TypeOK` |
| | `RowsAreBacked` | `LiveRowIsBacked` |
| | `VerdictsNeedPasses` | `VerdictNeedsPass` |
| | `GainsNeverFail` | `GainNeverFails` of `ScreeningRules` |
| | `ScoresArePercentages` | `RulesTypeOK`: every score and coverage is a percentage |
| | `FiguresAlwaysAgree` | `FiguresAndPagesAgree` of `CampaignFigures` |
| | `AlertsAreNews` | `AlertsTellSomethingNew` of `CampaignFigures` |
| `CandidateStages_proofs` | `TypeCorrect` | `TypeOK` |
| | `RoundForEveryInterview` | `InterviewHasRound` |
| | `VerdictsFollowTable` | `VerdictFollowsTable` |
| | `FilledCampaignsClose` | `FilledCloses` |
| | `ReportsAlwaysAgree` | `ReportsAgree` of `CandidateReports`, for any page size |
| `Recruiting_proofs` | `PipelineTyped` | `TypeOK` of `JdPipeline` |
| | `PipelineImplementsVersions` | `OneLiveVersion`, the refinement of `JdVersions` |
| | `LineagesHaveOneLiveVersion` | at most one version of a lineage is live |
| | `VersionsStayExact` | `VersionsExact` of `ResumeIntake` |
| `Hiring_proofs` | `HistoryIsChain` | `WeightHistoryIsChain` of `CampaignLifecycle` |
| | `OpeningsKeepCover` | `OpeningsCoverFilled`: openings are never set below the candidates selected by then |
| | `EachRoundFilledOnce` | `NextRoundFilledOnce` of `InterviewRounds` |
| | `NeverSentAgain` | `RecordedNeverResent` of `InterviewRounds` |
| | `ListsStayCurrent` | `ListsAreCurrent` of `CampaignLists` |
| `BackOffice_proofs` | `NoRawSkillIsLost` | `UnknownSkillsAccounted` |
| | `HierarchyTyped` | the types of `SkillHierarchy` |
| | `OntologyStaysForest` | `ForestUnlessBypassed` |
| | `QueriesStayInAgreement` | `QueriesAgree` of `PoolSearch` |
| | `WalksAreExplained` | `WalkIsExplained` of `PoolSearch`, for any page size |
| | `ScreensFollowTheTrail` | `ScreensTellTheRun` of `StageProgress` |
| `Platform_proofs` | `BreakerAlways` | the inductive invariant of the breaker and of its tasks |
| | `CountedFailuresOpen` | `FailuresTrip` |
| | `TasksEndWhole` | `TasksEndInBudget` |
| | `OpenBreakersServe` | `CooldownServed` |
| | `StaleIsAnOvertakenStore` | `StaleOutranInvalidation` of `CachedViews` |
| | `CoveredSessionsMissNothing` | `NothingSlipsBy` of `LiveChannels` |
| | `TasksCallWithAcceptedValues` | `TasksUseCheckedValues` of `AiProviders` |
| | `TasksAreServedTheirType` | `ServedFits` of `PromptTemplates` |

### 5.1 Assumptions on the constants

The numbers of requests, workers, sweeps, clerks, administrators, readers, writers, clients, documents
and sessions are arbitrary, infinite sets included. The rest is what the proofs use:

| Module | Assumed |
|---|---|
| `ResumeTask` | retry policies are positive; fault budgets are numbers; task ids and workers are not confused with the markers of `msgs[i].at` |
| `BulkUpload` | an archive is a finite set of files (a ZIP's entries); byte-identical files belong to one person; bounds are numbers, a file has at least one attempt |
| `ScoringChain` | at least two task ids (one row exists when the candidate enters the chain); bounds are numbers; workers and clerks are different processes |
| `ScreeningRules` | a finite ontology; a skill counts for 1 to 10 tenths, a sentence covers 0 to 100 percent, an academic rank is 0 to 7; weights, multipliers, tolerance and years are not negative, the share of the preferred skills is 0 to 10 tenths, thresholds are percentages; `None` is no value |
| `CandidateStages` | a campaign has finitely many candidates, and starts with a round for every candidate at INTERVIEW and no candidate in a dead end |
| `CandidateReports` | finitely many candidates, numbered (the rankings tie-break by id), with a number as created_at; `Null` is no stage and no text; a page has at least one entry; a behaviour starts with rows whose quoted rejection is in the history, and with a breakdown at every deterministic rejection |
| `JdPipeline` | at least one task id; each stage has a positive number of attempts; the marker `"none"` is no content |
| `SkillCuration` | JDs are not resumes, and raw texts are not base skills |
| `EmbeddingBreaker` | thresholds are positive; Celery's retries do not exceed the budget of embedding attempts (three and four, as seeded); markers are no values |
| `CachedViews`, `LiveChannels` | outages, drops and events are numbers; a marker is no entry |
| `AiProviders` | the initial table fills its ids from 1 on; a request names an existing id and, to create, a key |
| `ResumeIntake` | at the start a campaign's members have at most one resume each, active and parsed; a request's id is not the old resume's |
| `CampaignLifecycle`, `InterviewRounds` | bounds are numbers, a campaign has at least one opening to give, every task has a kind; a panel is a finite set; Beat is no clerk |
| `CampaignLists` | finitely many campaigns, no two created under one id (a primary key); a request carries what its schema demands; `Null` is no manager and no row |
| `SkillHierarchy` | finitely many skills, and an ontology that starts as a forest (the seeds are one) |
| `CampaignFigures` | finitely many candidates, each in one campaign; limits are numbers; `NoValue` is no number and no stage |
| `PoolSearch` | finitely many people, numbered; a spelling of a place is a number, and so is a distance (only their order matters); a page has at least one entry (`ge=1`); "unset" is no value |
| `StageProgress` | a task is a JD's or a resume's; `Null` is no stage and no status |
| `PromptTemplates` | a new prompt's id is nobody else's and never given again (a sequence of the database) |

### 5.2 The arguments

*Dispatch* (`ResumeTask`). Neither `FlagMeansUnsent` nor `OneFirstDispatch` is inductive: the first
says nothing of a sweep that has claimed a row and not yet published it, the second nothing of who is
about to publish. `DispatchInv` accounts for every holder of the right to send: the request that has
not dispatched, the flag, or exactly one sweep past the compare-and-set. A step takes the right from
one and gives it to another or to the broker, so no task has two. `ScoringInv` says who may still
send for scoring: the one worker that inserted the row under the idempotency key, while nothing has
been sent for it. `BudgetInv` adds to `RetryBudget` the worker between the RETRY commit and the
publish, whose next attempt `handle_failure` has already weighed against the policy of the stage.

*The fate of a resume* (`ResumeTask`). `NoSilentFailure` looks at rows that are FAILURE; what makes
it true is earlier, when the worker is about to close the row, so `SilentInv` states it for rows whose
worker is `Closing` too. It also says that a row nobody has written is blank, which a manual retry or
a replay relies on when it points the resume at a new task. `CrashesNeverStrand` is the contrapositive
of `CarryInv`: while no publish was refused, no commit failed, no message was lost and no request died
early, a PENDING resume has a request that has stored it and will publish, a dispatch of its task under way, or a
message of its task in the queue, orphaned, or held by a worker that has not decided its fate
(`Undecided`). `FateStep` carries both through every action; `resume_safety` checked them in 1.6
million states. The proof showed that the death of a sweep is never a cause, and the property was
strengthened accordingly.

*Counters* (`BulkUpload`). `OneRunPerFile` follows from `OneCarrier`: per file at most one among its
messages, the runs of workers, the extraction's pending dispatches and the replays about to publish,
stated for abstract families of carriers (`Lone`) so that each action is one of a few moves.
`CountersExact` needs that the worker which settles a file is that carrier and finds the file alive
(`InProgress`, `WorkerInv`), so that a settlement raises the sum by one as the set of settled files
grows by one. `ClosedMeansResolved` adds the worker between the decision to close and its commit. All
of it holds under `Exclusive`, so the inductive invariant is `Typed /\ (Exclusive => ...)`; `Exclusive` can only
turn false.

*Closing.* The first form of `ClosedMeansResolved` was not inductive for a good reason: TLC refutes it
when a file two runs settled, or one counted again after a failed commit, stands for another that
still runs; the mixes of the run had hidden it. The property now states the hypothesis the code
needs (3.2).

*The scoring chain.* `RowsInv` follows a task id through its carriers: in the broker, held by a worker
(also while the worker enqueues the next layer), or with its sender between the commit and the
publish. `RowStep` is a frame every action satisfies, and one lemma shows that the frame preserves
the invariant. `VerdictNeedsPass` is an action property: the worker that stores a verdict checked the semantic
breakdown minutes earlier, so `CallInv` ties a worker at `llm` to the attempt it read, and
`ResultsInv` says that results of the current attempt agree with the true verdicts and that a semantic
breakdown implies a deterministic pass.

*The screening rules* (`ScreeningRules`). The scores are quotients of sums over the JD's skills, its
capabilities and the components that count, so the proof begins with sums over finite sets: what the
library's fold computes is found by removing one member after another (`ByRemoval`, `SumOfOneMore`,
`SumWithout`), and sums are compared member by member (`SumAtMost`); rounding is monotone
(`RoundedGrows`). `EntriesFair` bounds every contribution by the maximum it is divided by. A resume
that shows more gets a better result from each component (`Better`), and only education can come to
count, in full (`Betters`): a mean that gains such a part does not fall (`MeanGrows`). The invariant is
that the stored outcome is the score of the present resume.

*The figures* (`CampaignFigures`). The invariant is small: the rows are typed, and who is rejected at
present has a rejection behind him (`RejectedOnce`). The rest is about the queries, one lemma for each
pair that should agree. A batched count looked up is the campaign's own, zero where it has no row
(`CountsAgree`). What is counted by stage, or by type, adds up to what is counted at once
(`GroupsAddUp`, over the sums above). The entries of the dead-letter page are heads of open chains
(`PageWithinChains`): a chain is of one type, so its newest replayable row is its newest row. A rate
over the alert's limit is over the lower one of the advice (`AlertedIsAdvised`).

*Rounds* (`CandidateStages`). `InterviewHasRound` speaks of committed rows only, but what a commit
publishes was fixed at the flush. `PendingHasRound` says that a row flushed at INTERVIEW has a round
already (it was there under the lock, and rounds never disappear) or belongs to a session that moves
there, and `EntersHooked` that such a session's commit runs the hook. The lemma `MergeRow` is why
stale reads do no harm here: a flush leaves the stage under the lock or the session's own target.

*Openings* (`CandidateStages`). `FillInv` adds that row locks and the campaign lock are exclusive,
that a flushed selection is the session's purpose, and `Counted`: a selection about to commit holds
the campaign lock, and its count is still an upper bound, because only another counted selection
could add to it and that one would need the same lock. `FewerSelected` carries the count over every
other step. The theorem excludes `transition()`, which does not count: `EveryFillCloses` fails with
it. *Verdicts*: a step of one session leaves the others alone (`OthersKept`), so a judgement's row
change is its own, and `VerdictRow` ties it to an edge of the table.

*The refinement* (`JdPipeline`). `PipelineInv` says which rows and tasks the messages, runs and
requests refer to, and adds `LineageInv`: every root is a row, a version without a parent is its own
root, and a root is live only until the first version is made from it. Each action then is `Publish`,
`Supersede` or `Close` of `JdVersions` under the mapping, or leaves `made` and `live` alone; frame
lemmas for rows and tasks keep the actions short. That a lineage has one live version is
an invariant of the store's steps, carried back to the table through the mapping (`OneLiveKept`).

*Skills* (`SkillCuration`). `DocInv` is the account of one document. What makes it inductive is
`ReadInv`, about an administrator who has read and not yet committed: every document he saw was
stored, the skill he migrates is there or he will add it, and a document he will verify had no other
open text when he looked. `late` records what was stored in between, which is what the property exempts.

*The breaker* (`EmbeddingBreaker`). `StreakInv` compares the failures counted since the last success
with the row's count, while no two counts overlapped. `BudgetInv` bounds the first calls and the second calls of a task in each place a
worker can be, since the budget is kept in two counters, the task row's and Celery's, and only one of
them is looked at on each path. `WholeInv` says which of the final commits each place has behind it.
`CoolInv` adds that a call under a CLOSED copy never counts as a cooldown, and that HALF_OPEN copies
belong to the one holder of the row lock.

*Platform*. `CacheInv`: a reader that passed the tombstone check saw everything invalidated before
its load began, because a writer's mark is never later than the tombstone (`MarkedInv`); what it may
overtake is exactly the window the property names. `ChannelInv`: what a covered client lacks is in
the listener's inbox, in order. `ProvidersInv`: a request about to write carries a triple that passed
a check, and the row it loaded still has its provider unless edits overlapped. `PromptsInv`: the
columns that name a prompt name one of their kind, and a prompt's type never changes under a
reference.

*Versions* (`ResumeIntake`). What an upload read of its candidate's resumes is stale by the time it
stores; `FreshInv` says that it is still all there is as long as no other upload of the candidate
overlapped (`raced`), and `UploadInv` that what it read were his resumes and cannot become another's.

*Weights and openings* (`CampaignLifecycle`). `LockInv`: who holds the lock of the campaign row holds it
alone and has read the weights, and counted the selected, as they are. A reset is the exception: it
loads the row before it locks it, and the chain is stated without it.

*Rounds and notices* (`InterviewRounds`). Only the first round can be PENDING, and only it can be
filled by a request that read it so (`OnlyFirstBlank`); a later one is filled as it is made, by the
request that inserts it. A notice recorded as SENT is past every step that sends.

*Lists* (`CampaignLists`). `ListsAreCurrent` speaks of moments without a pending invalidation; what is
inductive is that every cached view, at any time, either shows what the rows say or is about to be
dropped by an edit that has committed (`CurrentInv`: `Faithful` or `Doomed`), until a worker dies in
between. A commit keeps it because the content of a view it does not invalidate is a function of
rows it does not write (`ContentFollowsRows`, one case per kind of view). `OwnedInv` follows the hiring
managers a campaign ever had, and `AuditInv` says of each preset that it has a newest entry and that
this one tells what became of the row, also when two edits read the same row.

*The ontology* (`SkillHierarchy`). That no walk up is endless is stated without recursion (`Grounded`):
every set of skills has one whose parent is outside of it. `Apart` says that a walk up from the new
parent stays in a set without the skill, and `Checked` that what an editor validated still holds when
he commits, while no two edits overlap.

*The pool's queries* (`PoolSearch`). The queries are sets and joins over finitely many resumes, so no
induction is needed: `PoolInv` says that ids are unique, that a parsed resume has its facts and that
members refer to a resume of theirs. The rest is about the queries: the newest resume of a person
exists and is one (`HasMaximal`), the search without a campaign's members and the selection's crowd
filter the same set, and an option offered for a person is matched by that person. `OptionsInv` is about the
served copy: whoever was parsed when it was loaded still is, and is offered for in it, because a parsed
resume keeps what it says (`ParsedStay`).

*A walk* (`PoolSearch`). In a list that is in order, who shares his distance with nobody stands
behind exactly those that are nearer (`PlaceInList`), so a page holds him if and only if their number
lies between its bounds (`PageHolds`, `PageOfKeys`). `WalkInv` carries that number along: with nobody
gone it never shrinks, so who has not been shown has at least as many ahead as the pages read hold;
with nobody come it never grows, so who has been shown stands before their end for good. On a last
page that is not full nobody is left behind the pages. Writes do not move anybody at a read crowd,
because a parsed resume keeps its id and what it says (`ParsedStay`).

*The screens* (`StageProgress`). `TrailInv` follows the attempt that is waiting, running or decided
through message, log and rows. `ShapeInv`: its message is in one place, and the log counts the
attempts before it. `AttemptsInv`: no row is of a later attempt, and none of the waiting attempt has
failed. `SkipInv`: a stage a retry skips has a SUCCESS that no later row but a skipped one follows, which
is why the collapsed row of a successful JD is never a skipped or a running one. `FailInv`: a resume's
rows appear in the order of the attempts, so the last row that failed is that of the last failure.

*The reports* (`CandidateReports`). `HistoryInv`: whatever a row quotes as the deterministic layer's,
in its decision or in the one an override set aside, is the reason of such a rejection in the history
of this candidate (`Backed`); a history row is only added, or goes with its candidate, and every write is
checked to leave such a row (`OutcomesLawful`). It needs both halves at once: an override moves the
decision to `orig`, a revert moves it back without a snapshot of its own. The ranking is strict because
created_at and id break every tie (`KeysAreStrict`), and a strict order lists a finite set in exactly one
way, since an entry's place is the number of those before it (`PlaceIs`, `OneListing`). So every query
returns the one list there is (`OneRanking`) and, undisturbed, a client holds its first whole pages
(`ReaderInv`); the page that is short is the last. The figures are partitions of the same finite sets.

### 5.3 Only model-checked

* All liveness: `EventuallyDecided`, `JobSettles`, `EverySemanticRuns` and the rest state fairness,
  which is outside the prover's reach.

Every invariant and every action property the runs check is stated by a theorem.

## 6. Findings and observations

### 6.1 Statements of the repository that its code does not keep

Two are runs. `purge`: `DeadLetterCleanupService.purge` decides by a dead letter that outlives the
failure, so a JD that a Retry brought to SUCCESS can be purged and loses its file. `probe`: the
rollback after a failed probe takes the uncommitted HALF_OPEN with it, so the breaker does not reopen
with a fresh `retry_after`.

The others are properties of the modules that TLC refutes; add the name as INVARIANT or PROPERTY to
the module's configuration to see the trace (`CancelSettles` needs `FairSpec`, one file, one clerk
and `Mixes <- MCCancel`).

| Property | Module | What happens |
|---|---|---|
| (none) | `CampaignLifecycle` | `CampaignRepository.py:585-592` speaks of a pause as a soft cancel of the queued tasks, 686-705 of a close that kills them "before task could execute". Only the rows change: the messages stay in the broker, and the scoring tasks look only for SUCCESS (`deterministic_scoring_tasks.py:150-158`, `Ignored`), so a PAUSED task runs, and so does a DEAD one as far as the campaign's status lets it |
| `NoDoubleData` | `ResumeTask` | a worker that dies between the PARSED commit and the ack inserts the unmatched skills twice |
| `RecoveredLeftAlone` | `ResumeTask` | a row one sweep recovered and a worker runs again is claimed by the other sweep's old reading |
| `CancelSettles`, `DuplicateHasNoResume` | `BulkUpload` | extraction overwrites a cancellation; a retry finds its own row and calls itself a duplicate |
| `ResumeSubmitsPending` | `CampaignLifecycle` | resuming with a pending resume publishes without the required `prompt_template_id`, raises and rolls back (`campaign_service.py:2341-2351`) |
| `AnsweredIsLinked` | `ResumeIntake` | `use_existing` is answered as linked and never committed |
| `ConflictDetected`, `AiOnlyFromScreening`, `EveryFillCloses` | `CandidateStages` | the locked re-check reads the old object; an AI HOLD takes a candidate out of a human's stage; `transition()` fills the last opening without closing |
| `TimelineTellsTheOrder`, `DecisionIsTheRejection`, `RejectedIsNotReset`, `OverridesRaiseTheAlert`, `ExportIsComplete` | `CandidateReports` | the rows one transaction adds carry one timestamp, and equals come in no order; a drag to REJECTED leaves the decision of an earlier write, or a RESET; the alert divides by the candidates rejected now, so it stays silent when all are overridden; an export counts the rows, then reads that many, while writers commit |
| `StalledSatThere`, `OfferedWeightsSum`, `DefaultsAreShown` | `CampaignFigures`, `CampaignLists` | days in a stage count from another stage's entry; two overlapping edits of the defaults, each validated against its own reading, write different columns and end in a sum of 110; a new default leaves cached scoring pages |
| `CandidateToldLatest` | `InterviewRounds` | a second reschedule's notice is dropped as a duplicate of the first |
| `RetryKeepsSkills` | `JdPipeline` | the checkpoint carries only part of the skills, so a retry after normalization stores fewer |
| `ResubmittedIsScored` | `ScoringChain` | the permanent SEMANTIC_SCORE key keeps a resubmitted resume from being scored (`campaign_candidate_repository.py:542-546` says it is) |
| `EveryFailureReported` | `ScreeningRules` | the rejection reason omits a check that failed |
| `BudgetNeverDisagrees`, `ProgressAtMostFull` | `StageProgress` | `retry_policy.py:64-69` "can never disagree"; `monitoring_shared.py:5-8` counts seven stages and a resume has eight, 114 % |
| `ProfileTellsSelection` | `PoolSearch` | `talent_pool_service.py:145-151` "can never drift": the profile looks at the active version, the selection at all |
| `NoStalePin`, `NeverLost`, `NeverBackwards` | `CachedViews`, `LiveChannels` | a reader between deletion and tombstone pins the old view; the listener subscribes in the background, and a snapshot read before it has subscribed misses the events in between; an event relayed after a newer snapshot takes the client back |

### 6.2 Further behaviour the models contain

* *Resume task.* A resolved dead letter can be replayed, twice by two concurrent requests, and takes
  a PARSED resume back to PENDING. An in-flight redispatch whose publish fails leaves an unflagged
  QUEUED row. After a failed scoring dispatch the idempotency key is taken and nothing queues it
  again.
* *Bulk upload.* A slow redelivery passes the claim, and both runs work on the file. A replay that
  races the finaliser leaves a closed job with a queued file. A failure after the PROCESSED commit
  counts the file again. A dispatch loop that fails half-way deletes the objects of files already
  sent. A crash after PARSED is never scored. `docs/resume_intake_api_reference.md:49` describes
  PARTIAL_FAILURE without saying that duplicates count as successes.
* *Screens.* The detail's current stage is the last row created, the status view's the furthest. A
  crash between `mark_retry` and the publish counts an attempt too many. An orphan purge deletes the
  log, and a redelivered message makes a new one.
* *Intake.* Overlapping uploads of one person may take one version number. A crash between the
  version's commit and its log row strands a PENDING resume. A rejection at the locked link leaves an
  orphan. An embedding that ends after an erasure request is eligible until the daily job; the daily
  job may undo an erasure's flag for a day. An erasure that fails in the database has already deleted
  the files. An addition from the pool queues no scoring, contrary to its docstring.
* *JD pipeline.* A reprocess or an edit queued before a close brings the JD back. A redelivered create
  deletes the live JD's file. Two concurrent submissions of one content both pass the duplicate check.
  A double click on Retry dispatches twice. A refused publish after the reset leaves QUEUED for ever.
* *Scoring chain.* Resetting a RETRY row leaves the old message: two runs. A rescore deletes live rows
  but not RETRY ones. A composite trigger skipped during RUNNING leaves a stale composite. A publish
  lost after its row blocks the layer. A crash after `mark_success` loses the follow-up.
* *Stages.* `models/pipeline.py:111-116` says of `previous_stage` that nothing else touches it; the
  second engine does. `revert_override` on a stale read overwrites a newer outcome. Selections are
  never refused for lack of openings. INTERVIEW -> HOLD leaves rounds active. The table has edges back
  to INTERVIEW that `stage_transition_service.py:25-38` rules out, and a row HOLD -> HOLD that leads
  nowhere.
* *Reports.* The counts of missing mandatory skills read a column only the semantic layer writes and
  are always empty. The rejection sheet joins the current decision to every past rejection. The list
  and the export order missing scores differently.
* *Campaign.* A pause flips rows and leaves messages, so pause, close, reopen strands PAUSED rows. A resume
  publishes a task and then writes its row QUEUED, also over the SUCCESS of a run that ended in between. The
  replay limit and "once" are checked without a lock. A close by deadline happens although the
  deadline was just extended. Lowering the openings to those filled leaves the campaign ACTIVE.
  CLOSED campaigns accept a scoring update.
* *Figures and lists.* The stall alert's high-water mark is never lowered. A reprocess asks for
  resolved rows and answers "REPROCESSED, replayed 0". Tasks keyed by resume are in no campaign's
  figures. A preset's name is looked up unstripped and stored stripped: the unique index answers 500.
  Deleting a preset that is gone writes another audit entry.
* *Interviews.* A refused publish leaves a QUEUED row (`candidate_notification_emails.py:178-184`), and the
  deduplication then refuses to ask again. A mail whose task log cannot be closed may end as SENT and
  dead-lettered, or be flipped to FAILED at the last attempt. `cancel` accepts a COMPLETED round and `reschedule` revives it. Two schedules of the
  pending first round both fill it. Dedup is check-then-insert. A crash between SES and the commit
  sends again. The cascade deletes no calendar event.
* *Pool.* The filter options are up to an hour old, and no invalidation names them
  (`talent_pool_service.py:575-583`): a newly parsed place or degree has no option meanwhile. Adding people from page 1 makes page 2 skip people. Semantic ties have no order. A skill
  given twice to the skill search finds nobody (`skill_search_repository.py:57-80`); a filter that
  matches nobody and no filter are one answer (`candidate_filter_repository.py:50-54`).
* *Skills.* Two recounts in separate transactions may each see the other's link pending: the JD stays
  PARTIALLY_VERIFIED. Two concurrent resolutions can give one occurrence two skills. Creating a
  canonical skill deletes occurrences stored meanwhile. The import checks no cycle and no self-parent;
  two overlapping re-parentings make a cycle.
* *Providers and prompts.* Two first registrations of different providers end in "already
  registered". A delete that races an activation removes the active row, and tasks silently use the
  `.env` key. Deactivating a campaign's AI prompt dead-letters its evaluations; parsing goes on with an
  inactive prompt. Two overlapping saves store one text twice.
* *Breaker.* The row `increment_failure` creates has the default threshold, not the configured one.
  Generic errors are budgeted on Celery's retries, which postponed deliveries raise: after two
  postponements one database error dead-letters. Counts get lost; HALF_OPEN is never committed. Every successful call is made twice
  (`embedding_tasks.py:296`, 347-348), the second time outside the breaker. A refused retry leaves a row
  RETRY that nothing recovers; a dead letter whose INSERT fails is passed over, and the task is DEAD
  without one (121-126).
* *Cache and channels.* Prefix views are dropped by SCAN then DEL. An outage during an invalidation
  leaves the view until its TTL, erased PII included. A board has no snapshot. A refused `task.reset`
  leaves clients showing the deleted run.

## 7. Not modelled, and why

| Part | Reason |
|---|---|
| Text, PII, file and storage helpers; extraction content; LLM and calendar protocols | pure functions or external services; their outcome is a choice in the models |
| Reindexing, embedding health, LLM circuit breaker | the reindex is a batch over independent rows, health figures are read by nobody, nothing reads the LLM breaker (it is only written) |
| Candidate notes, comments, audit log outside presets, upload history, consent records | append-only rows no decision reads |
| Rejection mails, preferences, templates | the outbox of `InterviewRounds` covers queueing and sending; the texts have no state |
| JD skills edited by hand, suggestions, skill lists and exports, skill embeddings | independent row updates and queries |
| Routes, authentication, OAuth, encryption, role checks | request plumbing; a refused request is one that takes no step |
| Schemas, enums, seeds other than the table, configuration | declarations |

Left out of modelled actions, with the reason:

* `EmbeddingBreaker`: a worker that dies between a retry's publish and its ack leaves two deliveries of one
  task. Both budgets are about one delivery at a time; two would each spend the rest of them.
* `CampaignFigures.Embedded`: a replay is also skipped when its resume is gone or has no `parsed_json`
  (`campaign_service.py:1706-1710`); resumes are not deleted in this module, and an embedding's dead letter
  is of a parsed one.
* `BulkUpload`, `ResumeTask`: of an interrupted commit only the outcomes matter; a handler whose own commit
  fails leaves the file or row as it was (`DbFails`, `HandlerFails`), and properties that this breaks say so.

Abstractions a reader should know: celery's backoff and ceilings are choices of order; durations are
"before" or "past" a limit; texts are model values; scores have two or three values except in
`ScreeningRules`; role checks, formatting and logging are left out.

## 8. What is left

* An abstract specification of a task that is decided once, implemented by `ResumeTask` and
  `ScoringChain`.
* Reindexing against the pool's searches, when the active model changes while both models' vectors
  exist (`PoolSearch` switches the model in one step).
