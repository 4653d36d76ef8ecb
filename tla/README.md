# Verification of SmartScreenAgent

TLA+ models of the parts of SmartScreenAgent whose correctness depends on the
order in which processes act, with TLC runs that check them on small instances
and TLAPS proofs of their safety for every instance. Paths below are relative
to `src/backend/app/`.

## 1. The system

SmartScreenAgent ingests résumés (uploaded by recruiters or pulled from
DingTalk), extracts and deduplicates candidates, scores them against versioned
rules with a hard filter, a deterministic rule engine and an LLM judge, asks a
second model for a sample of the scores, records reviewer feedback, accounts
for every LLM call against budgets, and publishes quality releases. It is a
FastAPI application, Celery workers and Celery Beat over one PostgreSQL
database, a Redis broker and a MinIO bucket.

| Component | State it keeps | Operations | What makes it hard, what makes it correct |
|---|---|---|---|
| Ingestion jobs: `services/ingestion/*`, `tasks/ingest.py`, `tasks/sweep.py` | table `ingestion_jobs` (state, attempts, lease, candidate), `candidates`, objects in MinIO, messages in the broker | upload and reuse, claim, parse, extract, insert or reuse the candidate, score, complete, fail, sweep, enqueue | API, workers and sweeper share rows without a lease owner; any of them dies between two commits; messages get lost or arrive twice. One active job per content, no work on a job one does not own, no lost raw file, every job settles. |
| Cross-engine checks: `services/cross_check/*`, `tasks/wp7.py` | table `score_cross_checks` (id, state, attempts, lease token, result), the verdict projected on `scores` | ensure, claim, complete, fail, sweep, deliver | superseded checks finish late, leases expire under live workers, triggers race. The newest configuration speaks for the score; a settled check is final; every check settles. |
| Scoring: `scoring/*`, `services/cross_check/sampling.py`, `triggers.py` | table `scores`, `audit_log` | pipeline run, queueing of second opinions | the provider wait splits the transaction; a run may lose the race for its row; labels arrive while a score is in flight. A score is final, a disputed score gets a second opinion, What-If gives the grade the pipeline gave, as far as rounding allows. |
| Résumé sync: `services/sync/*`, `tasks/wp8.py` | cursor, item ledger with attempts | pull, record, replay, JD metadata | pulls overlap each other and the replay, an overlap window against a cap, a crash between intake, ledger and cursor; the cursor never passes an unrecorded item, and every failed item is replayed or exhausted. |
| LLM gateway and usage ledger: `services/llm/*` | attempt rows, prices | begin, call, fall back, finalize, abandon stale | late answers after abandonment, ledger failures in the middle of a call, a kill at the time limit. Every request has a row that says what the provider answered; no row stays pending; a second model is asked for a reason. |
| Budgets: `services/operations/budgets.py` | alerts per period, reconciliation cursors | evaluate, reconcile | notifications get lost, evaluators and reconciler see the same crossing, sessions hold several locks. Each crossing is alerted once, for a reason, and not forgotten. |
| Rule publication: `services/rule_publication.py`, `cli/import_rules.py`, JD metadata sync | `jds`, `rule_versions` | create, evaluate, publish, import, refresh | concurrent requests write the same JD row under different isolation. The active version is the published one. |
| Quality releases: `services/quality/*` | snapshots, immutable releases with input fingerprints | preview, gather, fingerprint, create, retry | inputs change while they are gathered and between preview and creation. A release is computed from one state, the one that was previewed. |
| Feedback, golden set: `services/feedback.py`, `services/golden_set.py` | `feedback`, `golden_set` | upsert, import, report | they trigger cross-checks in the same transaction; three reports count the same decisions. |
| MinerU client: `services/parser/*` | a temporary file | upload URL, upload, poll, download, read | passing and lasting failures look alike; a task ends, leaves no file, and is given up only for a lasting failure. |
| Upload validation, malware scan, storage client | none | byte checks and I/O | outcomes only matter to the callers. |
| MCP server, authentication, read services, operational and batch reports, frontend | users | queries | no protocol state. |

The components interact through the tables and the broker: an upload (or the
sync) commits a job and then sends a message; the worker's scoring run commits
a score and, in the same transaction, a queued cross-check, and sends its
message after the commit; feedback and golden-set writes do the same; every LLM
call opens and closes a ledger row and notifies the budget evaluator. Beat
starts the sweeps that recover what a crash or a lost message left behind.

## 2. Plan

Modelled, checked and proved, one module of theorems per component:

| Model | Theorems |
|---|---|
| `IngestionStates`, `JobLifecycle`, `Ingestion` | `IngestionProofs` |
| `CheckLifecycle`, `CrossCheck` | `CrossCheckProofs` |
| `ResumeSync` | `ResumeSyncProofs` |
| `UsageLedger`, `Budgets` | `BudgetsProofs` |
| `UsageLedger`, `RequestRecord`, `LLMGateway`, `MinerU`, composed in `ResumeParsing` | `ResumeParsingProofs` |
| `RulePublication`, extended by `QualityReleases` | `QualityReleasesProofs` |
| `RuleEngine`, `QualityMetrics`, `Scoring` | `ScoringProofs` |

`SetSums` holds the lemmas about sums, maxima and images of finite sets that
several of them cite. `JobLifecycle`, `CheckLifecycle`, `RequestRecord` and
`RuleSpec` are abstract specifications, each implemented by the model beside
it. Every safety property the runs check is proved, `NoVersionLost` for the
adapter the repository has, as in the run that checks it; section 6 says along
which argument and what stays with TLC.

Open: what replays and pulls promise together for an adapter that can describe
an item. `NoVersionLost` fails there (section 5), and the code gives no weaker
promise to state.

## 3. Modules

### `IngestionStates`, `JobLifecycle`

`IngestionStates` holds the enumeration, `PROCESSING_STATES`,
`TERMINAL_STATES`, the transition table of `services/ingestion/states.py` and
the states covered by the partial unique index. `JobLifecycle` is the abstract
specification: each job moves only as the table allows, a recovery spends one
of `MaxAttempts` attempts or gives up, a terminal state is final.

### `Ingestion`

One step is one committed transaction or one external call; a process may die
before any step.

| Code | Model |
|---|---|
| `ingest_upload`, `create_or_reuse`, upload routes | `Store`, `FindActive`, `InsertJob`, `InsertConflict`, `Reread`, `IntakeFails`, `DropRedundant`, `CleanUp`, `EnqueueJob`, `ApiDies` |
| `claim`, `parse_and_score_task` | `Claim`, `ClaimNothing` |
| `run_job` | `Parse`, `InsertCandidate`, `ReuseCandidate`, `DeleteDuplicate`, `Resume`, `Link`, `Score`, `Complete` |
| exceptions and `_fail_job` | `RaiseRetryable`, `RaiseTerminal`, `FailJob`, `WorkerDies` |
| `sweep`, `sweep_task` | `Sweep`, `SendRequeued`, `SweeperDies` |
| broker, clock, `task_time_limit` | `LoseMessage`, `Tick` |

The columns of `ingestion_jobs` are functions from uploads, because an object
key is a fresh uuid per upload and a job keeps the key of the upload that
created it. The worker never re-reads its row (`expire_on_commit=False`), so
its in-memory state is determined by its program counter, and `Transition`
writes without looking at the table, as the code does. Leases are ticks left
until expiry; a tick is only possible while no task is at its time limit.
`_fail_job` reads and writes in one step: `InMemoryStateCurrent` holds at its
program counters too, so nothing can happen to the row in between. A sweep may
skip locked rows; a locked row is one another transaction is about to commit,
which the model orders before or after the sweep.

### `CrossCheck`

One score (scores do not interact), one row per configuration. `LoadScore`,
`ReadGreatest`, `InsertRow` and `CommitRow` are the statements of a caller of
`ensure_cross_check` in their order; `ClaimCheck`, `CompleteCheck`,
`FailCheck`, `WorkerDies` the worker; `SweepChecks`, `SendRequeued`,
`SweeperDies` the sweeper. A lease may expire at any moment, so no guarantee
rests on clocks. A lease token is a uuid made at the claim; the model uses the
attempt number, which is as unique per row.

`Cleared` models what SQLAlchemy does with the assignments of
`ensure_cross_check`: every caller holds the `Score` already, `Session.get`
with `with_for_update` and without `populate_existing` takes the lock and keeps
the loaded attributes, and the flush writes a column only if its new value
differs from the loaded one.

`CheckLifecycle` is what a check promises, without workers, transactions and
messages: it waits, is tried at most `MaxAttempts` times, and is answered or
given up; the score shows the answer of the newest check, or less of it, and
never goes back to an older one. `ChecksFollowLifecycle` maps `rowId` to the
rank of a check and both `running` and `retryable_failed` to a try: which of
them it is concerns the sweeper only.

### `ResumeSync`

One source, its candidates with a timestamp and an attachment, the cursor, the
ledger, and any number of overlapping pulls and replays.

| Code | Model |
|---|---|
| `run_sync` | `StartPull`, `ListBatch`, `Download`, `PullFetchFails`, `PullCheck`, `IngestUpload`, `PullRecord`, `PullItemFails`, `FinishPull`, `AbortPull` |
| `replay_failed`, `_spend_attempt`, `_discard` | `StartReplay`, `Download`, `ReplayFetchFails`, `ReplayCheck`, `Discard`, `IngestUpload`, `ReplayRecord`, `ReplayItemFails`, `EndReplay` |
| `ledger.py` | `OverlapStart`, `NextCursor`, `AlreadyIngested`, `RecordItem` |
| `list_changed` and the cap of the runner | `ListChanged` |
| the recruitment endpoint | `SourceChanges`, `SourceAttaches`, `Changed` |

`ingest_upload` commits its job before `record_item` runs, so they are two
steps; what the job then goes through is the subject of `Ingestion`. A replay
deletes by row id: `held` keeps the rows it selected that have not been deleted
since, so it never deletes a later row with the same key. The items of a batch
are taken in any order, which includes the code's. Job ids, timestamps of the
ledger, audit rows and counters are left out.

Assumed of the source, as `overlap_start` and `list_changed` assume it: a
change becomes visible at most `Skew <= Overlap` ticks late; a server that
limits its answer returns the oldest rows (the comment on
`parse_candidates_page` says what happens otherwise); a content is not replaced
by another without a new timestamp. `clock` is common to the source and the
workers; what they differ by is part of `Skew`.

There is no cursor row at first. `ReadCursor` is `read_cursor` with its default,
now less `FIRST_RUN_LOOKBACK` (`Lookback`), which every pull computes anew until
one of them has written a cursor; `TimePasses` lets the time go by in between.
What lies before the lookback is not pulled by design, so the promises about
candidates begin where the cursor's history does: `base` is the lookback that a
running pull's cursor goes back to, `origin` the newest one that a cursor was
written from. Both are history variables, read by no step.

The only adapter in the repository raises `SourceCapabilityUnavailable` from
`describe`, so today every replay ends at its first row (`EndReplay`). The
other steps of the replay are those of an adapter that can look an item up, for
which the code is written. `InertSpec` is the system with today's adapter,
`Spec` with any.

### `UsageLedger`, `Budgets`

`UsageLedger` is the table `llm_usage_attempts` and one operator per statement
of `services/llm/usage.py`. Time is counted in days, the shortest period of a
budget; midnight may pass between the timestamp of a row and its insert.

| Code | Model |
|---|---|
| `UsageRecorder.begin`, `finalize`, `_notify_budget_evaluation` | `Begin`, `Finalize`, `FinalizeAmbiguous`, `FinalizeFails`, `Notify`, `NotifyFails` |
| `sweep_stale_usage`, `abandon_stale_attempts` | `SweepStaleUsage`, `AbandonStale` |
| `evaluate_budget_attempt`, `evaluate_current_budgets` | `EvaluateBudgetAttempt`, `CurrentPeriods` |
| `reconcile_budgets_task`, `reconcile_budget_scope` | `ReconcileBudgets`, `LockCursor`, `Commit` |
| `_evaluate_period`, `_insert_threshold_once` | `ReadSpend`, `InsertThresholdOnce` |
| worker, broker, clock | `Crash`, `LoseMessage`, `Midnight` |

A task is one transaction: what it adds, locks and moves stays with its session
until `Commit`, or is dropped by `Crash`. `lost` remembers whose notification
went missing, so that a property can say that nothing else is missed.

### `LLMGateway`, `MinerU`, `ResumeParsing`

`LLMGateway` is one operation with its at most two requests: `BeginAttempt`,
`BeginFails`, `BeginAmbiguous`, `RequestRaises`, `RequestReturns`, `FinalizeTry`,
`FinalizeTryFails`, `ValidateOutput`; the fallback rules of
`_call_with_fallback` are `AfterAnswer`, those of the callers (`LLMJudge.score`,
`ResumeExtractor.extract`, the cross-check worker) `ValidateOutput`. `answers`
keeps what the provider said apart from what the ledger says it said. `MinerU`
is `MinerUClient.parse`: each answer of the service is one of the classes the
client sorts it into. `ResumeParsing` composes both as `run_job` and
`run_cross_check` do and kills the worker at any step. The two sort failures
differently. `FailureState` is `_fail_job`, which looks the exact name of the
class up in a table. `CrossCheckState` is `_classify` of the cross-check worker,
which asks for the class and its subclasses, followed by `fail_cross_check`,
which ends a check that has used its last attempt whatever the failure was;
`finalTry` says that a task has claimed that attempt. `LoadSource` and
`LoadFails` are `_load_source`. How attempts are counted, leases fenced and
verdicts stored is left to `CrossCheck`.

`RequestRecord` is what the ledger promises of a request: the record is open
before the request leaves, and is closed once with what the provider said, or
abandoned, whatever is said after that. `RowsRecordRequests` maps `pending` to
open, each status of an answer to closed, and `answers` to what was said; a
finalize that is retried, or whose commit is noticed by nobody, closes a record
once or changes nothing.

### `RulePublication`, `QualityReleases`

A request is a session whose steps are its statements; a value read in one step
may be stale in the next, and `FOR UPDATE` is `jdLock`.

| Code | Model |
|---|---|
| `routers/rule_publication.py`, `create_draft` | `CreateDraft`, `InsertDraft` |
| `evaluate_draft` | `EvaluateDraft`, `RecordMetrics` |
| `publish_draft` | `Publish`, `PublishLock`, `PublishCommit` |
| `import-rules` | `ImportRules`, `ImportApply` |
| `sync_jd_metadata` | `SyncRead`, `SyncWrite` |
| `import_golden_set` | `ImportGoldenSet` |
| `preview_release` | `PreviewBindings`, `PreviewGolden` (READ COMMITTED: two states) |
| `create_release`, `_gather` | `RequestRelease`, `BeginAttempt`, `GatherGolden` (REPEATABLE READ: `view`), `CommitRelease`, `AttemptFails`, `Retry` |
| `_upsert_snapshot` | `UpsertSnapshot` |

`during` records, for each attempt to create, the states committed since it
began; `ReleaseCoherent` asks for one of them. A digest is modelled as what it
digests.

### `RuleEngine`, `QualityMetrics`, `Scoring`

`RuleEngine` and `QualityMetrics` are pure operators: hard filters, the three
rule methods, validation of the judge's answer, grades and What-If; the
confusion matrix as the golden-set report and as the release compute it,
evidence, calibration, targets. Ratios are pairs. Points are integers in half
hundredths, so that the rounding of `scores.total_score` shows.

The code adds binary floats and compares the sum with a threshold before it is
rounded. A sum is here the exact one together with an error, -1, 0 or 1: whether
the float lies below, on or above the float nearest to the exact sum. Floats of
this size err by far less than half a hundredth, so the error decides only where
the exact sum equals the threshold (`Reaches`). Each sum has an error of its own: the one a score is graded
with (`ScoreRows`) and the one of What-If, which adds other terms in another
order (`WhatIfGrade`). Points that are multiples of a quarter are sums of powers
of two and have no error (`InQuarters`, `Errors`). `StoredTotals` is the
rounding to `NUMERIC(6, 2)`; a tie goes either way, because the float is hardly
ever the tie itself.

`Scoring` puts the operators under the steps that create their inputs:
`StartScoring`, `JudgeAnswers`, `InsertScore`, `CommitScore`, `RunFails` are the
transactions of `ScoringPipeline.run` with `_maybe_queue_cross_check`; `RowsFor`
is the insert that leaves a row that is there; `ImportLabel`, `CommitLabel` a
golden import; `GiveFeedback` `upsert_feedback`. The version a run scores under
is chosen freely, as publications may change it between runs. The judge answers
with any entries (`Answers`), of which `_validate` lets the valid ones pass.
`DraftMetrics` is `evaluate_draft` with the errors of its What-If sums. The
metrics are checked against reference definitions, or against each other, in
every state these steps reach.

## 4. Runs

| Run | Instance | Shows |
|---|---|---|
| `ingestion` | 2 uploads, 2 files, 1 person, 2 workers, 2 attempts, time limit 1 < lease 2, 1 copy of a message | the five invariants and that every job implements `JobLifecycle` |
| `ingestion_live` | 2 uploads of one file, 1 worker, 2 attempts, time limit 0 < lease 1 | every active job settles |
| `cross_check` | 2 configurations, 2 transactions, 2 workers, 2 attempts, 2 ids | fencing, attempts, the projected verdict, finality, and that the checks implement `CheckLifecycle` |
| `cross_check_live` | no lost messages | every queued check settles |
| `resume_sync` | 3 candidates, batches of 2, overlap, skew and lookback of one tick, 4 ticks, 3 changes, one pull | no candidate in reach of the first lookback falls behind the cursor unseen |
| `resume_sync_pulls` | 2 candidates, 2 contents, 2 overlapping pulls and a replay that cannot describe (`InertSpec`), no overlap window, a lookback of one tick, 2 ticks, 2 changes | no current résumé falls behind the cursor unrecorded |
| `resume_sync_replay` | 1 candidate, 2 contents, a pull and a replay that can describe, 2 attempts | every failed row leaves the selection |
| `resume_sync_live` | 3 candidates without attachment, batches of 2, 2 overlapping pulls, no overlap window, a lookback of one tick, 2 ticks, 3 changes | every candidate in reach of the cursor is looked at, unless its window stays as full as a batch |
| `budgets` | 2 attempts, 2 sessions, 2 days, the midnight ends a month, budgets of 2, warning at half, 1 period per reconciliation | alerts once, justified, durable, not forgotten; no circular wait |
| `resume_parsing` | a job, or a cross check on any attempt, of up to 3 requests, 2 tries of finalize, a deadline of 2 rounds | the ledger is true and implements `RequestRecord`, failures are sorted rightly, no file and no pending row stays, tasks end |
| `quality_releases` | 1 JD, 2 versions, 2 texts, 1 candidate, 2 editors with 2 requests, 1 golden import, 2 releasers with 2 attempts and 1 failure | the active version is the published one; releases are coherent, previewed, and share snapshots by content |
| `scoring` | 2 candidates, 2 versions, 2 workers with 2 runs, 7 entries of a judge, 2 labels or reviews | final scores, disputes, What-If, agreement of the reports, calibration, targets |

Bounds. Two uploads are enough for a reuse, a conflict and, two files being of
one person, a duplicate candidate; two workers for a stale worker beside its successor; two attempts
for a retry and for the limit; a lease one tick longer than the time limit is
the tightest the configuration allows. `MaxMessages = 1` still yields duplicate
deliveries, because a message may outlive the claim it caused. In `CrossCheck`
two ids admit both configurations, or one and an id lost to a rollback. In
`ResumeSync` the source's clock (`MaxTime`) and its changes (`MaxEdits`) are
bounded. `resume_sync` needs three candidates and four ticks: the first batch
is cut, the second starts after the first candidate has left the window.
`resume_sync_pulls` needs two contents for a revision, and two ticks, which are
enough to pass a candidate when there is no overlap. A lookback of one tick is
short enough for an aborted first pull to leave a candidate before the next
one's. In `resume_sync_live` three candidates against batches of two cut a
batch, leave one behind, and can fill the window for good, which the property
names as the exception; how an item ends makes no difference to what is listed
next, so its candidates have nothing to download, the other runs do that.
`attempts` is counted up to `MaxAttempts`, beyond which the code no longer tells
values apart. The proofs have none of the bounds above.

In `budgets`, two attempts are what it takes to cross a threshold together and
to be notified apart; the midnight of two days ends a day and a month, so that
a reconciler that may drain one period leaves the other to the next run.
In `resume_parsing` one task suffices, since nothing but its rows outlives it.
Three requests are an extraction with its fallback and a judge, or an extraction
and a judge with its fallback; a fourth id would only let both fall back.
In `quality_releases` two requests let any two operations interleave
and an editor react to another; one import is a change between two reads, or
between two attempts. In `scoring` two runs race for one row or fill two, and
two inputs are two labels, a label and a review, or a review changed; the
schemas of `MCScoring` have a filter that stops, one that is unknown, each rule
method, a known tier without a score, an unknown one with a score, and a version
without judge; totals under the first version can meet either of its thresholds,
where floats err, those of the second are in quarters; of the judge's entries
five are valid for a dimension, one quotes what is not in the résumé and one has a wrong score;
confidences lie below and above `LowConfidence`, and on the edge of a bin.

Deadlock is checked in the runs of `Ingestion`, `CrossCheck` and `ResumeSync`.
The other models end when their bounded requests, attempts or runs are used up,
so it is not checked there; circular waits for locks are the subject of
`NoLockCycle`.

The runs check 40 properties. The type invariants are proved for all instances;
the runs do not repeat them.

Fairness. `Ingestion`: time passes, Beat starts sweeps, Celery kills a task at
its limit, and a message that is sent again and again is claimed some time
(strong fairness of the send and of the claim). No worker is assumed to finish
its work, no request to send its message. `CrossCheck`: tasks end, running rows
expire, sweeps go on, sends happen in `cross_check_live`, where nothing is lost.
`ResumeSync`: Beat keeps starting tasks, and the time limit ends one that hangs. A task may be aborted
at any step, any number of times, but not all of them fail: time and again each
pull gets through all its items and writes its cursor (`PullFairness`), and so
does a replay if replays keep starting (`ReplayFairness`). That says nothing of
how an item ends: a download may be unavailable and an upload rejected each time. `ResumeParsing`: a living worker
goes on and Beat runs the sweep of stale rows (weak fairness of `WorkerStep` and
`SweepStaleUsage`); nothing is assumed of the services, which may answer pending
or fail for ever, nor that a worker is not killed.

## 5. Behaviours worth knowing

The code reaches the following states, each of which a comment, a docstring or
a reader might exclude. They hold of the models as they are; giving TLC the
formula named finds the first ones.

- `ingest.py`, duplicate branch: the job's object is deleted before the link to
  the existing candidate is committed. A failure in between leaves a job that
  every retry fails, although `run_job` says the sweeper retries against the
  same stored object. (`Ingestion`: an active or retryable job without
  candidate has its object, `\A j \in Uploads : state[j] \in {"queued",
  "retryable_failed"} /\ candidateId[j] = None => j \in objects`.)
- A queued check whose message was lost is never sent again; the docstrings of
  `_send_cross_checks` and `sweep_cross_checks_task` say the sweeper recovers
  it. (`MCCrossCheckLive.cfg` with `CanLose = TRUE`.)
- A trigger whose session loaded the `Score` before the previous check completed
  does not clear the old verdict, although the comment in `state.py` says it must
  not linger. (`CrossCheck`: `projection.by # None =>
  IsGreatestId(rowId[projection.by])`.)
- With as many candidates in the overlap window, or at one timestamp, as a batch
  may hold, every pull lists the same batch and the cursor stops for good; a
  docstring says the cursor picks up the remainder. (`CandidatesSeen` without
  `[]Crowded`, in `MCResumeSyncLive.cfg`.)
- Until a cursor row exists, an aborted pull does not keep its window: the next
  one looks back from its own start, and candidates that changed in between fall
  out unseen, although `runner.py` says of a pass that died early that "the next
  run retries the same window". Of two first pulls that overlap, the lookback of the
  later one counts. (`NoCandidateLost` with `0 - Lookback` instead of `origin`
  in `Passed`.)
- `\A u \in Uploads : upc[u] = "reread" => ActiveJobs(file[u]) # {}` fails in
  `Ingestion`: the conflicting job can settle before `create_or_reuse` reads it
  again, so the `RuntimeError` marked "should be unreachable" is reached.
- In `CrossCheck` a trigger that finds its row already inserted, with a stale
  `previous_greatest`, clears the verdict of that row's completed check, and a
  completed row is never projected again.
- Likewise a stale trigger may clear the difference of the projection and leave
  `is_suspicious` set, so that a score is suspicious by no check that it names.
  (`CrossCheck`: `projection.suspicious => projection.by # None`; what does hold
  is `ShownWasAnswered`.)
- Once there is a cursor it can still go back in `ResumeSync`
  (`ResumeSyncProofs`: `CursorForward`): of two overlapping pulls the
  older may write it last, although `next_cursor` says "never backwards".
  With one pull at a time it holds (`OnePullMovesForward`). `resume_sync_pulls`
  shows that going back loses nothing; it repeats work.
- With a replay of an adapter that can describe, `NoVersionLost` fails: the
  replay downloads a résumé, the candidate replaces it, a pull fails to download
  the new one, records that on the same placeholder row and moves the cursor on,
  and the replay deletes the placeholder row it selected earlier.
- Likewise a replay may delete a row that a pull has turned from failed to
  ingested since the selection; the comment before `_discard` says that it cannot
  be that row. The price is another download and, once the first job has
  settled, a second job.
- Budgets: a row closed after the reconciler has passed its period, whose
  notification is lost, is never alerted (`NothingForgotten` without `lost`). The
  cost of an answer that comes after its row was abandoned is not recorded, and a
  finalize whose commit went through unnoticed sends no notification.
- `DecodingError` from httpx while a MinerU result is downloaded is caught by no
  handler and leaves the temporary file (`FilesRemoved` without its exception).
  `MinerUResultError`, a subclass of the terminal `MinerUTaskError`, is retried,
  because `_fail_job` compares exact names.
- An evaluation that runs while its draft is published overwrites the metrics of
  the published version, and labels imported after an evaluation do not
  invalidate it. `evaluate_draft` counts labels and reads rows in two statements,
  so what it reports as uncovered may be off, even negative, for one evaluation.
- A command-line import makes its version active and leaves the previous one
  published; the bound in `PublishedIsActive` counts these.
- `input_fingerprint` is called the identity of everything a release is computed
  from; it covers labels, rule versions, window and targets, not the scores,
  feedback and usage that the metrics are computed from. A preview, read in
  several statements, may show a mixture, which `create_release` then refuses.
- A golden import and a score in flight together do not see each other, and no
  check is queued for the contradiction (`DisputesQueued` without `overlapped`).
- A run that loses the race for a score queues a second opinion by its own
  judge's answer and the winner's grade.
- Grades are taken from sums of binary floats, totals are stored in hundredths,
  and What-If adds other terms: 0.7 + 0.1 is 0.7999..., misses a threshold of 0.8
  and is stored as 0.80, from which 0.7 + (0.8 - 0.7) reaches it. A candidate
  whose total meets a threshold may therefore be shown a change, up or down, under
  unchanged rules, by What-If and in the evaluation of a draft.
  (`WhatIfReproducesGrade` without `OnEdge`.) With points in quarters it cannot
  happen, not even on a threshold.
- `RuleSchema` lets a judge's tier other than "unknown" have no score, and the
  tier "unknown" have one; the importer writes neither, a draft posted as JSON
  may. For a judged candidate in the former the sampling counts the confidence of that
  dimension and the release does not (`CalibrationAgrees` names the exception);
  the coverage of a release lacks both (`TargetsNeedEvidence`), though the points of the
  latter are in the total.
- `evaluate_draft` counts every borderline label as excluded; the golden-set report and
  the release count one without a score as uncovered (`moved` in
  `ConfusionsAgree`). The sums agree, the parts differ.
- A cross check that meets a passing failure on its last attempt is failed for
  good, and nothing queues it again.
- A hard filter on `total_score` never rejects anybody: what was extracted from a
  résumé has no such field, and an unknown filter lets pass.

## 6. Proofs

`IngestionProofs` proves the six invariants and the refinement of
`JobLifecycle` for any sets of uploads, files, people and workers, from the
assumptions named in `Ingestion`: the lease outlives the time limit, at least
one attempt, `None` is not a value. The properties are not inductive alone. The
strengthening `IInv` adds

- `OwnerInv`: a running worker's job is in the state its program counter
  implies, and its lease exceeds the ticks left to the task — the fact that
  turns `TimeLimit < LeaseSeconds` into ownership;
- `ExclusiveInv`: two running workers have different jobs;
- `PersonInv`: what a worker knows about its object and candidate at each point;
- `AbsentInv`: a request that has not inserted its row has none;
- `LinkInv`: the raw file of a candidate belongs to a job linked to it, which is
  why the duplicate branch never deletes a canonical file;
- `AttemptsInv`: a queued job has an attempt left, as the lifecycle demands.

One lemma per action shows that it preserves `IInv`.

`CrossCheckProofs` proves type correctness, `NewestNotContradicted`,
`QueuedIsClaimable`, `OneLeaseHolder` and `SettledIsFinal` for any numbers of
configurations, transactions and workers. `IInv` adds that committed ids are
distinct and drawn already (`RowInv`), that an uncommitted insert is alone with
its id and configuration (`ClientInv`), and that a worker's token is at most the
attempts of its row and unique (`TokenInv`). From it `CheckStepRefines` maps every
step to a step of `CheckLifecycle` or a stutter: a claim finds a try left because
a queued row has one (`QueuedIsClaimable`), and only the newest check projects because its
id is compared under the lock. `ShownIsBacked` is then proved of the abstract
steps alone: whatever stale triggers clear, what is left on the score comes from
completed checks.

`ResumeSyncProofs` proves `NoCandidateLost` for any candidates, contents,
overlapping pulls and replays, batch sizes, lookbacks and overlap windows, from `Skew <=
Overlap`: nothing is lost from the newest lookback on that a cursor was written
from. The cursor alone does not say why: `PullInv` says of
every running pull that each candidate between its `base` and what the overlap window of its goal (the
cursor it will write) leaves behind has been seen, or is still in its batch. `ClockInv` keeps every time
that is read or will be written behind the source's clock, `HandInv` and
`IngestedInv` tie ledger rows to jobs. `VersionInv` repeats `PullInv` for the
current content. `VersionsKept` proves `NoVersionLost` of `InertSpec`, where any
number of replays run beside the pulls and end at their first row, as the
repository's only adapter makes them; for an adapter that can describe it is
false (section 5). `OnePullMovesForward` proves that the cursor, once there is
one, never goes back or away when pulls do not overlap: a running pull's goal is
not behind the cursor (`GoalInv`), because the cursor has one writer.

`BudgetsProofs` proves the five invariants of `Budgets` for any attempts, costs,
workers, budgets and months. `LedgerInv` fixes the life of a row, `SessionInv`
what a transaction is about to do. `LockInv` is why an alert is added once: a
session that will insert it holds its lock and has seen that it is not there,
from that read to the commit. `JustifiedInv` and `CursorInv` extend what the
properties say of committed data to what a session carries; `CursorInv` needs
that no cursor is beyond today, so that the rows behind it no longer change.
`ForgottenInv` names all that a crossing without alert can wait for: a message,
a caller about to notify, a session that has the period ahead of it, or a
notification that is lost. For `NoLockCycle`, `OrderInv` says in which order sessions
lock: a period's warning before its excess; an evaluator the periods of one day,
its month last; a reconciler the daily cursor first, so that one reconciler at
most holds locks, and then the completed months before the current day, which
lies in another month. `NobodyInACircle` derives that no set of sessions can wait
for each other.

`ResumeParsingProofs` proves `LedgerIsTrue`, `RepeatJustified`,
`TransientIsRetried` and `FilesRemoved` for the composition, for any ids, costs,
retries and polling times. `RowInv`: ids are drawn in order, and a row closed by
its caller repeats the provider's answer. `CallInv`, `RepeatInv`,
`GatewayErrorInv` and `ParserInv` say what each client knows at each of its
points, `StageInv` which client runs at which stage of the task and that the
temporary file is gone before the next. `TransientIsRetried` excepts the two
ends of a cross check that no answer explains: what it compares is gone, or it
was on its last attempt. `RowsImplementRecord` is the
refinement of `RequestRecord`, which needs `RowInv` where a row is closed: the
figures finalize writes are those of the answer.

`QualityReleasesProofs` first proves `RuleInv` for the rule publication alone
(`RuleSpec`): a publisher past its checks holds the JD's lock and what it read
still stands (`PublisherInv`), and only imports leave a published version out of
force (`LeftByImports`, the bound in `PublishedIsActive`). `ImplementsRuleSpec`
shows that every step of a release, preview or retry is a step of `RuleSpec` or
leaves its variables alone, so both theorems carry over. `ReleaseInv` then adds
what a request has in hand: its preview (`PreviewOf`), its view and the states
committed since it began (`AttemptOf`, `ViewOf`), snapshots unique by content and
id, among stored and uncommitted ones (`StoredInv`, `InsertedInv`). From it
follow `ReleaseIsWhatWasPreviewed`, `SnapshotPerContent` and, step by step,
`ReleaseCoherent`.

`ScoringProofs` has two halves. The first is about the steps: `ScoringInv` says
that a run asks the judge only when no filter failed, that past its insert it
holds the stored row or the one it is about to store (`WorkerInv`), that one
transaction at a time inserts a row (`AloneInv`), that a stored row is what its
version's rules make of an admissible answer (`StoredInv`), and that whoever
commits a contradicted score or label, unless they overlap, has the reason to
queue a check in hand (`InsertedInv`, `ImportedInv`). `ScoresAreFinal` and
`DisputesQueued` follow. The second half is about the operators, for every row
that satisfies `StoredInv` and whatever the floats of each sum err by.
`RowReproduced` splits a total into the rules' and the judge's points: What-If
finds the exact sum again up to the rounding, and finds it exactly with points in quarters.
`GradeSettled` says that two sums within half a hundredth of a total have one
grade unless a threshold lies there too; `WhatIfReproducesGrade` is both
together. `WhatIfMonotone` compares a stored score with any version of the same
thresholds whose filters pass: if its rules give at least a hundredth more than
the stored subtotal, What-If shows no lower grade, because a hundredth outweighs
the rounding, and what the floats err by decides only between equal sums.
For the reports, `InOneCell` counts each label in one cell of
a matrix, `OfCandidates` identifies the items of a release with their candidates,
`OwnRulesDecide` says that the rules of the version itself decide every scored
label, and `DraftAgrees` puts them together into the counts of a draft's
evaluation. Covered and unknown dimensions partition the expected ones; a bin
holds the confidences between its edges, and sampling and release compute the
same weighted mean, at most one, when every known tier has a score. Points may
be any integers (negative ones too), weights natural numbers, tiers with and
without a score as `RuleSchema` admits them, and the numbers of rules, tiers,
dimensions and labels any.

Each strengthening was also checked with TLC on the instance of a run above. `SetSums` gets
its induction over subsets from the well-foundedness of the strict subset order
of a finite set, taken as a fact about minimal elements, because the library's
induction theorems have an operator parameter.

The assumptions are those named `...Assumption` in the models: constants have
their types, sets the code iterates are finite, `None` is no value, and the two
relations between settings (time limit below lease, skew within overlap) hold.
The bounds of the instances (`MaxTime`, `MaxEdits`, `MaxRuns`, `MaxInputs`,
`MaxDay`, ...) are constants of the models, and the theorems hold for all their
values.

Only model-checked: liveness (`JobsSettle`, `ChecksSettle`, `CandidatesSeen`,
`RowsSettle`, `TaskEnds`), because fairness is outside the prover's reach. No
model declares a `RECURSIVE` operator.

## 7. Not modelled

- Upload validation, the malware scan, the rule workbook importer, the prompts,
  presigned URLs, tokens and HTTP of the adapters: conversions of bytes and text
  that only accept or refuse; the models keep the outcomes.
- Operational reporting, the batch report, the operations totals of a release,
  the means inside a calibration bin, listings, the MCP server: queries that
  write nothing.
- Authentication and the frontend: no protocol state.
- Dates and text inside the rule methods: a job is a set of words and a number of
  years on a given day. `experience_years` of an open-ended job grows with the
  calendar, so What-If on a later day may differ; the models keep the day fixed.
- The intake's commit is taken to fail or succeed as the client sees it: a commit
  that succeeds in the database while the client sees an error, followed by the
  compensating delete, is not modelled there (it is in `UsageLedger`'s clients).
- Two golden imports that lock the scores they touch in opposite orders: the
  database aborts one of them. `Scoring` has one import at a time.
- Points and thresholds finer than half a hundredth, and totals beyond what
  `NUMERIC(6, 2)` or a float of that precision holds.
- `ModelPriceMissing`: every configured model has a price.
- `run_parse_and_score` is only called by tests.
