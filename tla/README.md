# Verification of the VideoLyricsIA backend

TLA+ models, TLC configurations and TLAPS proofs for the Python backend under
`lyricgen/backend/` (all paths below are relative to it). The system turns a song
into a lyric video: an API commits jobs, RQ workers transcribe, analyse, render and edit
them, operators correct the lyrics, and a reaper and reconcilers clean up after
whatever died on the way. The models are about that control: who may write which row,
when, and what happens when a step is lost, repeated or late. What ffmpeg
draws and what the speech models hear is not modelled.

## 1. Inventory

| Component | Code | State | Operations |
|---|---|---|---|
| Job row | `jobs.py`, `job_states.py`, `database.py` | table `jobs`: status, error, files, segments and their revision, pipeline attempt, heartbeat | `update_job` (all background writes, four guards), `bind_job_attempt` |
| Transactional outbox | `transactional_outbox.py` | table `job_outbox_events`: status, attempts, claim token and time | create, dispatch, reconcile, claim, finish |
| Queue | `queue_jobs.py`, RQ (external) | Redis: queue entries, retries left, deferred retries | `enqueue_pipeline`, `enqueue_edit`, `enqueue_transcription`, `enqueue_transcription_quality`, failure hooks |
| Render pipeline | `pipeline.py` | none of its own; writes the job row | `run_pipeline`, `run_edit_pipeline`, background generation |
| Edits | `main.py`, `pipeline.py` | status `editing`, edit count, the key of the intent | `request_edit`, approve, reject, revert |
| Reaper | `reaper.py` | what one sweep loaded | sweeps for silent jobs, stalled renders, abandoned edits, uploads, transcriptions |
| HTTP API | `main.py` | request-local reads | upload, `/retry`, `/edit`, `/generate`, approvals, deliveries |
| Lyric editor | `editor.py`, `main.py` | document with revision, versions, frozen evidence, advisory lease, proposals | save (compare and swap), restore, resolve, re-anchor, approve |
| Transcription | `transcription_worker.py`, `main.py` | transcription states of the job row | enqueue, run, fail, reap |
| Quality jobs | `quality_jobs.py`, `queue_jobs.py`, `transcription_quality.py` | quality record of the row: status, marker, active attempt, verdict, resolution, approval | mark, publish, run, persist, fail, reconcile |
| Correction learning | `quality_learning_jobs.py` | training records, a shadow model | collect, train |
| Batch campaigns | `batch_campaigns.py`, `universal_batch.py` | campaign items, phases, windows | promote, retry, discard, restore, approve |
| Vocal separation | `demucs_semaphore.py`, `vocal_sep.py`, `replicate_budget.py` | Redis sorted set of leases | acquire, release, budgeted provider call |
| Veo budget | `pipeline.py`, `provenance.py`, `veo_budget.py`, `jobs.py` | a provenance row per paid call, its lease, the ledger of deleted jobs | record, reserve, guard, release, archive |
| Veo breaker | `veo_breaker.py`, `pipeline.py` | Redis keys open, count, probe | `is_open`, `record_rate_limit`, `record_success` |
| Uploads | `storage.py`, `main.py` | multipart sessions | create, complete, expire |
| Deliveries and QC | `delivery_*.py` | delivery rows against a job revision | build, invalidate, send |
| Billing | `billing.py`, `finance_ledger.py` | provider events, ledger postings | webhook, post |
| Media algorithms | `ctc_align.py`, `ass_render.py`, `fx_compositor.py`, ... | none | pure computations on audio, text and pixels |

**How they interact.** The API commits the job row *and* an outbox event in one
transaction. A dispatcher (the request itself, or the periodic reconciler)
enqueues an RQ job for the event and marks it `dispatched`. An RQ worker claims the
event in PostgreSQL under a time-limited lease, runs, and marks the
event `consumed`, or `pending` again after a failure. While it runs, every background write goes
through `update_job`, which compares the attempt bound to the worker with the
attempt in the row. RQ calls a failure hook, in the same or in another process,
and may retry the job. Independently the reaper gives up on silent rows, and
operators save lyrics, approve, edit and retry. Redis and PostgreSQL share no
transaction: every gap between the two is a place to crash. The quality analysis uses the
outbox too, but marks the row before it enqueues and answers by replacing one JSON record of it.

**What is hard, and what correct means there.**

* *Delivery is at least once.* The same event may be enqueued twice (crash before
  the commit of `dispatched`, ambiguous enqueue error, RQ retry, stale recovery). Correct:
  one execution at a time, an event ticked off only when the job has an outcome.
* *Superseded workers keep running.* `/retry` starts a new attempt, but nothing stops
  the old worker. Correct: the old one can neither publish nor fail the new attempt.
* *Late hooks.* A failure hook may run after success. Correct: it does not take
  a finished job, or a complete analysis, back.
* *Operators write what workers write.* Correct: a saved lyric is never lost, an approval
  goes only with its lyric, a revision names one text.
* *Two copies of the lyric*, job row and document. Correct: they move together.
* *Work about something that moves.* An analysis, a review, a reservation are decided on a read and used
  later. Correct: what changed in between is noticed.
* *Money.* Correct: a paid generation is counted before it is sent and never forgotten.
* *Everything must end.* Correct: no job stays `processing`, `editing` or `transcribing`, no intent or
  analysis `pending`, no wait for a separation slot is for ever.
* *Leases against time limits.* Consumer lease against RQ timeout, separation lease
  against provider budget. Correct: no lease ends under a legal holder.
* *Edits are not fenced by attempt* and their dedupe key can repeat.

`PROJECT.json` lists each hazard at its line, and the properties aimed at it.

## 2. Modules

| Module | What it is |
|---|---|
| `JobStates` | `update_job` as one operator `UpdateJob(row, attempt, upd)` composed of its guards in source order (fence, terminal, success over failure, segments), the status classes of `job_states.py` |
| `OutboxEvents` | what each function of `transactional_outbox.py` does to one event row |
| `RqQueue` | one RQ job: queue entries, retries left, deferred retry (external, modelled from its use in `queue_jobs.py`) |
| `PipelineOutbox` | composes the three for renders: API, dispatcher, workers, RQ hooks, reaper, clock |
| `JobAttempts` | abstract: attempts begin, publish, fail, are reaped |
| `EditOutbox` | composes the three for edits, with reviewers |
| `EditDeliveries` | abstract: edits are rendered at least once and not after they are ticked off |
| `EditorDocument` | every writer of a song's lyric |
| `LyricHistory` | abstract: a register with a history that is never rewritten and tabs that may replace only what they hold |
| `TranscriptionOutbox` | composes the three for transcriptions, with the campaign and the operators of one song |
| `LyricTranscripts` | abstract: the machine writes at most one lyric, before any operator |
| `QualityOutbox` | events and queue composed with the quality record of one song |
| `SongAnalyses` | abstract: questions about the song as it is, each answered at most once |
| `DemucsSemaphore` | the separation semaphore and its callers |
| `SeparationSlots` | abstract: a pool of slots none of which is free while a separation runs on it |
| `VeoBudget` | the ceiling on paid generations |
| `SongSpend` | abstract: the account of a song, from which a slot is granted, spent, begun or refunded |
| `...Proofs` (seven) | theorems about the module of that name |
| `MC...` (seven) | instances for TLC |

Every database transaction is one action and everything between two
transactions of one actor is a place where others run; a Redis call is an action of its own.

Each component has its abstract specification: what its users rely on, without the machinery (queues, leases, markers, retries) that provides
it. The detailed module says by `INSTANCE ... WITH` which of its states stand for which abstract ones (`Implements...`); TLC checks
that on the instances, TLAPS proves it for all.

### PipelineOutbox

One job and the events of its attempts. `job` is the row, `events` the outbox rows, `rq`
the RQ jobs `pipeline:<event>`, `exec` the worker processes, `api` the `/retry`
requests that have passed their gate but not committed, `reaper` the row its sweep has
loaded.

| Actions | Code |
|---|---|
| `Init` | `_commit_pipeline_publication`, main.py:3222 |
| `RetryRead`, `RetryCommit` | `retry_job`, main.py:19230: the gate, and the commit much later; the session writes only changed columns |
| `OperatorSave` | `save_document`, editor.py:1863, as the render sees it |
| `DispatchOk`, `DispatchError`, `DispatchCrash` | `dispatch_outbox_event`; the error may be ambiguous, the crash comes between Redis and the commit |
| `RecoverStale` | first transaction of `dispatch_pending_outbox_events` |
| `Pop`, `ClaimGranted`, `ClaimConsumed`, `ClaimBusy` | `run_outbox_pipeline`, `_claim_outbox_consumer` |
| `StartRun`, `Progress`, `PersistSegments`, `RunSucceeds`, `RunErrors`, `RunRaises` | the writes of `run_pipeline` and its ways to end: an ordinary exception is swallowed after writing `error`, a timeout propagates |
| `FinishOk`, `FinishFail` | `_finish_outbox_consumer` |
| `Callback`, `Crash`, `Abandon`, `RetryDue` | `pipeline_failure_callback`, a killed worker, the abandoned-job sweep of RQ, its retry scheduler |
| `ReaperFind`, `ReaperReap` | `find_stuck_jobs`, `find_stalled_renders`; `reap_stuck_job` |
| `Tick` | a clock unit, and RQ's death penalty |

Time is counted in units. The consumer lease and the staleness threshold are 3900 s,
RQ's default timeout is below that (queue_jobs.py:104), so the three are one unit in the
passing runs; what the properties tell apart is only whether a run may outlast the lease.
Ages saturate one past the threshold they are compared with. Retry back-offs (5 to 300 s)
are shorter than a unit and are not kept.

### EditOutbox

One finished video. `job`, `rq`, `exec`, `reaper` as above; events are indexed by the dedupe key that
`request_edit` computes (revision, count, kind), `payload` is what each describes, `key` the event of the last accepted
request and `current` that request, `review` a verdict whose session has loaded the row and not committed yet, `video` whose
render the deliverables in object storage are.

A request has one of the six edit types (`EditType`). Which statuses it is accepted in (`ReopensShipped`) and whether it uses up one of the three slots
(`UsesSlot`) follow from the type and, for a custom background, from `animate_image`. Reviewers of role admin (`Admins`) reopen shipped videos for new backgrounds and are
exempt from the cap (main.py:18106), so the count has no limit in the code: `MaxEdits` is the cap, `MaxCount` a bound of the model.

| Actions | Code |
|---|---|
| `RequestEdit` | `request_edit`, main.py:17798: row lock, gates, flip to `editing` and intent in one commit |
| `ReviewRead`, `ReviewCommit` | `approve_job`, `reject_job`: the verdict is on the copy loaded before (no `populate_existing`) |
| `OperatorSave` | `save_segments`, which moves the revision of the key |
| `Dispatch...`, `RecoverStale`, `Pop`, `Claim...`, `Finish...`, `Return`, `RetryDue` | outbox and RQ, as for renders, with the entry point `run_outbox_edit_pipeline` |
| `StartRun`, `Upload`, `Complete`, `RunRefuses`, `RunRaises` | `run_edit_pipeline`: its first write, the object storage upload (which no guard of the row protects), the final write, its refusals and its failure |
| `CallbackWrite`, `Callback`, `Crash`, `Abandon` | `edit_failure_callback` and who calls it |
| `ReaperFind`, `ReaperRevert` | `find_abandoned_edits`, `revert_abandoned_edit` with its refund of a slot |

### EditorDocument

`store` holds the lyric: text and revision of the row, the document, the numbered versions and whether
evidence is frozen. `views` is what each browser tab last received, `requests` a `/generate` between its
steps. Texts are model values; `LyricOf` is the operator-owned part, which is what
`segments_equivalent` compares (its 1 ms tolerance is abstracted to an equivalence). Each endpoint takes the row
lock and is one action; the pure operators (`Reconciled`, `Saved`, `Synced`, `Frozen`, `Adopted`, `BothKept`,
`Pruned`) are the functions of `editor.py` they are named after in the map.

| Actions | Code |
|---|---|
| `Transcribe`, `Rewrite`, `RenderDone` | the result of the transcription; the render worker's `update_job(segments_json=...)` |
| `Open`, `ReadStatus` | GET editor (reconciles), GET status |
| `Patch`, `Restore`, `Resolve`, `SaveSegments`, `Reanchor` | the routes that save |
| `Conflict` | the refusal of a patch, restore or resolution, whichever text was sent: the tab is shown a 409 body that was computed and rolled back |
| `CampaignApprove` | `approve_campaign_lyrics` |
| `GenerateReview`, `GenerateSelected`, `Generate`, `Publish`, `GenerateFails` | `generate_with_segments`: review without a lock, freeze, publication in a later transaction |

Two looks at the status come too early in the code, and in the model: `Publish` locks the row again but sees the copy its session loaded before (main.py:11592, no
`populate_existing`), so it turns nobody away; `Reanchor` looks before an alignment of minutes (17033) and not again when it saves.

### TranscriptionOutbox

One song, uploaded by itself or as an item of a campaign. The row carries status, active attempt, lyric, revision
and the attempt whose evidence is frozen; `stage` says for each event whether it is a separation or a full transcription.

| Actions | Code |
|---|---|
| `Transcribe`, `CreateStage`, `QueueFull`, `QueueFullFails`, `RetryItem` | requests: `/transcribe-uploaded`, the campaign's stages, its promotion after separation, its retry |
| `RetryRender`, `Discard`, `Restore`, `OpenEditor`, `OperatorSave`, `CampaignApprove`, `Generate`, `RenderEnds` | what people and the render do to the same row |
| `Dispatch...`, `RecoverStale`, `Pop`, `Claim...`, `Finish...`, `Return`, `RetryDue` | outbox and RQ |
| `DiscardRetry`, `StartRun`, `Progress`, `SeparationDone`, `Persist`, `PersistRefused`, `FailRefused`, `RunFails`, `RunRaises` | `run_transcription_job`; the result is written to the row directly, without its attempt or status |
| `Callback`, `Crash`, `Abandon`, `ReaperFind`, `ReaperReap`, `Tick` | failure hook, RQ, reaper, clock |

A song starts as an upload or as a campaign item without a job row. The discard's earlier status is forgotten when the
song is restored, for nothing reads it again. A save is a text of the operator's: one that equals the stored text changes
nothing in the code either. `/retry` of a failed render belongs to `PipelineOutbox`. The campaign's pause and capacity only delay its steps.

### QualityOutbox

`job` is the song's revision, audio, quality status, marker, active attempt, verdict, open windows, resolution and approval;
`pub` a publisher between its steps (the transcription, a dispatcher, a worker's reconciler), `exec` an analysing worker.

| Actions | Code |
|---|---|
| `Save`, `ReplaceAudio`, `Approve`, `ResolveLanguage` | people; the first two supersede a pending analysis and leave an intent |
| `Call`, `Dispatch`, `Scan`, `Reconsider`, `CallDirectly` | the three who ask: `enqueue_transcription_quality` direct or for an event, `reconcile_stale_pending_quality_jobs` |
| `Mark`, `MarkDeclined`, `Enqueue`, `EnqueueFails`, `Undo`, `DispatchEnds`, `ScanEnds`, `PublisherDies` | the steps of a publication: marker in PostgreSQL, then Redis, then the report |
| `Pop`, `Start`, `Discard`, `Persist`, `Return`, `RunRaises`, `Crash`, `FailureHook`, `RetryDue` | `run_transcription_quality_job`, `_persist_if_current`, failure callback, RQ |

### DemucsSemaphore

`set` is the Redis sorted set as units of life left per lease, `worker` the state of
`separate_vocals` in each process: waiting (with what it has waited and what its budget
has left), running, releasing. The Lua script is atomic, so `Acquire` is one action;
`AcquireError` is Redis failing before *or after* the script ran. The wait and the cache
look-up count against the call's budget (vocal_sep.py:475), and the call polls its deadline
(`_run_predict_with_progress`), so `Tick` never takes a running call past it. This assumes a
model with a pinned version, as the default is: without one `call_with_budget` says itself
that the budget is not enforced. The few seconds by which a poll may overrun its
deadline are below the clock unit; the code's own margin (1500 s against 1200 s) is the
assumption `LeaseOutlivesCall`. REDIS_URL is set and DEMUCS_MAX_CONCURRENT is positive: without
either there is no semaphore.

### VeoBudget

`row` is the provenance row of each call, `lease` whether its lease
is alive, `call` the process, `accepted` the generations the provider has begun, `ledger` what a deleted job has
spent, `deletion` a deletion between its scope and its locks. `uncounted` and `renamed` are history.

| Actions | Code |
|---|---|
| `Begin`, `Record`, `Reserve`, `ReserveRefused`, `ReserveOpen`, `NotAuthorised` | `_generate_veo_video` up to its reservation, `_veo_budget_exceeded`; a database error lets the call through (documented) |
| `Guard`, `GuardRefuses`, `GuardFails`, `ReleaseUnsent` | `_VeoSubmissionGuard`: both locks, the row re-read, the lease looked at; after an error, which gives the locks up, the caller closes the row as free |
| `Accept`, `Ambiguous`, `RateLimited`, `Rejected`, `Retry`, `RetryUnauthorised`, `Finish` | every answer; `Ambiguous` is a broken connection, a 408 or 5xx, an unreadable or nameless success |
| `Crash`, `LeaseExpires` | a dead worker; a lease ends at any time, in any order |
| `RequestDelete`, `Delete`, `Rename` | `delete_job` with `_archive_veo_budget_spend`; an edit of artist or title |

The two advisory locks are asked for in sorted order, so they are taken in one step. One clock is assumed: a lease is
written and counted with the worker's (pipeline.py:11958) and judged by the database's (11767); clocks far enough apart
could exceed the ceiling. One tenant and one rolling window: rows leave it by age, 30 days later. Operator scripts that insist on tracking
(`require_persistent_tracking`) only refuse more; a preflight refusal writes nothing and is in `Begin`'s guard.

## 3. Runs

| Run | Shows |
|---|---|
| `pipeline` | safety and refinement of renders: two attempts, two workers, a `/retry`, a save, a fault anywhere |
| `pipeline_liveness` | `IntentSettles`, `JobSettles`: one event, as many faults as RQ retries |
| `demucs` | cap, reservation, refinement, expiry of a dead worker's lease, end of every wait |
| `edits` | a lyrics and a background edit, an admin past the cap, two workers, the reaper, a fault; safety, refinement and liveness |
| `editor` | two tabs, four texts (one empty, two of them equivalent), every writer of the lyric; safety and refinement |
| `transcription` | two attempts, two workers, the campaign, operators, the reaper, a fault; safety and refinement |
| `transcription_liveness` | `TranscriptionSettles`: one attempt |
| `quality` | the analysis of a song through a save or a new audio and a fault; safety, refinement and liveness |
| `veo_budget` | two calls, two jobs, two songs, one slot, two faults, a rename; safety and refinement |
| `reaper_overwrites`, `edit_dropped`, `campaign_text` | counterexamples, see §7 |

Type invariants are theorems in every module with proofs; no run spends a property on them.

The properties of renders:

* `ExclusiveExecution`: no two workers run the pipeline for one attempt at the same time.
* `SuccessIsCurrentAttempt`: a finished job links to the current attempt's files.
* `SupersededIsSilent`: a worker whose attempt was replaced changes nothing of the row, not even its heartbeat, which would hide from the
  reaper that the new attempt is stuck.
* `ConsumedMeansSettled`: once the outbox has ticked the current attempt off, the job has an
  outcome.
* `OperatorTextSurvives`: a versioned save is never replaced by a render.
* `ImplementsAttempts`: `PipelineOutbox` implements `JobAttempts`. The mapping derives the
  abstract outcome from status and error, the used attempts from the events that exist.
  A finished job is taken back only by a new attempt or, regrettably (§7), by the reaper.
* `IntentSettles`, `JobSettles`: liveness of the event and of the job.

Of separation: `CapHolds`, `BatchHolds`, `InteractiveHasSlot`, `DeadLeaseExpires`, `WaitEnds`, as their names say, and `ImplementsSlots`:
the set implements `SeparationSlots`. A separation never runs on a slot another may take, whatever expires, dies or answers late.

Of edits:

* `SuccessIsTickedOff`: RQ files an edit as done only when the outbox has ticked it off. A worker turned away because another holds the claim, perhaps a dead one, has to fail, or
  nothing would retry the edit; a worker that returns must still own the claim it reports on.
* `ConsumedMeansSettled`: an edit that was ticked off is not one its row still waits for, even when a claim expires under its worker.
* `LateFailureIsIgnored`: no late failure report fails a video in review or approved.
* `ImplementsDeliveries`: `EditOutbox` implements `EditDeliveries`; the deliverables are never replaced by a render of an edit that
  another worker has settled.
* `EditSettles`: no video stays in `editing`.

Of the lyric:

* `JobMirrorsDocument`: row and document move together, whoever writes.
* `RevisionNamesText`: a stored revision stands for one text for ever. Every compare-and-swap relies on it.
* `HistoryIsAppendOnly`: no version is rewritten or loses its approval; only drafts of a song without frozen evidence are pruned.
* `NoSaveIsLost`: a save that replaces a lyric comes from a tab that holds that lyric. The exception (`stored`) is a tab whose last answer
  was a 409 computed on a reconciliation that was rolled back: it may hold a revision that somebody else's save then takes. It
  needs revisions beyond the run's bound to matter; the proof covers it for every bound.
* `ApprovedAfterReview`: a `/generate` never approves a lyric on the review of an earlier one.

* `ImplementsHistory`: row, document, versions and tabs implement `LyricHistory`.

Of transcription:

* `ReviewHasEvidence`: no song is in review or approved without the frozen evidence of how it was recognised.
* `SeparationStaysBehind`: once the full transcription is queued no redelivered separation brings the song back.
* `RetryIsSpared`: what is left of an old attempt does not fail a queued retry.
* `LateFailureSparesRender`: a late failure report of a transcription does not hide a rendered video.
* `ImplementsTranscripts`: `TranscriptionOutbox` implements `LyricTranscripts`: the machine writes at most one lyric, by an attempt not yet ticked
  off, never over an operator's.
* `TranscriptionSettles`: no song stays in `transcribing_queued` or `transcribing`.

Of quality:

* `VerdictIsCurrent`: a complete analysis is one of the lyric and the audio the song has now.
* `PendingCanLand`: a pending row names the attempt whose answer it would take.
* `HookSparesVerdict`: no worker, repetition or failure hook takes a complete analysis back. (A publisher can, §7.)
* `ApprovalSurvivesAnalysis`: an approval goes only with its lyric.
* `ImplementsAnalyses`: `QualityOutbox` implements `SongAnalyses`: no answer is taken twice, without a question, or for another snapshot.
* `PendingSettles`: a pending analysis with something to look into is answered, refused or overtaken.

Of the Veo budget:

* `CeilingHeld`: the provider never begins more than the ceiling of a song's generations, through expired leases, retries, deaths and deletions.
  Exempt are calls let through uncounted when the database fails (documented as fail-open) or that have no row, and jobs whose artist or title was edited: a rename
  moves their rows to the new song without lock or recount, and a delete reads its scope before it waits for the locks.
* `SpendIsKept`: a generation begun under the protocol is spend in its row or in the ledger at every moment.
* `ImplementsSpend`: rows, leases, locks and ledger implement `SongSpend`: nothing begins on a slot that was not spent first, and none is
  refunded after something began.

Every property has a mutant of the code in the modules (named `...Missing`, `...OffByOne`,
`...Silently`, `...Once` and so on, marked as a mutant or a variant in its comment) under which TLC finds the property violated.

## 4. Bounds

* *Renders.* Two events are the least with a superseded attempt; two workers the least with a second
  execution or a late hook beside a live run; one request, since a second `/retry` needs a
  third attempt to matter. Events and workers are symmetric in the safety run; no
  symmetry is used with liveness.
* `MaxFaults` bounds crashes, errors and lost calls together. One fault in the
  safety runs already gives the double enqueue, the abandoned worker or the failing
  consumer, each combined with retry, save and reaper; `reaper_overwrites` uses four.
  The render liveness run allows two, with `RetryMax` 2.
* `MaxEntries` 1: RQ keeps one live queue entry per job id. `MaxAttempts` 3 (fewer elsewhere)
  stands for 12: only reaching it is observable. `RetryMax` 1 or 2 stands for 3 (2 for transcription; 1 is the code's own for quality).
* `BeatCap = ReapAfter + 1`: heartbeat age saturates past the reaper's threshold.
* *Edits.* A lyrics and a background edit, which both use a slot, in any order and from any status an admin may reopen; the cap `MaxEdits` is 0, so that the admin's first counted edit
  is past it already, and `MaxCount` 1 lets the keys repeat once the reaper has given the slot back. As an admin may do all a user may, the run
  contains every behaviour of a user whose cap is 1. 403,580 states. `edit_dropped` has a user and two metadata edits, which use no slot.
  The reaper's threshold of 30 min is below the job's timeout of 60: `AbandonAfter` 0 under `JobTimeout` 1.
* *Lyric.* `MaxRevision` 2: a save, and one on top of it or against it; `KeptDrafts` 1 prunes at once (50 in the code); two tabs;
  one `/generate` at a time (two in `campaign_text`). Tabs, and the two timings of one lyric, are symmetric; no liveness is claimed.
* *Transcription.* The clock unit is the lease: `JobTimeout`, lease, staleness and reaper threshold are all 0, that is,
  a tick passes only when no claim is held. The real threshold of 120 min exceeds the timeout of 30. `MaxRevision` 1: what matters is whether an
  operator has saved. The symmetric run checks safety only.
* *Quality.* `MaxChanges` 1: one save or one new audio, which is what an analysis in flight is stale against; one worker
  (`railway/quality-worker.toml` has one replica) that is also the reconciler, one dispatcher, the transcription; `MaxEntries` 2 so that no publisher
  waits for room; one fault. 378,257 states. With two workers no violation was found in 12 million states, a search that was not exhausted.
  A song with evicted RQ records loses their queue entries; another release's discard is `Discard`'s other branch.
* *Veo.* Two calls and a ceiling of 1 compete for the last slot; two jobs and songs give a deletion and a rename beside the other job's call;
  one rename, since with both jobs renamed every call is exempt; two faults, three requests per call. 1,167,171 states. An instance of three calls (two requests, one rename, one fault) passed too.
* *Demucs.* A batch limit of 1 in a cap of 2, the defaults; two batch workers compete for the one, an
  interactive worker needs the other. Four lease names are enough for every acquire that has room
  to find a fresh one. `Ttl` 3 > `Budget` 2 > `WaitMax` 1 keeps the order of 1500 > 1200 > 900 s;
  two faults let a worker die and Redis fail in the same behaviour.

`CHECK_DEADLOCK FALSE` where the system may stop: an analysed song nobody changes any more, calls that are all done.

## 5. Fairness

Weak fairness, and only of periodic or running processes: the reconciler
(`DispatchOk`, `RecoverStale`), RQ's scheduler and worker loop, the worker's next step, the
reaper's sweep and write, a request that has read and must commit, the clock. They are loops of processes the platform
restarts. `EditSettles` needs least: the workers as a whole (one of them goes on), the reaper and the clock, and nothing of dispatcher or scheduler. Nothing is assumed of operators, the campaign, nor of any action that stands for a fault.
Strong fairness is used once, on a worker taking a job from the quality queue: the same process also reconciles,
so it is not idle without interruption, but its queue is FIFO.
`IntentSettles` is stated for at most as many faults as RQ grants retries: an event
that is `dispatched` but not yet claimed is looked at by no reconciler, so a queue entry lost
beyond that stays lost, and only `JobSettles` (the reaper) covers it. For the semaphore, fairness
is on the poll as a whole, granted or at its deadline refused: with fairness on each outcome alone
a worker could starve at the deadline while slots come and go.
`PendingSettles` speaks of rows with windows: a row marked again over a finished analysis that has none left is refused and published again without end (§7).

## 6. Proofs

TLAPS proves every safety property and every refinement of the passing runs, and the type invariant of every module, for every value of the
constants that satisfies the modules' assumptions. Five results no run states come with them: `Silence` (no request is sent for a job that was deleted),
`OneEditor`, `UsersKeepCap`, `OneTranscriber` and `TheLyricIsFinal`. The list is `PROJECT.json`'s `theorems`. Six are proved under the hypothesis
`LeaseCoversTimeout` (the RQ timeout does not exceed the consumer lease): `OneExecution`, `OutboxImplementsDeliveries`, `OneEditor`, `NoDeliverySwallowed`,
`TranscriptionImplementsTranscripts` and `OneTranscriber`. §7 says where the deployed values break it. Nothing else depends on it. `UsersKeepCap` assumes that no reviewer is an admin.

*Renders.* The properties are not inductive alone. `Created` says that work in
the queue or at a worker belongs to an event that exists, so `/retry`, which takes a fresh
event, cannot collide with it. `ClaimHeld` says a worker between claim and finish owns the
claim, and the claim is no older than its run: as a run may not outlast the lease, nobody else
is granted it. `Settled` says a worker whose pipeline returned for the current
attempt left a terminal status, and terminal statuses stay until the next attempt; that gives
`ConsumedMeansSettled` when the event is ticked off. The lemmas about `UpdateJob` (what
any update keeps, where a terminal one lands) carry all three, and the refinement: each kind of background write
(progress, failure, publication) maps to a stutter, `Fail` or `Publish`. `SupersededIsSilent` needs that a worker which writes has an event that exists
(`Created`), for `update_job` fences nobody who is bound to no attempt.

*Edits.* The same plan without the fence: `Settled` relates a worker past its final write to the row through
the payload of its key, and the refinement splits a step into an acceptance, an upload under a held claim, a
tick-off and the rest. `OneEditor` is `ClaimHeld` read off: two holders of one event would both hold its token. `NoDeliverySwallowed` adds `ReturnedIsTickedOff`: a worker past its tick-off, which `ClaimHeld`
made effective, stays right because a ticked-off event never changes again (`TickedOffStays`). The count of edits obeys the cap only without admins (`UsersKeepCap`); the type invariant does not mention it.

*Lyric.* The pure operators on the store are shown once to keep it well formed (`Good`: typed, row and document mirrored, no version
above the revision) and to lead only forward (`Follows`). Every action is then a composition of them, and the
properties are read off: `ViewsKnow` (what a tab holds is what its revision named) and `ReviewsKnow` complete the invariant `IInv`.
The refinement adds two facts about versions: the one of the current revision has the current lyric (`Named`), and a version a step adds is of a later revision or has
that lyric (`Enters`).

*Transcription.* `Typed` adds what a discard remembers and that queued and assigned work exists; `Reported` bounds what a
worker may still report under its attempt, `Evidenced` ties review statuses to the evidence, `ClaimHeld` is as above, and `Untouched` says that a
song without evidence and without saves has no lyric, which is what the refinement needs when the result lands. `TheLyricIsFinal` rests on `Untouched` alone: whatever
the leases do, the second of two workers is refused by the evidence of the first.

*Quality.* `Sound` is inductive: `SoundRow` (a pending or complete row is about its snapshot, its marker the active attempt), `SoundPublisher`
(a publisher between marker and enqueue knows what it marked) and `SoundWorker`. The two action properties follow from it step by step. In the refinement
a publication's marker is `Ask`, its undoing `GiveUp`, a landed result `Complete` or `Fail`; a marker refused, a stale result or a late hook stutters.

*Veo.* `IInv` is `TypeOK`, `DeletesRight` (a deletion under way holds the scope its song had), `SlotsHeld` and, per call, `Local`: the row belongs to a live job
or is filed (`RowOwned`), a call past its reservation was counted or let through (`LetThrough`), an accepted one is spent (`Spent`), a filed one is in
the ledger under its song (`FiledRight`). `SlotsHeld` bounds the *ordinary* occupants of each song by the ceiling. `Reserve` is the only step
that adds one, and it counts all occupants, which include the ordinary ones; every other step keeps or shrinks the set.
The refinement reads the account off the same rows: every slot the account has taken is one the code counts (`TakenIsCounted`), and per call a step only moves
forward, lapses or refunds (`CallMoves`).

*Separation.* `HoldersAgree` (a lease has one holder, of its class),
`CallsCovered` (a running call ends before its lease, and batch calls have one) and `SetWithinLimits`
(the script's counts) are inductive together; the leases of running calls then inject into the
set, whose cardinality the script bounds. The refinement rests on the same invariant: a slot that expires or is released is one no running call holds.

Only model-checked: the liveness properties (`IntentSettles`, `JobSettles`, `EditSettles`, `TranscriptionSettles`, `PendingSettles`,
`DeadLeaseExpires`, `WaitEnds`), which need fairness and ENABLED, and the counterexamples.

## 7. Where code and documentation disagree

Shown by a run:

* `reaper_overwrites` (`ReaperSparesFinished`): the reaper's "re-read" of the row under `FOR UPDATE` (reaper.py:950) returns the object
  its sweep has loaded, with the old attributes, because the query does not say
  `populate_existing`; a job that finishes between sweep and write is set to `error`, the very race the docstring
  says it prevents.
* `edit_dropped` (`AcceptedEditIsPublished`): two edits that use up no slot share the dedupe key (main.py:18663). The second is answered 202 and the row says
  `editing`, but the intent it gets is the consumed one of the first, and nothing is rendered.
* `campaign_text` (`CampaignRendersApprovedText`): `/generate` of a campaign song checks the approval of the stored lyric and then stores and renders the submitted
  one (main.py:11244).

Observed while modelling, and what the code does in the models; no run is kept for them:

* umg/both deliveries may run 5400 s (queue_jobs.py:842) under a consumer lease of 3900 s, so `LeaseCoversTimeout` does not hold for them.
* Only a failing *publication* counts against the maximum of attempts (transactional_outbox.py:73-77 speaks of all).
* The failure hook of a render writes the final error on every failed execution, also when RQ is about to retry.
* The reaper reverts an edit after 30 min, below its timeout of 3600 s, and cancels RQ job `edit:<job>`, while the id is `edit-outbox:<event>`; the worker of a
  reverted edit runs on and replaces the video, contrary to reaper.py:688-689. It may also settle the row of a newer edit. When a free edit is abandoned, the refund gives back a slot that another edit has used.
* `transcription_failure_callback` is fenced only by the attempt (queue_jobs.py:376-378), and `transcribed_pending` and `lyrics_approved` are no
  success statuses for `update_job`: a worker that dies after its commit fails the song in review; a repetition is refused as already frozen.
* `_persist_if_current` (quality_jobs.py:640) carries a list of durable keys over; `language_resolution`, recorded while an analysis is in flight
  (main.py:16395-16408), is not on it and is erased, although 636-637 and main.py:16368-16369 say otherwise.
* With the ceiling off for a tenant (the default), a 429 marks the row released (pipeline.py:12794) and the next request is sent
  without reserving it again; while that generation runs, and for ever if its worker dies, it is not billable. provenance.py:312-316 and pipeline.py:11629-11630
  promise the opposite. TLC confirms it with `Listed = FALSE`.
* Quality publications: a failed one marks its own attempt failed, the repeated event is then refused as answered and counted as dispatched;
  `_mark_enqueue_failed` does not look at the status, so an ambiguous error, or a second reconciler, can turn a complete analysis into a failed one; a row marked
  again over a finished analysis without windows is published for ever.
* Lyric: opening the editor while a song is transcribed loses the transcription; a re-anchoring of an approved song leaves a stale approval;
  a stale but equivalent checkpoint may store another text under a version and a later save gets a 409; a `/generate` after a draft save leaves no approved
  version; of two `/generate` around a re-approval the earlier one publishes the old text. The second of two `/generate` at once is
  not turned away, although main.py:11600-11602 says only the first may create a render: the status it looks at under the lock is the copy loaded before.
* Transcription: a redelivered run takes a song that was reviewed, queued or discarded back to `transcribing`, and one with saved lyrics stays there until the
  reaper fails it; the reaper, on a stale copy, may fail even a rendered song; a repeated keyless `/transcribe-uploaded` of a song in review ends in
  `transcription_failed`; a separation that is lost is covered by no reaper and holds the campaign's barrier.
* Edits: a verdict (`approve_job`, `reject_job`) on the copy loaded before may overwrite an edit begun in between; a redelivery after a crash renders again and may take an approved video back to review; a late report can overwrite `rejected`.
* Campaigns: `/retry` has no campaign gate; `reconcile_batch_campaigns` (batch_campaigns.py:2656-2681) writes `completed` on a campaign loaded without
  lock and may overwrite `cancelled`, which docs/BATCH_CAMPAIGNS.md calls irreversible; songs registered for a completed campaign are
  never promoted; with two `campaign_control` replicas each may promote a full window; a duplicate promotion marks a song that has a job as failed; capacity is
  counted per tenant under a lock per campaign; discard locks job then item, retry item then job.

## 8. Not modelled

Numerical and media code (alignment, consensus, rendering, effects): floats, external models and ffmpeg, with no
state to explore. The front ends. RQ, Redis and PostgreSQL beyond what the code's use of them shows. Correction learning: offline records and a
shadow model nothing waits for.

Of the modelled components: learning, prewarm and finance events; edits of a single scene (`/edit-scene`, which publishes without the outbox); columns no guard of `update_job` looks at; replay by Idempotency-Key, quotas and authorisation;
advisory editor leases, proposals (they save through `save_document`), training records and normalisation of segments, the canonicalisation branch of
`get_or_create_document` and orphan versions; speech recognition inside a transcription and changes of its source audio; the replay of an analysis
itself, acknowledgements and fingerprints, segment-only replays (off by default), audio identity backfill, re-transcription at revision 0.
Not modelled at all, for the reasons in `PROJECT.json`: Veo breaker, uploads, deliveries, billing, campaign windows over many songs.

The map covers a small share of the 192,275 lines counted as implementation. Most of them are media algorithms, prompts, presentation,
migrations, scripts, portals and tests of acoustics; `main.py` and `pipeline.py` alone have 46,000 lines of which the concurrent control is a few per cent. Mapping a third of
the tree would mean specifying formatting and signal processing, which TLC cannot evaluate and no property here is about.

## 9. Plan

Done: renders, separation, edits, lyric documents, transcription, quality, Veo budget, each with an abstract specification, the proof that it is implemented, and
proofs of its safety properties. Left, in order of what matters:

1. `BatchCampaign`: windows over many songs, the barrier between separation and transcription, two reconcilers, pause, cancel and completion.
   Abstract specification: a campaign only moves on. Theorem: cancelled is final, under the lock it lacks today. With it the claims of
   reviewers (`claim_next_review`, `acquire_lock`): two tabs hold different songs, and an abandoned song comes back.
2. `VeoBreaker`: the three Redis keys and the non-atomic INCR/EXPIRE and GET/SET NX; hysteresis, one probe
   per window, late successes from before the trip.
3. `Billing`: idempotent webhooks; `Uploads`: sessions and expiry; `Deliveries`: freshness of a delivery against the job's revision.
4. Composition: `EditorDocument` with `QualityOutbox`, whose `Save` is today an abstraction of the saves there.

The runs answer distinct questions and stay at about a dozen of at most five minutes each; a new one replaces the counterexample whose code is fixed.
