------------------------- MODULE TranscriptionOutbox -------------------------
(***************************************************************************)
(* The transcription of one song, uploaded by itself or as an item of a    *)
(* campaign: the request or the campaign feeder commits the row together   *)
(* with an intent, a worker claims the intent, separates the voice or      *)
(* transcribes, and persists the lyric with the evidence of how it was     *)
(* recognised; operators open, edit, approve, discard, restore and retry   *)
(* the song at any moment, and the reaper gives up on silent rows.         *)
(*                                                                         *)
(* A worker reports stages and failures through update_job, under its      *)
(* attempt; the result itself is written to the row directly, under the    *)
(* row lock but with neither the attempt nor the status looked at.         *)
(***************************************************************************)
EXTENDS JobStates, OutboxEvents, RqQueue, FiniteSets

CONSTANTS Events,       \* outbox events, one per attempt
          Workers,      \* RQ worker processes; also their claim tokens
          Nothing,      \* the row has no segments
          Operator,     \* segments saved by an operator
          JobTimeout,   \* TRANSCRIBE_JOB_TIMEOUT, in clock units
          ReapAfter,    \* _TRANSCRIPTION_STUCK_THRESHOLD_MIN
          MaxRevision,  \* bound: lyric revisions
          MaxFaults     \* bound: crashes, errors and lost calls together

ASSUME TranscriptionAssumption ==
  /\ JobTimeout \in Nat /\ ReapAfter \in Nat /\ MaxFaults \in Nat
  /\ RetryMax \in Nat /\ MaxEntries \in Nat \ {0} /\ MaxRevision \in Nat
  /\ BeatCap = ReapAfter + 1
  /\ NoAttempt \notin Events /\ Unset \notin Events /\ Unset # NoAttempt
  /\ Nothing \notin Events \cup {Operator, Unset}
  /\ Operator \notin Events \cup {Unset}
  /\ NoToken \notin Workers

VARIABLES job,     \* the row of table jobs, its document and its evidence
          stage,   \* [Events -> pipeline_stage in the payload]
          events,  \* [Events -> row of job_outbox_events]
          rq,      \* [Events -> RQ job transcription:<event>]
          exec,    \* [Workers -> what the worker process is doing]
          reaper,  \* the row as the sweep in progress loaded it
          faults

vars == <<job, stage, events, rq, exec, reaper, faults>>

(* unlinked: an item of a campaign that has no job row yet.                *)
SongStatuses ==
  Statuses \cup {"unlinked", "awaiting_upload", "separation_queued", "separating",
                 "separation_ready", "transcribed_pending", "lyrics_approved",
                 "discarded"}

SeparationStatuses == {"separation_queued", "separating", "separation_ready"}

ReviewStatuses == {"transcribed_pending", "lyrics_approved"}

Reapable == {"transcribing_queued", "transcribing"}

(* _DISCARDABLE, and _FAILURE without transcription_failed, as far as this *)
(* model produces them.                                                    *)
Discardable == {"error", "transcription_failed", "transcribed_pending"}

WorkerStates ==
  {"idle", "popped", "start", "run", "refused", "ok", "returned", "failed",
   "callback", "dead"}

IdleWorker == [pc |-> "idle", event |-> NoAttempt, ran |-> 0]

Running(w) == exec[w].pc \in {"start", "run", "refused"}

Holding(w) == Running(w) \/ exec[w].pc \in {"ok", "failed"}

IdleReaper == [pc |-> "idle", status |-> Unset, active |-> NoAttempt]

Init ==
  /\ \E batch \in BOOLEAN :
       job = [status |-> IF batch THEN "unlinked" ELSE "awaiting_upload",
              error |-> "none", files |-> NoAttempt, segments |-> Nothing,
              revision |-> 0, active |-> NoAttempt, beat |-> 0,
              batch |-> batch, document |-> FALSE, evidence |-> NoAttempt,
              previous |-> Unset, rendering |-> FALSE]
  /\ stage = [e \in Events |-> "none"]
  /\ events = [e \in Events |-> AbsentEvent]
  /\ rq = [e \in Events |-> NoRqJob]
  /\ exec = [w \in Workers |-> IdleWorker]
  /\ reaper = IdleReaper
  /\ faults = 0

Fault == faults < MaxFaults /\ faults' = faults + 1

-----------------------------------------------------------------------------
(* Asking for a transcription                                              *)

(* create_transcription_outbox_event, in the transaction of its caller.    *)
Issue(e, s, status) ==
  /\ events[e].status = "absent"
  /\ events' = [events EXCEPT ![e] = NewEvent]
  /\ stage' = [stage EXCEPT ![e] = s]
  /\ job' = [job EXCEPT !.status = status, !.active = e, !.beat = 0]
  /\ UNCHANGED <<rq, exec, reaper, faults>>

(* POST /transcribe-uploaded, behind the row lock; anything else is        *)
(* replayed or answered 409 and changes nothing.                           *)
Transcribe(e) ==
  /\ job.status \in {"awaiting_upload", "transcribed_pending", "transcription_failed"}
  /\ job.revision = 0
  /\ Issue(e, "full", "transcribing_queued")

(* The campaign feeder creates the job row for an item, with or without    *)
(* the separation phase (prewarm_separation) ...                           *)
CreateStage(e) ==
  /\ job.status = "unlinked"
  /\ \/ Issue(e, "separation", "separation_queued")
     \/ Issue(e, "full", "transcribing_queued")

(* ... and queues the transcription once the voice is separated.           *)
QueueFull(e) ==
  /\ job.status = "separation_ready"
  /\ Issue(e, "full", "transcribing_queued")

(* The savepoint of QueueFull is rolled back.                              *)
QueueFullFails ==
  /\ job.status = "separation_ready"
  /\ Fault
  /\ job' = [job EXCEPT !.status = "transcription_failed"]
  /\ UNCHANGED <<stage, events, rq, exec, reaper>>

RetryItem(e) ==
  /\ job.batch /\ job.status = "transcription_failed"
  /\ Issue(e, "full", "transcribing_queued")

-----------------------------------------------------------------------------
(* What else people do with the song                                       *)

Rest == UNCHANGED <<stage, events, rq, exec, reaper, faults>>

(* A failed render goes back to the approved lyrics, if the approval still *)
(* stands.                                                                 *)
RetryRender ==
  /\ job.batch /\ job.status = "error"
  /\ \E s \in ReviewStatuses : job' = [job EXCEPT !.status = s]
  /\ Rest

Discard ==
  /\ job.batch /\ job.status \in Discardable
  /\ job' = [job EXCEPT !.status = "discarded", !.previous = job.status]
  /\ Rest

(* The record of the discard stays, but is not read again.                 *)
Restore ==
  /\ job.status = "discarded"
  /\ job' = [job EXCEPT !.status = job.previous, !.previous = Unset]
  /\ Rest

(* GET /editor creates the document of a song that has none.               *)
OpenEditor ==
  /\ job.status # "unlinked" /\ ~job.document
  /\ job' = [job EXCEPT !.document = TRUE]
  /\ Rest

(* A versioned save; it reopens the review of an approved campaign song.   *)
OperatorSave ==
  /\ job.document /\ job.revision < MaxRevision
  /\ job' = [job EXCEPT
               !.segments = Operator, !.revision = @ + 1,
               !.status = IF job.batch /\ @ = "lyrics_approved"
                          THEN "transcribed_pending" ELSE @]
  /\ Rest

CampaignApprove ==
  /\ job.batch /\ job.status = "transcribed_pending"
  /\ job.segments # Nothing
  /\ job' = [job EXCEPT !.status = "lyrics_approved"]
  /\ Rest

(* POST /generate; the render it queues is PipelineOutbox's business.      *)
Generate ==
  /\ job.status \in IF job.batch THEN {"lyrics_approved"}
                    ELSE {"transcribed_pending", "awaiting_upload"}
  /\ job' = [job EXCEPT !.status = "queued", !.rendering = TRUE]
  /\ Rest

RenderEnds ==
  /\ job.rendering
  /\ \E s \in {"pending_review", "error"} :
       job' = [UpdateJob(job, NoAttempt, [NoUpdate EXCEPT !.status = s])
                 EXCEPT !.rendering = FALSE]
  /\ Rest

-----------------------------------------------------------------------------
(* Delivery, as for renders                                                *)

Dispatchable(e) == events[e].status \notin DedupStatuses \cup {"absent"}

DispatchOk(e) ==
  /\ Dispatchable(e)
  /\ RqRoom(rq[e])
  /\ rq' = [rq EXCEPT ![e] = RqEnqueued(@)]
  /\ events' = [events EXCEPT ![e] = PublishSucceeded(@)]
  /\ UNCHANGED <<job, stage, exec, reaper, faults>>

DispatchError(e) ==
  /\ Dispatchable(e)
  /\ Fault
  /\ \/ rq' = rq
     \/ RqRoom(rq[e]) /\ rq' = [rq EXCEPT ![e] = RqEnqueued(@)]
  /\ events' = [events EXCEPT ![e] = PublishFailed(@, TRUE)]
  /\ UNCHANGED <<job, stage, exec, reaper>>

DispatchCrash(e) ==
  /\ Dispatchable(e)
  /\ Fault
  /\ RqRoom(rq[e])
  /\ rq' = [rq EXCEPT ![e] = RqEnqueued(@)]
  /\ UNCHANGED <<job, stage, events, exec, reaper>>

RecoverStale ==
  /\ \E e \in Events : Stale(events[e])
  /\ events' = [e \in Events |->
                  IF Stale(events[e]) THEN StaleRecovered(events[e]) ELSE events[e]]
  /\ UNCHANGED <<job, stage, rq, exec, reaper, faults>>

RetryDue(e) ==
  /\ rq[e].scheduled
  /\ RqRoom(rq[e])
  /\ rq' = [rq EXCEPT ![e] = RqRetryDue(@)]
  /\ UNCHANGED <<job, stage, events, exec, reaper, faults>>

-----------------------------------------------------------------------------
(* A worker                                                                *)

Goto(w, pc) == exec' = [exec EXCEPT ![w].pc = pc]

Release(w) == exec' = [exec EXCEPT ![w] = IdleWorker]

WorkerUpdate(w, upd) == job' = UpdateJob(job, exec[w].event, upd)

StageOf(w) == stage[exec[w].event]

Pop(w, e) ==
  /\ exec[w].pc = "idle"
  /\ rq[e].entries > 0
  /\ rq' = [rq EXCEPT ![e] = RqPopped(@)]
  /\ exec' = [exec EXCEPT ![w] = [pc |-> "popped", event |-> e, ran |-> 0]]
  /\ UNCHANGED <<job, stage, events, reaper, faults>>

ClaimGranted(w) ==
  /\ exec[w].pc = "popped"
  /\ Claimable(events[exec[w].event])
  /\ events' = [events EXCEPT ![exec[w].event] = Claimed(@, w)]
  /\ Goto(w, "start")
  /\ UNCHANGED <<job, stage, rq, reaper, faults>>

ClaimConsumed(w) ==
  /\ exec[w].pc = "popped"
  /\ events[exec[w].event].status = "consumed"
  /\ rq' = [rq EXCEPT ![exec[w].event] = RqSucceeded(@)]
  /\ Release(w)
  /\ UNCHANGED <<job, stage, events, reaper, faults>>

ClaimBusy(w) ==
  /\ exec[w].pc = "popped"
  /\ Busy(events[exec[w].event])
  /\ Goto(w, "callback")
  /\ UNCHANGED <<job, stage, events, rq, reaper, faults>>

(* _should_discard_retry: what ran out of time would do so again.          *)
Hopeless == job.status = "transcription_failed" /\ job.error = "deadline"

DiscardRetry(w) ==
  /\ exec[w].pc = "start" /\ Hopeless
  /\ Goto(w, "ok")
  /\ UNCHANGED <<job, stage, events, rq, reaper, faults>>

(* The first write; an exception of update_job is swallowed.               *)
StartRun(w) ==
  /\ exec[w].pc = "start" /\ ~Hopeless
  /\ \/ /\ WorkerUpdate(w, [NoUpdate EXCEPT
              !.status = IF StageOf(w) = "separation" THEN "separating"
                         ELSE "transcribing",
              !.progress = "given"])
        /\ UNCHANGED faults
     \/ Fault /\ UNCHANGED job
  /\ Goto(w, "run")
  /\ UNCHANGED <<stage, events, rq, reaper>>

Progress(w) ==
  /\ exec[w].pc = "run"
  /\ WorkerUpdate(w, [NoUpdate EXCEPT !.progress = "given"])
  /\ UNCHANGED <<stage, events, rq, exec, reaper, faults>>

SeparationDone(w) ==
  /\ exec[w].pc = "run" /\ StageOf(w) = "separation"
  /\ WorkerUpdate(w, [NoUpdate EXCEPT !.status = "separation_ready",
                                      !.progress = "given"])
  /\ Goto(w, "ok")
  /\ UNCHANGED <<stage, events, rq, reaper, faults>>

(* Mutant: the result is written over versioned lyrics, too.               *)
ResultUnguarded(row, e) ==
  [row EXCEPT !.status = "transcribed_pending", !.segments = e,
              !.document = TRUE, !.evidence = e]

(* Mutant: the evidence is attached later.                                 *)
ResultWithoutEvidence(row, e) ==
  [row EXCEPT !.status = "transcribed_pending", !.segments = e, !.document = TRUE]

(* The result of attempt e on the locked row.  A versioned lyric is left   *)
(* alone, status included; get_or_create_document refreshes the row, which *)
(* undoes the assignment of segments when the document exists already.     *)
Result(row, e) ==
  IF row.revision > 0 THEN row
  ELSE [row EXCEPT !.status = "transcribed_pending", !.document = TRUE,
                   !.segments = IF row.document THEN @ ELSE e,
                   !.evidence = e]

(* Two results never agree: the evidence carries the time of its capture.  *)
AlreadyFrozen == job.revision = 0 /\ job.evidence # NoAttempt

Persist(w) ==
  /\ exec[w].pc = "run" /\ StageOf(w) = "full"
  /\ ~AlreadyFrozen
  /\ job' = Result(job, exec[w].event)
  /\ Goto(w, "ok")
  /\ UNCHANGED <<stage, events, rq, reaper, faults>>

(* attach_machine_evidence refuses, the transaction rolls back ...         *)
PersistRefused(w) ==
  /\ exec[w].pc = "run" /\ StageOf(w) = "full"
  /\ AlreadyFrozen
  /\ Goto(w, "refused")
  /\ UNCHANGED <<job, stage, events, rq, reaper, faults>>

Fail(w, code) ==
  WorkerUpdate(w, [NoUpdate EXCEPT !.status = "transcription_failed", !.error = code])

(* ... and the song is failed in another one.                              *)
FailRefused(w) ==
  /\ exec[w].pc = "refused"
  /\ Fail(w, "transient")
  /\ Goto(w, "ok")
  /\ UNCHANGED <<stage, events, rq, reaper, faults>>

(* _fail swallows its own exceptions, and run_transcription_job returns.   *)
RunFails(w) ==
  /\ exec[w].pc = "run"
  /\ Fault
  /\ \/ Fail(w, "transient")
     \/ StageOf(w) = "full" /\ Fail(w, "deadline")
     \/ UNCHANGED job
  /\ Goto(w, "ok")
  /\ UNCHANGED <<stage, events, rq, reaper>>

(* An exception before the stages, or of the separation, propagates.       *)
RunRaises(w) ==
  /\ Running(w)
  /\ Fault
  /\ Goto(w, "failed")
  /\ UNCHANGED <<job, stage, events, rq, reaper>>

FinishOk(w) ==
  /\ exec[w].pc = "ok"
  /\ events' = [events EXCEPT ![exec[w].event] = Finished(@, w, TRUE)]
  /\ Goto(w, "returned")
  /\ UNCHANGED <<job, stage, rq, reaper, faults>>

Return(w) ==
  /\ exec[w].pc = "returned"
  /\ rq' = [rq EXCEPT ![exec[w].event] = RqSucceeded(@)]
  /\ Release(w)
  /\ UNCHANGED <<job, stage, events, reaper, faults>>

FinishFail(w) ==
  /\ exec[w].pc = "failed"
  /\ events' = [events EXCEPT ![exec[w].event] = Finished(@, w, FALSE)]
  /\ Goto(w, "callback")
  /\ UNCHANGED <<job, stage, rq, reaper, faults>>

(* transcription_failure_callback, then RQ's own bookkeeping.              *)
Callback(w) ==
  /\ exec[w].pc = "callback"
  /\ \/ Fail(w, "transient") /\ UNCHANGED faults
     \/ Fault /\ UNCHANGED job
  /\ rq' = [rq EXCEPT ![exec[w].event] = RqFailed(@)]
  /\ Release(w)
  /\ UNCHANGED <<stage, events, reaper>>

Crash(w) ==
  /\ exec[w].pc \notin {"idle", "dead"}
  /\ Fault
  /\ exec' = [exec EXCEPT ![w].pc = "dead", ![w].ran = 0]
  /\ UNCHANGED <<job, stage, events, rq, reaper>>

(* RQ finds the abandoned job, unless the reaper has deleted it.           *)
Abandon(w) ==
  /\ exec[w].pc = "dead"
  /\ IF rq[exec[w].event] = RqCancelled
       THEN UNCHANGED <<job, rq>>
       ELSE /\ Fail(w, "transient")
            /\ rq' = [rq EXCEPT ![exec[w].event] = RqFailed(@)]
  /\ Release(w)
  /\ UNCHANGED <<stage, events, reaper, faults>>

-----------------------------------------------------------------------------
(* The reaper and the clock                                                *)

Silent(statuses) ==
  /\ reaper.pc = "idle"
  /\ job.status \in statuses
  /\ job.beat > ReapAfter
  /\ reaper' = [pc |-> "found", status |-> job.status, active |-> job.active]
  /\ UNCHANGED <<job, stage, events, rq, exec, faults>>

(* Mutant: rows that a worker has picked up are not swept.                 *)
ReaperFindQueued == Silent({"transcribing_queued"})

ReaperFind == Silent(Reapable)

(* reap_stuck_transcription decides on the copy its session loaded, unless *)
(* a rollback has expired it; a queued row is kept while RQ has its job.   *)
ReaperReap ==
  /\ reaper.pc = "found"
  /\ \E seen \in {reaper, [reaper EXCEPT !.status = job.status, !.active = job.active]} :
       IF /\ seen.status \in Reapable
          /\ seen.status = "transcribing_queued" =>
               rq[seen.active].status \notin LiveRqStatuses
         THEN /\ job' = [job EXCEPT !.status = "transcription_failed"]
              /\ rq' = [rq EXCEPT ![seen.active] = RqCancelled]
         ELSE UNCHANGED <<job, rq>>
  /\ reaper' = IdleReaper
  /\ UNCHANGED <<stage, events, exec, faults>>

Tick ==
  /\ \A w \in Workers : Holding(w) => exec[w].ran < JobTimeout
  /\ events' = [e \in Events |-> Aged(events[e])]
  /\ exec' = [w \in Workers |->
                IF Holding(w) THEN [exec[w] EXCEPT !.ran = @ + 1] ELSE exec[w]]
  /\ job' = AgedRow(job)
  /\ UNCHANGED <<stage, rq, reaper, faults>>

-----------------------------------------------------------------------------
Ask(e) == Transcribe(e) \/ CreateStage(e) \/ QueueFull(e) \/ RetryItem(e)

Person ==
  \/ RetryRender \/ Discard \/ Restore \/ OpenEditor \/ OperatorSave
  \/ CampaignApprove \/ Generate

Deliver(e) == DispatchOk(e) \/ DispatchError(e) \/ DispatchCrash(e) \/ RetryDue(e)

(* What a worker does of its own accord, once it has popped a job.         *)
Proceed(w) ==
  \/ ClaimGranted(w) \/ ClaimConsumed(w) \/ ClaimBusy(w)
  \/ DiscardRetry(w) \/ StartRun(w)
  \/ SeparationDone(w) \/ Persist(w) \/ PersistRefused(w) \/ FailRefused(w)
  \/ FinishOk(w) \/ Return(w) \/ FinishFail(w) \/ Callback(w) \/ Abandon(w)

Work(w) ==
  \/ \E e \in Events : Pop(w, e)
  \/ Proceed(w) \/ Progress(w) \/ RunFails(w) \/ RunRaises(w) \/ Crash(w)

Next ==
  \/ \E e \in Events : Ask(e) \/ Deliver(e)
  \/ \E w \in Workers : Work(w)
  \/ Person \/ QueueFullFails \/ RenderEnds
  \/ RecoverStale \/ ReaperFind \/ ReaperReap \/ Tick

Spec == Init /\ [][Next]_vars

(* The dispatcher, the workers, RQ's scheduler and the reaper are periodic *)
(* processes; operators and the campaign feeder owe nothing.               *)
Dispatcher == RecoverStale \/ \E e \in Events : DispatchOk(e)

Worker(w) == Proceed(w) \/ \E e \in Events : Pop(w, e)

Fairness ==
  /\ WF_vars(Dispatcher)
  /\ WF_vars(\E e \in Events : RetryDue(e))
  /\ \A w \in Workers : WF_vars(Worker(w))
  /\ WF_vars(ReaperFind \/ ReaperReap)
  /\ WF_vars(Tick)

FairSpec == Spec /\ Fairness

-----------------------------------------------------------------------------
SongRows ==
  [status : SongStatuses, error : {"none", "transient", "deadline"},
   files : {NoAttempt}, segments : Events \cup {Nothing, Operator},
   revision : 0..MaxRevision, active : Events \cup {NoAttempt},
   beat : 0..BeatCap, batch : BOOLEAN, document : BOOLEAN,
   evidence : Events \cup {NoAttempt},
   previous : Discardable \cup {Unset}, rendering : BOOLEAN]

OutboxRows ==
  [status : EventStatuses, attempts : 0..MaxAttempts, age : 0..(StaleAge + 1),
   token : Workers \cup {NoToken}]

RqRows ==
  [status : RqStatuses, entries : 0..MaxEntries, scheduled : BOOLEAN,
   retries : 0..RetryMax]

ExecRows ==
  [pc : WorkerStates, event : Events \cup {NoAttempt}, ran : 0..JobTimeout]

ReaperRows ==
  [pc : {"idle", "found"}, status : SongStatuses \cup {Unset},
   active : Events \cup {NoAttempt}]

(* Every row and process stays within its type: RQ grants no more retries  *)
(* than RetryMax, ages and counters stay within their saturation points.   *)
TypeOK ==
  /\ job \in SongRows
  /\ stage \in [Events -> {"none", "separation", "full"}]
  /\ events \in [Events -> OutboxRows]
  /\ rq \in [Events -> RqRows]
  /\ exec \in [Workers -> ExecRows]
  /\ reaper \in ReaperRows
  /\ faults \in 0..MaxFaults

(* No song is up for review or approved without the frozen evidence of how *)
(* it was recognised (require_machine_snapshot), through retries, restored *)
(* discards, failed renders and results that arrive at any status.         *)
ReviewHasEvidence == job.status \in ReviewStatuses => job.evidence # NoAttempt

(* A song whose full transcription has been queued never shows a           *)
(* separation stage again, although RQ may redeliver the separation: its   *)
(* worker reports under an attempt the row no longer names.  The campaign  *)
(* would otherwise wait at the barrier for a stage nobody runs.            *)
SeparationStaysBehind ==
  job.status \in SeparationStatuses => stage[job.active] = "separation"

(* A retry that waits in the queue is failed by a worker of that attempt   *)
(* or by the reaper, never by what is left of an earlier attempt.          *)
RetryIsSpared ==
  [][job.status = "transcribing_queued" /\ job'.status = "transcription_failed"
       => \/ reaper' # reaper
          \/ \E w \in Workers : exec'[w] # exec[w] /\ exec[w].event = job.active]_vars

(* A worker or a failure hook that reports a failed transcription, however *)
(* late, does not hide a video that has been rendered meanwhile (the       *)
(* reaper, which does not write through update_job, may).                  *)
LateFailureSparesRender ==
  [][job.status = "pending_review" /\ reaper' = reaper
       => job'.status # "transcription_failed"]_vars

Created == {e \in Events : events[e].status # "absent"}

TickedOff == {e \in Events : events[e].status = "consumed"}

Transcript == INSTANCE LyricTranscripts
                WITH Attempts <- Events, issued <- Created, settled <- TickedOff,
                     evidence <- job.evidence, text <- job.segments

(* The machine writes the lyric at most once, before any operator, by an   *)
(* attempt that has not been ticked off.                                   *)
ImplementsTranscripts == Transcript!Spec

(* The claim of a worker outlives its job.                                 *)
LeaseCoversTimeout == JobTimeout <= LeaseAge

(* No song stays in transcription for ever: a worker brings it to an end,  *)
(* or the reaper does.                                                     *)
TranscriptionSettles == job.status \in Reapable ~> job.status \notin Reapable

=============================================================================
