---------------------------- MODULE PipelineOutbox ----------------------------
(***************************************************************************)
(* One render job from its durable row to its video: the request that      *)
(* commits the row together with a publication intent (the transactional   *)
(* outbox), the dispatcher that turns the intent into an RQ job, the       *)
(* workers that claim the intent and run the pipeline under it, RQ's retry *)
(* and failure hooks, the reaper that gives up on a silent job, and the    *)
(* operator who retries a failed one while any of that is still going on.  *)
(*                                                                         *)
(* Every database transaction is one action.  Whatever happens between     *)
(* two transactions of one actor is a separate action of that actor: the   *)
(* gate of /retry and its commit, the sweep of the reaper and its write,   *)
(* the dispatch of an event and a crash before its commit.                 *)
(***************************************************************************)
EXTENDS JobStates, OutboxEvents, RqQueue, FiniteSets

CONSTANTS Events,         \* outbox events, one per attempt at the job
          Workers,        \* RQ worker processes; also their claim tokens
          Users,          \* requests to POST /retry/{job_id}
          JobTimeout,     \* job_timeout of the RQ job, in clock units
          ReapAfter,      \* silence after which the reaper takes a job
          RequireReview,  \* REQUIRE_REVIEW: where a finished render goes
          MaxFaults       \* bound: crashes, errors and lost calls together

ASSUME PipelineAssumption ==
  /\ JobTimeout \in Nat /\ ReapAfter \in Nat /\ MaxFaults \in Nat
  /\ RetryMax \in Nat /\ MaxEntries \in Nat \ {0}
  /\ BeatCap = ReapAfter + 1
  /\ RequireReview \in BOOLEAN
  /\ NoAttempt \notin Events /\ Unset \notin Events /\ Unset # NoAttempt
  /\ NoToken \notin Workers

VARIABLES job,     \* the row of table jobs
          events,  \* [Events -> row of job_outbox_events]
          rq,      \* [Events -> RQ job pipeline:<event>]
          exec,    \* [Workers -> what the worker process is doing]
          api,     \* [Users -> request in flight]
          reaper,  \* the job row as the sweep in progress loaded it
          faults

vars == <<job, events, rq, exec, api, reaper, faults>>

(***************************************************************************)
(* Worker states: popped (the RQ job started, nothing claimed), start      *)
(* (claimed, run_pipeline entered), run (past its first write), ok and     *)
(* failed (run_pipeline returned or raised), callback (the failure hook is *)
(* about to run), dead (the process is gone).                              *)
(***************************************************************************)
WorkerStates == {"idle", "popped", "start", "run", "ok", "failed", "callback", "dead"}

IdleWorker == [pc |-> "idle", event |-> NoAttempt, ran |-> 0]

Holding(w) == exec[w].pc \in {"start", "run", "ok", "failed"}

Running(w) == exec[w].pc \in {"start", "run"}

IdleRequest == [pc |-> "idle", files |-> NoAttempt]

IdleReaper == [pc |-> "idle", status |-> Unset]

FinalStatus == IF RequireReview THEN "pending_review" ELSE "done"

Retryable == {"error", "validation_failed"}

(* Mutant: jobs nobody ever picked up are not swept.                       *)
ReapableProcessing == {"processing"}

(* Every age-based sweep of the reaper selects these; bg_preview rows have *)
(* no pipeline event.                                                      *)
Reapable == {"processing", "queued"}

InitialRow(e) ==
  [status |-> "queued", error |-> "none", files |-> NoAttempt,
   segments |-> "none", revision |-> 0, active |-> e, beat |-> 0]

Init ==
  /\ \E e \in Events :
       /\ job = InitialRow(e)
       /\ events = [x \in Events |-> IF x = e THEN NewEvent ELSE AbsentEvent]
  /\ rq = [e \in Events |-> NoRqJob]
  /\ exec = [w \in Workers |-> IdleWorker]
  /\ api = [u \in Users |-> IdleRequest]
  /\ reaper = IdleReaper
  /\ faults = 0

Fault == faults < MaxFaults /\ faults' = faults + 1

-----------------------------------------------------------------------------
(* The operator                                                            *)

(* retry_job reads the row without a lock, checks its status, then goes to *)
(* object storage and to the editor tables.                                *)
RetryRead(u) ==
  /\ api[u].pc = "idle"
  /\ job.status \in Retryable
  /\ api' = [api EXCEPT ![u] = [pc |-> "passed", files |-> job.files]]
  /\ UNCHANGED <<job, events, rq, exec, reaper, faults>>

(* The reset and the intent commit together.  The session writes only the  *)
(* columns that differ from the row it read, so URLs that were NULL then   *)
(* are not written even if they have been filled in since.                 *)
RetryCommit(u, e) ==
  /\ api[u].pc = "passed"
  /\ events[e].status = "absent"
  /\ job' = [job EXCEPT !.status = "processing", !.error = "none",
                        !.files = IF api[u].files = NoAttempt THEN @ ELSE NoAttempt,
                        !.active = e, !.beat = 0]
  /\ events' = [events EXCEPT ![e] = NewEvent]
  /\ api' = [api EXCEPT ![u] = IdleRequest]
  /\ UNCHANGED <<rq, exec, reaper, faults>>

(* A versioned save of the lyric editor, at any status of the job.         *)
OperatorSave ==
  /\ job.revision = 0
  /\ job' = [job EXCEPT !.segments = "operator", !.revision = 1]
  /\ UNCHANGED <<events, rq, exec, api, reaper, faults>>

-----------------------------------------------------------------------------
(* The dispatcher: right after the request, or from the reconciler.  It    *)
(* holds the event's row lock from before the enqueue to its commit.       *)

Dispatchable(e) == events[e].status \notin DedupStatuses \cup {"absent"}

DispatchOk(e) ==
  /\ Dispatchable(e)
  /\ RqRoom(rq[e])
  /\ rq' = [rq EXCEPT ![e] = RqEnqueued(@)]
  /\ events' = [events EXCEPT ![e] = PublishSucceeded(@)]
  /\ UNCHANGED <<job, exec, api, reaper, faults>>

(* enqueue raised; an ambiguous timeout may have reached Redis.            *)
DispatchError(e) ==
  /\ Dispatchable(e)
  /\ Fault
  /\ \/ rq' = rq
     \/ RqRoom(rq[e]) /\ rq' = [rq EXCEPT ![e] = RqEnqueued(@)]
  /\ events' = [events EXCEPT ![e] = PublishFailed(@, TRUE)]
  /\ UNCHANGED <<job, exec, api, reaper>>

(* The process dies after the enqueue and before the commit.               *)
DispatchCrash(e) ==
  /\ Dispatchable(e)
  /\ Fault
  /\ RqRoom(rq[e])
  /\ rq' = [rq EXCEPT ![e] = RqEnqueued(@)]
  /\ UNCHANGED <<job, events, exec, api, reaper>>

(* First transaction of dispatch_pending_outbox_events.                    *)
RecoverStale ==
  /\ \E e \in Events : Stale(events[e])
  /\ events' = [e \in Events |->
                  IF Stale(events[e]) THEN StaleRecovered(events[e]) ELSE events[e]]
  /\ UNCHANGED <<job, rq, exec, api, reaper, faults>>

-----------------------------------------------------------------------------
(* A worker                                                                *)

Goto(w, pc) == exec' = [exec EXCEPT ![w].pc = pc]

Release(w) == exec' = [exec EXCEPT ![w] = IdleWorker]

Pop(w, e) ==
  /\ exec[w].pc = "idle"
  /\ rq[e].entries > 0
  /\ rq' = [rq EXCEPT ![e] = RqPopped(@)]
  /\ exec' = [exec EXCEPT ![w] = [pc |-> "popped", event |-> e, ran |-> 0]]
  /\ UNCHANGED <<job, events, api, reaper, faults>>

ClaimGranted(w) ==
  /\ exec[w].pc = "popped"
  /\ Claimable(events[exec[w].event])
  /\ events' = [events EXCEPT ![exec[w].event] = Claimed(@, w)]
  /\ Goto(w, "start")
  /\ UNCHANGED <<job, rq, api, reaper, faults>>

(* already_consumed: a normal return.                                      *)
ClaimConsumed(w) ==
  /\ exec[w].pc = "popped"
  /\ events[exec[w].event].status = "consumed"
  /\ rq' = [rq EXCEPT ![exec[w].event] = RqSucceeded(@)]
  /\ Release(w)
  /\ UNCHANGED <<job, events, api, reaper, faults>>

(* outbox_consumer_busy: raised, outside bind_job_attempt.                 *)
ClaimBusy(w) ==
  /\ exec[w].pc = "popped"
  /\ Busy(events[exec[w].event])
  /\ Goto(w, "callback")
  /\ UNCHANGED <<job, events, rq, api, reaper, faults>>

WorkerUpdate(w, upd) == job' = UpdateJob(job, exec[w].event, upd)

StartRun(w) ==
  /\ exec[w].pc = "start"
  /\ WorkerUpdate(w, [NoUpdate EXCEPT !.status = "processing", !.progress = "given"])
  /\ Goto(w, "run")
  /\ UNCHANGED <<events, rq, api, reaper, faults>>

Progress(w) ==
  /\ exec[w].pc = "run"
  /\ WorkerUpdate(w, [NoUpdate EXCEPT !.progress = "given"])
  /\ UNCHANGED <<events, rq, exec, api, reaper, faults>>

PersistSegments(w) ==
  /\ exec[w].pc = "run"
  /\ WorkerUpdate(w, [NoUpdate EXCEPT !.segments = "render", !.progress = "given"])
  /\ UNCHANGED <<events, rq, exec, api, reaper, faults>>

RunSucceeds(w) ==
  /\ exec[w].pc = "run"
  /\ WorkerUpdate(w, [NoUpdate EXCEPT !.status = FinalStatus, !.progress = "given",
                                      !.files = exec[w].event])
  /\ Goto(w, "ok")
  /\ UNCHANGED <<events, rq, api, reaper, faults>>

(* Mutant: an exception is swallowed without telling the row.              *)
RunErrorsSilently(w) ==
  /\ Running(w)
  /\ Fault
  /\ Goto(w, "ok")
  /\ UNCHANGED <<job, events, rq, api, reaper>>

(* A refused policy fingerprint, or any ordinary exception: the row says   *)
(* error and run_pipeline returns, so the event will be consumed.          *)
RunErrors(w) ==
  /\ Running(w)
  /\ Fault
  /\ WorkerUpdate(w, [NoUpdate EXCEPT !.status = "error", !.error = "worker"])
  /\ Goto(w, "ok")
  /\ UNCHANGED <<events, rq, api, reaper>>

(* A job timeout or BackgroundDegraded propagates.                         *)
RunRaises(w) ==
  /\ Running(w)
  /\ Fault
  /\ Goto(w, "failed")
  /\ UNCHANGED <<job, events, rq, api, reaper>>

FinishOk(w) ==
  /\ exec[w].pc = "ok"
  /\ events' = [events EXCEPT ![exec[w].event] = Finished(@, w, TRUE)]
  /\ rq' = [rq EXCEPT ![exec[w].event] = RqSucceeded(@)]
  /\ Release(w)
  /\ UNCHANGED <<job, api, reaper, faults>>

FinishFail(w) ==
  /\ exec[w].pc = "failed"
  /\ events' = [events EXCEPT ![exec[w].event] = Finished(@, w, FALSE)]
  /\ Goto(w, "callback")
  /\ UNCHANGED <<job, rq, api, reaper, faults>>

(* Mutant: the failure hook does not bind its attempt.                     *)
CallbackWriteUnbound(w) ==
  job' = UpdateJob(job, NoAttempt, [NoUpdate EXCEPT !.status = "error", !.error = "callback"])

(* pipeline_failure_callback, then RQ's own bookkeeping of the failure.    *)
CallbackWrite(w) ==
  WorkerUpdate(w, [NoUpdate EXCEPT !.status = "error", !.error = "callback"])

Callback(w) ==
  /\ exec[w].pc = "callback"
  /\ \/ CallbackWrite(w) /\ UNCHANGED faults
     \/ Fault /\ UNCHANGED job                 \* best effort: swallowed
  /\ rq' = [rq EXCEPT ![exec[w].event] = RqFailed(@)]
  /\ Release(w)
  /\ UNCHANGED <<events, api, reaper>>

Crash(w) ==
  /\ exec[w].pc \notin {"idle", "dead"}
  /\ Fault
  /\ exec' = [exec EXCEPT ![w].pc = "dead", ![w].ran = 0]
  /\ UNCHANGED <<job, events, rq, api, reaper>>

(* The next worker boot finds the abandoned job: the hook runs with        *)
(* AbandonedJobError, then RQ retries or fails it.                         *)
Abandon(w) ==
  /\ exec[w].pc = "dead"
  /\ CallbackWrite(w)
  /\ rq' = [rq EXCEPT ![exec[w].event] = RqFailed(@)]
  /\ Release(w)
  /\ UNCHANGED <<events, api, reaper, faults>>

(* The RQ scheduler puts a failed job back after its retry interval.       *)
RetryDue(e) ==
  /\ rq[e].scheduled
  /\ RqRoom(rq[e])
  /\ rq' = [rq EXCEPT ![e] = RqRetryDue(@)]
  /\ UNCHANGED <<job, events, exec, api, reaper, faults>>

-----------------------------------------------------------------------------
(* The reaper and the clock                                                *)

(* find_stuck_jobs / find_stalled_renders load the row into the session.   *)
ReaperFind ==
  /\ reaper.pc = "idle"
  /\ job.status \in Reapable
  /\ job.beat > ReapAfter
  /\ reaper' = [pc |-> "found", status |-> job.status]
  /\ UNCHANGED <<job, events, rq, exec, api, faults>>

(* reap_stuck_job locks the row and checks the status again.  The session  *)
(* still holds the object the sweep loaded and the query does not say      *)
(* populate_existing, so the status it checks is the loaded one, unless a  *)
(* rollback for another row of the sweep has expired it.  The RQ job it    *)
(* cancels is the bare job id, which no outbox render uses.                *)
ReaperReap ==
  /\ reaper.pc = "found"
  /\ \E seen \in {reaper.status, job.status} :
       job' = IF seen \in Reapable
                THEN [job EXCEPT !.status = "error", !.error = "reaper"]
                ELSE job
  /\ reaper' = IdleReaper
  /\ UNCHANGED <<events, rq, exec, api, faults>>

(* RQ's death penalty: no process holds a claim beyond JobTimeout.         *)
Tick ==
  /\ \A w \in Workers : Holding(w) => exec[w].ran < JobTimeout
  /\ events' = [e \in Events |-> Aged(events[e])]
  /\ exec' = [w \in Workers |->
                IF Holding(w) THEN [exec[w] EXCEPT !.ran = @ + 1] ELSE exec[w]]
  /\ job' = AgedRow(job)
  /\ UNCHANGED <<rq, api, reaper, faults>>

-----------------------------------------------------------------------------
Deliver(e) == DispatchOk(e) \/ DispatchError(e) \/ DispatchCrash(e) \/ RetryDue(e)

Work(w) ==
  \/ \E e \in Events : Pop(w, e)
  \/ ClaimGranted(w) \/ ClaimConsumed(w) \/ ClaimBusy(w)
  \/ StartRun(w) \/ Progress(w) \/ PersistSegments(w)
  \/ RunSucceeds(w) \/ RunErrors(w) \/ RunRaises(w)
  \/ FinishOk(w) \/ FinishFail(w) \/ Callback(w)
  \/ Crash(w) \/ Abandon(w)

Request(u) == RetryRead(u) \/ \E e \in Events : RetryCommit(u, e)

Next ==
  \/ \E e \in Events : Deliver(e)
  \/ \E w \in Workers : Work(w)
  \/ \E u \in Users : Request(u)
  \/ OperatorSave \/ RecoverStale \/ ReaperFind \/ ReaperReap \/ Tick

Spec == Init /\ [][Next]_vars

-----------------------------------------------------------------------------
(* Fairness.  The reconciler, the workers, RQ's scheduler and the reaper   *)
(* are periodic processes that Railway restarts, so whatever they can do   *)
(* they eventually do; a request of an operator is never owed.  Nothing is *)
(* assumed of the actions that model a fault.                              *)

WorkerFairness(w) ==
  /\ \A e \in Events : WF_vars(Pop(w, e))
  /\ WF_vars(ClaimGranted(w)) /\ WF_vars(ClaimConsumed(w)) /\ WF_vars(ClaimBusy(w))
  /\ WF_vars(StartRun(w)) /\ WF_vars(RunSucceeds(w))
  /\ WF_vars(FinishOk(w)) /\ WF_vars(FinishFail(w))
  /\ WF_vars(Callback(w)) /\ WF_vars(Abandon(w))

Fairness ==
  /\ \A e \in Events : WF_vars(DispatchOk(e)) /\ WF_vars(RetryDue(e))
  /\ \A w \in Workers : WorkerFairness(w)
  /\ WF_vars(RecoverStale) /\ WF_vars(Tick)
  /\ WF_vars(ReaperFind) /\ WF_vars(ReaperReap)

FairSpec == Spec /\ Fairness

-----------------------------------------------------------------------------
(* Safety                                                                  *)

JobRows ==
  [status : Statuses, error : {"none", "worker", "callback", "reaper"},
   files : Events \cup {NoAttempt}, segments : {"none", "render", "operator"},
   revision : 0..1, active : Events, beat : 0..BeatCap]

OutboxRows ==
  [status : EventStatuses, attempts : 0..MaxAttempts, age : 0..(StaleAge + 1),
   token : Workers \cup {NoToken}]

RqRows ==
  [status : RqStatuses, entries : 0..MaxEntries, scheduled : BOOLEAN,
   retries : 0..RetryMax]

(* Every row and process stays within its type: statuses are the ones the  *)
(* code knows, ages and counters stay within their saturation points.      *)
TypeOK ==
  /\ job \in JobRows
  /\ events \in [Events -> OutboxRows]
  /\ rq \in [Events -> RqRows]
  /\ exec \in [Workers -> [pc : WorkerStates, event : Events \cup {NoAttempt},
                           ran : 0..JobTimeout]]
  /\ api \in [Users -> [pc : {"idle", "passed"}, files : Events \cup {NoAttempt}]]
  /\ reaper \in [pc : {"idle", "found"}, status : Statuses \cup {Unset}]
  /\ faults \in 0..MaxFaults

(* No two workers run the pipeline for the same attempt at the same time,  *)
(* whatever is re-dispatched, retried or recovered meanwhile: the consumer *)
(* lease outlives the job timeout (_claim_outbox_consumer,                 *)
(* dispatch_pending_outbox_events).                                        *)
ExclusiveExecution ==
  \A w1, w2 \in Workers :
    Running(w1) /\ Running(w2) /\ exec[w1].event = exec[w2].event => w1 = w2

(* A job shown as finished links to the video of its current attempt:      *)
(* neither a superseded worker nor a late hook can publish under the       *)
(* attempt an operator has replaced (bind_job_attempt, update_job).        *)
SuccessIsCurrentAttempt ==
  job.status \in SUCCESS_TERMINAL_STATUSES => job.files = job.active

(* A worker whose attempt has been replaced changes nothing of the row any *)
(* more, by no stage, result, error, failure hook or repetition: it does   *)
(* not fail the new attempt, and its heartbeat does not hide from the      *)
(* reaper that the new one is stuck (bind_job_attempt, update_job).        *)
SupersededIsSilent ==
  [][\A w \in Workers : Work(w) /\ exec[w].event # job.active => job' = job]_vars

(* When the outbox has ticked off the current attempt for good, the job no *)
(* longer claims to be working: run_pipeline wrote an outcome before       *)
(* _finish_outbox_consumer marked the event consumed, through any mix of   *)
(* RQ retries, stale recoveries and swallowed exceptions.                  *)
ConsumedMeansSettled ==
  events[job.active].status = "consumed" => job.status \in TERMINAL_STATUSES

(* A versioned save of the lyric editor is never replaced by what a render *)
(* persists, before or after the save (the segments guard of update_job).  *)
OperatorTextSurvives == job.revision > 0 => job.segments = "operator"

(* Why they hold.  A worker that runs under a claim still owns it, and the *)
(* claim is no older than the run, so as long as a run may not outlast the *)
(* lease nobody else is granted the claim; work in the queue or at a       *)
(* worker belongs to an event that was created; and an attempt whose       *)
(* pipeline has returned has left an outcome in the row.                   *)

LeaseCoversTimeout == JobTimeout <= LeaseAge

Assigned ==
  \A w \in Workers : exec[w].pc # "idle" =>
    exec[w].event \in Events /\ events[exec[w].event].status # "absent"

QueuedIsCreated ==
  \A e \in Events : rq[e].entries > 0 \/ rq[e].scheduled => events[e].status # "absent"

ClaimHeld ==
  \A w \in Workers : Holding(w) =>
    LET ev == events[exec[w].event]
    IN  ev.status = "processing" /\ ev.token = w /\ ev.age <= exec[w].ran

ActiveIsCreated == events[job.active].status # "absent"

ReturnedIsSettled ==
  \A w \in Workers : exec[w].pc = "ok" /\ exec[w].event = job.active =>
    job.status \in TERMINAL_STATUSES

IInv ==
  /\ TypeOK
  /\ Assigned /\ QueuedIsCreated /\ ActiveIsCreated
  /\ ClaimHeld
  /\ SuccessIsCurrentAttempt /\ OperatorTextSurvives
  /\ ReturnedIsSettled /\ ConsumedMeansSettled

-----------------------------------------------------------------------------
(* The promise                                                             *)

Outcome ==
  CASE job.status \in SUCCESS_TERMINAL_STATUSES -> "published"
    [] job.status = "error" /\ job.error = "reaper" -> "reaped"
    [] job.status = "error" /\ job.error # "reaper" -> "failed"
    [] OTHER -> "open"

Attempt == INSTANCE JobAttempts
             WITH Attempts <- Events, NoVideo <- NoAttempt,
                  used <- {e \in Events : events[e].status # "absent"},
                  current <- job.active, outcome <- Outcome, video <- job.files

(* The pipeline implements the abstract job: only the current attempt      *)
(* publishes or fails it, and only the reaper or a new attempt takes back  *)
(* a finished one.                                                         *)
ImplementsAttempts == Attempt!Spec

-----------------------------------------------------------------------------
(* Liveness                                                                *)

(* An intent committed to the outbox is executed to its end, or given up   *)
(* on after _outbox_max_attempts, through lost enqueues, dead workers and  *)
(* held leases, as long as no more workers die than RQ grants retries: an  *)
(* event that is dispatched but not yet claimed has no other recovery.     *)
IntentSettles ==
  MaxFaults <= RetryMax =>
    \A e \in Events :
      events[e].status = "pending" ~> events[e].status \in {"consumed", "failed"}

(* No job stays queued or processing for ever: a worker finishes it, or    *)
(* the reaper does.                                                        *)
JobSettles ==
  job.status \in {"queued", "processing"} ~> job.status \in TERMINAL_STATUSES

-----------------------------------------------------------------------------
(* What the sources say and the code does not do                           *)

(* reap_stuck_job: a job that finished between the sweep and the locked    *)
(* re-read is left alone.                                                  *)
ReaperSparesFinished ==
  [][job.status \in SUCCESS_TERMINAL_STATUSES /\ job'.active = job.active
       => job'.status \notin FAILURE_TERMINAL_STATUSES]_vars

=============================================================================
