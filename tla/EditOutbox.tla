------------------------------ MODULE EditOutbox ------------------------------
(***************************************************************************)
(* Edits of a finished video: POST /edit commits the row as "editing"      *)
(* together with a publication intent whose dedupe key is made of the      *)
(* lyric revision, the edit count and the kind of edit; a worker claims    *)
(* the intent, re-renders and uploads; the reaper puts an edit it thinks   *)
(* abandoned back to pending_review; the reviewer approves or rejects.     *)
(*                                                                         *)
(* The row is written by four parties that do not share a lock order:      *)
(* request_edit re-reads it under its lock, update_job too, but            *)
(* approve_job, reject_job and the reaper decide on the copy their session *)
(* loaded earlier.  Edit workers are not fenced (no bind_job_attempt).     *)
(***************************************************************************)
EXTENDS JobStates, OutboxEvents, RqQueue, FiniteSets

CONSTANTS Requests,           \* requests to edit the video
          EditType,           \* [Requests -> body.edit_type]
          Animated,           \* requests with body.animate_image
          NoRequest,
          Workers,            \* RQ worker processes; also their claim tokens
          Reviewers,
          Admins,             \* reviewers of role "admin"
          MaxEdits,           \* _MAX_EDITS
          MaxCount,           \* bound: edits counted, which admins may take past the cap
          MaxRevision,        \* bound: lyric revisions
          JobTimeout,         \* job_timeout of enqueue_edit
          AbandonAfter,       \* _EDIT_ABANDON_THRESHOLD_MIN
          MaxFaults           \* bound: crashes, errors and lost calls together

EditTypes ==
  {"typography", "background", "lyrics", "metadata", "background_library", "custom"}

Kinds == {EditType[r] : r \in Requests}

Keys == [revision : 0..MaxRevision, count : 0..MaxCount, kind : Kinds]

ASSUME EditAssumption ==
  /\ JobTimeout \in Nat /\ AbandonAfter \in Nat /\ MaxFaults \in Nat
  /\ RetryMax \in Nat /\ MaxEntries \in Nat \ {0} /\ BeatCap = 0
  /\ MaxEdits \in Nat /\ MaxCount \in Nat /\ MaxRevision \in Nat
  /\ Requests # {} /\ NoRequest \notin Requests
  /\ EditType \in [Requests -> EditTypes]
  /\ Animated \subseteq Requests /\ Admins \subseteq Reviewers
  /\ NoToken \notin Workers

VARIABLES job,       \* the row of table jobs
          current,   \* the request the row was last set to "editing" for
          accepted,  \* the requests answered 202
          key,       \* the dedupe key of the last acceptance
          events,    \* [Keys -> row of job_outbox_events]
          payload,   \* [Keys -> the request the row's payload describes]
          rq,        \* [Keys -> RQ job edit-outbox:<event>]
          exec,      \* [Workers -> what the worker process is doing]
          review,    \* [Reviewers -> approval or rejection in flight]
          reaper,    \* the row as the sweep in progress loaded it
          video,     \* whose render the deliverables in R2 are
          faults

vars == <<job, current, accepted, key, events, payload, rq, exec, review,
          reaper, video, faults>>

request == <<current, accepted, key, payload>>

FirstKey == CHOOSE k \in Keys : k.revision = 0 /\ k.count = 0

WorkerStates ==
  {"idle", "popped", "start", "run", "uploaded", "ok", "returned", "failed",
   "callback", "dead"}

IdleWorker == [pc |-> "idle", key |-> FirstKey, ran |-> 0]

IdleReaper == [pc |-> "idle", status |-> Unset, count |-> 0]

Running(w) == exec[w].pc \in {"start", "run", "uploaded"}

Holding(w) == Running(w) \/ exec[w].pc \in {"ok", "failed"}

Init ==
  /\ job = [status |-> "pending_review", error |-> "none", files |-> NoAttempt,
            segments |-> "saved", revision |-> 0, active |-> NoAttempt,
            beat |-> 0, count |-> 0, since |-> 0]
  /\ current = NoRequest /\ accepted = {} /\ key = FirstKey
  /\ events = [k \in Keys |-> AbsentEvent]
  /\ payload = [k \in Keys |-> NoRequest]
  /\ rq = [k \in Keys |-> NoRqJob]
  /\ exec = [w \in Workers |-> IdleWorker]
  /\ review = [u \in Reviewers |-> "idle"]
  /\ reaper = IdleReaper
  /\ video = NoRequest
  /\ faults = 0

Fault == faults < MaxFaults /\ faults' = faults + 1

-----------------------------------------------------------------------------
(* Requests                                                                *)

(* _terminal_edit: the edits a video that has left review is open to.      *)
ReopensShipped(u, r) ==
  \/ EditType[r] \in {"lyrics", "metadata"}
  \/ u \in Admins /\ EditType[r] \in {"background", "background_library", "custom"}

(* Not _no_slot: the edit may spend on a new rendering by Veo or is one    *)
(* more pass over the look.                                                *)
UsesSlot(r) ==
  /\ EditType[r] \notin {"metadata", "background_library"}
  /\ EditType[r] = "custom" => r \in Animated

(* The gates behind the row lock; anything else is answered 400 or 409, or *)
(* replayed, and changes nothing.  Admins are exempt from the cap.         *)
Editable(u, r) ==
  /\ \/ job.status = "pending_review"
     \/ ReopensShipped(u, r) /\ job.status \in {"done", "rejected"}
  /\ u \in Admins \/ ~ UsesSlot(r) \/ job.count < MaxEdits

SlotsAfter(r) == IF UsesSlot(r) THEN job.count + 1 ELSE job.count

RevisionAfter(r) ==
  IF EditType[r] = "lyrics" THEN job.revision + 1 ELSE job.revision

EventFor(k) == IF events[k].status = "absent" THEN NewEvent ELSE events[k]

PayloadFor(k, r) == IF events[k].status = "absent" THEN r ELSE payload[k]

(* request_edit: the new text is saved, the row flips to editing and the   *)
(* intent is created in one transaction; create_outbox_event returns the   *)
(* event that already has the key, if there is one.                        *)
RequestEdit(u, r) ==
  /\ review[u] = "idle"
  /\ r \notin accepted
  /\ Editable(u, r)
  /\ RevisionAfter(r) <= MaxRevision /\ SlotsAfter(r) <= MaxCount
  /\ LET k == [revision |-> RevisionAfter(r), count |-> SlotsAfter(r),
               kind |-> EditType[r]]
     IN  /\ events' = [events EXCEPT ![k] = EventFor(k)]
         /\ payload' = [payload EXCEPT ![k] = PayloadFor(k, r)]
         /\ key' = k
  /\ job' = [job EXCEPT !.status = "editing", !.count = SlotsAfter(r),
                        !.revision = RevisionAfter(r), !.since = 0]
  /\ current' = r
  /\ accepted' = accepted \cup {r}
  /\ UNCHANGED <<rq, exec, review, reaper, video, faults>>

(* A versioned save of the lyric editor: the next edit has another key.    *)
OperatorSave ==
  /\ job.revision < MaxRevision
  /\ job' = [job EXCEPT !.revision = @ + 1]
  /\ UNCHANGED <<request, events, rq, exec, review, reaper, video, faults>>

(* approve_job and reject_job load the row; approve_job then waits for the *)
(* account's lock and the row's, but looks at the copy it loaded.          *)
ReviewRead(u, verdict) ==
  /\ review[u] = "idle"
  /\ job.status = "pending_review"
  /\ review' = [review EXCEPT ![u] = verdict]
  /\ UNCHANGED <<job, request, events, rq, exec, reaper, video, faults>>

ReviewCommit(u) ==
  /\ review[u] # "idle"
  /\ job' = [job EXCEPT !.status = review[u]]
  /\ review' = [review EXCEPT ![u] = "idle"]
  /\ UNCHANGED <<request, events, rq, exec, reaper, video, faults>>

-----------------------------------------------------------------------------
(* Delivery: as for renders, except that a live RQ job is never replaced.  *)

Dispatchable(k) == events[k].status = "pending"

DispatchOk(k) ==
  /\ Dispatchable(k)
  /\ rq' = [rq EXCEPT ![k] = RqRepublished(@)]
  /\ events' = [events EXCEPT ![k] = PublishSucceeded(@)]
  /\ UNCHANGED <<job, request, exec, review, reaper, video, faults>>

DispatchError(k) ==
  /\ Dispatchable(k)
  /\ Fault
  /\ rq' \in {rq, [rq EXCEPT ![k] = RqRepublished(@)]}
  /\ events' = [events EXCEPT ![k] = PublishFailed(@, TRUE)]
  /\ UNCHANGED <<job, request, exec, review, reaper, video>>

DispatchCrash(k) ==
  /\ Dispatchable(k)
  /\ Fault
  /\ rq' = [rq EXCEPT ![k] = RqRepublished(@)]
  /\ UNCHANGED <<job, request, events, exec, review, reaper, video>>

RecoverStale ==
  /\ \E k \in Keys : Stale(events[k])
  /\ events' = [k \in Keys |->
                  IF Stale(events[k]) THEN StaleRecovered(events[k]) ELSE events[k]]
  /\ UNCHANGED <<job, request, rq, exec, review, reaper, video, faults>>

RetryDue(k) ==
  /\ rq[k].scheduled
  /\ RqRoom(rq[k])
  /\ rq' = [rq EXCEPT ![k] = RqRetryDue(@)]
  /\ UNCHANGED <<job, request, events, exec, review, reaper, video, faults>>

-----------------------------------------------------------------------------
(* The edit worker                                                         *)

Goto(w, pc) == exec' = [exec EXCEPT ![w].pc = pc]

Release(w) == exec' = [exec EXCEPT ![w] = IdleWorker]

WorkerUpdate(upd) == job' = UpdateJob(job, NoAttempt, upd)

Pop(w, k) ==
  /\ exec[w].pc = "idle"
  /\ rq[k].entries > 0
  /\ rq' = [rq EXCEPT ![k] = RqPopped(@)]
  /\ exec' = [exec EXCEPT ![w] = [pc |-> "popped", key |-> k, ran |-> 0]]
  /\ UNCHANGED <<job, request, events, review, reaper, video, faults>>

ClaimGranted(w) ==
  /\ exec[w].pc = "popped"
  /\ Claimable(events[exec[w].key])
  /\ events' = [events EXCEPT ![exec[w].key] = Claimed(@, w)]
  /\ Goto(w, "start")
  /\ UNCHANGED <<job, request, rq, review, reaper, video, faults>>

ClaimConsumed(w) ==
  /\ exec[w].pc = "popped"
  /\ events[exec[w].key].status = "consumed"
  /\ rq' = [rq EXCEPT ![exec[w].key] = RqSucceeded(@)]
  /\ Release(w)
  /\ UNCHANGED <<job, request, events, review, reaper, video, faults>>

(* Mutant: a worker that finds the edit claimed leaves it to the other.    *)
ClaimBusyReturns(w) ==
  /\ exec[w].pc = "popped"
  /\ Busy(events[exec[w].key])
  /\ rq' = [rq EXCEPT ![exec[w].key] = RqSucceeded(@)]
  /\ Release(w)
  /\ UNCHANGED <<job, request, events, review, reaper, video, faults>>

ClaimBusy(w) ==
  /\ exec[w].pc = "popped"
  /\ Busy(events[exec[w].key])
  /\ Goto(w, "callback")
  /\ UNCHANGED <<job, request, events, rq, review, reaper, video, faults>>

(* The first write of run_edit_pipeline says "editing" once more.          *)
StartRun(w) ==
  /\ exec[w].pc = "start"
  /\ WorkerUpdate([NoUpdate EXCEPT !.status = "editing"])
  /\ Goto(w, "run")
  /\ UNCHANGED <<request, events, rq, review, reaper, video, faults>>

(* _upload_deliverables_to_r2 overwrites the objects in place.             *)
Upload(w) ==
  /\ exec[w].pc = "run"
  /\ video' = payload[exec[w].key]
  /\ Goto(w, "uploaded")
  /\ UNCHANGED <<job, request, events, rq, review, reaper, faults>>

(* A lyrics edit also writes its text back, which update_job accepts only  *)
(* if it is the row's: no change either way.                               *)
Complete(w) ==
  /\ exec[w].pc = "uploaded"
  /\ WorkerUpdate([NoUpdate EXCEPT !.status = "pending_review"])
  /\ Goto(w, "ok")
  /\ UNCHANGED <<request, events, rq, review, reaper, video, faults>>

(* Mutant: a gate returns without an outcome.                              *)
RunRefusesSilently(w) ==
  /\ exec[w].pc \in {"start", "run"}
  /\ Fault
  /\ Goto(w, "ok")
  /\ UNCHANGED <<job, request, events, rq, review, reaper, video>>

(* A policy, quality or validation gate: an outcome and a normal return.   *)
RunRefuses(w) ==
  /\ exec[w].pc \in {"start", "run"}
  /\ Fault
  /\ \E s \in {"error", "pending_review", "validation_failed"} :
       WorkerUpdate([NoUpdate EXCEPT !.status = s, !.error = "worker"])
  /\ Goto(w, "ok")
  /\ UNCHANGED <<request, events, rq, review, reaper, video>>

(* An ordinary exception is written down and raised again; a job timeout   *)
(* or BackgroundDegraded is only raised.                                   *)
RunRaises(w) ==
  /\ Running(w)
  /\ Fault
  /\ \/ WorkerUpdate([NoUpdate EXCEPT !.status = "error", !.error = "worker"])
     \/ UNCHANGED job
  /\ Goto(w, "failed")
  /\ UNCHANGED <<request, events, rq, review, reaper, video>>

FinishOk(w) ==
  /\ exec[w].pc = "ok"
  /\ events' = [events EXCEPT ![exec[w].key] = Finished(@, w, TRUE)]
  /\ Goto(w, "returned")
  /\ UNCHANGED <<job, request, rq, review, reaper, video, faults>>

(* RQ records the success, unless the process dies first: then it delivers *)
(* an edit that has been ticked off once more.                             *)
Return(w) ==
  /\ exec[w].pc = "returned"
  /\ rq' = [rq EXCEPT ![exec[w].key] = RqSucceeded(@)]
  /\ Release(w)
  /\ UNCHANGED <<job, request, events, review, reaper, video, faults>>

FinishFail(w) ==
  /\ exec[w].pc = "failed"
  /\ events' = [events EXCEPT ![exec[w].key] = Finished(@, w, FALSE)]
  /\ Goto(w, "callback")
  /\ UNCHANGED <<job, request, rq, review, reaper, video, faults>>

(* edit_failure_callback, then RQ's own bookkeeping.                       *)
CallbackWrite ==
  WorkerUpdate([NoUpdate EXCEPT !.status = "error", !.error = "callback"])

Callback(w) ==
  /\ exec[w].pc = "callback"
  /\ \/ CallbackWrite /\ UNCHANGED faults
     \/ Fault /\ UNCHANGED job
  /\ rq' = [rq EXCEPT ![exec[w].key] = RqFailed(@)]
  /\ Release(w)
  /\ UNCHANGED <<request, events, review, reaper, video>>

Crash(w) ==
  /\ exec[w].pc \notin {"idle", "dead"}
  /\ Fault
  /\ exec' = [exec EXCEPT ![w].pc = "dead", ![w].ran = 0]
  /\ UNCHANGED <<job, request, events, rq, review, reaper, video>>

Abandon(w) ==
  /\ exec[w].pc = "dead"
  /\ CallbackWrite
  /\ rq' = [rq EXCEPT ![exec[w].key] = RqFailed(@)]
  /\ Release(w)
  /\ UNCHANGED <<request, events, review, reaper, video, faults>>

-----------------------------------------------------------------------------
(* The reaper and the clock                                                *)

(* Mutant: the sweep looks for renders only.                               *)
ReaperFindRenders ==
  /\ reaper.pc = "idle"
  /\ job.status = "processing"
  /\ reaper' = [pc |-> "found", status |-> job.status, count |-> job.count]
  /\ UNCHANGED <<job, request, events, rq, exec, review, video, faults>>

ReaperFind ==
  /\ reaper.pc = "idle"
  /\ job.status = "editing"
  /\ job.since > AbandonAfter
  /\ reaper' = [pc |-> "found", status |-> job.status, count |-> job.count]
  /\ UNCHANGED <<job, request, events, rq, exec, review, video, faults>>

Refunded(count, seen) == IF seen = 0 THEN count ELSE seen - 1

(* revert_abandoned_edit: the status and the count it looks at are those   *)
(* its session loaded, unless a rollback expired them.  The RQ job it      *)
(* cancels is edit:<job>, which no edit of the outbox uses.                *)
ReaperRevert ==
  /\ reaper.pc = "found"
  /\ \E seen \in {reaper, [reaper EXCEPT !.status = job.status, !.count = job.count]} :
       job' = IF seen.status = "editing"
                THEN [job EXCEPT !.status = "pending_review", !.error = "none",
                                 !.count = Refunded(@, seen.count)]
                ELSE job
  /\ reaper' = IdleReaper
  /\ UNCHANGED <<request, events, rq, exec, review, video, faults>>

Tick ==
  /\ \A w \in Workers : Holding(w) => exec[w].ran < JobTimeout
  /\ events' = [k \in Keys |-> Aged(events[k])]
  /\ exec' = [w \in Workers |->
                IF Holding(w) THEN [exec[w] EXCEPT !.ran = @ + 1] ELSE exec[w]]
  /\ job' = [job EXCEPT !.since = IF @ <= AbandonAfter THEN @ + 1 ELSE @]
  /\ UNCHANGED <<request, rq, review, reaper, video, faults>>

-----------------------------------------------------------------------------
Deliver(k) == DispatchOk(k) \/ DispatchError(k) \/ DispatchCrash(k) \/ RetryDue(k)

(* What a worker does of its own accord, once it has popped a job.         *)
Proceed(w) ==
  \/ ClaimGranted(w) \/ ClaimConsumed(w) \/ ClaimBusy(w)
  \/ StartRun(w) \/ Upload(w) \/ Complete(w)
  \/ FinishOk(w) \/ Return(w) \/ FinishFail(w) \/ Callback(w) \/ Abandon(w)

Work(w) ==
  \/ \E k \in Keys : Pop(w, k)
  \/ Proceed(w) \/ RunRefuses(w) \/ RunRaises(w) \/ Crash(w)

Decide(u) ==
  \/ \E r \in Requests : RequestEdit(u, r)
  \/ \E verdict \in {"done", "rejected"} : ReviewRead(u, verdict)
  \/ ReviewCommit(u)

Next ==
  \/ \E u \in Reviewers : Decide(u)
  \/ \E k \in Keys : Deliver(k)
  \/ \E w \in Workers : Work(w)
  \/ OperatorSave \/ RecoverStale \/ ReaperFind \/ ReaperRevert \/ Tick

Spec == Init /\ [][Next]_vars

(* The workers and the reaper are periodic processes.  Nothing is asked of *)
(* the dispatcher, of RQ's scheduler, which may be down, or of a reviewer. *)
Worker(w) == Proceed(w) \/ \E k \in Keys : Pop(w, k)

Fairness ==
  /\ WF_vars(\E w \in Workers : Worker(w))
  /\ WF_vars(ReaperFind \/ ReaperRevert)
  /\ WF_vars(Tick)

FairSpec == Spec /\ Fairness

-----------------------------------------------------------------------------
JobRows ==
  [status : Statuses, error : {"none", "worker", "callback"}, files : {NoAttempt},
   segments : {"saved"}, revision : 0..MaxRevision, active : {NoAttempt}, beat : {0},
   count : 0..MaxCount, since : 0..(AbandonAfter + 1)]

OutboxRows ==
  [status : EventStatuses, attempts : 0..MaxAttempts, age : 0..(StaleAge + 1),
   token : Workers \cup {NoToken}]

RqRows ==
  [status : RqStatuses, entries : 0..MaxEntries, scheduled : BOOLEAN,
   retries : 0..RetryMax]

ExecRows == [pc : WorkerStates, key : Keys, ran : 0..JobTimeout]

ReaperRows ==
  [pc : {"idle", "found"}, status : Statuses \cup {Unset}, count : 0..MaxCount]

(* Every row and process stays within its type.  Nothing here says that    *)
(* the edits counted respect the cap: those of an admin need not.          *)
TypeOK ==
  /\ job \in JobRows
  /\ current \in Requests \cup {NoRequest} /\ accepted \subseteq Requests
  /\ key \in Keys
  /\ events \in [Keys -> OutboxRows]
  /\ payload \in [Keys -> Requests \cup {NoRequest}]
  /\ rq \in [Keys -> RqRows]
  /\ exec \in [Workers -> ExecRows]
  /\ review \in [Reviewers -> {"idle", "done", "rejected"}]
  /\ reaper \in ReaperRows
  /\ video \in Requests \cup {NoRequest}
  /\ faults \in 0..MaxFaults

(* RQ files as a success only an edit the outbox has ticked off.  A normal *)
(* return that ticks nothing off would end RQ's retries while the event    *)
(* waits for somebody: a worker turned away by a dead worker's lease has   *)
(* to fail, and one that returns must still own the claim it reports on.   *)
SuccessIsTickedOff ==
  \A k \in Keys : rq[k].status = "finished" => events[k].status = "consumed"

(* When the outbox has ticked off the edit the row is waiting for, the row *)
(* no longer claims to be editing: run_edit_pipeline wrote an outcome      *)
(* before _finish_outbox_consumer, and nothing but a new request takes a   *)
(* settled row back to editing, however late an older worker starts.       *)
ConsumedMeansSettled ==
  payload[key] = current /\ events[key].status = "consumed" => job.status # "editing"

(* A failure reported late, by a worker, by the failure hook or for a dead *)
(* process, never turns a video that is in review or approved into a       *)
(* failed one: each of them writes through update_job.                     *)
LateFailureIsIgnored ==
  [][job.status \in SUCCESS_TERMINAL_STATUSES =>
       job'.status \notin FAILURE_TERMINAL_STATUSES \ {"rejected"}]_vars

Published == {k \in Keys : events[k].status # "absent"}

TickedOff == {k \in Keys : events[k].status = "consumed"}

Delivery == INSTANCE EditDeliveries
              WITH issued <- {payload[k] : k \in Published},
                   settled <- {payload[k] : k \in TickedOff}

(* The outbox delivers at least once and never after it has ticked an edit *)
(* off: no worker uploads a render of an edit that another one settled.    *)
ImplementsDeliveries == Delivery!Spec

(* The claim of a worker outlives its job.                                 *)
LeaseCoversTimeout == JobTimeout <= LeaseAge

(* No video stays "editing" for ever: a worker gives the edit an outcome,  *)
(* or the reaper takes it back.                                            *)
EditSettles == job.status = "editing" ~> job.status \in TERMINAL_STATUSES

-----------------------------------------------------------------------------
(* What the sources say and the code does not do                           *)

(* request_edit: posting the same kind of edit again is a new variation,   *)
(* so the intent the row is waiting for describes the accepted request.    *)
AcceptedEditIsPublished == job.status = "editing" => payload[key] = current

=============================================================================
