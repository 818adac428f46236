------------------------- MODULE PipelineOutboxProofs -------------------------
(***************************************************************************)
(* Proofs about PipelineOutbox for any number of events, workers and       *)
(* requests, any timeouts and any number of faults.                        *)
(***************************************************************************)
EXTENDS PipelineOutbox, TLAPS

-----------------------------------------------------------------------------
(* The job row                                                             *)

(* The bounds of the clocks are numbers.                                    *)
LEMMA BeatCapNat == BeatCap \in Nat /\ ReapAfter \in Nat
BY PipelineAssumption

Attempts == Events \cup {NoAttempt}

Updates ==
  [status : Statuses \cup {Unset}, error : {"none", "worker", "callback", "reaper", Unset},
   files : Events \cup {NoAttempt, Unset}, segments : {"none", "render", "operator", Unset},
   progress : {"given", Unset}]

(* update_job turns a well-formed row into a well-formed row.              *)
LEMMA UpdateJobType ==
  ASSUME NEW row \in JobRows, NEW attempt \in Attempts, NEW upd \in Updates
  PROVE  UpdateJob(row, attempt, upd) \in JobRows
<1> DEFINE u1 == TerminalGuard(row, upd)
           u2 == SuccessGuard(row, u1, upd.status)
           u3 == SegmentsGuard(row, u2)
<1>1. u1 \in Updates
  BY DEF TerminalGuard, Updates
<1>2. u2 \in Updates
  BY <1>1 DEF SuccessGuard, Updates
<1>3. u3 \in Updates
  BY <1>2 DEF SegmentsGuard, Updates
<1>4. ASSUME NEW u \in Updates
      PROVE  ApplyUpdate(row, u) \in JobRows
  <2>1. Given(u.status, row.status) \in Statuses
    BY DEF Given, Updates, JobRows
  <2>2. Given(u.error, row.error) \in {"none", "worker", "callback", "reaper"}
    BY DEF Given, Updates, JobRows, Unset
  <2>3. Given(u.files, row.files) \in Events \cup {NoAttempt}
    BY DEF Given, Updates, JobRows
  <2>4. Given(u.segments, row.segments) \in {"none", "render", "operator"}
    BY DEF Given, Updates, JobRows, Unset
  <2>5. (IF u.progress = Unset THEN row.beat ELSE 0) \in 0..BeatCap
    BY BeatCapNat DEF JobRows
  <2> QED
    BY <2>1, <2>2, <2>3, <2>4, <2>5 DEF ApplyUpdate, JobRows
<1>5. ApplyUpdate(row, u3) \in JobRows
  BY <1>3, <1>4
<1> QED
  BY <1>5 DEF UpdateJob

(* What update_job leaves alone, whatever it is asked to write.            *)
LEMMA UpdateJobFrame ==
  ASSUME NEW row \in JobRows, NEW attempt \in Attempts, NEW upd \in Updates
  PROVE  LET new == UpdateJob(row, attempt, upd)
         IN  /\ new.active = row.active
             /\ new.revision = row.revision
             /\ row.status \in TERMINAL_STATUSES => new.status \in TERMINAL_STATUSES
             /\ row.revision > 0 => new.segments = row.segments
             /\ attempt # NoAttempt /\ attempt # row.active => new = row
<1> DEFINE u1 == TerminalGuard(row, upd)
           u2 == SuccessGuard(row, u1, upd.status)
           u3 == SegmentsGuard(row, u2)
<1>1. /\ u1 \in Updates
      /\ row.status \in TERMINAL_STATUSES =>
           u1.status \in TERMINAL_STATUSES \cup {Unset}
  BY DEF TerminalGuard, CanBackgroundTransition, Updates
<1>2. /\ u2 \in Updates
      /\ row.status \in TERMINAL_STATUSES =>
           u2.status \in TERMINAL_STATUSES \cup {Unset}
  BY <1>1 DEF SuccessGuard, Updates
<1>3. /\ u3 \in Updates
      /\ u3.status = u2.status
      /\ row.revision > 0 => u3.segments \in {Unset, row.segments}
  BY <1>2 DEF SegmentsGuard, Updates
<1>4. ASSUME NEW u \in Updates
      PROVE  LET new == ApplyUpdate(row, u)
             IN  /\ new.active = row.active
                 /\ new.revision = row.revision
                 /\ new.status = Given(u.status, row.status)
                 /\ new.segments = Given(u.segments, row.segments)
  BY DEF ApplyUpdate, Updates, JobRows
<1>5. LET new == ApplyUpdate(row, u3)
      IN  /\ new.active = row.active
          /\ new.revision = row.revision
          /\ row.status \in TERMINAL_STATUSES => new.status \in TERMINAL_STATUSES
          /\ row.revision > 0 => new.segments = row.segments
  <2>1. row.status \in TERMINAL_STATUSES =>
          Given(u3.status, row.status) \in TERMINAL_STATUSES
    BY <1>2, <1>3 DEF Given
  <2>2. row.revision > 0 => Given(u3.segments, row.segments) = row.segments
    BY <1>3 DEF Given
  <2> QED
    BY <1>3, <1>4, <2>1, <2>2
<1> QED
  BY <1>5 DEF UpdateJob, FenceRejects

-----------------------------------------------------------------------------
(* Types                                                                   *)

ExecRows ==
  [pc : WorkerStates, event : Events \cup {NoAttempt}, ran : 0..JobTimeout]

(* The operators of the outbox and of the queue keep a row a row.          *)
LEMMA OutboxRowTypes ==
  /\ AbsentEvent \in OutboxRows /\ NewEvent \in OutboxRows
  /\ \A ev \in OutboxRows :
       /\ PublishSucceeded(ev) \in OutboxRows
       /\ PublishFailed(ev, TRUE) \in OutboxRows
       /\ StaleRecovered(ev) \in OutboxRows
       /\ Aged(ev) \in OutboxRows
       /\ \A w \in Workers : Claimed(ev, w) \in OutboxRows
       /\ \A w \in Workers : \A b \in BOOLEAN : Finished(ev, w, b) \in OutboxRows
<1>1. /\ StaleAge \in Nat /\ MaxAttempts \in Nat
      /\ 0 \in 0..(StaleAge + 1)
  BY LeaseAssumption
<1>2. AbsentEvent \in OutboxRows /\ NewEvent \in OutboxRows
  BY <1>1 DEF AbsentEvent, NewEvent, OutboxRows, EventStatuses
<1>3. ASSUME NEW ev \in OutboxRows
      PROVE  /\ PublishSucceeded(ev) \in OutboxRows
             /\ PublishFailed(ev, TRUE) \in OutboxRows
             /\ StaleRecovered(ev) \in OutboxRows
             /\ Aged(ev) \in OutboxRows
             /\ \A w \in Workers : Claimed(ev, w) \in OutboxRows
             /\ \A w \in Workers : \A b \in BOOLEAN : Finished(ev, w, b) \in OutboxRows
  <2>1. Attempted(ev.attempts) \in 0..MaxAttempts
    BY <1>1 DEF Attempted, OutboxRows
  <2>2. PublishSucceeded(ev) \in OutboxRows
    BY <2>1 DEF PublishSucceeded, OutboxRows, EventStatuses
  <2>3. PublishFailed(ev, TRUE) \in OutboxRows
    BY <2>1 DEF PublishFailed, OutboxRows, EventStatuses
  <2>4. StaleRecovered(ev) \in OutboxRows
    <3>1. ev.attempts \in 0..MaxAttempts /\ "pending" \in EventStatuses
      BY DEF OutboxRows, EventStatuses
    <3> QED
      BY <1>1, <3>1 DEF StaleRecovered, OutboxRows
  <2>5. Aged(ev) \in OutboxRows
    BY <1>1 DEF Aged, OutboxRows
  <2>6. \A w \in Workers : Claimed(ev, w) \in OutboxRows
    BY <1>1, <2>1 DEF Claimed, OutboxRows, EventStatuses
  <2>7. \A w \in Workers : \A b \in BOOLEAN : Finished(ev, w, b) \in OutboxRows
    <3>1. /\ ev.attempts \in 0..MaxAttempts
          /\ "pending" \in EventStatuses /\ "consumed" \in EventStatuses
      BY DEF OutboxRows, EventStatuses
    <3> QED
      BY <1>1, <3>1 DEF Finished, OutboxRows
  <2> QED
    BY <2>2, <2>3, <2>4, <2>5, <2>6, <2>7
<1> QED
  BY <1>2, <1>3

(* What RQ does to a queue entry keeps it a queue entry.                    *)
LEMMA RqRowTypes ==
  /\ NoRqJob \in RqRows
  /\ \A j \in RqRows :
       /\ RqRoom(j) => RqEnqueued(j) \in RqRows
       /\ j.entries > 0 => RqPopped(j) \in RqRows
       /\ RqSucceeded(j) \in RqRows
       /\ RqFailed(j) \in RqRows
       /\ RqRoom(j) => RqRetryDue(j) \in RqRows
<1>1. RetryMax \in Nat /\ MaxEntries \in Nat
  BY PipelineAssumption
<1>2. NoRqJob \in RqRows
  BY <1>1 DEF NoRqJob, RqRows, RqStatuses
<1>3. ASSUME NEW j \in RqRows
      PROVE  /\ RqRoom(j) => RqEnqueued(j) \in RqRows
             /\ j.entries > 0 => RqPopped(j) \in RqRows
             /\ RqSucceeded(j) \in RqRows
             /\ RqFailed(j) \in RqRows
             /\ RqRoom(j) => RqRetryDue(j) \in RqRows
  <2>1. /\ j.entries \in 0..MaxEntries /\ j.retries \in 0..RetryMax
        /\ j.status \in RqStatuses /\ j.scheduled \in BOOLEAN
        /\ {"queued", "started", "finished", "scheduled", "failed"} \subseteq RqStatuses
    BY DEF RqRows, RqStatuses
  <2>2. RqRoom(j) => j.entries + 1 \in 0..MaxEntries
    BY <1>1, <2>1 DEF RqRoom
  <2>3. j.entries > 0 => j.entries - 1 \in 0..MaxEntries
    BY <1>1, <2>1
  <2>4. j.retries > 0 => j.retries - 1 \in 0..RetryMax
    BY <1>1, <2>1
  <2>5. RetryMax \in 0..RetryMax
    BY <1>1
  <2>6. RqRoom(j) => RqEnqueued(j) \in RqRows
    BY <2>1, <2>2, <2>5 DEF RqEnqueued, RqRows
  <2>7. j.entries > 0 => RqPopped(j) \in RqRows
    BY <2>1, <2>3 DEF RqPopped, RqRows
  <2>8. RqSucceeded(j) \in RqRows
    BY <2>1 DEF RqSucceeded, RqRows
  <2>9. RqFailed(j) \in RqRows
    BY <2>1, <2>4 DEF RqFailed, RqRows
  <2>10. RqRoom(j) => RqRetryDue(j) \in RqRows
    BY <2>1, <2>2 DEF RqRetryDue, RqRows
  <2> QED
    BY <2>6, <2>7, <2>8, <2>9, <2>10
<1> QED
  BY <1>2, <1>3

(* The keyword arguments of the calls a worker makes.                      *)
LEMMA UpdateTypes ==
  /\ [NoUpdate EXCEPT !.status = "processing", !.progress = "given"] \in Updates
  /\ [NoUpdate EXCEPT !.progress = "given"] \in Updates
  /\ [NoUpdate EXCEPT !.segments = "render", !.progress = "given"] \in Updates
  /\ \A e \in Attempts :
       [NoUpdate EXCEPT !.status = FinalStatus, !.progress = "given", !.files = e] \in Updates
  /\ [NoUpdate EXCEPT !.status = "error", !.error = "worker"] \in Updates
  /\ [NoUpdate EXCEPT !.status = "error", !.error = "callback"] \in Updates
<1>1. /\ {"error", "processing", FinalStatus} \subseteq Statuses
      /\ NoUpdate \in Updates
  BY DEF Statuses, TERMINAL_STATUSES, ACTIVE_STATUSES, FinalStatus, NoUpdate, Updates
<1> QED
  BY <1>1 DEF NoUpdate, Updates, Attempts

(* Every write of a worker leaves a well-formed row.                       *)
LEMMA WorkerUpdateType ==
  ASSUME TypeOK, NEW w \in Workers, NEW upd \in Updates, WorkerUpdate(w, upd)
  PROVE  job' \in JobRows
<1>1. job \in JobRows /\ exec[w].event \in Attempts
  BY DEF TypeOK, Attempts
<1> QED
  BY <1>1, UpdateJobType DEF WorkerUpdate

(* The committed publication is typed.                                      *)
LEMMA InitType == Init => TypeOK
<1> SUFFICES ASSUME Init PROVE TypeOK
  OBVIOUS
<1>1. PICK e \in Events :
        /\ job = InitialRow(e)
        /\ events = [x \in Events |-> IF x = e THEN NewEvent ELSE AbsentEvent]
  BY DEF Init
<1>2. job \in JobRows
  BY <1>1, BeatCapNat DEF InitialRow, JobRows, Statuses, ACTIVE_STATUSES
<1>3. events \in [Events -> OutboxRows]
  BY <1>1, OutboxRowTypes
<1>4. rq \in [Events -> RqRows]
  BY RqRowTypes DEF Init
<1>5. exec \in [Workers -> ExecRows]
  BY PipelineAssumption DEF Init, IdleWorker, ExecRows, WorkerStates
<1>6. /\ api \in [Users -> [pc : {"idle", "passed"}, files : Events \cup {NoAttempt}]]
      /\ reaper \in [pc : {"idle", "found"}, status : Statuses \cup {Unset}]
      /\ faults \in 0..MaxFaults
  BY PipelineAssumption DEF Init, IdleRequest, IdleReaper
<1> QED
  BY <1>2, <1>3, <1>4, <1>5, <1>6 DEF TypeOK, ExecRows

(* Every step keeps the types.                                              *)
LEMMA NextType == TypeOK /\ [Next]_vars => TypeOK'
<1> SUFFICES ASSUME TypeOK, [Next]_vars PROVE TypeOK'
  OBVIOUS
<1> USE DEF TypeOK
<1>0. /\ MaxFaults \in Nat /\ JobTimeout \in Nat
      /\ {"error", "processing", "done", "pending_review", Unset} \subseteq
           Statuses \cup {Unset}
      /\ {"error", "processing", "done", "pending_review"} \subseteq Statuses
  BY PipelineAssumption DEF Statuses, TERMINAL_STATUSES, ACTIVE_STATUSES
<1>1. ASSUME NEW e \in Events, Deliver(e) PROVE TypeOK'
  <2>1. CASE DispatchOk(e)
    BY <2>1, OutboxRowTypes, RqRowTypes DEF DispatchOk
  <2>2. CASE DispatchError(e)
    <3>1. rq' \in [Events -> RqRows]
      BY <2>2, RqRowTypes DEF DispatchError
    <3>2. events' \in [Events -> OutboxRows]
      BY <2>2, OutboxRowTypes DEF DispatchError
    <3>3. faults' \in 0..MaxFaults
      BY <1>0, <2>2 DEF DispatchError, Fault
    <3> QED
      BY <2>2, <3>1, <3>2, <3>3 DEF DispatchError
  <2>3. CASE DispatchCrash(e)
    BY <1>0, <2>3, RqRowTypes DEF DispatchCrash, Fault
  <2>4. CASE RetryDue(e)
    BY <2>4, RqRowTypes DEF RetryDue
  <2> QED
    BY <1>1, <2>1, <2>2, <2>3, <2>4 DEF Deliver
<1>2. ASSUME NEW w \in Workers, Work(w) PROVE TypeOK'
  <2>a. /\ exec[w].pc # "idle" => exec[w] \in ExecRows
        /\ IdleWorker \in ExecRows
        /\ \A pc \in WorkerStates : [exec[w] EXCEPT !.pc = pc] \in ExecRows
    BY <1>0 DEF IdleWorker, ExecRows, WorkerStates
  <2>1. ASSUME NEW e \in Events, Pop(w, e) PROVE TypeOK'
    <3>1. rq' \in [Events -> RqRows]
      BY <2>1, RqRowTypes DEF Pop
    <3>2. exec' \in [Workers -> ExecRows]
      BY <1>0, <2>1 DEF Pop, ExecRows, WorkerStates
    <3> QED
      BY <2>1, <3>1, <3>2 DEF Pop, ExecRows
  <2>2. CASE ClaimGranted(w)
    BY <2>2, OutboxRowTypes DEF ClaimGranted, Goto, WorkerStates
  <2>3. CASE ClaimConsumed(w)
    BY <2>3, <2>a, RqRowTypes DEF ClaimConsumed, Release, ExecRows
  <2>4. CASE ClaimBusy(w)
    BY <2>4 DEF ClaimBusy, Goto, WorkerStates
  <2>5. CASE StartRun(w)
    <3>1. job' \in JobRows
      BY <2>5, UpdateTypes, WorkerUpdateType DEF StartRun
    <3> QED
      BY <2>5, <3>1 DEF StartRun, Goto, WorkerStates
  <2>6. CASE Progress(w)
    <3>1. job' \in JobRows
      BY <2>6, UpdateTypes, WorkerUpdateType DEF Progress
    <3> QED
      BY <2>6, <3>1 DEF Progress
  <2>7. CASE PersistSegments(w)
    <3>1. job' \in JobRows
      BY <2>7, UpdateTypes, WorkerUpdateType DEF PersistSegments
    <3> QED
      BY <2>7, <3>1 DEF PersistSegments
  <2>8. CASE RunSucceeds(w)
    <3>1. exec[w].event \in Attempts
      BY DEF Attempts
    <3>2. job' \in JobRows
      BY <2>8, <3>1, UpdateTypes, WorkerUpdateType DEF RunSucceeds
    <3> QED
      BY <2>8, <3>2 DEF RunSucceeds, Goto, WorkerStates
  <2>9. CASE RunErrors(w)
    <3>1. job' \in JobRows
      BY <2>9, UpdateTypes, WorkerUpdateType DEF RunErrors
    <3> QED
      BY <1>0, <2>9, <3>1 DEF RunErrors, Fault, Goto, WorkerStates
  <2>10. CASE RunRaises(w)
    BY <1>0, <2>10 DEF RunRaises, Fault, Goto, WorkerStates
  <2>11. CASE FinishOk(w)
    <3>1. rq' \in [Events -> RqRows] /\ exec' \in [Workers -> ExecRows]
      BY <2>11, <2>a, RqRowTypes DEF FinishOk, Release, ExecRows
    <3>2. events' \in [Events -> OutboxRows]
      BY <2>11, OutboxRowTypes DEF FinishOk
    <3> QED
      BY <2>11, <3>1, <3>2 DEF FinishOk, ExecRows
  <2>12. CASE FinishFail(w)
    BY <2>12, OutboxRowTypes DEF FinishFail, Goto, WorkerStates
  <2>13. ASSUME CallbackWrite(w) PROVE job' \in JobRows
    BY <2>13, UpdateTypes, WorkerUpdateType DEF CallbackWrite
  <2>14. CASE Callback(w)
    <3>1. rq' \in [Events -> RqRows] /\ exec' \in [Workers -> ExecRows]
      BY <2>14, <2>a, RqRowTypes DEF Callback, Release, ExecRows
    <3>2. job' \in JobRows
      BY <2>13, <2>14 DEF Callback
    <3>3. faults' \in 0..MaxFaults
      BY <1>0, <2>14 DEF Callback, Fault
    <3> QED
      BY <2>14, <3>1, <3>2, <3>3 DEF Callback, ExecRows
  <2>15. CASE Crash(w)
    <3>1. 0 \in 0..JobTimeout /\ "dead" \in WorkerStates
      BY <1>0 DEF WorkerStates
    <3>2. faults' \in 0..MaxFaults
      BY <1>0, <2>15 DEF Crash, Fault
    <3>3. exec' \in [Workers -> ExecRows]
      BY <2>15, <3>1 DEF Crash, ExecRows
    <3> QED
      BY <2>15, <3>2, <3>3 DEF Crash, ExecRows
  <2>16. CASE Abandon(w)
    <3>1. rq' \in [Events -> RqRows] /\ exec' \in [Workers -> ExecRows]
      BY <2>16, <2>a, RqRowTypes DEF Abandon, Release, ExecRows
    <3> QED
      BY <2>13, <2>16, <3>1 DEF Abandon, ExecRows
  <2> QED
    BY <1>2, <2>1, <2>2, <2>3, <2>4, <2>5, <2>6, <2>7, <2>8, <2>9, <2>10, <2>11,
       <2>12, <2>14, <2>15, <2>16 DEF Work
<1>3. ASSUME NEW u \in Users, Request(u) PROVE TypeOK'
  <2>1. CASE RetryRead(u)
    BY <2>1 DEF RetryRead, JobRows
  <2>2. ASSUME NEW e \in Events, RetryCommit(u, e) PROVE TypeOK'
    <3>1. job' \in JobRows
      <4>1. 0 \in 0..BeatCap /\ "none" \in {"none", "worker", "callback", "reaper"}
        BY BeatCapNat
      <4>2. (IF api[u].files = NoAttempt THEN job.files ELSE NoAttempt)
              \in Events \cup {NoAttempt}
        BY DEF JobRows
      <4> QED
        BY <1>0, <2>2, <4>1, <4>2 DEF RetryCommit, JobRows
    <3>2. events' \in [Events -> OutboxRows]
      BY <2>2, OutboxRowTypes DEF RetryCommit
    <3> QED
      BY <2>2, <3>1, <3>2 DEF RetryCommit, IdleRequest
  <2> QED
    BY <1>3, <2>1, <2>2 DEF Request
<1>4. CASE OperatorSave
  <2>1. 1 \in 0..1 /\ "operator" \in {"none", "render", "operator"}
    OBVIOUS
  <2>2. job' \in JobRows
    BY <1>4, <2>1 DEF OperatorSave, JobRows
  <2> QED
    BY <1>4, <2>2 DEF OperatorSave
<1>5. CASE RecoverStale
  BY <1>5, OutboxRowTypes DEF RecoverStale
<1>6. CASE ReaperFind
  BY <1>6 DEF ReaperFind, JobRows
<1>7. CASE ReaperReap
  <2>1. job' \in JobRows
    BY <1>0, <1>7 DEF ReaperReap, JobRows
  <2> QED
    BY <1>7, <2>1 DEF ReaperReap, IdleReaper
<1>8. CASE Tick
  <2>1. job' \in JobRows
    BY <1>8, BeatCapNat DEF Tick, AgedRow, JobRows
  <2>2. events' \in [Events -> OutboxRows]
    BY <1>8, OutboxRowTypes DEF Tick
  <2>3. exec' \in [Workers -> ExecRows]
    BY <1>0, <1>8 DEF Tick, ExecRows, Holding
  <2> QED
    BY <1>8, <2>1, <2>2, <2>3 DEF Tick, ExecRows
<1>9. CASE UNCHANGED vars
  BY <1>9 DEF vars
<1> QED
  BY <1>1, <1>2, <1>3, <1>4, <1>5, <1>6, <1>7, <1>8, <1>9 DEF Next

(* Every row and every process always stays within its type.               *)
THEOREM TypeCorrect == Spec => []TypeOK
BY InitType, NextType, PTL DEF Spec

-----------------------------------------------------------------------------
(* What was created stays created                                          *)

(* No operation on an outbox row takes it back to not existing.            *)
LEMMA NeverAbsentAgain ==
  ASSUME NEW ev \in OutboxRows
  PROVE  /\ NewEvent.status # "absent"
         /\ PublishSucceeded(ev).status # "absent"
         /\ PublishFailed(ev, TRUE).status # "absent"
         /\ StaleRecovered(ev).status # "absent"
         /\ ev.status # "absent" => Aged(ev).status # "absent"
         /\ \A w \in Workers : Claimed(ev, w).status # "absent"
         /\ ev.status # "absent" =>
              \A w \in Workers : \A b \in BOOLEAN : Finished(ev, w, b).status # "absent"
BY DEF NewEvent, AbsentEvent, PublishSucceeded, PublishFailed, StaleRecovered, Aged,
       Claimed, Finished, OutboxRows

(* No step deletes an outbox event.                                         *)
LEMMA EventsPersist ==
  ASSUME TypeOK, [Next]_vars
  PROVE  \A e \in Events : events[e].status # "absent" => events'[e].status # "absent"
<1> SUFFICES ASSUME NEW e \in Events, events[e].status # "absent"
             PROVE  events'[e].status # "absent"
  OBVIOUS
<1>0. events \in [Events -> OutboxRows] /\ events[e] \in OutboxRows
  BY DEF TypeOK
<1>1. ASSUME NEW d \in Events, Deliver(d) PROVE events'[e].status # "absent"
  BY <1>0, <1>1, NeverAbsentAgain
     DEF Deliver, DispatchOk, DispatchError, DispatchCrash, RetryDue
<1>2. ASSUME NEW w \in Workers, Work(w) PROVE events'[e].status # "absent"
  <2>1. \/ UNCHANGED events
        \/ events' = [events EXCEPT ![exec[w].event] = Claimed(@, w)]
        \/ events' = [events EXCEPT ![exec[w].event] = Finished(@, w, TRUE)]
        \/ events' = [events EXCEPT ![exec[w].event] = Finished(@, w, FALSE)]
    BY <1>2 DEF Work, Pop, ClaimGranted, ClaimConsumed, ClaimBusy, StartRun, Progress,
                PersistSegments, RunSucceeds, RunErrors, RunRaises, FinishOk, FinishFail,
                Callback, Crash, Abandon
  <2>2. /\ Claimed(events[e], w).status # "absent"
        /\ Finished(events[e], w, TRUE).status # "absent"
        /\ Finished(events[e], w, FALSE).status # "absent"
    BY <1>0, NeverAbsentAgain
  <2>3. events'[e] \in {events[e], Claimed(events[e], w), Finished(events[e], w, TRUE),
                        Finished(events[e], w, FALSE)}
    BY <1>0, <2>1
  <2> QED
    BY <2>2, <2>3
<1>3. ASSUME NEW u \in Users, Request(u) PROVE events'[e].status # "absent"
  BY <1>0, <1>3 DEF Request, RetryRead, RetryCommit
<1>4. CASE RecoverStale
  BY <1>0, <1>4, NeverAbsentAgain DEF RecoverStale
<1>5. CASE Tick
  BY <1>0, <1>5, NeverAbsentAgain DEF Tick
<1>6. CASE OperatorSave \/ ReaperFind \/ ReaperReap \/ UNCHANGED vars
  BY <1>0, <1>6 DEF OperatorSave, ReaperFind, ReaperReap, vars
<1> QED
  BY <1>1, <1>2, <1>3, <1>4, <1>5, <1>6 DEF Next

Created == Assigned /\ QueuedIsCreated /\ ActiveIsCreated

(* A background write leaves attempt and document revision alone.           *)
LEMMA WorkerKeepsActive ==
  ASSUME TypeOK, NEW w \in Workers, NEW upd \in Updates, WorkerUpdate(w, upd)
  PROVE  job'.active = job.active /\ job'.revision = job.revision
<1>1. job \in JobRows /\ exec[w].event \in Attempts
  BY DEF TypeOK, Attempts
<1> QED
  BY <1>1, UpdateJobFrame DEF WorkerUpdate

(* A step of a worker is a write of update_job or leaves the row alone.    *)
LEMMA WorkWrites ==
  ASSUME TypeOK, NEW w \in Workers, Work(w)
  PROVE  \/ UNCHANGED job
         \/ \E upd \in Updates :
              /\ WorkerUpdate(w, upd)
              /\ upd.files = Unset /\ upd.status \notin SUCCESS_TERMINAL_STATUSES
         \/ RunSucceeds(w)
<1>1. /\ exec[w].event \in Attempts
      /\ "error" \notin SUCCESS_TERMINAL_STATUSES
      /\ "processing" \notin SUCCESS_TERMINAL_STATUSES
      /\ Unset \notin SUCCESS_TERMINAL_STATUSES
  BY DEF TypeOK, Attempts, SUCCESS_TERMINAL_STATUSES, Unset
<1>2. CASE StartRun(w)
  BY <1>1, <1>2, UpdateTypes DEF StartRun, NoUpdate
<1>3. CASE Progress(w)
  BY <1>1, <1>3, UpdateTypes DEF Progress, NoUpdate
<1>4. CASE PersistSegments(w)
  BY <1>1, <1>4, UpdateTypes DEF PersistSegments, NoUpdate
<1>5. CASE RunErrors(w)
  BY <1>1, <1>5, UpdateTypes DEF RunErrors, NoUpdate
<1>6. CASE Callback(w) \/ Abandon(w)
  BY <1>1, <1>6, UpdateTypes DEF Callback, Abandon, CallbackWrite, NoUpdate
<1> QED
  BY <1>2, <1>3, <1>4, <1>5, <1>6
  DEF Work, Pop, ClaimGranted, ClaimConsumed, ClaimBusy, RunRaises, FinishOk, FinishFail,
      Crash

(* Who is active: only the commit of a new attempt changes it.             *)
LEMMA ActiveChanges ==
  ASSUME TypeOK, [Next]_vars
  PROVE  \/ job'.active = job.active
         \/ \E u \in Users, e \in Events : RetryCommit(u, e)
<1>0. job \in JobRows
  BY DEF TypeOK
<1>1. ASSUME NEW e \in Events, Deliver(e) PROVE UNCHANGED job
  BY <1>1 DEF Deliver, DispatchOk, DispatchError, DispatchCrash, RetryDue
<1>2. ASSUME NEW w \in Workers, Work(w) PROVE job'.active = job.active
  <2>1. CASE RunSucceeds(w)
    <3>1. exec[w].event \in Attempts
      BY DEF TypeOK, Attempts
    <3> QED
      BY <2>1, <3>1, UpdateTypes, WorkerKeepsActive DEF RunSucceeds
  <2> QED
    BY <1>2, <2>1, WorkWrites, WorkerKeepsActive
<1>3. ASSUME NEW u \in Users, RetryRead(u) PROVE UNCHANGED job
  BY <1>3 DEF RetryRead
<1>4. CASE OperatorSave
  BY <1>0, <1>4 DEF OperatorSave, JobRows
<1>5. CASE ReaperReap
  BY <1>0, <1>5 DEF ReaperReap, JobRows
<1>6. CASE Tick
  BY <1>0, <1>6 DEF Tick, AgedRow, JobRows
<1>7. CASE RecoverStale \/ ReaperFind \/ UNCHANGED vars
  BY <1>7 DEF RecoverStale, ReaperFind, vars
<1> QED
  BY <1>1, <1>2, <1>3, <1>4, <1>5, <1>6, <1>7 DEF Next, Request

(* At the start one event exists, and the job names it.                     *)
LEMMA CreatedInit == Init => Created
BY OutboxRowTypes, PipelineAssumption
   DEF Init, Created, Assigned, QueuedIsCreated, ActiveIsCreated, IdleWorker, NoRqJob,
       InitialRow, NewEvent, AbsentEvent

(* Queue, workers and job go on naming events that exist.                   *)
LEMMA CreatedNext == TypeOK /\ Created /\ [Next]_vars => Created'
<1> SUFFICES ASSUME TypeOK, Created, [Next]_vars PROVE Created'
  OBVIOUS
<1>0. /\ \A e \in Events : events[e].status # "absent" => events'[e].status # "absent"
      /\ exec \in [Workers -> ExecRows] /\ rq \in [Events -> RqRows]
      /\ events \in [Events -> OutboxRows] /\ job.active \in Events
  BY EventsPersist DEF TypeOK, ExecRows, JobRows
<1>a. ActiveIsCreated'
  <2>1. CASE job'.active = job.active
    BY <1>0, <2>1 DEF Created, ActiveIsCreated
  <2>2. ASSUME NEW u \in Users, NEW e \in Events, RetryCommit(u, e)
        PROVE  ActiveIsCreated'
    <3>1. job'.active = e /\ events'[e] = NewEvent
      BY <1>0, <2>2 DEF RetryCommit, TypeOK, JobRows
    <3> QED
      BY <3>1 DEF ActiveIsCreated, NewEvent, AbsentEvent
  <2> QED
    BY <2>1, <2>2, ActiveChanges
<1>q. QueuedIsCreated'
  <2> SUFFICES ASSUME NEW e \in Events, rq'[e].entries > 0 \/ rq'[e].scheduled
               PROVE  events'[e].status # "absent"
    BY DEF QueuedIsCreated
  <2>1. ASSUME NEW d \in Events, Deliver(d) PROVE events[e].status # "absent"
    <3>1. CASE RetryDue(d)
      BY <1>0, <2>1, <3>1 DEF RetryDue, Created, QueuedIsCreated
    <3>2. CASE Dispatchable(d) /\ (d # e => rq'[e] = rq[e])
      BY <1>0, <2>1, <3>2 DEF Dispatchable, Created, QueuedIsCreated
    <3> QED
      BY <1>0, <2>1, <3>1, <3>2 DEF Deliver, DispatchOk, DispatchError, DispatchCrash
  <2>2. ASSUME NEW w \in Workers, Work(w) PROVE events[e].status # "absent"
    <3>1. CASE exec[w].pc # "idle" /\ (exec[w].event # e => rq'[e] = rq[e])
      BY <1>0, <3>1 DEF Created, Assigned, QueuedIsCreated
    <3>2. ASSUME NEW d \in Events, Pop(w, d) PROVE events[e].status # "absent"
      BY <1>0, <3>2 DEF Pop, RqPopped, RqRows, Created, QueuedIsCreated
    <3>3. ASSUME UNCHANGED rq PROVE events[e].status # "absent"
      BY <3>3 DEF Created, QueuedIsCreated
    <3>4. CASE ClaimConsumed(w) \/ FinishOk(w) \/ Callback(w) \/ Abandon(w)
      BY <1>0, <3>1, <3>4 DEF ClaimConsumed, FinishOk, Callback, Abandon
    <3> QED
      BY <2>2, <3>2, <3>3, <3>4
      DEF Work, ClaimGranted, ClaimBusy, StartRun, Progress, PersistSegments,
          RunSucceeds, RunErrors, RunRaises, FinishFail, Crash
  <2>3. ASSUME UNCHANGED rq PROVE events[e].status # "absent"
    BY <2>3 DEF Created, QueuedIsCreated
  <2> QED
    BY <1>0, <2>1, <2>2, <2>3
    DEF Next, Request, RetryRead, RetryCommit, OperatorSave, RecoverStale, ReaperFind,
        ReaperReap, Tick, vars
<1>w. Assigned'
  <2> SUFFICES ASSUME NEW v \in Workers, exec'[v].pc # "idle"
               PROVE  exec'[v].event \in Events /\ events'[exec'[v].event].status # "absent"
    BY DEF Assigned
  <2>1. ASSUME exec'[v].pc # "idle" => exec[v].pc # "idle" /\ exec'[v].event = exec[v].event
        PROVE  exec'[v].event \in Events /\ events'[exec'[v].event].status # "absent"
    BY <1>0, <2>1 DEF Created, Assigned
  <2>2. ASSUME NEW w \in Workers, Work(w)
        PROVE  exec'[v].event \in Events /\ events'[exec'[v].event].status # "absent"
    <3>1. ASSUME NEW e \in Events, Pop(w, e)
          PROVE  exec'[v].event \in Events /\ events'[exec'[v].event].status # "absent"
      BY <1>0, <2>1, <3>1 DEF Pop, Created, QueuedIsCreated
    <3>2. CASE UNCHANGED exec
      BY <2>1, <3>2
    <3>3. CASE Release(w)
      BY <1>0, <2>1, <3>3 DEF Release, IdleWorker
    <3>4. ASSUME NEW pc \in WorkerStates, exec[w].pc # "idle", Goto(w, pc)
          PROVE  exec'[v].event \in Events /\ events'[exec'[v].event].status # "absent"
      BY <1>0, <2>1, <3>4 DEF Goto, ExecRows
    <3>5. CASE Crash(w)
      BY <1>0, <2>1, <3>5 DEF Crash, ExecRows
    <3> QED
      BY <2>2, <3>1, <3>2, <3>3, <3>4, <3>5
      DEF Work, ClaimGranted, ClaimConsumed, ClaimBusy, StartRun, Progress,
          PersistSegments, RunSucceeds, RunErrors, RunRaises, Running, FinishOk,
          FinishFail, Callback, Abandon, WorkerStates
  <2>3. CASE Tick
    BY <1>0, <2>1, <2>3 DEF Tick, ExecRows
  <2>4. CASE UNCHANGED exec
    BY <2>1, <2>4
  <2> QED
    BY <2>2, <2>3, <2>4
    DEF Next, Deliver, DispatchOk, DispatchError, DispatchCrash, RetryDue, Request,
        RetryRead, RetryCommit, OperatorSave, RecoverStale, ReaperFind, ReaperReap, vars
<1> QED
  BY <1>a, <1>q, <1>w DEF Created

-----------------------------------------------------------------------------
(* One execution at a time                                                 *)

(* No worker holds a claim at the start.                                    *)
LEMMA ClaimInit == Init => ClaimHeld
BY DEF Init, ClaimHeld, Holding, IdleWorker

(* A worker keeps the only live claim while it runs.                        *)
LEMMA ClaimNext ==
  ASSUME LeaseCoversTimeout
  PROVE  TypeOK /\ Created /\ ClaimHeld /\ [Next]_vars => ClaimHeld'
<1> SUFFICES ASSUME TypeOK, Created, ClaimHeld, [Next]_vars,
                    NEW v \in Workers, Holding(v)'
             PROVE  LET ev == events'[exec'[v].event]
                    IN  ev.status = "processing" /\ ev.token = v /\ ev.age <= exec'[v].ran
  BY DEF ClaimHeld
<1> DEFINE Held(ev, ran) == ev.status = "processing" /\ ev.token = v /\ ev.age <= ran
<1> SUFFICES Held(events'[exec'[v].event], exec'[v].ran)
  OBVIOUS
<1>0. /\ exec \in [Workers -> ExecRows] /\ events \in [Events -> OutboxRows]
      /\ JobTimeout \in Nat /\ LeaseAge \in Nat /\ StaleAge \in Nat
      /\ JobTimeout <= LeaseAge /\ LeaseAge <= StaleAge
  BY PipelineAssumption, LeaseAssumption DEF TypeOK, ExecRows, LeaseCoversTimeout
(* A held claim is within its lease: it is neither stale nor claimable.    *)
<1>h. ASSUME Holding(v)
      PROVE  /\ exec[v].event \in Events /\ Held(events[exec[v].event], exec[v].ran)
             /\ ~ Dispatchable(exec[v].event)
             /\ ~ Stale(events[exec[v].event])
             /\ ~ Claimable(events[exec[v].event])
             /\ events[exec[v].event].status # "absent"
  <2>1. exec[v].event \in Events /\ Held(events[exec[v].event], exec[v].ran)
    BY <1>h DEF Created, Assigned, ClaimHeld, Holding
  <2>2. events[exec[v].event].age \in Nat /\ events[exec[v].event].age <= LeaseAge
    BY <1>0, <2>1 DEF ExecRows, OutboxRows
  <2> QED
    BY <1>0, <2>1, <2>2 DEF Dispatchable, DedupStatuses, Stale, Claimable, Busy
<1>s. ASSUME Holding(v), exec'[v].event = exec[v].event, exec'[v].ran = exec[v].ran,
             events'[exec[v].event] = events[exec[v].event]
      PROVE  Held(events'[exec'[v].event], exec'[v].ran)
  BY <1>h, <1>s
<1>1. ASSUME NEW e \in Events, Deliver(e) PROVE Held(events'[exec'[v].event], exec'[v].ran)
  <2>1. Holding(v) /\ exec' = exec
    BY <1>1 DEF Deliver, DispatchOk, DispatchError, DispatchCrash, RetryDue, Holding
  <2>2. events'[exec[v].event] = events[exec[v].event]
    BY <1>0, <1>1, <1>h, <2>1 DEF Deliver, DispatchOk, DispatchError, DispatchCrash, RetryDue
  <2> QED
    BY <1>s, <2>1, <2>2
<1>2. ASSUME NEW w \in Workers, Work(w) PROVE Held(events'[exec'[v].event], exec'[v].ran)
  <2>1. CASE ClaimGranted(w)
    <3>1. CASE v = w
      BY <1>0, <2>1, <3>1 DEF ClaimGranted, Goto, Claimed, ExecRows, Created, Assigned
    <3>2. CASE v # w
      <4>1. Holding(v) /\ exec'[v] = exec[v]
        BY <1>0, <2>1, <3>2 DEF ClaimGranted, Goto, Holding
      <4>2. events'[exec[v].event] = events[exec[v].event]
        BY <1>0, <1>h, <2>1, <4>1 DEF ClaimGranted
      <4> QED
        BY <1>s, <4>1, <4>2
    <3> QED
      BY <3>1, <3>2
  <2>2. CASE FinishOk(w) \/ FinishFail(w)
    <3>1. v # w /\ Holding(v) /\ exec'[v] = exec[v] /\ Holding(w)
      <4>1. CASE FinishOk(w)
        BY <1>0, <4>1 DEF FinishOk, Release, IdleWorker, Holding
      <4>2. CASE FinishFail(w)
        <5>1. exec'[w].pc = "callback" /\ exec[w].pc = "failed"
          BY <1>0, <4>2 DEF FinishFail, Goto, ExecRows
        <5>2. v # w
          BY <5>1 DEF Holding
        <5>3. exec'[v] = exec[v]
          BY <1>0, <4>2, <5>2 DEF FinishFail, Goto
        <5> QED
          BY <5>1, <5>2, <5>3 DEF Holding
      <4> QED
        BY <2>2, <4>1, <4>2
    <3>2. exec[w].event \in Events /\ events[exec[w].event].token = w
      BY <3>1 DEF Created, Assigned, ClaimHeld, Holding
    <3>3. events'[exec[v].event] = events[exec[v].event]
      BY <1>0, <1>h, <2>2, <3>1, <3>2 DEF FinishOk, FinishFail
    <3> QED
      BY <1>s, <3>1, <3>3
  <2>3. ASSUME UNCHANGED events, Holding(v), exec'[v].event = exec[v].event,
               exec'[v].ran = exec[v].ran
        PROVE  Held(events'[exec'[v].event], exec'[v].ran)
    BY <1>s, <2>3
  <2>4. ASSUME NEW e \in Events, Pop(w, e) PROVE Held(events'[exec'[v].event], exec'[v].ran)
    <3>1. v # w
      BY <1>0, <2>4 DEF Pop, Holding
    <3> QED
      BY <1>0, <2>3, <2>4, <3>1 DEF Pop, Holding
  <2>5. CASE ClaimConsumed(w) \/ Callback(w) \/ Abandon(w)
    <3>1. v # w
      BY <1>0, <2>5 DEF ClaimConsumed, Callback, Abandon, Release, IdleWorker, Holding
    <3> QED
      BY <1>0, <2>3, <2>5, <3>1 DEF ClaimConsumed, Callback, Abandon, Release, Holding
  <2>6. CASE ClaimBusy(w) \/ Crash(w)
    <3>1. v # w
      BY <1>0, <2>6 DEF ClaimBusy, Crash, Goto, Holding, ExecRows
    <3> QED
      BY <1>0, <2>3, <2>6, <3>1 DEF ClaimBusy, Crash, Goto, Holding
  <2>7. CASE StartRun(w) \/ RunSucceeds(w) \/ RunErrors(w) \/ RunRaises(w)
    <3>1. Holding(w) /\ UNCHANGED events
      BY <2>7 DEF StartRun, RunSucceeds, RunErrors, RunRaises, Running, Holding
    <3>2. Holding(v) /\ exec'[v].event = exec[v].event /\ exec'[v].ran = exec[v].ran
      BY <1>0, <2>7, <3>1
         DEF StartRun, RunSucceeds, RunErrors, RunRaises, Goto, Holding, ExecRows
    <3> QED
      BY <2>3, <3>1, <3>2
  <2>8. CASE Progress(w) \/ PersistSegments(w)
    BY <2>3, <2>8 DEF Progress, PersistSegments, Holding
  <2> QED
    BY <1>2, <2>1, <2>2, <2>4, <2>5, <2>6, <2>7, <2>8 DEF Work
<1>3. ASSUME NEW u \in Users, Request(u) PROVE Held(events'[exec'[v].event], exec'[v].ran)
  <2>1. Holding(v) /\ exec' = exec
    BY <1>3 DEF Request, RetryRead, RetryCommit, Holding
  <2>2. events'[exec[v].event] = events[exec[v].event]
    BY <1>0, <1>3, <1>h, <2>1 DEF Request, RetryRead, RetryCommit
  <2> QED
    BY <1>s, <2>1, <2>2
<1>4. CASE RecoverStale
  <2>1. Holding(v) /\ exec' = exec
    BY <1>4 DEF RecoverStale, Holding
  <2>2. events'[exec[v].event] = events[exec[v].event]
    BY <1>4, <1>h, <2>1 DEF RecoverStale
  <2> QED
    BY <1>s, <2>1, <2>2
<1>5. CASE Tick
  <2>1. Holding(v) /\ exec'[v].event = exec[v].event /\ exec'[v].ran = exec[v].ran + 1
    BY <1>0, <1>5 DEF Tick, Holding, ExecRows
  <2>2. events'[exec[v].event] = Aged(events[exec[v].event])
    BY <1>5, <1>h, <2>1 DEF Tick
  <2>3. Held(Aged(events[exec[v].event]), exec[v].ran + 1)
    BY <1>0, <1>h, <2>1 DEF Aged, OutboxRows, ExecRows
  <2> QED
    BY <2>1, <2>2, <2>3
<1>6. CASE OperatorSave \/ ReaperFind \/ ReaperReap \/ UNCHANGED vars
  <2>1. Holding(v) /\ exec' = exec /\ events' = events
    BY <1>6 DEF OperatorSave, ReaperFind, ReaperReap, vars, Holding
  <2> QED
    BY <1>s, <2>1
<1> QED
  BY <1>1, <1>2, <1>3, <1>4, <1>5, <1>6 DEF Next

(* As long as RQ kills a job before its consumer lease runs out, no two    *)
(* workers ever run the pipeline for the same attempt at the same time,    *)
(* whatever is re-dispatched, retried, recovered or lost.                  *)
THEOREM OneExecution ==
  ASSUME LeaseCoversTimeout
  PROVE  Spec => []ExclusiveExecution
<1>1. ClaimHeld => ExclusiveExecution
  BY DEF ClaimHeld, ExclusiveExecution, Running, Holding
<1> QED
  BY <1>1, InitType, NextType, CreatedInit, CreatedNext, ClaimInit, ClaimNext, PTL DEF Spec

-----------------------------------------------------------------------------
(* What a finished job shows                                               *)

(* A call that publishes nothing leaves the files alone and cannot turn    *)
(* the row into a finished one; a call that publishes does both or neither.*)
LEMMA UpdateJobOutcome ==
  ASSUME NEW row \in JobRows, NEW attempt \in Attempts, NEW upd \in Updates
  PROVE  LET new == UpdateJob(row, attempt, upd)
         IN  /\ upd.files = Unset /\ upd.status \notin SUCCESS_TERMINAL_STATUSES =>
                  /\ new.files = row.files
                  /\ new.status \in SUCCESS_TERMINAL_STATUSES =>
                       row.status \in SUCCESS_TERMINAL_STATUSES
             /\ upd.files = attempt /\ attempt # Unset /\ attempt # NoAttempt =>
                  new = row \/ (attempt = row.active /\ new.files = attempt)
<1> DEFINE u1 == TerminalGuard(row, upd)
           u2 == SuccessGuard(row, u1, upd.status)
           u3 == SegmentsGuard(row, u2)
<1>1. /\ u1 \in Updates /\ u1.files = upd.files
      /\ u1.status \in {Unset, upd.status}
  BY DEF TerminalGuard, Updates
<1>2. /\ u2 \in Updates /\ u2.files = upd.files
      /\ u2.status \in {Unset, upd.status}
  BY <1>1 DEF SuccessGuard, Updates
<1>3. /\ u3 \in Updates /\ u3.files = upd.files
      /\ u3.status \in {Unset, upd.status}
  BY <1>2 DEF SegmentsGuard, Updates
<1>4. /\ ApplyUpdate(row, u3).files = Given(u3.files, row.files)
      /\ ApplyUpdate(row, u3).status = Given(u3.status, row.status)
  BY <1>3 DEF ApplyUpdate, Updates, JobRows
<1> QED
  BY <1>3, <1>4 DEF UpdateJob, FenceRejects, Given

(* What every step does to the row, as far as the video is concerned.      *)
LEMMA RowSteps ==
  ASSUME TypeOK, Created, [Next]_vars
  PROVE  \/ /\ job'.files = job.files /\ job'.active = job.active
            /\ job'.status \in SUCCESS_TERMINAL_STATUSES =>
                 job.status \in SUCCESS_TERMINAL_STATUSES
         \/ job'.files = job.active /\ job'.active = job.active
         \/ job'.status = "processing"
<1>0. job \in JobRows
  BY DEF TypeOK
<1>1. ASSUME NEW w \in Workers, Work(w)
      PROVE  \/ /\ job'.files = job.files /\ job'.active = job.active
                /\ job'.status \in SUCCESS_TERMINAL_STATUSES =>
                     job.status \in SUCCESS_TERMINAL_STATUSES
             \/ job'.files = job.active /\ job'.active = job.active
  <2>0. exec[w].event \in Attempts
    BY DEF TypeOK, Attempts
  <2>1. CASE RunSucceeds(w)
    <3>1. exec[w].event \in Events /\ exec[w].event # NoAttempt /\ exec[w].event # Unset
      BY <2>1, PipelineAssumption DEF RunSucceeds, Created, Assigned
    <3> DEFINE upd == [NoUpdate EXCEPT !.status = FinalStatus, !.progress = "given",
                                       !.files = exec[w].event]
    <3>2. upd \in Updates /\ upd.files = exec[w].event /\ WorkerUpdate(w, upd)
      BY <2>0, <2>1, UpdateTypes DEF RunSucceeds, NoUpdate
    <3> HIDE DEF upd
    <3>3. job' = job \/ (exec[w].event = job.active /\ job'.files = exec[w].event)
      BY <1>0, <2>0, <3>1, <3>2, UpdateJobOutcome DEF WorkerUpdate
    <3> QED
      BY <3>2, <3>3, WorkerKeepsActive
  <2>2. ASSUME NEW upd \in Updates, WorkerUpdate(w, upd),
               upd.files = Unset, upd.status \notin SUCCESS_TERMINAL_STATUSES
        PROVE  /\ job'.files = job.files /\ job'.active = job.active
               /\ job'.status \in SUCCESS_TERMINAL_STATUSES =>
                    job.status \in SUCCESS_TERMINAL_STATUSES
    BY <1>0, <2>0, <2>2, UpdateJobOutcome, WorkerKeepsActive DEF WorkerUpdate
  <2> QED
    BY <1>1, <2>1, <2>2, WorkWrites
<1>2. ASSUME NEW u \in Users, Request(u)
      PROVE  UNCHANGED job \/ job'.status = "processing"
  BY <1>0, <1>2 DEF Request, RetryRead, RetryCommit, JobRows
<1>3. CASE OperatorSave
  BY <1>0, <1>3 DEF OperatorSave, JobRows
<1>4. CASE ReaperReap
  BY <1>0, <1>4 DEF ReaperReap, JobRows, SUCCESS_TERMINAL_STATUSES
<1>5. CASE Tick
  BY <1>0, <1>5 DEF Tick, AgedRow, JobRows
<1> QED
  BY <1>1, <1>2, <1>3, <1>4, <1>5
  DEF Next, Deliver, DispatchOk, DispatchError, DispatchCrash, RetryDue, RecoverStale,
      ReaperFind, vars

(* A job shown as finished always links to the video of its current        *)
(* attempt, whichever workers and hooks of earlier attempts are still at   *)
(* work.                                                                   *)
THEOREM FinishedIsCurrent == Spec => []SuccessIsCurrentAttempt
<1>1. Init => SuccessIsCurrentAttempt
  BY DEF Init, InitialRow, SuccessIsCurrentAttempt, SUCCESS_TERMINAL_STATUSES
<1>2. TypeOK /\ Created /\ SuccessIsCurrentAttempt /\ [Next]_vars => SuccessIsCurrentAttempt'
  BY RowSteps DEF SuccessIsCurrentAttempt, SUCCESS_TERMINAL_STATUSES
<1> QED
  BY <1>1, <1>2, InitType, NextType, CreatedInit, CreatedNext, PTL DEF Spec

-----------------------------------------------------------------------------
(* The operator's text                                                     *)

(* No step replaces lyrics an operator has saved.                           *)
LEMMA OperatorTextNext == TypeOK /\ OperatorTextSurvives /\ [Next]_vars => OperatorTextSurvives'
<1> SUFFICES ASSUME TypeOK, OperatorTextSurvives, [Next]_vars PROVE OperatorTextSurvives'
  OBVIOUS
<1> USE DEF OperatorTextSurvives
<1>0. job \in JobRows
  BY DEF TypeOK
<1>1. ASSUME NEW w \in Workers, Work(w) PROVE OperatorTextSurvives'
  <2>0. exec[w].event \in Attempts
    BY DEF TypeOK, Attempts
  <2>1. ASSUME NEW upd \in Updates, WorkerUpdate(w, upd) PROVE OperatorTextSurvives'
    BY <1>0, <2>0, <2>1, UpdateJobFrame DEF WorkerUpdate
  <2>2. CASE RunSucceeds(w)
    BY <2>0, <2>1, <2>2, UpdateTypes DEF RunSucceeds
  <2> QED
    BY <1>1, <2>1, <2>2, WorkWrites
<1>2. ASSUME NEW u \in Users, Request(u) PROVE OperatorTextSurvives'
  BY <1>0, <1>2 DEF Request, RetryRead, RetryCommit, JobRows
<1>3. CASE OperatorSave
  BY <1>0, <1>3 DEF OperatorSave, JobRows
<1>4. CASE ReaperReap
  BY <1>0, <1>4 DEF ReaperReap, JobRows
<1>5. CASE Tick
  BY <1>0, <1>5 DEF Tick, AgedRow, JobRows
<1> QED
  BY <1>1, <1>2, <1>3, <1>4, <1>5
  DEF Next, Deliver, DispatchOk, DispatchError, DispatchCrash, RetryDue, RecoverStale,
      ReaperFind, vars

(* Lyrics saved in the editor are never replaced by what a render persists.*)
THEOREM OperatorTextKept == Spec => []OperatorTextSurvives
<1>1. Init => OperatorTextSurvives
  BY DEF Init, InitialRow, OperatorTextSurvives
<1> QED
  BY <1>1, InitType, NextType, OperatorTextNext, PTL DEF Spec

-----------------------------------------------------------------------------
(* Consumed means settled                                                  *)

Settled == ReturnedIsSettled /\ ConsumedMeansSettled

(* Within one attempt a settled row stays settled.                         *)
LEMMA TerminalStays ==
  ASSUME TypeOK, [Next]_vars, job'.active = job.active,
         job.status \in TERMINAL_STATUSES,
         ~ \E u \in Users, e \in Events : RetryCommit(u, e)
  PROVE  job'.status \in TERMINAL_STATUSES
<1>0. job \in JobRows
  BY DEF TypeOK
<1>1. ASSUME NEW w \in Workers, Work(w) PROVE job'.status \in TERMINAL_STATUSES
  <2>0. exec[w].event \in Attempts
    BY DEF TypeOK, Attempts
  <2>1. ASSUME NEW upd \in Updates, WorkerUpdate(w, upd)
        PROVE  job'.status \in TERMINAL_STATUSES
    BY <1>0, <2>0, <2>1, UpdateJobFrame DEF WorkerUpdate
  <2>2. CASE RunSucceeds(w)
    BY <2>0, <2>1, <2>2, UpdateTypes DEF RunSucceeds
  <2> QED
    BY <1>1, <2>1, <2>2, WorkWrites
<1>2. ASSUME NEW u \in Users, Request(u) PROVE job'.status \in TERMINAL_STATUSES
  BY <1>2 DEF Request, RetryRead
<1>3. CASE OperatorSave
  BY <1>0, <1>3 DEF OperatorSave, JobRows
<1>4. CASE ReaperReap
  BY <1>0, <1>4 DEF ReaperReap, JobRows, TERMINAL_STATUSES
<1>5. CASE Tick
  BY <1>0, <1>5 DEF Tick, AgedRow, JobRows
<1> QED
  BY <1>1, <1>2, <1>3, <1>4, <1>5
  DEF Next, Deliver, DispatchOk, DispatchError, DispatchCrash, RetryDue, RecoverStale,
      ReaperFind, vars

(* A terminal target always lands for the active attempt.                  *)
LEMMA TerminalLands ==
  ASSUME NEW row \in JobRows, NEW upd \in Updates,
         upd.status \in TERMINAL_STATUSES
  PROVE  UpdateJob(row, row.active, upd).status \in TERMINAL_STATUSES
<1> DEFINE u1 == TerminalGuard(row, upd)
           u2 == SuccessGuard(row, u1, upd.status)
           u3 == SegmentsGuard(row, u2)
<1>1. u1 = upd
  BY DEF TerminalGuard, CanBackgroundTransition
<1>2. u2 \in Updates /\ (u2.status = upd.status \/ row.status \in TERMINAL_STATUSES)
  BY <1>1 DEF SuccessGuard, Updates, FAILURE_TERMINAL_STATUSES, SUCCESS_TERMINAL_STATUSES,
              TERMINAL_STATUSES
<1>3. u3 \in Updates /\ (u3.status = upd.status \/ row.status \in TERMINAL_STATUSES)
  <2>1. u3 \in Updates /\ u3.status = u2.status
    BY <1>2 DEF SegmentsGuard, Updates
  <2> QED
    BY <1>2, <2>1
<1>4. ApplyUpdate(row, u3).status = Given(u3.status, row.status)
  BY <1>3 DEF ApplyUpdate, Updates, JobRows
<1>5. u3.status \in TERMINAL_STATUSES \cup {Unset} \/ row.status \in TERMINAL_STATUSES
  BY <1>3
<1>6. UpdateJob(row, row.active, upd) = ApplyUpdate(row, u3)
  BY DEF UpdateJob, FenceRejects
<1>7. CASE u3.status = upd.status
  <2>1. upd.status # Unset
    BY DEF TERMINAL_STATUSES, Unset
  <2> QED
    BY <1>4, <1>6, <1>7, <2>1 DEF Given
<1>8. CASE row.status \in TERMINAL_STATUSES
  BY <1>6, <1>8, UpdateJobFrame DEF JobRows, Attempts
<1> QED
  BY <1>3, <1>7, <1>8

(* A worker whose pipeline has just returned for the active attempt has    *)
(* written an outcome.                                                     *)
LEMMA ReturnSettles ==
  ASSUME TypeOK, NEW w \in Workers, RunSucceeds(w) \/ RunErrors(w),
         exec[w].event = job.active
  PROVE  job'.status \in TERMINAL_STATUSES
<1>1. /\ job \in JobRows /\ exec[w].event \in Attempts
      /\ "error" \in TERMINAL_STATUSES /\ FinalStatus \in TERMINAL_STATUSES
  BY DEF TypeOK, Attempts, TERMINAL_STATUSES, FinalStatus
<1>2. ASSUME NEW upd \in Updates, WorkerUpdate(w, upd), upd.status \in TERMINAL_STATUSES
      PROVE  job'.status \in TERMINAL_STATUSES
  BY <1>1, <1>2, TerminalLands DEF WorkerUpdate
<1>3. \E upd \in Updates : WorkerUpdate(w, upd) /\ upd.status \in TERMINAL_STATUSES
  <2>1. CASE RunSucceeds(w)
    <3> DEFINE upd == [NoUpdate EXCEPT !.status = FinalStatus, !.progress = "given",
                                       !.files = exec[w].event]
    <3>1. upd \in Updates
      BY <1>1, UpdateTypes
    <3>2. upd.status = FinalStatus
      BY DEF NoUpdate
    <3>3. WorkerUpdate(w, upd)
      BY <2>1 DEF RunSucceeds
    <3> HIDE DEF upd
    <3> QED
      BY <1>1, <3>1, <3>2, <3>3
  <2>2. CASE RunErrors(w)
    <3> DEFINE upd == [NoUpdate EXCEPT !.status = "error", !.error = "worker"]
    <3>1. upd \in Updates
      BY UpdateTypes
    <3>2. upd.status = "error"
      BY DEF NoUpdate
    <3>3. WorkerUpdate(w, upd)
      BY <2>2 DEF RunErrors
    <3> HIDE DEF upd
    <3> QED
      BY <1>1, <3>1, <3>2, <3>3
  <2> QED
    BY <2>1, <2>2
<1> QED
  BY <1>2, <1>3

(* Only a return of the pipeline makes a worker ready to report success.   *)
LEMMA BecomesOk ==
  ASSUME TypeOK, [Next]_vars, NEW v \in Workers, exec'[v].pc = "ok"
  PROVE  \/ exec[v].pc = "ok" /\ exec'[v].event = exec[v].event
         \/ /\ RunSucceeds(v) \/ RunErrors(v)
            /\ exec'[v].event = exec[v].event
<1>0. exec \in [Workers -> ExecRows]
  BY DEF TypeOK, ExecRows
<1>1. ASSUME NEW w \in Workers, Work(w), v # w
      PROVE  exec'[v] = exec[v]
  BY <1>0, <1>1
  DEF Work, Pop, ClaimGranted, ClaimConsumed, ClaimBusy, StartRun, Progress, PersistSegments,
      RunSucceeds, RunErrors, RunRaises, FinishOk, FinishFail, Callback, Crash, Abandon,
      Goto, Release
<1>2. CASE Work(v)
  <2>1. CASE RunSucceeds(v) \/ RunErrors(v)
    BY <1>0, <2>1 DEF RunSucceeds, RunErrors, Goto, ExecRows
  <2>2. CASE Progress(v) \/ PersistSegments(v)
    BY <2>2 DEF Progress, PersistSegments
  <2>3. ASSUME NEW e \in Events PROVE ~ Pop(v, e)
    BY <1>0 DEF Pop
  <2>4. ~ (ClaimConsumed(v) \/ FinishOk(v) \/ Callback(v) \/ Abandon(v))
    <3>1. ~ Release(v)
      BY <1>0 DEF Release, IdleWorker
    <3> QED
      BY <3>1 DEF ClaimConsumed, FinishOk, Callback, Abandon
  <2>5. ~ (ClaimGranted(v) \/ ClaimBusy(v) \/ StartRun(v) \/ RunRaises(v)
           \/ FinishFail(v) \/ Crash(v))
    BY <1>0 DEF ClaimGranted, ClaimBusy, StartRun, RunRaises, FinishFail, Crash, Goto, ExecRows
  <2> QED
    BY <1>2, <2>1, <2>2, <2>3, <2>4, <2>5 DEF Work
<1>3. CASE Tick
  BY <1>0, <1>3 DEF Tick, ExecRows
<1>4. CASE UNCHANGED exec
  BY <1>4
<1> QED
  BY <1>1, <1>2, <1>3, <1>4
  DEF Next, Deliver, DispatchOk, DispatchError, DispatchCrash, RetryDue, Request, RetryRead,
      RetryCommit, OperatorSave, RecoverStale, ReaperFind, ReaperReap, vars

(* Only a worker that reports success marks an event consumed.             *)
LEMMA BecomesConsumed ==
  ASSUME TypeOK, Created, [Next]_vars, NEW e \in Events, events'[e].status = "consumed"
  PROVE  \/ events[e].status = "consumed"
         \/ \E w \in Workers : exec[w].pc = "ok" /\ exec[w].event = e
<1>0. events \in [Events -> OutboxRows] /\ events[e] \in OutboxRows
  BY DEF TypeOK
<1>1. ASSUME NEW d \in Events, Deliver(d) PROVE events[e].status = "consumed"
  <2>1. events'[e] \in {events[e], PublishSucceeded(events[e]), PublishFailed(events[e], TRUE)}
    BY <1>0, <1>1 DEF Deliver, DispatchOk, DispatchError, DispatchCrash, RetryDue
  <2>2. /\ PublishSucceeded(events[e]).status # "consumed"
        /\ PublishFailed(events[e], TRUE).status # "consumed"
    BY <1>0 DEF PublishSucceeded, PublishFailed, OutboxRows
  <2> QED
    BY <2>1, <2>2
<1>2. ASSUME NEW w \in Workers, Work(w)
      PROVE  \/ events[e].status = "consumed"
             \/ \E v \in Workers : exec[v].pc = "ok" /\ exec[v].event = e
  <2>1. CASE FinishOk(w)
    BY <1>0, <2>1 DEF FinishOk
  <2>2. CASE ClaimGranted(w)
    BY <1>0, <2>2 DEF ClaimGranted, Claimed
  <2>3. CASE FinishFail(w)
    <3>1. Finished(events[e], w, FALSE).status = "consumed" => events[e].status = "consumed"
      BY <1>0 DEF Finished, OutboxRows
    <3> QED
      BY <1>0, <2>3, <3>1 DEF FinishFail
  <2>4. CASE UNCHANGED events
    BY <2>4
  <2> QED
    BY <1>2, <2>1, <2>2, <2>3, <2>4
    DEF Work, Pop, ClaimConsumed, ClaimBusy, StartRun, Progress, PersistSegments,
        RunSucceeds, RunErrors, RunRaises, Callback, Crash, Abandon
<1>3. ASSUME NEW u \in Users, Request(u) PROVE events[e].status = "consumed"
  BY <1>0, <1>3 DEF Request, RetryRead, RetryCommit, NewEvent, AbsentEvent
<1>4. CASE RecoverStale
  <2>1. StaleRecovered(events[e]).status # "consumed"
    BY <1>0 DEF StaleRecovered, OutboxRows
  <2> QED
    BY <1>0, <1>4, <2>1 DEF RecoverStale
<1>5. CASE Tick
  BY <1>0, <1>5 DEF Tick, Aged, OutboxRows
<1>6. CASE UNCHANGED events
  BY <1>6
<1> QED
  BY <1>1, <1>2, <1>3, <1>4, <1>5, <1>6
  DEF Next, OperatorSave, ReaperFind, ReaperReap, vars

(* Nothing of a new attempt is at work when its request commits.           *)
LEMMA SettledRetry ==
  ASSUME TypeOK, Created, NEW u \in Users, NEW e \in Events, RetryCommit(u, e)
  PROVE  Settled'
<1>1. /\ job'.active = e /\ events'[e].status = "pending" /\ exec' = exec
      /\ events[e].status = "absent"
  BY DEF RetryCommit, TypeOK, JobRows, NewEvent, AbsentEvent
<1>2. \A w \in Workers : exec[w].pc = "ok" => exec[w].event # e
  BY <1>1 DEF Created, Assigned
<1> QED
  BY <1>1, <1>2 DEF Settled, ReturnedIsSettled, ConsumedMeansSettled

(* What makes a consumed event settled survives every step.                 *)
LEMMA SettledNext == TypeOK /\ Created /\ Settled /\ [Next]_vars => Settled'
<1> SUFFICES ASSUME TypeOK, Created, Settled, [Next]_vars,
                    ~ \E u \in Users, e \in Events : RetryCommit(u, e)
             PROVE  Settled'
  BY SettledRetry
<1>1. job'.active = job.active /\ job.active \in Events
  BY ActiveChanges DEF TypeOK, JobRows
<1>2. CASE job.status \in TERMINAL_STATUSES
  BY <1>1, <1>2, TerminalStays DEF Settled, ReturnedIsSettled, ConsumedMeansSettled
<1>3. CASE job.status \notin TERMINAL_STATUSES
  <2>1. /\ \A w \in Workers : ~ (exec[w].pc = "ok" /\ exec[w].event = job.active)
        /\ events[job.active].status # "consumed"
    BY <1>3 DEF Settled, ReturnedIsSettled, ConsumedMeansSettled
  <2>2. ReturnedIsSettled'
    BY <1>1, <2>1, BecomesOk, ReturnSettles DEF ReturnedIsSettled
  <2>3. ConsumedMeansSettled'
    BY <1>1, <2>1, BecomesConsumed DEF ConsumedMeansSettled
  <2> QED
    BY <2>2, <2>3 DEF Settled
<1> QED
  BY <1>2, <1>3

(* An event the outbox has ticked off for good leaves its job with an      *)
(* outcome: the pipeline never returns without having written one.         *)
THEOREM ConsumedIsSettled == Spec => []ConsumedMeansSettled
<1>1. Init => Settled
  <2> SUFFICES ASSUME Init PROVE Settled
    OBVIOUS
  <2>1. PICK e \in Events :
          /\ job = InitialRow(e)
          /\ events = [x \in Events |-> IF x = e THEN NewEvent ELSE AbsentEvent]
    BY DEF Init
  <2>2. events[job.active].status # "consumed"
    BY <2>1 DEF InitialRow, NewEvent, AbsentEvent
  <2>3. \A w \in Workers : exec[w].pc # "ok"
    BY DEF Init, IdleWorker
  <2> QED
    BY <2>2, <2>3 DEF Settled, ReturnedIsSettled, ConsumedMeansSettled
<1>2. Settled => ConsumedMeansSettled
  BY DEF Settled
<1> QED
  BY <1>1, <1>2, InitType, NextType, CreatedInit, CreatedNext, SettledNext, PTL DEF Spec

-----------------------------------------------------------------------------
(* The pipeline implements the abstract job                                *)

(* The four ways a write of a worker shows in the row.                     *)
Untouched(old, new) ==
  new.status = old.status /\ new.error = old.error /\ new.files = old.files

Working(old, new) ==
  /\ old.status \notin TERMINAL_STATUSES /\ new.status = "processing"
  /\ new.files = old.files

Failing(old, new) ==
  /\ old.status \notin SUCCESS_TERMINAL_STATUSES /\ new.status = "error"
  /\ new.error \in {"worker", "callback"} /\ new.files = old.files

Publishing(old, new) ==
  new.status \in SUCCESS_TERMINAL_STATUSES /\ new.files = old.active

Shows(old, new) ==
  \/ Untouched(old, new) \/ Working(old, new)
  \/ Failing(old, new) \/ Publishing(old, new)

(* The kinds of calls a worker makes.                                      *)
ProgressCalls ==
  {upd \in Updates : upd.status \in {Unset, "processing"} /\ upd.error = Unset
                     /\ upd.files = Unset}

FailureCalls ==
  {upd \in Updates : upd.status = "error" /\ upd.error \in {"worker", "callback"}
                     /\ upd.files = Unset}

(* What update_job makes of each kind.                                     *)
LEMMA ProgressShows ==
  ASSUME NEW row \in JobRows, NEW attempt \in Attempts, NEW upd \in ProgressCalls
  PROVE  Shows(row, UpdateJob(row, attempt, upd))
<1> DEFINE u1 == TerminalGuard(row, upd)
           u2 == SuccessGuard(row, u1, upd.status)
           u3 == SegmentsGuard(row, u2)
<1>0. /\ upd \in Updates /\ upd.error = Unset /\ upd.files = Unset
      /\ upd.status \in {Unset, "processing"}
      /\ "processing" \notin TERMINAL_STATUSES /\ Unset \notin TERMINAL_STATUSES
  BY DEF ProgressCalls, TERMINAL_STATUSES, Unset
<1>1. /\ u1 \in Updates /\ u1.error = Unset /\ u1.files = Unset
      /\ u1.status = Unset \/ (u1.status = "processing" /\ row.status \notin TERMINAL_STATUSES)
  BY <1>0 DEF TerminalGuard, CanBackgroundTransition, Updates
<1>2. u2 = u1
  BY <1>0 DEF SuccessGuard, FAILURE_TERMINAL_STATUSES
<1>3. /\ u3 \in Updates /\ u3.error = Unset /\ u3.files = Unset /\ u3.status = u1.status
  BY <1>1, <1>2 DEF SegmentsGuard, Updates
<1>4. /\ ApplyUpdate(row, u3).files = row.files
      /\ ApplyUpdate(row, u3).error = row.error
      /\ ApplyUpdate(row, u3).status = Given(u1.status, row.status)
  BY <1>3 DEF ApplyUpdate, Updates, JobRows, Given
<1>5. Shows(row, ApplyUpdate(row, u3))
  BY <1>1, <1>4 DEF Shows, Untouched, Working, Given
<1> QED
  BY <1>5 DEF UpdateJob, Shows, Untouched

(* A failing write shows as Fail, or not at all, in the abstract job.       *)
LEMMA FailureShows ==
  ASSUME NEW row \in JobRows, NEW attempt \in Attempts, NEW upd \in FailureCalls
  PROVE  Shows(row, UpdateJob(row, attempt, upd))
<1> DEFINE u2 == SuccessGuard(row, upd, upd.status)
           u3 == SegmentsGuard(row, u2)
<1>0. /\ upd \in Updates /\ upd.status = "error" /\ upd.error \in {"worker", "callback"}
      /\ upd.files = Unset /\ "error" \in FAILURE_TERMINAL_STATUSES
      /\ "error" \in TERMINAL_STATUSES
  BY DEF FailureCalls, FAILURE_TERMINAL_STATUSES, SUCCESS_TERMINAL_STATUSES, TERMINAL_STATUSES
<1>1. TerminalGuard(row, upd) = upd
  BY <1>0 DEF TerminalGuard, CanBackgroundTransition
<1>2. /\ u2 \in Updates /\ u2.files = Unset
      /\ \/ u2.status = Unset /\ u2.error = Unset
         \/ u2 = upd /\ row.status \notin SUCCESS_TERMINAL_STATUSES
  BY <1>0 DEF SuccessGuard, Updates
<1>3. /\ u3 \in Updates /\ u3.files = Unset /\ u3.status = u2.status /\ u3.error = u2.error
  BY <1>2 DEF SegmentsGuard, Updates
<1>4. /\ ApplyUpdate(row, u3).files = row.files
      /\ ApplyUpdate(row, u3).error = Given(u2.error, row.error)
      /\ ApplyUpdate(row, u3).status = Given(u2.status, row.status)
  BY <1>3 DEF ApplyUpdate, Updates, JobRows, Given
<1>5. "error" # Unset /\ "worker" # Unset /\ "callback" # Unset
  BY DEF Unset
<1>6. Shows(row, ApplyUpdate(row, u3))
  BY <1>0, <1>2, <1>4, <1>5 DEF Shows, Untouched, Failing, Given
<1> QED
  BY <1>1, <1>6 DEF UpdateJob, Shows, Untouched

(* The last write of a render shows as Publish, or not at all.              *)
LEMMA PublicationShows ==
  ASSUME NEW row \in JobRows, NEW attempt \in Events, NEW upd \in Updates,
         upd.status = FinalStatus, upd.files = attempt
  PROVE  Shows(row, UpdateJob(row, attempt, upd))
<1> DEFINE u3 == SegmentsGuard(row, upd)
<1>0. /\ FinalStatus \in SUCCESS_TERMINAL_STATUSES /\ FinalStatus \in TERMINAL_STATUSES
      /\ FinalStatus \notin FAILURE_TERMINAL_STATUSES /\ FinalStatus # Unset
      /\ attempt # Unset /\ attempt # NoAttempt
  BY PipelineAssumption
     DEF FinalStatus, SUCCESS_TERMINAL_STATUSES, TERMINAL_STATUSES,
         FAILURE_TERMINAL_STATUSES, Unset
<1>1. TerminalGuard(row, upd) = upd
  BY <1>0 DEF TerminalGuard, CanBackgroundTransition
<1>2. SuccessGuard(row, upd, upd.status) = upd
  BY <1>0 DEF SuccessGuard
<1>3. u3 \in Updates /\ u3.files = attempt /\ u3.status = FinalStatus
  BY DEF SegmentsGuard, Updates
<1>4. /\ ApplyUpdate(row, u3).files = attempt
      /\ ApplyUpdate(row, u3).status = FinalStatus
  BY <1>0, <1>3 DEF ApplyUpdate, Updates, JobRows, Given
<1> QED
  BY <1>0, <1>1, <1>2, <1>4 DEF UpdateJob, FenceRejects, Shows, Untouched, Publishing

(* The updates a worker makes are of the kinds above.                       *)
LEMMA WorkerCalls ==
  /\ [NoUpdate EXCEPT !.status = "processing", !.progress = "given"] \in ProgressCalls
  /\ [NoUpdate EXCEPT !.progress = "given"] \in ProgressCalls
  /\ [NoUpdate EXCEPT !.segments = "render", !.progress = "given"] \in ProgressCalls
  /\ [NoUpdate EXCEPT !.status = "error", !.error = "worker"] \in FailureCalls
  /\ [NoUpdate EXCEPT !.status = "error", !.error = "callback"] \in FailureCalls
BY UpdateTypes DEF ProgressCalls, FailureCalls, NoUpdate

(* Every step of a worker shows in one of the four ways.                   *)
LEMMA WorkShows ==
  ASSUME TypeOK, Created, NEW w \in Workers, Work(w)
  PROVE  Shows(job, job') /\ job'.active = job.active
<1>0. job \in JobRows /\ exec[w].event \in Attempts
  BY DEF TypeOK, Attempts
<1>1. ASSUME NEW upd \in ProgressCalls, WorkerUpdate(w, upd)
      PROVE  Shows(job, job') /\ job'.active = job.active
  <2>1. upd \in Updates
    BY DEF ProgressCalls
  <2> QED
    BY <1>0, <1>1, <2>1, ProgressShows, WorkerKeepsActive DEF WorkerUpdate
<1>2. ASSUME NEW upd \in FailureCalls, WorkerUpdate(w, upd)
      PROVE  Shows(job, job') /\ job'.active = job.active
  <2>1. upd \in Updates
    BY DEF FailureCalls
  <2> QED
    BY <1>0, <1>2, <2>1, FailureShows, WorkerKeepsActive DEF WorkerUpdate
<1>3. CASE RunSucceeds(w)
  <2> DEFINE upd == [NoUpdate EXCEPT !.status = FinalStatus, !.progress = "given",
                                     !.files = exec[w].event]
  <2>1. exec[w].event \in Events
    BY <1>3 DEF RunSucceeds, Created, Assigned
  <2>2. upd \in Updates
    BY <1>0, UpdateTypes
  <2>3. upd.status = FinalStatus /\ upd.files = exec[w].event
    BY DEF NoUpdate
  <2>4. WorkerUpdate(w, upd)
    BY <1>3 DEF RunSucceeds
  <2> HIDE DEF upd
  <2> QED
    BY <1>0, <2>1, <2>2, <2>3, <2>4, PublicationShows, WorkerKeepsActive DEF WorkerUpdate
<1>4. CASE UNCHANGED job
  BY <1>4 DEF Shows, Untouched
<1>5. CASE StartRun(w)
  BY <1>1, <1>5, WorkerCalls DEF StartRun
<1>6. CASE Progress(w)
  BY <1>1, <1>6, WorkerCalls DEF Progress
<1>7. CASE PersistSegments(w)
  BY <1>1, <1>7, WorkerCalls DEF PersistSegments
<1>8. CASE RunErrors(w)
  BY <1>2, <1>8, WorkerCalls DEF RunErrors
<1>9. ASSUME CallbackWrite(w) PROVE Shows(job, job') /\ job'.active = job.active
  BY <1>2, <1>9, WorkerCalls DEF CallbackWrite
<1> QED
  BY <1>3, <1>4, <1>5, <1>6, <1>7, <1>8, <1>9
  DEF Work, Pop, ClaimGranted, ClaimConsumed, ClaimBusy, RunRaises, FinishOk, FinishFail,
      Callback, Crash, Abandon

(* Only the commit of a request creates an event.                          *)
LEMMA EventsAppear ==
  ASSUME TypeOK, Created, [Next]_vars, NEW e \in Events,
         events[e].status = "absent", events'[e].status # "absent"
  PROVE  \E u \in Users : RetryCommit(u, e)
<1>0. events \in [Events -> OutboxRows] /\ events[e] \in OutboxRows
  BY DEF TypeOK
<1>1. ASSUME NEW d \in Events, Deliver(d) PROVE FALSE
  <2>1. CASE UNCHANGED events
    BY <2>1
  <2>2. CASE Dispatchable(d) /\ (d # e => events'[e] = events[e])
    BY <2>2 DEF Dispatchable
  <2> QED
    BY <1>0, <1>1, <2>1, <2>2 DEF Deliver, DispatchOk, DispatchError, DispatchCrash, RetryDue
<1>2. ASSUME NEW w \in Workers, Work(w) PROVE FALSE
  <2>1. CASE UNCHANGED events
    BY <2>1
  <2>2. CASE exec[w].pc # "idle" /\ (exec[w].event # e => events'[e] = events[e])
    BY <2>2 DEF Created, Assigned
  <2> QED
    BY <1>0, <1>2, <2>1, <2>2
    DEF Work, Pop, ClaimGranted, ClaimConsumed, ClaimBusy, StartRun, Progress,
        PersistSegments, RunSucceeds, RunErrors, RunRaises, FinishOk, FinishFail,
        Callback, Crash, Abandon
<1>3. ASSUME NEW u \in Users, Request(u) PROVE \E d \in Users : RetryCommit(d, e)
  BY <1>0, <1>3 DEF Request, RetryRead, RetryCommit
<1>4. CASE RecoverStale
  BY <1>0, <1>4 DEF RecoverStale, Stale
<1>5. CASE Tick
  BY <1>0, <1>5 DEF Tick, Aged
<1>6. CASE UNCHANGED events
  BY <1>6
<1> QED
  BY <1>1, <1>2, <1>3, <1>4, <1>5, <1>6
  DEF Next, OperatorSave, ReaperFind, ReaperReap, vars

Used == {e \in Events : events[e].status # "absent"}

(* Only /retry uses up an attempt.                                          *)
LEMMA UsedUnchanged ==
  ASSUME TypeOK, Created, [Next]_vars, ~ \E u \in Users, e \in Events : RetryCommit(u, e)
  PROVE  Used' = Used
BY EventsAppear, EventsPersist DEF Used

(* The commit of a request begins a new attempt.                           *)
LEMMA RetryBegins ==
  ASSUME TypeOK, NEW u \in Users, NEW e \in Events, RetryCommit(u, e)
  PROVE  Attempt!Begin(e)
<1>0. events \in [Events -> OutboxRows] /\ job \in JobRows
  BY DEF TypeOK
<1>1. e \notin Used
  BY DEF RetryCommit, Used
<1>2. Used' = Used \cup {e}
  BY <1>0 DEF RetryCommit, Used, NewEvent, AbsentEvent
<1>3. /\ job'.status = "processing" /\ job'.active = e
      /\ job'.files \in {job.files, NoAttempt}
  BY <1>0 DEF RetryCommit, JobRows
<1>4. Outcome' = "open"
  BY <1>3 DEF Outcome, SUCCESS_TERMINAL_STATUSES
<1> QED
  BY <1>1, <1>2, <1>3, <1>4 DEF Attempt!Begin, Used

(* A write of a worker publishes, fails, or is not seen.                   *)
LEMMA WorkImplements ==
  ASSUME TypeOK, Created, NEW w \in Workers, Work(w), Used' = Used
  PROVE  Attempt!Publish \/ Attempt!Fail \/ UNCHANGED Attempt!attemptVars
<1>1. Shows(job, job') /\ job'.active = job.active
  BY WorkShows
<1>2. CASE Untouched(job, job')
  <2>1. Outcome' = Outcome
    BY <1>2 DEF Untouched, Outcome
  <2> QED
    BY <1>1, <1>2, <2>1 DEF Untouched, Attempt!attemptVars, Used
<1>3. CASE Working(job, job')
  <2>1. Outcome = "open" /\ Outcome' = "open"
    BY <1>3 DEF Working, Outcome, TERMINAL_STATUSES, SUCCESS_TERMINAL_STATUSES
  <2> QED
    BY <1>1, <1>3, <2>1 DEF Working, Attempt!attemptVars, Used
<1>4. CASE Failing(job, job')
  <2>1. Outcome' = "failed"
    BY <1>4 DEF Failing, Outcome, SUCCESS_TERMINAL_STATUSES
  <2>2. Outcome \in {"open", "failed", "reaped"}
    BY <1>4 DEF Failing, Outcome
  <2> QED
    BY <1>1, <1>4, <2>1, <2>2 DEF Failing, Attempt!Fail, Used
<1>5. CASE Publishing(job, job')
  <2>1. Outcome' = "published"
    BY <1>5 DEF Publishing, Outcome, SUCCESS_TERMINAL_STATUSES
  <2> QED
    BY <1>1, <1>5, <2>1 DEF Publishing, Attempt!Publish, Used
<1> QED
  BY <1>1, <1>2, <1>3, <1>4, <1>5 DEF Shows

(* The reaper is the abstract Reap.                                         *)
LEMMA ReaperImplements ==
  ASSUME TypeOK, ReaperReap, Used' = Used
  PROVE  Attempt!Reap \/ UNCHANGED Attempt!attemptVars
<1>0. job \in JobRows
  BY DEF TypeOK
<1>1. CASE UNCHANGED job
  <2>1. Outcome' = Outcome
    BY <1>1 DEF Outcome
  <2> QED
    BY <1>1, <2>1 DEF Attempt!attemptVars, Used
<1>2. CASE job' = [job EXCEPT !.status = "error", !.error = "reaper"]
  <2>1. /\ job'.status = "error" /\ job'.error = "reaper"
        /\ job'.active = job.active /\ job'.files = job.files
    BY <1>0, <1>2 DEF JobRows
  <2>2. Outcome' = "reaped"
    BY <2>1 DEF Outcome, SUCCESS_TERMINAL_STATUSES
  <2> QED
    BY <2>1, <2>2 DEF Attempt!Reap, Used
<1> QED
  BY <1>1, <1>2 DEF ReaperReap

(* Every step of the pipeline is a step of the abstract job or a stutter.  *)
LEMMA NextImplements ==
  TypeOK /\ Created /\ [Next]_vars => [Attempt!Next]_(Attempt!attemptVars)
<1> SUFFICES ASSUME TypeOK, Created, [Next]_vars
             PROVE  Attempt!Next \/ UNCHANGED Attempt!attemptVars
  OBVIOUS
<1>0. job \in JobRows
  BY DEF TypeOK
<1>1. ASSUME NEW u \in Users, NEW e \in Events, RetryCommit(u, e) PROVE Attempt!Next
  BY <1>1, RetryBegins DEF Attempt!Next
<1>2. CASE ~ \E u \in Users, e \in Events : RetryCommit(u, e)
  <2>0. Used' = Used
    BY <1>2, UsedUnchanged
  <2>1. ASSUME NEW w \in Workers, Work(w)
        PROVE  Attempt!Next \/ UNCHANGED Attempt!attemptVars
    BY <2>0, <2>1, WorkImplements DEF Attempt!Next
  <2>2. CASE ReaperReap
    BY <2>0, <2>2, ReaperImplements DEF Attempt!Next
  <2>3. ASSUME Untouched(job, job'), job'.active = job.active
        PROVE  UNCHANGED Attempt!attemptVars
    <3>1. Outcome' = Outcome
      BY <2>3 DEF Untouched, Outcome
    <3> QED
      BY <2>0, <2>3, <3>1 DEF Untouched, Attempt!attemptVars, Used
  <2>4. CASE UNCHANGED job
    BY <2>3, <2>4 DEF Untouched
  <2>5. CASE OperatorSave
    <3>1. Untouched(job, job') /\ job'.active = job.active
      BY <1>0, <2>5 DEF OperatorSave, Untouched, JobRows
    <3> QED
      BY <2>3, <3>1
  <2>6. CASE Tick
    <3>1. Untouched(job, job') /\ job'.active = job.active
      BY <1>0, <2>6 DEF Tick, AgedRow, Untouched, JobRows
    <3> QED
      BY <2>3, <3>1
  <2>7. ASSUME NEW e \in Events, Deliver(e) PROVE UNCHANGED job
    BY <2>7 DEF Deliver, DispatchOk, DispatchError, DispatchCrash, RetryDue
  <2>8. ASSUME NEW u \in Users, Request(u) PROVE UNCHANGED job
    BY <1>2, <2>8 DEF Request, RetryRead
  <2>9. RecoverStale \/ ReaperFind \/ UNCHANGED vars => UNCHANGED job
    BY DEF RecoverStale, ReaperFind, vars
  <2> QED
    BY <2>1, <2>2, <2>4, <2>5, <2>6, <2>7, <2>8, <2>9 DEF Next
<1> QED
  BY <1>1, <1>2

(* The pipeline, with its outbox, queue, workers, hooks and reaper, does   *)
(* nothing to the job that the abstract job does not allow.                *)
THEOREM PipelineImplementsAttempts == Spec => ImplementsAttempts
<1>1. Init => Attempt!Init
  <2> SUFFICES ASSUME Init PROVE Attempt!Init
    OBVIOUS
  <2>1. PICK e \in Events :
          /\ job = InitialRow(e)
          /\ events = [x \in Events |-> IF x = e THEN NewEvent ELSE AbsentEvent]
    BY DEF Init
  <2>2. Used = {e}
    BY <2>1 DEF Used, NewEvent, AbsentEvent
  <2>3. job.active = e /\ job.files = NoAttempt /\ job.status = "queued"
    BY <2>1 DEF InitialRow
  <2>4. Outcome = "open"
    BY <2>3 DEF Outcome, SUCCESS_TERMINAL_STATUSES
  <2> QED
    BY <2>2, <2>3, <2>4 DEF Attempt!Init, Used
<1> QED
  BY <1>1, InitType, NextType, CreatedInit, CreatedNext, NextImplements, PTL
  DEF Spec, ImplementsAttempts, Attempt!Spec

-----------------------------------------------------------------------------
(* What a superseded worker writes                                         *)

(* A write under an attempt that is not the active one writes nothing.     *)
LEMMA FencedWrite ==
  ASSUME TypeOK, Created, NEW w \in Workers, exec[w].pc # "idle",
         exec[w].event # job.active, NEW upd \in Updates, WorkerUpdate(w, upd)
  PROVE  job' = job
<1>1. job \in JobRows /\ exec[w].event \in Attempts /\ exec[w].event # NoAttempt
  BY PipelineAssumption DEF TypeOK, Created, Assigned, Attempts
<1> QED
  BY <1>1, UpdateJobFrame DEF WorkerUpdate

(* Only a worker that has picked up an RQ job writes the row, and it does  *)
(* so through update_job.                                                  *)
LEMMA SupersededStep ==
  ASSUME TypeOK, Created, NEW w \in Workers, Work(w), exec[w].event # job.active
  PROVE  job' = job
<1>1. CASE RunSucceeds(w)
  <2>1. /\ exec[w].event \in Attempts
        /\ exec[w].pc # "idle"
    BY <1>1 DEF TypeOK, Attempts, RunSucceeds
  <2> QED
    BY <1>1, <2>1, UpdateTypes, FencedWrite DEF RunSucceeds
<1>2. CASE StartRun(w) \/ Progress(w) \/ PersistSegments(w)
  <2>1. exec[w].pc # "idle"
    BY <1>2 DEF StartRun, Progress, PersistSegments
  <2> QED
    BY <1>2, <2>1, UpdateTypes, FencedWrite DEF StartRun, Progress, PersistSegments
<1>3. CASE RunErrors(w) \/ Callback(w) \/ Abandon(w)
  <2>1. exec[w].pc # "idle"
    BY <1>3 DEF RunErrors, Running, Callback, Abandon
  <2>2. \/ UNCHANGED job
        \/ \E upd \in Updates : WorkerUpdate(w, upd)
    BY <1>3, UpdateTypes DEF RunErrors, Callback, Abandon, CallbackWrite
  <2> QED
    BY <2>1, <2>2, FencedWrite
<1> QED
  BY <1>1, <1>2, <1>3
  DEF Work, Pop, ClaimGranted, ClaimConsumed, ClaimBusy, RunRaises, FinishOk, FinishFail,
      Crash

(* From the moment an operator's retry replaces an attempt, nothing its    *)
(* workers or failure hooks still do reaches the row: no stage, result,    *)
(* error or heartbeat.                                                     *)
THEOREM SupersededWritesNothing == Spec => SupersededIsSilent
<1> DEFINE Silent ==
      \A w \in Workers : Work(w) /\ exec[w].event # job.active => job' = job
<1>1. TypeOK /\ Created /\ [Next]_vars => [Silent]_vars
  BY SupersededStep
<1> QED
  BY <1>1, InitType, NextType, CreatedInit, CreatedNext, PTL
  DEF Spec, SupersededIsSilent

=============================================================================
