--------------------------- MODULE EditOutboxProofs ---------------------------
(***************************************************************************)
(* Proofs about EditOutbox for any number of requests, workers and         *)
(* reviewers, any timeouts, any cap on edits and any number of faults.     *)
(***************************************************************************)
EXTENDS EditOutbox, TLAPS

-----------------------------------------------------------------------------
(* The job row                                                             *)

Updates ==
  [status : Statuses \cup {Unset}, error : {"none", "worker", "callback", Unset},
   files : {Unset}, segments : {Unset}, progress : {Unset}]

(* The statuses an edited video goes through.                              *)
EditStatuses == TERMINAL_STATUSES \cup {"editing"}

(* update_job turns a well-formed row into a well-formed row, touches      *)
(* neither revision nor count, leaves an outcome an outcome, and never     *)
(* turns a success into a failure.                                         *)
LEMMA UpdateJobRow ==
  ASSUME NEW row \in JobRows, NEW upd \in Updates
  PROVE  LET new == UpdateJob(row, NoAttempt, upd)
         IN  /\ new \in JobRows
             /\ new.status \in {row.status, upd.status}
             /\ row.status \in TERMINAL_STATUSES => new.status \in TERMINAL_STATUSES
             /\ upd.status \in TERMINAL_STATUSES /\ row.status \in EditStatuses
                  => new.status \in TERMINAL_STATUSES
             /\ row.status \in SUCCESS_TERMINAL_STATUSES
                  => new.status \notin FAILURE_TERMINAL_STATUSES
<1> DEFINE u1 == TerminalGuard(row, upd)
           u2 == SuccessGuard(row, u1, upd.status)
           u3 == SegmentsGuard(row, u2)
<1>1. /\ u1 \in Updates
      /\ u1.status \in {Unset, upd.status}
      /\ upd.status \in TERMINAL_STATUSES => u1.status = upd.status
      /\ row.status \in TERMINAL_STATUSES => u1.status \in TERMINAL_STATUSES \cup {Unset}
  BY DEF TerminalGuard, CanBackgroundTransition, Updates
<1>2. /\ u2 \in Updates
      /\ u2.status \in {Unset, u1.status}
      /\ row.status \notin SUCCESS_TERMINAL_STATUSES => u2.status = u1.status
      /\ row.status \in SUCCESS_TERMINAL_STATUSES =>
           u2.status = Unset \/ u2.status \notin FAILURE_TERMINAL_STATUSES
  BY <1>1 DEF SuccessGuard, Updates
<1>3. u3 \in Updates /\ u3.status = u2.status
  BY <1>2 DEF SegmentsGuard, Updates
<1>4. /\ ApplyUpdate(row, u3) \in JobRows
      /\ ApplyUpdate(row, u3).status = Given(u3.status, row.status)
  <2>1. Given(u3.status, row.status) \in Statuses
    BY <1>3 DEF Given, Updates, JobRows
  <2>2. Given(u3.error, row.error) \in {"none", "worker", "callback"}
    BY <1>3 DEF Given, Updates, JobRows, Unset
  <2>3. Given(u3.files, row.files) = row.files /\ Given(u3.segments, row.segments) = row.segments
    BY <1>3 DEF Given, Updates
  <2>4. u3.progress = Unset
    BY <1>3 DEF Updates
  <2> QED
    BY <2>1, <2>2, <2>3, <2>4 DEF ApplyUpdate, JobRows
<1>5. UpdateJob(row, NoAttempt, upd) = ApplyUpdate(row, u3)
  BY DEF UpdateJob, FenceRejects
<1>6. Unset \notin TERMINAL_STATUSES
      /\ SUCCESS_TERMINAL_STATUSES \subseteq TERMINAL_STATUSES
      /\ \A s \in SUCCESS_TERMINAL_STATUSES : s \notin FAILURE_TERMINAL_STATUSES
  BY DEF Unset, TERMINAL_STATUSES, SUCCESS_TERMINAL_STATUSES, FAILURE_TERMINAL_STATUSES
<1> HIDE DEF u1, u2, u3
<1> QED
  BY <1>1, <1>2, <1>3, <1>4, <1>5, <1>6 DEF Given, EditStatuses

(* The calls a worker, its failure hook or RQ makes.                       *)
EditCalls ==
  {upd \in Updates : upd.status \in {"editing", "pending_review", "error", "validation_failed"}}

LEMMA EditCallTypes ==
  /\ [NoUpdate EXCEPT !.status = "editing"] \in EditCalls
  /\ [NoUpdate EXCEPT !.status = "pending_review"] \in EditCalls
  /\ [NoUpdate EXCEPT !.status = "error", !.error = "worker"] \in EditCalls
  /\ [NoUpdate EXCEPT !.status = "error", !.error = "callback"] \in EditCalls
  /\ \A s \in {"error", "pending_review", "validation_failed"} :
       [NoUpdate EXCEPT !.status = s, !.error = "worker"] \in EditCalls
BY DEF NoUpdate, EditCalls, Updates, Statuses, TERMINAL_STATUSES, ACTIVE_STATUSES

-----------------------------------------------------------------------------
(* Types                                                                   *)

(* The operators of the outbox keep a row a row.                           *)
LEMMA OutboxRowTypes ==
  /\ AbsentEvent \in OutboxRows /\ NewEvent \in OutboxRows
  /\ \A ev \in OutboxRows :
       /\ PublishSucceeded(ev) \in OutboxRows
       /\ PublishFailed(ev, TRUE) \in OutboxRows
       /\ StaleRecovered(ev) \in OutboxRows
       /\ Aged(ev) \in OutboxRows
       /\ \A w \in Workers : Claimed(ev, w) \in OutboxRows
       /\ \A w \in Workers : \A b \in BOOLEAN : Finished(ev, w, b) \in OutboxRows
<1>1. /\ StaleAge \in Nat /\ MaxAttempts \in Nat
      /\ 0 \in 0..(StaleAge + 1)
  BY LeaseAssumption
<1>2. AbsentEvent \in OutboxRows /\ NewEvent \in OutboxRows
  BY <1>1 DEF AbsentEvent, NewEvent, OutboxRows, EventStatuses
<1>3. ASSUME NEW ev \in OutboxRows
      PROVE  /\ PublishSucceeded(ev) \in OutboxRows
             /\ PublishFailed(ev, TRUE) \in OutboxRows
             /\ StaleRecovered(ev) \in OutboxRows
             /\ Aged(ev) \in OutboxRows
             /\ \A w \in Workers : Claimed(ev, w) \in OutboxRows
             /\ \A w \in Workers : \A b \in BOOLEAN : Finished(ev, w, b) \in OutboxRows
  <2>1. Attempted(ev.attempts) \in 0..MaxAttempts
    BY <1>1 DEF Attempted, OutboxRows
  <2>2. PublishSucceeded(ev) \in OutboxRows /\ PublishFailed(ev, TRUE) \in OutboxRows
    BY <2>1 DEF PublishSucceeded, PublishFailed, OutboxRows, EventStatuses
  <2>3. /\ ev.attempts \in 0..MaxAttempts
        /\ {"pending", "consumed", "processing"} \subseteq EventStatuses
    BY DEF OutboxRows, EventStatuses
  <2>4. StaleRecovered(ev) \in OutboxRows
    BY <1>1, <2>3 DEF StaleRecovered, OutboxRows
  <2>5. Aged(ev) \in OutboxRows
    BY <1>1 DEF Aged, OutboxRows
  <2>6. \A w \in Workers : Claimed(ev, w) \in OutboxRows
    BY <1>1, <2>1, <2>3 DEF Claimed, OutboxRows
  <2>7. \A w \in Workers : \A b \in BOOLEAN : Finished(ev, w, b) \in OutboxRows
    BY <1>1, <2>3 DEF Finished, OutboxRows
  <2> QED
    BY <2>2, <2>4, <2>5, <2>6, <2>7
<1> QED
  BY <1>2, <1>3

(* What RQ and the publisher do to a queue entry keeps it one.             *)
LEMMA RqRowTypes ==
  /\ NoRqJob \in RqRows
  /\ \A j \in RqRows :
       /\ RqRepublished(j) \in RqRows
       /\ j.entries > 0 => RqPopped(j) \in RqRows
       /\ RqSucceeded(j) \in RqRows
       /\ RqFailed(j) \in RqRows
       /\ RqRoom(j) => RqRetryDue(j) \in RqRows
<1>1. RetryMax \in Nat /\ MaxEntries \in Nat \ {0}
  BY EditAssumption
<1>2. NoRqJob \in RqRows
  BY <1>1 DEF NoRqJob, RqRows, RqStatuses
<1>3. ASSUME NEW j \in RqRows
      PROVE  /\ RqRepublished(j) \in RqRows
             /\ j.entries > 0 => RqPopped(j) \in RqRows
             /\ RqSucceeded(j) \in RqRows
             /\ RqFailed(j) \in RqRows
             /\ RqRoom(j) => RqRetryDue(j) \in RqRows
  <2>1. /\ j.entries \in 0..MaxEntries /\ j.retries \in 0..RetryMax
        /\ {"queued", "started", "finished", "scheduled", "failed"} \subseteq RqStatuses
    BY DEF RqRows, RqStatuses
  <2>2. RqRoom(j) => j.entries + 1 \in 0..MaxEntries
    BY <1>1, <2>1 DEF RqRoom
  <2>3. j.entries > 0 => j.entries - 1 \in 0..MaxEntries
    BY <1>1, <2>1
  <2>4. j.retries > 0 => j.retries - 1 \in 0..RetryMax
    BY <1>1, <2>1
  <2>5. RqEnqueued(NoRqJob) \in RqRows
    <3>1. NoRqJob.entries + 1 = 1 /\ 1 \in 0..MaxEntries /\ RetryMax \in 0..RetryMax
      BY <1>1 DEF NoRqJob
    <3>2. NoRqJob \in RqRows
      BY <1>2
    <3> QED
      BY <2>1, <3>1, <3>2 DEF RqEnqueued, RqRows
  <2>6. RqRepublished(j) \in RqRows
    BY <2>5 DEF RqRepublished
  <2>7. j.entries > 0 => RqPopped(j) \in RqRows
    BY <2>1, <2>3 DEF RqPopped, RqRows
  <2>8. RqSucceeded(j) \in RqRows
    BY <2>1 DEF RqSucceeded, RqRows
  <2>9. RqFailed(j) \in RqRows
    BY <2>1, <2>4 DEF RqFailed, RqRows
  <2>10. RqRoom(j) => RqRetryDue(j) \in RqRows
    BY <2>1, <2>2 DEF RqRetryDue, RqRows
  <2> QED
    BY <2>6, <2>7, <2>8, <2>9, <2>10
<1> QED
  BY <1>2, <1>3

(* The keys of the outbox are never empty.                                  *)
LEMMA FirstKeyType == FirstKey \in Keys
<1>1. PICK r \in Requests : TRUE
  BY EditAssumption
<1>2. EditType[r] \in Kinds
  BY <1>1 DEF Kinds
<1>3. [revision |-> 0, count |-> 0, kind |-> EditType[r]] \in Keys
  BY <1>2, EditAssumption DEF Keys
<1>4. \E k \in Keys : k.revision = 0 /\ k.count = 0
  BY <1>3
<1> QED
  BY <1>4 DEF FirstKey

(* A write through update_job gives a row.                                  *)
LEMMA WorkerUpdateType ==
  ASSUME TypeOK, NEW upd \in EditCalls, WorkerUpdate(upd)
  PROVE  job' \in JobRows
BY UpdateJobRow DEF WorkerUpdate, EditCalls, TypeOK

(* The states the system starts in are of the types.                       *)
LEMMA InitType == Init => TypeOK
<1> SUFFICES ASSUME Init PROVE TypeOK
  OBVIOUS
<1>0. /\ 0 \in 0..MaxFaults /\ 0 \in 0..JobTimeout /\ 0 \in 0..MaxCount
      /\ 0 \in 0..MaxRevision /\ 0 \in 0..(AbandonAfter + 1)
  BY EditAssumption
<1>1. job \in JobRows
  BY <1>0 DEF Init, JobRows, Statuses, TERMINAL_STATUSES
<1>2. events \in [Keys -> OutboxRows] /\ rq \in [Keys -> RqRows]
  BY OutboxRowTypes, RqRowTypes DEF Init
<1>3. exec \in [Workers -> ExecRows] /\ reaper \in ReaperRows
  BY <1>0, FirstKeyType DEF Init, IdleWorker, IdleReaper, ExecRows, ReaperRows, WorkerStates
<1> QED
  BY <1>0, <1>1, <1>2, <1>3, FirstKeyType DEF Init, TypeOK

(* Every step keeps the types.                                              *)
LEMMA NextType == TypeOK /\ [Next]_vars => TypeOK'
<1> SUFFICES ASSUME TypeOK, [Next]_vars PROVE TypeOK'
  OBVIOUS
<1> USE DEF TypeOK, request
<1>0. /\ MaxFaults \in Nat /\ JobTimeout \in Nat /\ MaxCount \in Nat
      /\ MaxRevision \in Nat /\ AbandonAfter \in Nat
      /\ {"editing", "pending_review", "done", "rejected"} \subseteq Statuses
  BY EditAssumption DEF Statuses, TERMINAL_STATUSES, ACTIVE_STATUSES
<1>1. ASSUME NEW k \in Keys, Deliver(k) PROVE TypeOK'
  <2>1. CASE DispatchOk(k)
    BY <2>1, OutboxRowTypes, RqRowTypes DEF DispatchOk
  <2>2. CASE DispatchError(k)
    <3>1. rq' \in [Keys -> RqRows]
      BY <2>2, RqRowTypes DEF DispatchError
    <3>2. events' \in [Keys -> OutboxRows]
      BY <2>2, OutboxRowTypes DEF DispatchError
    <3>3. faults' \in 0..MaxFaults
      BY <1>0, <2>2 DEF DispatchError, Fault
    <3> QED
      BY <2>2, <3>1, <3>2, <3>3 DEF DispatchError
  <2>3. CASE DispatchCrash(k)
    BY <1>0, <2>3, RqRowTypes DEF DispatchCrash, Fault
  <2>4. CASE RetryDue(k)
    BY <2>4, RqRowTypes DEF RetryDue
  <2> QED
    BY <1>1, <2>1, <2>2, <2>3, <2>4 DEF Deliver
<1>2. ASSUME NEW w \in Workers, Work(w) PROVE TypeOK'
  <2>a. /\ IdleWorker \in ExecRows
        /\ \A pc \in WorkerStates : [exec[w] EXCEPT !.pc = pc] \in ExecRows
    BY <1>0, FirstKeyType DEF IdleWorker, ExecRows, WorkerStates
  <2>b. ASSUME NEW pc \in WorkerStates, Goto(w, pc) PROVE exec' \in [Workers -> ExecRows]
    BY <2>a, <2>b DEF Goto
  <2>c. ASSUME Release(w) PROVE exec' \in [Workers -> ExecRows]
    BY <2>a, <2>c DEF Release
  <2>d. /\ {"start", "run", "uploaded", "ok", "returned", "failed", "callback"}
             \subseteq WorkerStates
    BY DEF WorkerStates
  <2>e. exec[w].key \in Keys
    BY DEF ExecRows
  <2>1. ASSUME NEW k \in Keys, Pop(w, k) PROVE TypeOK'
    <3>1. rq' \in [Keys -> RqRows]
      BY <2>1, RqRowTypes DEF Pop
    <3>2. exec' \in [Workers -> ExecRows]
      BY <1>0, <2>1 DEF Pop, ExecRows, WorkerStates
    <3> QED
      BY <2>1, <3>1, <3>2 DEF Pop
  <2>2. CASE ClaimGranted(w)
    BY <2>2, <2>b, <2>d, OutboxRowTypes DEF ClaimGranted
  <2>3. CASE ClaimConsumed(w)
    BY <2>3, <2>c, RqRowTypes DEF ClaimConsumed
  <2>4. CASE ClaimBusy(w)
    BY <2>4, <2>b, <2>d DEF ClaimBusy
  <2>5. CASE StartRun(w)
    BY <2>5, <2>b, <2>d, EditCallTypes, WorkerUpdateType DEF StartRun
  <2>6. CASE Upload(w)
    BY <2>6, <2>b, <2>d, <2>e DEF Upload
  <2>7. CASE Complete(w)
    BY <2>7, <2>b, <2>d, EditCallTypes, WorkerUpdateType DEF Complete
  <2>8. CASE RunRefuses(w)
    <3>1. job' \in JobRows
      BY <2>8, EditCallTypes, WorkerUpdateType DEF RunRefuses
    <3>2. faults' \in 0..MaxFaults
      BY <1>0, <2>8 DEF RunRefuses, Fault
    <3> QED
      BY <2>8, <2>b, <2>d, <3>1, <3>2 DEF RunRefuses
  <2>9. CASE RunRaises(w)
    <3>1. job' \in JobRows
      BY <2>9, EditCallTypes, WorkerUpdateType DEF RunRaises
    <3>2. faults' \in 0..MaxFaults
      BY <1>0, <2>9 DEF RunRaises, Fault
    <3> QED
      BY <2>9, <2>b, <2>d, <3>1, <3>2 DEF RunRaises
  <2>10. CASE FinishOk(w)
    BY <2>10, <2>b, <2>d, OutboxRowTypes DEF FinishOk
  <2>11. CASE Return(w)
    BY <2>11, <2>c, RqRowTypes DEF Return
  <2>12. CASE FinishFail(w)
    BY <2>12, <2>b, <2>d, OutboxRowTypes DEF FinishFail
  <2>13. ASSUME CallbackWrite PROVE job' \in JobRows
    BY <2>13, EditCallTypes, WorkerUpdateType DEF CallbackWrite
  <2>14. CASE Callback(w)
    <3>1. job' \in JobRows /\ faults' \in 0..MaxFaults
      BY <1>0, <2>13, <2>14 DEF Callback, Fault
    <3> QED
      BY <2>14, <2>c, <3>1, RqRowTypes DEF Callback
  <2>15. CASE Crash(w)
    <3>1. 0 \in 0..JobTimeout /\ "dead" \in WorkerStates
      BY <1>0 DEF WorkerStates
    <3>2. faults' \in 0..MaxFaults
      BY <1>0, <2>15 DEF Crash, Fault
    <3>3. exec' \in [Workers -> ExecRows]
      BY <2>15, <3>1 DEF Crash, ExecRows
    <3> QED
      BY <2>15, <3>2, <3>3 DEF Crash
  <2>16. CASE Abandon(w)
    BY <2>13, <2>16, <2>c, RqRowTypes DEF Abandon
  <2> QED
    BY <1>2, <2>1, <2>2, <2>3, <2>4, <2>5, <2>6, <2>7, <2>8, <2>9, <2>10, <2>11,
       <2>12, <2>14, <2>15, <2>16 DEF Work, Proceed
<1>3. ASSUME NEW u \in Reviewers, Decide(u) PROVE TypeOK'
  <2>1. ASSUME NEW r \in Requests, RequestEdit(u, r) PROVE TypeOK'
    <3> DEFINE k == [revision |-> RevisionAfter(r), count |-> SlotsAfter(r),
                     kind |-> EditType[r]]
    <3>1. /\ RevisionAfter(r) \in 0..MaxRevision
          /\ SlotsAfter(r) \in 0..MaxCount
      BY <1>0, <2>1 DEF RequestEdit, RevisionAfter, SlotsAfter, JobRows
    <3>2. k \in Keys
      BY <3>1 DEF Keys, Kinds
    <3>3. job' \in JobRows
      <4>1. job' = [job EXCEPT !.status = "editing", !.count = SlotsAfter(r),
                               !.revision = RevisionAfter(r), !.since = 0]
        BY <2>1 DEF RequestEdit
      <4>2. "editing" \in Statuses /\ 0 \in 0..(AbandonAfter + 1)
        BY <1>0
      <4> QED
        BY <3>1, <4>1, <4>2 DEF JobRows
    <3>4. EventFor(k) \in OutboxRows /\ PayloadFor(k, r) \in Requests \cup {NoRequest}
      BY <3>2, OutboxRowTypes DEF EventFor, PayloadFor
    <3>5. /\ events' = [events EXCEPT ![k] = EventFor(k)]
          /\ payload' = [payload EXCEPT ![k] = PayloadFor(k, r)]
          /\ key' = k
      BY <2>1 DEF RequestEdit
    <3> HIDE DEF k
    <3>6. /\ events' \in [Keys -> OutboxRows]
          /\ payload' \in [Keys -> Requests \cup {NoRequest}]
          /\ key' \in Keys
      BY <3>2, <3>4, <3>5
    <3> QED
      BY <2>1, <3>3, <3>6 DEF RequestEdit
  <2>2. ASSUME NEW verdict \in {"done", "rejected"}, ReviewRead(u, verdict) PROVE TypeOK'
    BY <2>2 DEF ReviewRead
  <2>3. CASE ReviewCommit(u)
    <3>1. job' \in JobRows
      BY <1>0, <2>3 DEF ReviewCommit, JobRows
    <3> QED
      BY <2>3, <3>1 DEF ReviewCommit
  <2> QED
    BY <1>3, <2>1, <2>2, <2>3 DEF Decide
<1>4. CASE OperatorSave
  <2>1. job' \in JobRows
    BY <1>0, <1>4 DEF OperatorSave, JobRows
  <2> QED
    BY <1>4, <2>1 DEF OperatorSave
<1>5. CASE RecoverStale
  BY <1>5, OutboxRowTypes DEF RecoverStale
<1>6. CASE ReaperFind
  BY <1>6 DEF ReaperFind, JobRows, ReaperRows
<1>7. CASE ReaperRevert
  <2>1. PICK seen \in {reaper, [reaper EXCEPT !.status = job.status, !.count = job.count]} :
          job' = IF seen.status = "editing"
                   THEN [job EXCEPT !.status = "pending_review", !.error = "none",
                                    !.count = Refunded(job.count, seen.count)]
                   ELSE job
    BY <1>7 DEF ReaperRevert
  <2>2. seen.count \in 0..MaxCount
    BY <2>1 DEF ReaperRows, JobRows
  <2>3. Refunded(job.count, seen.count) \in 0..MaxCount
    BY <1>0, <2>2 DEF Refunded, JobRows
  <2>4. job' \in JobRows
    BY <1>0, <2>1, <2>3 DEF JobRows
  <2>5. reaper' \in ReaperRows
    BY <1>0, <1>7 DEF ReaperRevert, IdleReaper, ReaperRows
  <2> QED
    BY <1>7, <2>4, <2>5 DEF ReaperRevert
<1>8. CASE Tick
  <2>1. job' \in JobRows
    BY <1>0, <1>8 DEF Tick, JobRows
  <2>2. events' \in [Keys -> OutboxRows]
    BY <1>8, OutboxRowTypes DEF Tick
  <2>3. exec' \in [Workers -> ExecRows]
    BY <1>0, <1>8 DEF Tick, ExecRows, Holding
  <2> QED
    BY <1>8, <2>1, <2>2, <2>3 DEF Tick
<1>9. CASE UNCHANGED vars
  BY <1>9 DEF vars
<1> QED
  BY <1>1, <1>2, <1>3, <1>4, <1>5, <1>6, <1>7, <1>8, <1>9 DEF Next

(* Every row and every process always stays within its type.              *)
THEOREM TypeCorrect == Spec => []TypeOK
BY InitType, NextType, PTL DEF Spec

-----------------------------------------------------------------------------
(* What a worker's step writes to the row                                  *)

(* A worker, its hook or RQ writes through update_job or not at all.       *)
LEMMA WorkWrites ==
  ASSUME NEW w \in Workers, Work(w)
  PROVE  UNCHANGED job \/ \E upd \in EditCalls : WorkerUpdate(upd)
<1>1. CASE StartRun(w)
  BY <1>1, EditCallTypes DEF StartRun
<1>2. CASE Complete(w)
  BY <1>2, EditCallTypes DEF Complete
<1>3. CASE RunRefuses(w)
  BY <1>3, EditCallTypes DEF RunRefuses
<1>4. CASE RunRaises(w)
  BY <1>4, EditCallTypes DEF RunRaises
<1>5. CallbackWrite => \E upd \in EditCalls : WorkerUpdate(upd)
  BY EditCallTypes DEF CallbackWrite
<1> QED
  BY <1>1, <1>2, <1>3, <1>4, <1>5
  DEF Work, Proceed, Pop, ClaimGranted, ClaimConsumed, ClaimBusy, Upload, FinishOk, Return,
      FinishFail, Callback, Crash, Abandon

(* Where no reviewer is an admin, the edits counted respect the cap: the   *)
(* refund of a sweep that read the row long before it writes gives back    *)
(* no edit that was not counted under the cap either.                      *)
CapKept ==
  /\ job.count <= MaxEdits
  /\ reaper.count <= MaxEdits

LEMMA CapNext ==
  ASSUME Admins = {}
  PROVE  TypeOK /\ CapKept /\ [Next]_vars => CapKept'
<1> SUFFICES ASSUME TypeOK, CapKept, [Next]_vars PROVE CapKept'
  OBVIOUS
<1>0. /\ job \in JobRows /\ reaper \in ReaperRows
      /\ job.count \in Nat /\ reaper.count \in Nat /\ MaxEdits \in Nat
  BY EditAssumption DEF TypeOK, JobRows, ReaperRows
<1>1. ASSUME NEW u \in Reviewers, NEW r \in Requests, RequestEdit(u, r) PROVE CapKept'
  <2>1. SlotsAfter(r) <= MaxEdits
    BY <1>0, <1>1 DEF RequestEdit, Editable, SlotsAfter, CapKept
  <2>2. job'.count = SlotsAfter(r) /\ reaper' = reaper
    BY <1>0, <1>1 DEF RequestEdit, JobRows
  <2> QED
    BY <2>1, <2>2 DEF CapKept
<1>2. CASE ReaperFind
  BY <1>0, <1>2 DEF ReaperFind, CapKept
<1>3. CASE ReaperRevert
  <2>1. PICK seen \in {reaper, [reaper EXCEPT !.status = job.status, !.count = job.count]} :
          job' = IF seen.status = "editing"
                   THEN [job EXCEPT !.status = "pending_review", !.error = "none",
                                    !.count = Refunded(job.count, seen.count)]
                   ELSE job
    BY <1>3 DEF ReaperRevert
  <2>2. seen.count \in Nat /\ seen.count <= MaxEdits
    BY <1>0, <2>1 DEF CapKept, ReaperRows
  <2>3. job'.count = Refunded(job.count, seen.count) \/ job'.count = job.count
    BY <1>0, <2>1 DEF JobRows
  <2>4. reaper'.count = 0
    BY <1>3 DEF ReaperRevert, IdleReaper
  <2> QED
    BY <1>0, <2>2, <2>3, <2>4 DEF Refunded, CapKept
<1>4. ASSUME job'.count = job.count, reaper' = reaper PROVE CapKept'
  BY <1>4 DEF CapKept
<1>5. ASSUME NEW u \in Reviewers, ReviewCommit(u) PROVE CapKept'
  BY <1>0, <1>4, <1>5 DEF ReviewCommit, JobRows
<1>6. ASSUME NEW w \in Workers, Work(w) PROVE CapKept'
  <2>1. job'.count = job.count
    BY <1>0, <1>6, WorkWrites DEF WorkerUpdate, UpdateJob, ApplyUpdate, JobRows
  <2> QED
    BY <1>4, <1>6, <2>1
    DEF Work, Proceed, Pop, ClaimGranted, ClaimConsumed, ClaimBusy, StartRun, Upload,
        Complete, FinishOk, Return, FinishFail, Callback, Abandon, RunRefuses, RunRaises, Crash
<1>7. CASE OperatorSave
  BY <1>0, <1>4, <1>7 DEF OperatorSave, JobRows
<1>8. CASE Tick
  BY <1>0, <1>4, <1>8 DEF Tick, JobRows
<1>9. CASE UNCHANGED <<job, reaper>>
  BY <1>4, <1>9
<1> QED
  BY <1>1, <1>2, <1>3, <1>5, <1>6, <1>7, <1>8, <1>9
  DEF Next, Decide, Deliver, DispatchOk, DispatchError, DispatchCrash, RetryDue,
      RecoverStale, ReviewRead, vars

(* Without admins, who are exempt, the edits counted never pass the cap.   *)
THEOREM UsersKeepCap ==
  ASSUME Admins = {}
  PROVE  Spec => [](job.count <= MaxEdits)
<1>1. Init => CapKept
  BY EditAssumption DEF Init, IdleReaper, CapKept
<1>2. CapKept => job.count <= MaxEdits
  BY DEF CapKept
<1> QED
  BY <1>1, <1>2, InitType, NextType, CapNext, PTL DEF Spec

(* The steps that write no status to the row.                              *)
LEMMA StatusKept ==
  ASSUME TypeOK,
         (\E k \in Keys : Deliver(k)) \/ OperatorSave \/ RecoverStale \/ ReaperFind
         \/ Tick \/ UNCHANGED vars
  PROVE  job'.status = job.status
<1>0. job \in JobRows
  BY DEF TypeOK
<1>1. CASE OperatorSave
  BY <1>0, <1>1 DEF OperatorSave, JobRows
<1>2. CASE Tick
  BY <1>0, <1>2 DEF Tick, JobRows
<1> QED
  BY <1>1, <1>2
  DEF Deliver, DispatchOk, DispatchError, DispatchCrash, RetryDue, RecoverStale,
      ReaperFind, vars

(* A request says "editing"; a review or the reaper says an outcome that   *)
(* is not a failure of the render.                                         *)
LEMMA DecisionStatus ==
  ASSUME TypeOK
  PROVE  /\ \A u \in Reviewers, r \in Requests : RequestEdit(u, r) => job'.status = "editing"
         /\ \A u \in Reviewers : ReviewCommit(u) => job'.status \in {"done", "rejected"}
         /\ ReaperRevert => job'.status \in {job.status, "pending_review"}
<1>0. job \in JobRows
  BY DEF TypeOK
<1>1. ASSUME NEW u \in Reviewers, NEW r \in Requests, RequestEdit(u, r)
      PROVE  job'.status = "editing"
  BY <1>0, <1>1 DEF RequestEdit, JobRows
<1>2. ASSUME NEW u \in Reviewers, ReviewCommit(u) PROVE job'.status \in {"done", "rejected"}
  BY <1>0, <1>2 DEF ReviewCommit, JobRows, TypeOK
<1>3. ASSUME ReaperRevert PROVE job'.status \in {job.status, "pending_review"}
  BY <1>0, <1>3 DEF ReaperRevert, JobRows
<1> QED
  BY <1>1, <1>2, <1>3

(* No step turns a success into a failure.                                 *)
LEMMA LateFailureNext ==
  ASSUME TypeOK, [Next]_vars, job.status \in SUCCESS_TERMINAL_STATUSES
  PROVE  job'.status \notin FAILURE_TERMINAL_STATUSES \ {"rejected"}
<1>0. /\ {"editing", "done", "pending_review"} \cap FAILURE_TERMINAL_STATUSES = {}
      /\ job.status \notin FAILURE_TERMINAL_STATUSES
      /\ job \in JobRows
  BY DEF TypeOK, FAILURE_TERMINAL_STATUSES, SUCCESS_TERMINAL_STATUSES, TERMINAL_STATUSES
<1>1. ASSUME NEW w \in Workers, Work(w) PROVE job'.status \notin FAILURE_TERMINAL_STATUSES
  <2>1. ASSUME NEW upd \in EditCalls, WorkerUpdate(upd)
        PROVE  job'.status \notin FAILURE_TERMINAL_STATUSES
    BY <1>0, <2>1, UpdateJobRow DEF WorkerUpdate, EditCalls
  <2> QED
    BY <1>0, <1>1, <2>1, WorkWrites
<1>2. ASSUME NEW u \in Reviewers, Decide(u)
      PROVE  job'.status \notin FAILURE_TERMINAL_STATUSES \ {"rejected"}
  BY <1>0, <1>2, DecisionStatus DEF Decide, ReviewRead
<1>3. CASE ReaperRevert
  BY <1>0, <1>3, DecisionStatus
<1> QED
  BY <1>0, <1>1, <1>2, <1>3, StatusKept DEF Next

(* A video in review or approved is never turned into a failed one by a    *)
(* worker, a failure hook or a dead process that reports late.             *)
THEOREM LateFailureHasNoEffect == Spec => LateFailureIsIgnored
<1>1. TypeOK /\ [Next]_vars =>
        [job.status \in SUCCESS_TERMINAL_STATUSES =>
           job'.status \notin FAILURE_TERMINAL_STATUSES \ {"rejected"}]_vars
  BY LateFailureNext
<1> QED
  BY <1>1, InitType, NextType, PTL DEF Spec, LateFailureIsIgnored

-----------------------------------------------------------------------------
(* What the outbox remembers                                               *)

(* An event describes an accepted request, each request has one event, and *)
(* whatever is queued or running belongs to an event.                      *)
DescribesAccepted ==
  \A k \in Keys : events[k].status # "absent" => payload[k] \in accepted

AbsentIsBlank ==
  \A k \in Keys : events[k].status = "absent" => events[k] = AbsentEvent

OneEventEach ==
  \A k, l \in Published : payload[k] = payload[l] => k = l

QueuedIsPublished ==
  \A k \in Keys : rq[k].entries > 0 \/ rq[k].scheduled => k \in Published

AssignedIsPublished ==
  \A w \in Workers : exec[w].pc # "idle" => exec[w].key \in Published

Recorded ==
  DescribesAccepted /\ AbsentIsBlank /\ OneEventEach /\ QueuedIsPublished /\ AssignedIsPublished

(* Nothing is recorded at the start.                                       *)
LEMMA RecordedInit == Init => Recorded
BY DEF Init, Recorded, DescribesAccepted, AbsentIsBlank, OneEventEach, QueuedIsPublished,
       AssignedIsPublished, Published, AbsentEvent, NoRqJob, IdleWorker

(* The events a worker's step touches are those of its own claim.          *)
LEMMA WorkEvents ==
  ASSUME NEW w \in Workers, Work(w)
  PROVE  \/ UNCHANGED events
         \/ /\ exec[w].pc # "idle"
            /\ \/ /\ ClaimGranted(w)
                  /\ events' = [events EXCEPT ![exec[w].key] = Claimed(@, w)]
               \/ /\ FinishOk(w)
                  /\ events' = [events EXCEPT ![exec[w].key] = Finished(@, w, TRUE)]
               \/ /\ FinishFail(w)
                  /\ events' = [events EXCEPT ![exec[w].key] = Finished(@, w, FALSE)]
BY DEF Work, Proceed, Pop, ClaimGranted, ClaimConsumed, ClaimBusy, StartRun, Upload,
       Complete, RunRefuses, RunRaises, FinishOk, Return, FinishFail, Callback, Crash,
       Abandon

(* No operation on an event takes it back to not existing.                 *)
LEMMA NeverAbsentAgain ==
  ASSUME NEW ev \in OutboxRows, ev.status # "absent"
  PROVE  /\ PublishSucceeded(ev).status # "absent"
         /\ PublishFailed(ev, TRUE).status # "absent"
         /\ StaleRecovered(ev).status # "absent"
         /\ Aged(ev).status # "absent"
         /\ \A w \in Workers : Claimed(ev, w).status # "absent"
         /\ \A w \in Workers : \A b \in BOOLEAN : Finished(ev, w, b).status # "absent"
BY DEF PublishSucceeded, PublishFailed, StaleRecovered, Aged, Claimed, Finished, OutboxRows

Accepts == \E u \in Reviewers, r \in Requests : RequestEdit(u, r)

(* Only an accepted request creates an event; none is ever deleted.        *)
LEMMA EventFrame ==
  ASSUME TypeOK, Recorded, [Next]_vars, ~ Accepts, NEW k \in Keys
  PROVE  /\ events[k].status = "absent" => events'[k] = events[k]
         /\ events[k].status # "absent" => events'[k].status # "absent"
<1>0. events \in [Keys -> OutboxRows] /\ events[k] \in OutboxRows
  BY DEF TypeOK
<1>1. CASE UNCHANGED events
  BY <1>1
<1>2. ASSUME NEW d \in Keys, Deliver(d)
      PROVE  /\ events[k].status = "absent" => events'[k] = events[k]
             /\ events[k].status # "absent" => events'[k].status # "absent"
  BY <1>0, <1>2, NeverAbsentAgain
     DEF Deliver, DispatchOk, DispatchError, DispatchCrash, RetryDue, Dispatchable
<1>3. ASSUME NEW w \in Workers, Work(w)
      PROVE  /\ events[k].status = "absent" => events'[k] = events[k]
             /\ events[k].status # "absent" => events'[k].status # "absent"
  <2>1. exec[w].pc # "idle" => events[exec[w].key].status # "absent"
    BY DEF Recorded, AssignedIsPublished, Published
  <2>2. events[k].status # "absent" =>
          /\ Claimed(events[k], w).status # "absent"
          /\ Finished(events[k], w, TRUE).status # "absent"
          /\ Finished(events[k], w, FALSE).status # "absent"
    BY <1>0, NeverAbsentAgain
  <2>3. \/ UNCHANGED events
        \/ /\ exec[w].pc # "idle"
           /\ \/ events' = [events EXCEPT ![exec[w].key] = Claimed(@, w)]
              \/ events' = [events EXCEPT ![exec[w].key] = Finished(@, w, TRUE)]
              \/ events' = [events EXCEPT ![exec[w].key] = Finished(@, w, FALSE)]
    BY <1>3, WorkEvents
  <2> QED
    BY <1>0, <2>1, <2>2, <2>3
<1>4. CASE RecoverStale
  BY <1>0, <1>4, NeverAbsentAgain DEF RecoverStale, Stale
<1>5. CASE Tick
  <2>1. events'[k] = Aged(events[k])
    BY <1>5 DEF Tick
  <2>2. events[k].status = "absent" => Aged(events[k]) = events[k]
    BY DEF Aged
  <2> QED
    BY <1>0, <2>1, <2>2, NeverAbsentAgain
<1>6. ASSUME NEW u \in Reviewers, Decide(u) PROVE UNCHANGED events
  BY <1>6 DEF Decide, Accepts, ReviewRead, ReviewCommit
<1> QED
  BY <1>1, <1>2, <1>3, <1>4, <1>5, <1>6
  DEF Next, OperatorSave, ReaperFind, ReaperRevert, vars

(* Nothing but an accepted request changes what the outbox describes.      *)
LEMMA RequestFrame ==
  ASSUME [Next]_vars, ~ Accepts
  PROVE  UNCHANGED request
BY DEF Next, Accepts, Decide, ReviewRead, ReviewCommit, Deliver, DispatchOk, DispatchError,
       DispatchCrash, RetryDue, Work, Proceed, Pop, ClaimGranted, ClaimConsumed, ClaimBusy,
       StartRun, Upload, Complete, RunRefuses, RunRaises, FinishOk, Return, FinishFail,
       Callback, Crash, Abandon, OperatorSave, RecoverStale, ReaperFind, ReaperRevert, Tick,
       vars, request

(* What an accepted request does to the outbox.                            *)
LEMMA AcceptedEvent ==
  ASSUME TypeOK, Recorded, NEW u \in Reviewers, NEW r \in Requests, RequestEdit(u, r)
  PROVE  /\ key' \in Keys
         /\ r \notin accepted /\ accepted' = accepted \cup {r} /\ current' = r
         /\ \A k \in Keys : k # key' => events'[k] = events[k] /\ payload'[k] = payload[k]
         /\ \/ /\ key' \in Published
               /\ events' = events /\ payload' = payload
            \/ /\ key' \notin Published
               /\ events'[key'] = NewEvent /\ payload'[key'] = r
         /\ UNCHANGED <<rq, exec, video>>
<1> DEFINE k == [revision |-> RevisionAfter(r), count |-> SlotsAfter(r), kind |-> EditType[r]]
<1>1. k \in Keys
  BY EditAssumption
     DEF RequestEdit, RevisionAfter, SlotsAfter, JobRows, Keys, Kinds, TypeOK
<1>2. /\ events' = [events EXCEPT ![k] = EventFor(k)]
      /\ payload' = [payload EXCEPT ![k] = PayloadFor(k, r)]
      /\ key' = k /\ r \notin accepted /\ accepted' = accepted \cup {r} /\ current' = r
      /\ UNCHANGED <<rq, exec, video>>
  BY DEF RequestEdit
<1> HIDE DEF k
<1>3. events \in [Keys -> OutboxRows] /\ payload \in [Keys -> Requests \cup {NoRequest}]
  BY DEF TypeOK
<1>4. CASE k \in Published
  <2>1. EventFor(k) = events[k] /\ PayloadFor(k, r) = payload[k]
    BY <1>4 DEF EventFor, PayloadFor, Published
  <2>2. events' = events /\ payload' = payload
    BY <1>1, <1>2, <1>3, <2>1
  <2> QED
    BY <1>1, <1>2, <1>4, <2>2
<1>5. CASE k \notin Published
  <2>1. EventFor(k) = NewEvent /\ PayloadFor(k, r) = r
    BY <1>1, <1>5 DEF EventFor, PayloadFor, Published
  <2> QED
    BY <1>1, <1>2, <1>3, <1>5, <2>1
<1> QED
  BY <1>4, <1>5

Pending(j) == j.entries > 0 \/ j.scheduled

(* Only a job that is pending, or whose event a publisher or a worker is   *)
(* dealing with, is pending afterwards.                                    *)
LEMMA QueueFrame ==
  ASSUME TypeOK, Recorded, [Next]_vars, NEW k \in Keys, Pending(rq'[k])
  PROVE  k \in Published
<1>0. /\ rq \in [Keys -> RqRows] /\ rq[k] \in RqRows
      /\ \A w \in Workers : exec[w].key \in Keys
      /\ Pending(rq[k]) => k \in Published
      /\ \A w \in Workers : exec[w].pc # "idle" => exec[w].key \in Published
  BY DEF TypeOK, ExecRows, Recorded, QueuedIsPublished, AssignedIsPublished, Pending
<1>1. CASE UNCHANGED rq
  BY <1>0, <1>1
<1>2. ASSUME NEW d \in Keys, Deliver(d) PROVE k \in Published
  <2>1. CASE RetryDue(d)
    BY <1>0, <2>1 DEF RetryDue, Pending
  <2>2. CASE Dispatchable(d) /\ (k # d => rq'[k] = rq[k])
    BY <1>0, <2>2 DEF Dispatchable, Published
  <2> QED
    BY <1>0, <1>2, <2>1, <2>2 DEF Deliver, DispatchOk, DispatchError, DispatchCrash
<1>3. ASSUME NEW w \in Workers, Work(w) PROVE k \in Published
  <2>1. ASSUME NEW d \in Keys, Pop(w, d) PROVE k \in Published
    BY <1>0, <2>1 DEF Pop, Pending
  <2>2. CASE UNCHANGED rq \/ (exec[w].pc # "idle" /\ (k # exec[w].key => rq'[k] = rq[k]))
    BY <1>0, <2>2
  <2> QED
    BY <1>0, <1>3, <2>1, <2>2
    DEF Work, Proceed, ClaimGranted, ClaimConsumed, ClaimBusy, StartRun, Upload, Complete,
        RunRefuses, RunRaises, FinishOk, Return, FinishFail, Callback, Crash, Abandon
<1> QED
  BY <1>1, <1>2, <1>3
  DEF Next, Decide, RequestEdit, ReviewRead, ReviewCommit, OperatorSave, RecoverStale,
      ReaperFind, ReaperRevert, Tick, vars

(* How the work of one worker goes on.                                     *)
LEMMA ExecFrame ==
  ASSUME TypeOK, [Next]_vars, NEW v \in Workers
  PROVE  \/ exec'[v].pc = "idle"
         \/ exec[v].pc # "idle" /\ exec'[v].key = exec[v].key
         \/ \E k \in Keys : Pop(v, k) /\ exec'[v] = [pc |-> "popped", key |-> k, ran |-> 0]
<1>0. exec \in [Workers -> ExecRows]
  BY DEF TypeOK
<1>1. CASE UNCHANGED exec
  BY <1>1
<1>2. ASSUME NEW w \in Workers, Work(w)
      PROVE  \/ exec'[v].pc = "idle"
             \/ exec[v].pc # "idle" /\ exec'[v].key = exec[v].key
             \/ \E k \in Keys : Pop(v, k) /\ exec'[v] = [pc |-> "popped", key |-> k, ran |-> 0]
  <2>1. ASSUME NEW k \in Keys, Pop(w, k)
        PROVE  \/ exec'[v].pc = "idle"
               \/ exec[v].pc # "idle" /\ exec'[v].key = exec[v].key
               \/ Pop(v, k) /\ exec'[v] = [pc |-> "popped", key |-> k, ran |-> 0]
    BY <1>0, <2>1 DEF Pop
  <2>2. ASSUME Release(w)
        PROVE  exec'[v].pc = "idle" \/ (exec[v].pc # "idle" /\ exec'[v].key = exec[v].key)
    BY <1>0, <2>2 DEF Release, IdleWorker
  <2>3. ASSUME NEW pc \in WorkerStates, exec[w].pc # "idle", Goto(w, pc)
        PROVE  exec'[v].pc = "idle" \/ (exec[v].pc # "idle" /\ exec'[v].key = exec[v].key)
    BY <1>0, <2>3 DEF Goto, ExecRows
  <2>4. CASE Crash(w)
    BY <1>0, <2>4 DEF Crash, ExecRows
  <2> QED
    BY <1>2, <2>1, <2>2, <2>3, <2>4
    DEF Work, Proceed, ClaimGranted, ClaimConsumed, ClaimBusy, StartRun, Upload, Complete,
        RunRefuses, RunRaises, Running, FinishOk, Return, FinishFail, Callback, Abandon,
        WorkerStates
<1>3. CASE Tick
  BY <1>0, <1>3 DEF Tick, ExecRows
<1> QED
  BY <1>1, <1>2, <1>3
  DEF Next, Deliver, DispatchOk, DispatchError, DispatchCrash, RetryDue, Decide,
      RequestEdit, ReviewRead, ReviewCommit, OperatorSave, RecoverStale, ReaperFind,
      ReaperRevert, vars

(* The outbox keeps its records.                                           *)
LEMMA RecordedNext == TypeOK /\ Recorded /\ [Next]_vars => Recorded'
<1> SUFFICES ASSUME TypeOK, Recorded, [Next]_vars PROVE Recorded'
  OBVIOUS
<1>0. Published \subseteq Published'
  <2>1. CASE Accepts
    BY <2>1, AcceptedEvent DEF Accepts, Published
  <2>2. CASE ~ Accepts
    BY <2>2, EventFrame DEF Published
  <2> QED
    BY <2>1, <2>2
<1>q. QueuedIsPublished'
  BY <1>0, QueueFrame DEF QueuedIsPublished, Pending
<1>w. AssignedIsPublished'
  <2> SUFFICES ASSUME NEW v \in Workers, exec'[v].pc # "idle"
               PROVE  exec'[v].key \in Published
    BY <1>0 DEF AssignedIsPublished
  <2>1. CASE exec[v].pc # "idle" /\ exec'[v].key = exec[v].key
    BY <2>1 DEF Recorded, AssignedIsPublished
  <2>2. ASSUME NEW k \in Keys, Pop(v, k), exec'[v] = [pc |-> "popped", key |-> k, ran |-> 0]
        PROVE  exec'[v].key \in Published
    BY <2>2 DEF Recorded, QueuedIsPublished, Pop
  <2> QED
    BY <2>1, <2>2, ExecFrame
<1>1. CASE Accepts
  <2>1. PICK u \in Reviewers, r \in Requests : RequestEdit(u, r)
    BY <1>1 DEF Accepts
  <2>2. /\ r \notin accepted /\ accepted' = accepted \cup {r} /\ key' \in Keys
        /\ \A k \in Keys : k # key' => events'[k] = events[k] /\ payload'[k] = payload[k]
        /\ \/ key' \in Published /\ events' = events /\ payload' = payload
           \/ key' \notin Published /\ events'[key'] = NewEvent /\ payload'[key'] = r
    BY <2>1, AcceptedEvent
  <2>3. NewEvent.status = "pending"
    BY DEF NewEvent, AbsentEvent
  <2>4. DescribesAccepted'
    BY <2>2 DEF DescribesAccepted, Recorded, Published
  <2>5. AbsentIsBlank'
    BY <2>2, <2>3 DEF AbsentIsBlank, Recorded
  <2>6. OneEventEach'
    <3>1. CASE key' \in Published /\ events' = events /\ payload' = payload
      BY <3>1 DEF OneEventEach, Recorded, Published
    <3>2. CASE key' \notin Published /\ events'[key'] = NewEvent /\ payload'[key'] = r
      <4>1. Published' = Published \cup {key'}
        BY <2>2, <2>3, <3>2 DEF Published
      <4>2. \A k \in Published : payload'[k] = payload[k] /\ payload[k] # r
        BY <2>2, <3>2 DEF Recorded, DescribesAccepted, Published
      <4> QED
        BY <3>2, <4>1, <4>2 DEF OneEventEach, Recorded
    <3> QED
      BY <2>2, <3>1, <3>2
  <2> QED
    BY <1>q, <1>w, <2>4, <2>5, <2>6 DEF Recorded
<1>2. CASE ~ Accepts
  <2>1. UNCHANGED <<accepted, payload>>
    BY <1>2, RequestFrame DEF request
  <2>2. Published' = Published
    <3>1. \A k \in Keys : events[k].status = "absent" <=> events'[k].status = "absent"
      BY <1>2, EventFrame
    <3> QED
      BY <3>1 DEF Published
  <2>3. DescribesAccepted'
    BY <2>1, <2>2 DEF DescribesAccepted, Recorded, Published
  <2>4. AbsentIsBlank'
    BY <1>2, EventFrame DEF AbsentIsBlank, Recorded
  <2>5. OneEventEach'
    BY <2>1, <2>2 DEF OneEventEach, Recorded
  <2> QED
    BY <1>q, <1>w, <2>3, <2>4, <2>5 DEF Recorded
<1> QED
  BY <1>1, <1>2

-----------------------------------------------------------------------------
(* Ticked off means settled                                                *)

(* A worker that is about to tick off the edit the row waits for has       *)
(* written an outcome, and the row says "editing" or an outcome.           *)
Settled ==
  /\ job.status \in EditStatuses
  /\ \A w \in Workers :
       exec[w].pc = "ok" /\ exec[w].key = key /\ payload[key] = current =>
         job.status \in TERMINAL_STATUSES
  /\ payload[key] = current /\ events[key].status = "consumed" =>
       job.status \in TERMINAL_STATUSES

LEMMA SettledInit == Init => Settled
BY DEF Init, Settled, EditStatuses, TERMINAL_STATUSES, IdleWorker, AbsentEvent

(* An outcome stays an outcome until a request is accepted.                *)
LEMMA OutcomeStays ==
  ASSUME TypeOK, job.status \in EditStatuses, [Next]_vars, ~ Accepts
  PROVE  /\ job'.status \in EditStatuses
         /\ job.status \in TERMINAL_STATUSES => job'.status \in TERMINAL_STATUSES
<1>0. /\ {"done", "rejected", "pending_review", "error", "validation_failed"}
            \subseteq TERMINAL_STATUSES
      /\ job \in JobRows
  BY DEF TERMINAL_STATUSES, TypeOK
<1>1. ASSUME NEW w \in Workers, Work(w)
      PROVE  /\ job'.status \in EditStatuses
             /\ job.status \in TERMINAL_STATUSES => job'.status \in TERMINAL_STATUSES
  <2>1. ASSUME NEW upd \in EditCalls, WorkerUpdate(upd)
        PROVE  /\ job'.status \in EditStatuses
               /\ job.status \in TERMINAL_STATUSES => job'.status \in TERMINAL_STATUSES
    BY <1>0, <2>1, UpdateJobRow DEF WorkerUpdate, EditCalls, EditStatuses
  <2> QED
    BY <1>1, <2>1, WorkWrites
<1>2. ASSUME NEW u \in Reviewers, Decide(u)
      PROVE  /\ job'.status \in EditStatuses
             /\ job.status \in TERMINAL_STATUSES => job'.status \in TERMINAL_STATUSES
  BY <1>0, <1>2, DecisionStatus DEF Decide, ReviewRead, Accepts, EditStatuses
<1>3. CASE ReaperRevert
  BY <1>0, <1>3, DecisionStatus DEF EditStatuses
<1> QED
  BY <1>1, <1>2, <1>3, StatusKept DEF Next

(* A worker comes to "ok" only by writing an outcome.                      *)
LEMMA BecomesOk ==
  ASSUME TypeOK, job.status \in EditStatuses, [Next]_vars, NEW v \in Workers,
         exec'[v].pc = "ok"
  PROVE  \/ exec[v].pc = "ok" /\ exec'[v].key = exec[v].key
         \/ job'.status \in TERMINAL_STATUSES /\ ~ Accepts
<1>0. /\ exec \in [Workers -> ExecRows] /\ job \in JobRows
      /\ {"pending_review", "error", "validation_failed"} \subseteq TERMINAL_STATUSES
  BY DEF TypeOK, TERMINAL_STATUSES
<1>a. ASSUME Accepts PROVE exec' = exec
  BY <1>a DEF Accepts, RequestEdit
<1>1. CASE exec'[v] = exec[v]
  BY <1>1
<1>2. ASSUME NEW w \in Workers, Work(w), exec'[v] # exec[v]
      PROVE  \/ exec[v].pc = "ok" /\ exec'[v].key = exec[v].key
             \/ job'.status \in TERMINAL_STATUSES
  <2>1. ASSUME NEW upd \in EditCalls, upd.status \in TERMINAL_STATUSES, WorkerUpdate(upd)
        PROVE  job'.status \in TERMINAL_STATUSES
    BY <1>0, <2>1, UpdateJobRow DEF WorkerUpdate, EditCalls
  <2>2. CASE Complete(w)
    <3>1. [NoUpdate EXCEPT !.status = "pending_review"].status = "pending_review"
      BY DEF NoUpdate
    <3> QED
      BY <1>0, <2>1, <2>2, <3>1, EditCallTypes DEF Complete
  <2>3. CASE RunRefuses(w)
    <3>1. PICK s \in {"error", "pending_review", "validation_failed"} :
            WorkerUpdate([NoUpdate EXCEPT !.status = s, !.error = "worker"])
      BY <2>3 DEF RunRefuses
    <3>2. [NoUpdate EXCEPT !.status = s, !.error = "worker"].status = s
      BY DEF NoUpdate
    <3> QED
      BY <1>0, <2>1, <3>1, <3>2, EditCallTypes
  <2>4. ASSUME NEW pc \in WorkerStates \ {"ok"}, Goto(w, pc)
        PROVE  FALSE
    BY <1>0, <1>2, <2>4 DEF Goto, ExecRows
  <2>5. ASSUME Release(w) PROVE FALSE
    BY <1>0, <1>2, <2>5 DEF Release, IdleWorker
  <2>6. ASSUME NEW k \in Keys, Pop(w, k) PROVE FALSE
    BY <1>0, <1>2, <2>6 DEF Pop
  <2>7. ASSUME Crash(w) PROVE FALSE
    BY <1>0, <1>2, <2>7 DEF Crash, ExecRows
  <2>8. {"start", "run", "uploaded", "returned", "failed", "callback"}
          \subseteq WorkerStates \ {"ok"}
    BY DEF WorkerStates
  <2> QED
    BY <1>2, <2>2, <2>3, <2>4, <2>5, <2>6, <2>7, <2>8
    DEF Work, Proceed, ClaimGranted, ClaimConsumed, ClaimBusy, StartRun, Upload,
        RunRaises, FinishOk, Return, FinishFail, Callback, Abandon
<1>3. CASE Tick
  BY <1>0, <1>3 DEF Tick, ExecRows
<1> QED
  BY <1>a, <1>1, <1>2, <1>3
  DEF Next, Deliver, DispatchOk, DispatchError, DispatchCrash, RetryDue, Decide,
      RequestEdit, ReviewRead, ReviewCommit, OperatorSave, RecoverStale, ReaperFind,
      ReaperRevert, vars

(* An event is ticked off only by a worker that returned from it.          *)
LEMMA BecomesConsumed ==
  ASSUME TypeOK, [Next]_vars, NEW k \in Keys, events'[k].status = "consumed"
  PROVE  \/ events[k].status = "consumed"
         \/ \E w \in Workers : FinishOk(w) /\ exec[w].key = k /\ events[k].token = w
<1>0. events \in [Keys -> OutboxRows] /\ events[k] \in OutboxRows
  BY DEF TypeOK
<1>1. CASE UNCHANGED events
  BY <1>1
<1>2. ASSUME NEW d \in Keys, Deliver(d) PROVE events[k].status = "consumed"
  <2>1. /\ PublishSucceeded(events[d]).status # "consumed"
        /\ PublishFailed(events[d], TRUE).status # "consumed"
    BY <1>0 DEF PublishSucceeded, PublishFailed, OutboxRows, TypeOK
  <2> QED
    BY <1>0, <1>2, <2>1 DEF Deliver, DispatchOk, DispatchError, DispatchCrash, RetryDue
<1>3. ASSUME NEW w \in Workers, Work(w)
      PROVE  \/ events[k].status = "consumed"
             \/ FinishOk(w) /\ exec[w].key = k /\ events[k].token = w
  <2>1. /\ Claimed(events[k], w).status # "consumed"
        /\ events[k].status # "consumed" => Finished(events[k], w, FALSE).status # "consumed"
        /\ events[k].token # w => Finished(events[k], w, TRUE) = events[k]
    BY <1>0 DEF Claimed, Finished, OutboxRows
  <2> QED
    BY <1>0, <1>3, <2>1, WorkEvents
<1>4. CASE RecoverStale
  BY <1>0, <1>4 DEF RecoverStale, StaleRecovered, OutboxRows
<1>5. CASE Tick
  BY <1>0, <1>5 DEF Tick, Aged, OutboxRows
<1>6. ASSUME NEW u \in Reviewers, Decide(u) PROVE events[k].status = "consumed"
  <2>1. NewEvent.status # "consumed"
    BY DEF NewEvent, AbsentEvent
  <2> QED
    BY <1>0, <1>6, <2>1 DEF Decide, RequestEdit, ReviewRead, ReviewCommit, EventFor
<1> QED
  BY <1>1, <1>2, <1>3, <1>4, <1>5, <1>6
  DEF Next, OperatorSave, ReaperFind, ReaperRevert, vars

LEMMA SettledNext == TypeOK /\ Recorded /\ Settled /\ [Next]_vars => Settled'
<1> SUFFICES ASSUME TypeOK, Recorded, Settled, [Next]_vars PROVE Settled'
  OBVIOUS
<1>0. job.status \in EditStatuses
  BY DEF Settled
<1>1. CASE Accepts
  <2>1. PICK u \in Reviewers, r \in Requests : RequestEdit(u, r)
    BY <1>1 DEF Accepts
  <2>2. /\ r \notin accepted /\ current' = r /\ key' \in Keys /\ exec' = exec
        /\ \/ key' \in Published /\ events' = events /\ payload' = payload
           \/ key' \notin Published /\ events'[key'] = NewEvent /\ payload'[key'] = r
    BY <2>1, AcceptedEvent
  <2>3. payload'[key'] = current' => key' \notin Published /\ events'[key'] = NewEvent
    BY <2>2 DEF Recorded, DescribesAccepted, Published
  <2>4. NewEvent.status # "consumed"
    BY DEF NewEvent, AbsentEvent
  <2>5. \A w \in Workers : exec[w].pc = "ok" => exec[w].key \in Published
    BY DEF Recorded, AssignedIsPublished
  <2>6. job'.status \in EditStatuses
    BY <2>1, DecisionStatus DEF EditStatuses
  <2> QED
    BY <2>2, <2>3, <2>4, <2>5, <2>6 DEF Settled
<1>2. CASE ~ Accepts
  <2>1. key' = key /\ current' = current /\ payload' = payload
    BY <1>2, RequestFrame DEF request
  <2>2. /\ job'.status \in EditStatuses
        /\ job.status \in TERMINAL_STATUSES => job'.status \in TERMINAL_STATUSES
    BY <1>0, <1>2, OutcomeStays
  <2>3. ASSUME NEW w \in Workers, exec'[w].pc = "ok", exec'[w].key = key,
               payload[key] = current
        PROVE  job'.status \in TERMINAL_STATUSES
    <3>1. CASE exec[w].pc = "ok" /\ exec'[w].key = exec[w].key
      BY <2>2, <2>3, <3>1 DEF Settled
    <3> QED
      BY <1>0, <2>3, <3>1, BecomesOk
  <2>4. ASSUME payload[key] = current, events'[key].status = "consumed"
        PROVE  job'.status \in TERMINAL_STATUSES
    <3>0. key \in Keys
      BY DEF TypeOK
    <3>1. CASE events[key].status = "consumed"
      BY <2>2, <2>4, <3>1 DEF Settled
    <3>2. ASSUME NEW w \in Workers, FinishOk(w), exec[w].key = key
          PROVE  job'.status \in TERMINAL_STATUSES
      BY <2>2, <2>4, <3>2 DEF Settled, FinishOk
    <3> QED
      BY <2>4, <3>0, <3>1, <3>2, BecomesConsumed
  <2> QED
    BY <2>1, <2>2, <2>3, <2>4 DEF Settled
<1> QED
  BY <1>1, <1>2

(* An edit the outbox has ticked off is never one its row still waits for, *)
(* however many workers, requests and sweeps overlap and even when claims  *)
(* expire under their workers.                                             *)
THEOREM ConsumedEditIsSettled == Spec => []ConsumedMeansSettled
<1>1. Settled => ConsumedMeansSettled
  BY DEF Settled, ConsumedMeansSettled, TERMINAL_STATUSES
<1> QED
  BY <1>1, InitType, NextType, RecordedInit, RecordedNext, SettledInit, SettledNext, PTL
  DEF Spec

-----------------------------------------------------------------------------
(* The abstract deliveries                                                 *)

Held(ev, w, ran) == ev.status = "processing" /\ ev.token = w /\ ev.age <= ran

(* A worker that runs an edit has the only claim on it, and the claim is   *)
(* no older than the run.                                                  *)
ClaimHeld == \A w \in Workers : Holding(w) => Held(events[exec[w].key], w, exec[w].ran)

LEMMA ClaimInit == Init => ClaimHeld
BY DEF Init, ClaimHeld, Holding, Running, IdleWorker

(* A held claim is within its lease: it is neither stale nor claimable.    *)
LEMMA HeldIsFresh ==
  ASSUME LeaseCoversTimeout, TypeOK, ClaimHeld, NEW v \in Workers, Holding(v)
  PROVE  LET ev == events[exec[v].key]
         IN  /\ exec[v].key \in Keys /\ Held(ev, v, exec[v].ran)
             /\ ~ Dispatchable(exec[v].key) /\ ~ Stale(ev) /\ ~ Claimable(ev)
<1>0. /\ exec \in [Workers -> ExecRows] /\ events \in [Keys -> OutboxRows]
      /\ JobTimeout \in Nat /\ LeaseAge \in Nat /\ StaleAge \in Nat
      /\ JobTimeout <= LeaseAge /\ LeaseAge <= StaleAge
  BY EditAssumption, LeaseAssumption DEF TypeOK, LeaseCoversTimeout
<1>1. exec[v].key \in Keys /\ Held(events[exec[v].key], v, exec[v].ran)
  BY <1>0 DEF ClaimHeld, ExecRows
<1>2. events[exec[v].key].age \in Nat /\ events[exec[v].key].age <= LeaseAge
  BY <1>0, <1>1 DEF ExecRows, OutboxRows, Held
<1> QED
  BY <1>0, <1>1, <1>2 DEF Held, Dispatchable, Stale, Claimable, Busy

LEMMA ClaimNext ==
  ASSUME LeaseCoversTimeout
  PROVE  TypeOK /\ Recorded /\ ClaimHeld /\ [Next]_vars => ClaimHeld'
<1> SUFFICES ASSUME TypeOK, Recorded, ClaimHeld, [Next]_vars,
                    NEW v \in Workers, Holding(v)'
             PROVE  Held(events'[exec'[v].key], v, exec'[v].ran)
  BY DEF ClaimHeld, Held
<1>0. exec \in [Workers -> ExecRows] /\ events \in [Keys -> OutboxRows]
  BY DEF TypeOK
<1>s. ASSUME Holding(v), exec'[v].key = exec[v].key, exec'[v].ran = exec[v].ran,
             events'[exec[v].key] = events[exec[v].key]
      PROVE  Held(events'[exec'[v].key], v, exec'[v].ran)
  BY <1>s, HeldIsFresh
<1>1. ASSUME NEW k \in Keys, Deliver(k) PROVE Held(events'[exec'[v].key], v, exec'[v].ran)
  <2>1. Holding(v) /\ exec' = exec
    BY <1>1 DEF Deliver, DispatchOk, DispatchError, DispatchCrash, RetryDue, Holding, Running
  <2>2. events'[exec[v].key] = events[exec[v].key]
    BY <1>0, <1>1, <2>1, HeldIsFresh
       DEF Deliver, DispatchOk, DispatchError, DispatchCrash, RetryDue
  <2> QED
    BY <1>s, <2>1, <2>2
<1>2. ASSUME NEW w \in Workers, Work(w) PROVE Held(events'[exec'[v].key], v, exec'[v].ran)
  <2>1. CASE ClaimGranted(w)
    <3>1. CASE v = w
      BY <1>0, <2>1, <3>1
         DEF ClaimGranted, Goto, Claimed, ExecRows, OutboxRows, Held
    <3>2. CASE v # w
      <4>1. Holding(v) /\ exec'[v] = exec[v]
        BY <1>0, <2>1, <3>2 DEF ClaimGranted, Goto, Holding, Running
      <4>2. events'[exec[v].key] = events[exec[v].key]
        BY <1>0, <2>1, <4>1, HeldIsFresh DEF ClaimGranted
      <4> QED
        BY <1>s, <4>1, <4>2
    <3> QED
      BY <3>1, <3>2
  <2>2. CASE FinishOk(w) \/ FinishFail(w)
    <3>1. v # w /\ Holding(v) /\ exec'[v] = exec[v] /\ Holding(w)
      <4>0. \A pc \in WorkerStates : [exec[w] EXCEPT !.pc = pc].pc = pc
        BY <1>0 DEF ExecRows
      <4>1. exec[w].pc \in {"ok", "failed"} /\ exec'[w].pc \in {"returned", "callback"}
        <5>1. CASE FinishOk(w)
          BY <1>0, <4>0, <5>1 DEF FinishOk, Goto, WorkerStates
        <5>2. CASE FinishFail(w)
          BY <1>0, <4>0, <5>2 DEF FinishFail, Goto, WorkerStates
        <5> QED
          BY <2>2, <5>1, <5>2
      <4>2. v # w
        BY <4>1 DEF Holding, Running
      <4>3. exec'[v] = exec[v]
        BY <1>0, <2>2, <4>2 DEF FinishOk, FinishFail, Goto
      <4> QED
        BY <4>1, <4>2, <4>3 DEF Holding, Running
    <3>2. exec[w].key \in Keys /\ events[exec[w].key].token = w
      BY <3>1, HeldIsFresh DEF Held
    <3>3. exec[v].key # exec[w].key
      BY <3>1, <3>2, HeldIsFresh DEF Held
    <3>4. events'[exec[v].key] = events[exec[v].key]
      <4>1. CASE FinishOk(w)
        BY <1>0, <3>2, <3>3, <4>1 DEF FinishOk
      <4>2. CASE FinishFail(w)
        BY <1>0, <3>2, <3>3, <4>2 DEF FinishFail
      <4> QED
        BY <2>2, <4>1, <4>2
    <3> QED
      BY <1>s, <3>1, <3>4
  <2>3. ASSUME UNCHANGED events, Holding(v), exec'[v].key = exec[v].key,
               exec'[v].ran = exec[v].ran
        PROVE  Held(events'[exec'[v].key], v, exec'[v].ran)
    BY <1>s, <2>3
  <2>4. ASSUME NEW k \in Keys, Pop(w, k) PROVE Held(events'[exec'[v].key], v, exec'[v].ran)
    <3>1. v # w
      BY <1>0, <2>4 DEF Pop, Holding, Running
    <3> QED
      BY <1>0, <2>3, <2>4, <3>1 DEF Pop, Holding, Running
  <2>5. CASE ClaimConsumed(w) \/ Callback(w) \/ Abandon(w) \/ Return(w)
    <3>1. v # w
      BY <1>0, <2>5
         DEF ClaimConsumed, Callback, Abandon, Return, Release, IdleWorker, Holding, Running
    <3> QED
      BY <1>0, <2>3, <2>5, <3>1
         DEF ClaimConsumed, Callback, Abandon, Return, Release, Holding, Running
  <2>6. CASE ClaimBusy(w) \/ Crash(w)
    <3>1. v # w
      BY <1>0, <2>6 DEF ClaimBusy, Crash, Goto, Holding, Running, ExecRows
    <3> QED
      BY <1>0, <2>3, <2>6, <3>1 DEF ClaimBusy, Crash, Goto, Holding, Running
  <2>7. CASE StartRun(w) \/ Upload(w) \/ Complete(w) \/ RunRefuses(w) \/ RunRaises(w)
    <3>1. Holding(w) /\ UNCHANGED events
      BY <2>7 DEF StartRun, Upload, Complete, RunRefuses, RunRaises, Running, Holding
    <3>2. Holding(v) /\ exec'[v].key = exec[v].key /\ exec'[v].ran = exec[v].ran
      BY <1>0, <2>7, <3>1
         DEF StartRun, Upload, Complete, RunRefuses, RunRaises, Goto, Holding, Running, ExecRows
    <3> QED
      BY <2>3, <3>1, <3>2
  <2> QED
    BY <1>2, <2>1, <2>2, <2>4, <2>5, <2>6, <2>7 DEF Work, Proceed
<1>3. ASSUME NEW u \in Reviewers, NEW r \in Requests, RequestEdit(u, r)
      PROVE  Held(events'[exec'[v].key], v, exec'[v].ran)
  <2>1. Holding(v) /\ exec' = exec
    BY <1>3 DEF RequestEdit, Holding, Running
  <2>2. exec[v].key \in Published
    BY <2>1 DEF Recorded, AssignedIsPublished, Holding, Running
  <2>3. events'[exec[v].key] = events[exec[v].key]
    BY <1>3, <2>2, AcceptedEvent DEF Published
  <2> QED
    BY <1>s, <2>1, <2>3
<1>4. CASE RecoverStale
  <2>1. Holding(v) /\ exec' = exec
    BY <1>4 DEF RecoverStale, Holding, Running
  <2>2. events'[exec[v].key] = events[exec[v].key]
    BY <1>4, <2>1, HeldIsFresh DEF RecoverStale
  <2> QED
    BY <1>s, <2>1, <2>2
<1>5. CASE Tick
  <2>0. StaleAge \in Nat
    BY LeaseAssumption
  <2>1. Holding(v) /\ exec'[v].key = exec[v].key /\ exec'[v].ran = exec[v].ran + 1
    BY <1>0, <1>5 DEF Tick, Holding, Running, ExecRows
  <2>2. events'[exec[v].key] = Aged(events[exec[v].key])
    BY <1>5, <2>1, HeldIsFresh DEF Tick
  <2>3. Held(Aged(events[exec[v].key]), v, exec[v].ran + 1)
    BY <1>0, <2>0, <2>1, HeldIsFresh DEF Aged, OutboxRows, ExecRows, Held
  <2> QED
    BY <2>1, <2>2, <2>3
<1>6. CASE UNCHANGED <<exec, events>>
  <2>1. Holding(v)
    BY <1>6 DEF Holding, Running
  <2> QED
    BY <1>s, <1>6, <2>1
<1> QED
  BY <1>1, <1>2, <1>3, <1>4, <1>5, <1>6
  DEF Next, Decide, ReviewRead, ReviewCommit, OperatorSave, ReaperFind, ReaperRevert, vars

(* No two workers render or report the same edit at the same time.         *)
ExclusiveEdits ==
  \A v, w \in Workers :
    Holding(v) /\ Holding(w) /\ exec[v].key = exec[w].key => v = w

(* As long as RQ kills an edit before its lease runs out, no two workers   *)
(* render it at once, though the event may be recovered, published again   *)
(* and redelivered by RQ meanwhile.                                        *)
THEOREM OneEditor ==
  ASSUME LeaseCoversTimeout
  PROVE  Spec => []ExclusiveEdits
<1>1. ClaimHeld => ExclusiveEdits
  BY DEF ClaimHeld, Held, ExclusiveEdits
<1> QED
  BY <1>1, InitType, NextType, RecordedInit, RecordedNext, ClaimInit, ClaimNext, PTL DEF Spec

(* Without an accepted request, only a worker that returns ticks off.      *)
LEMMA TickedOffFrame ==
  ASSUME LeaseCoversTimeout, TypeOK, Recorded, ClaimHeld, [Next]_vars, NEW k \in Keys,
         ~ \E w \in Workers : FinishOk(w)
  PROVE  events'[k].status = "consumed" <=> events[k].status = "consumed"
<1>0. events \in [Keys -> OutboxRows]
  BY DEF TypeOK
<1> SUFFICES ASSUME events[k].status = "consumed" PROVE events'[k].status = "consumed"
  BY BecomesConsumed
<1>1. ASSUME NEW d \in Keys, Deliver(d) PROVE events'[k].status = "consumed"
  BY <1>0, <1>1 DEF Deliver, DispatchOk, DispatchError, DispatchCrash, RetryDue, Dispatchable
<1>2. ASSUME NEW w \in Workers, Work(w) PROVE events'[k].status = "consumed"
  <2>1. CASE ClaimGranted(w)
    BY <1>0, <2>1 DEF ClaimGranted, Claimable
  <2>2. CASE FinishFail(w)
    <3>1. events[exec[w].key].status = "processing"
      BY <2>2, HeldIsFresh DEF FinishFail, Holding, Running, Held
    <3> QED
      BY <1>0, <2>2, <3>1 DEF FinishFail
  <2> QED
    BY <1>2, <2>1, <2>2, WorkEvents
<1>3. CASE Accepts
  <2>1. k \in Published
    BY DEF Published
  <2>2. events'[k] = events[k]
    BY <1>3, <2>1, AcceptedEvent DEF Accepts
  <2> QED
    BY <2>2
<1>4. CASE RecoverStale
  BY <1>0, <1>4 DEF RecoverStale, Stale
<1>5. CASE Tick
  BY <1>0, <1>5 DEF Tick, Aged
<1>6. CASE UNCHANGED events
  BY <1>6
<1> QED
  BY <1>1, <1>2, <1>3, <1>4, <1>5, <1>6
  DEF Next, Decide, Accepts, ReviewRead, ReviewCommit, OperatorSave, ReaperFind,
      ReaperRevert, vars

(* What is ticked off stays ticked off.                                    *)
LEMMA TickedOffStays ==
  ASSUME LeaseCoversTimeout, TypeOK, Recorded, ClaimHeld, [Next]_vars, NEW k \in Keys,
         events[k].status = "consumed"
  PROVE  events'[k].status = "consumed"
<1>0. /\ exec \in [Workers -> ExecRows] /\ events \in [Keys -> OutboxRows]
  BY DEF TypeOK
<1>1. ASSUME NEW w \in Workers, FinishOk(w) PROVE events'[k].status = "consumed"
  <2>1. exec[w].key # k
    BY <1>1, HeldIsFresh DEF FinishOk, Holding, Held
  <2> QED
    BY <1>0, <1>1, <2>1 DEF FinishOk
<1> QED
  BY <1>1, TickedOffFrame

(* A worker that has returned, and RQ once it has filed the success, stand *)
(* for an event that is ticked off.                                        *)
ReturnedIsTickedOff ==
  /\ SuccessIsTickedOff
  /\ \A w \in Workers : exec[w].pc = "returned" => events[exec[w].key].status = "consumed"

LEMMA ReturnedInit == Init => ReturnedIsTickedOff
BY DEF Init, ReturnedIsTickedOff, SuccessIsTickedOff, NoRqJob, IdleWorker

(* Only a worker that returns or is told "consumed" makes a job finished.  *)
LEMMA FiledByReturn ==
  ASSUME TypeOK, ReturnedIsTickedOff, [Next]_vars, NEW k \in Keys,
         rq'[k].status = "finished"
  PROVE  events[k].status = "consumed"
<1>0. /\ rq \in [Keys -> RqRows] /\ exec \in [Workers -> ExecRows]
  BY DEF TypeOK
<1>1. rq[k].status = "finished" => events[k].status = "consumed"
  BY DEF ReturnedIsTickedOff, SuccessIsTickedOff
<1>2. ASSUME NEW d \in Keys, Deliver(d) PROVE rq[k].status = "finished"
  <2>1. RqRepublished(rq[d]).status # "finished" /\ RqRetryDue(rq[d]).status # "finished"
    BY <1>0 DEF RqRepublished, RqEnqueued, RqRetryDue, NoRqJob, LiveRqStatuses, RqRows
  <2> QED
    BY <1>0, <1>2, <2>1 DEF Deliver, DispatchOk, DispatchError, DispatchCrash, RetryDue
<1>3. ASSUME NEW w \in Workers, Work(w) PROVE events[k].status = "consumed"
  <2>1. CASE ClaimConsumed(w)
    BY <1>0, <1>1, <2>1 DEF ClaimConsumed
  <2>2. CASE Return(w)
    BY <1>0, <1>1, <2>2 DEF Return, ReturnedIsTickedOff
  <2>3. CASE Callback(w) \/ Abandon(w)
    <3>1. RqFailed(rq[exec[w].key]).status # "finished"
      BY <1>0 DEF RqFailed, RqRows, ExecRows
    <3> QED
      BY <1>0, <1>1, <2>3, <3>1 DEF Callback, Abandon
  <2>4. ASSUME NEW d \in Keys, Pop(w, d) PROVE events[k].status = "consumed"
    <3>1. RqPopped(rq[d]).status # "finished"
      BY <1>0 DEF RqPopped, RqRows
    <3> QED
      BY <1>0, <1>1, <2>4, <3>1 DEF Pop
  <2>5. CASE rq' = rq
    BY <1>1, <2>5
  <2>6. \/ ClaimConsumed(w) \/ Return(w) \/ Callback(w) \/ Abandon(w)
        \/ (\E d \in Keys : Pop(w, d)) \/ rq' = rq
    BY <1>3
    DEF Work, Proceed, ClaimGranted, ClaimBusy, StartRun, Upload, Complete, RunRefuses,
        RunRaises, FinishOk, FinishFail, Crash
  <2> QED
    BY <2>1, <2>2, <2>3, <2>4, <2>5, <2>6
<1>4. CASE rq' = rq
  BY <1>1, <1>4
<1>5. \/ \E d \in Keys : Deliver(d)
      \/ \E w \in Workers : Work(w)
      \/ rq' = rq
  BY DEF Next, Decide, RequestEdit, ReviewRead, ReviewCommit, OperatorSave, RecoverStale,
         ReaperFind, ReaperRevert, Tick, vars
<1> QED
  BY <1>1, <1>2, <1>3, <1>4, <1>5

(* Only a worker that has ticked its event off is about to return.         *)
LEMMA ReturnsTickedOff ==
  ASSUME LeaseCoversTimeout, TypeOK, Recorded, ClaimHeld, ReturnedIsTickedOff,
         [Next]_vars, NEW v \in Workers, exec'[v].pc = "returned"
  PROVE  events'[exec'[v].key].status = "consumed"
<1>0. /\ exec \in [Workers -> ExecRows] /\ events \in [Keys -> OutboxRows]
  BY DEF TypeOK
<1>1. CASE FinishOk(v)
  <2>1. exec'[v].key = exec[v].key /\ exec[v].key \in Keys
    BY <1>0, <1>1 DEF FinishOk, Goto, ExecRows
  <2>2. events[exec[v].key].token = v
    BY <1>1, HeldIsFresh DEF FinishOk, Holding, Held
  <2> QED
    BY <1>0, <1>1, <2>1, <2>2 DEF FinishOk, Finished, OutboxRows
<1>2. ASSUME exec[v].pc = "returned", exec'[v].key = exec[v].key
      PROVE  events'[exec'[v].key].status = "consumed"
  BY <1>0, <1>2, TickedOffStays DEF ReturnedIsTickedOff, ExecRows
<1>3. ASSUME NEW w \in Workers, Work(w), ~ FinishOk(v)
      PROVE  exec[v].pc = "returned" /\ exec'[v].key = exec[v].key
  <2>1. CASE v # w
    BY <1>0, <1>3, <2>1
    DEF Work, Proceed, Pop, ClaimGranted, ClaimConsumed, ClaimBusy, StartRun, Upload,
        Complete, FinishOk, Return, FinishFail, Callback, Abandon, RunRefuses, RunRaises,
        Crash, Goto, Release
  <2>2. CASE v = w
    <3>1. ~ Release(v)
      BY <1>0 DEF Release, IdleWorker
    <3>2. \A pc \in WorkerStates : Goto(v, pc) => pc = "returned"
      BY <1>0 DEF Goto, ExecRows
    <3>3. \A d \in Keys : ~ Pop(v, d)
      BY <1>0 DEF Pop
    <3>4. ~ Crash(v)
      BY <1>0 DEF Crash, ExecRows
    <3> QED
      BY <1>0, <1>3, <2>2, <3>1, <3>2, <3>3, <3>4
      DEF Work, Proceed, ClaimGranted, ClaimConsumed, ClaimBusy, StartRun, Upload,
          Complete, Return, FinishFail, Callback, Abandon, RunRefuses, RunRaises, WorkerStates
  <2> QED
    BY <2>1, <2>2
<1>4. CASE Tick
  BY <1>0, <1>2, <1>4 DEF Tick, ExecRows
<1>5. CASE UNCHANGED exec
  BY <1>2, <1>5
<1> QED
  BY <1>1, <1>2, <1>3, <1>4, <1>5
  DEF Next, Decide, Deliver, DispatchOk, DispatchError, DispatchCrash, RetryDue, RequestEdit,
      ReviewRead, ReviewCommit, OperatorSave, RecoverStale, ReaperFind, ReaperRevert, vars

(* No delivery is swallowed: as long as RQ kills an edit before its lease  *)
(* runs out, a job filed as a success has its event ticked off.            *)
THEOREM NoDeliverySwallowed ==
  ASSUME LeaseCoversTimeout
  PROVE  Spec => []SuccessIsTickedOff
<1>1. ReturnedIsTickedOff => SuccessIsTickedOff
  BY DEF ReturnedIsTickedOff
<1>2. TypeOK /\ Recorded /\ ClaimHeld /\ ReturnedIsTickedOff /\ [Next]_vars
        => ReturnedIsTickedOff'
  BY FiledByReturn, ReturnsTickedOff, TickedOffStays
     DEF ReturnedIsTickedOff, SuccessIsTickedOff
<1> QED
  BY <1>1, <1>2, InitType, NextType, RecordedInit, RecordedNext, ClaimInit, ClaimNext,
     ReturnedInit, PTL DEF Spec

Issued == {payload[k] : k \in Published}

SettledEdits == {payload[k] : k \in TickedOff}

(* Requests are issued by being accepted, and not twice.                   *)
LEMMA AcceptImplements ==
  ASSUME LeaseCoversTimeout, TypeOK, Recorded, ClaimHeld, [Next]_vars, Accepts
  PROVE  Delivery!Next \/ UNCHANGED Delivery!deliveryVars
<1>1. PICK u \in Reviewers, r \in Requests : RequestEdit(u, r)
  BY DEF Accepts
<1>2. /\ r \notin accepted /\ key' \in Keys /\ video' = video
      /\ \A k \in Keys : k # key' => events'[k] = events[k] /\ payload'[k] = payload[k]
      /\ \/ key' \in Published /\ events' = events /\ payload' = payload
         \/ key' \notin Published /\ events'[key'] = NewEvent /\ payload'[key'] = r
  BY <1>1, AcceptedEvent
<1>3. CASE key' \in Published /\ events' = events /\ payload' = payload
  BY <1>2, <1>3 DEF Delivery!deliveryVars, Published, TickedOff
<1>4. CASE key' \notin Published /\ events'[key'] = NewEvent /\ payload'[key'] = r
  <2>1. NewEvent.status = "pending"
    BY DEF NewEvent, AbsentEvent
  <2>2. Published' = Published \cup {key'} /\ TickedOff' = TickedOff
    BY <1>2, <1>4, <2>1 DEF Published, TickedOff
  <2>3. \A k \in Published : payload'[k] = payload[k]
    BY <1>2, <1>4 DEF Published
  <2>4. Issued' = Issued \cup {r}
    BY <1>4, <2>2, <2>3 DEF Issued
  <2>5. SettledEdits' = SettledEdits
    <3>1. TickedOff \subseteq Published
      BY DEF TickedOff, Published
    <3> QED
      BY <2>2, <2>3, <3>1 DEF SettledEdits
  <2>6. r \notin Issued
    BY <1>2 DEF Issued, Recorded, DescribesAccepted, Published
  <2>7. Delivery!Issue(r)
    BY <1>2, <2>4, <2>5, <2>6 DEF Delivery!Issue, Issued, SettledEdits
  <2> QED
    BY <2>7 DEF Delivery!Next
<1> QED
  BY <1>2, <1>3, <1>4

(* A worker that returns settles its edit.                                  *)
LEMMA FinishImplements ==
  ASSUME LeaseCoversTimeout, TypeOK, Recorded, ClaimHeld, [Next]_vars, ~ Accepts,
         NEW w \in Workers, FinishOk(w)
  PROVE  Delivery!Next
<1> DEFINE k == exec[w].key
<1>0. /\ k \in Keys /\ Held(events[k], w, exec[w].ran) /\ events \in [Keys -> OutboxRows]
  BY HeldIsFresh DEF FinishOk, Holding, Running, TypeOK
<1>1. /\ events' = [events EXCEPT ![k] = Finished(@, w, TRUE)]
      /\ payload' = payload /\ video' = video
  BY DEF FinishOk, request
<1> HIDE DEF k
<1>2. Finished(events[k], w, TRUE).status = "consumed"
  BY <1>0 DEF Finished, Held, OutboxRows
<1>3. /\ k \in Published /\ Published' = Published
      /\ TickedOff' = TickedOff \cup {k}
  BY <1>0, <1>1, <1>2 DEF Published, TickedOff, Held
<1>4. Issued' = Issued /\ SettledEdits' = SettledEdits \cup {payload[k]} /\ payload[k] \in Issued
  BY <1>1, <1>3 DEF Issued, SettledEdits
<1>5. payload[k] \in Requests
  BY <1>3 DEF Recorded, DescribesAccepted, Published, TypeOK
<1>6. PICK r \in Requests : r = payload[k]
  BY <1>5
<1>7. Delivery!Settle(r)
  BY <1>1, <1>4, <1>6 DEF Delivery!Settle, Issued, SettledEdits
<1> QED
  BY <1>7 DEF Delivery!Next

(* Any other step renders an edit that is not settled, or nothing.         *)
LEMMA OtherImplements ==
  ASSUME LeaseCoversTimeout, TypeOK, Recorded, ClaimHeld, [Next]_vars, ~ Accepts,
         ~ \E w \in Workers : FinishOk(w)
  PROVE  Delivery!Next \/ UNCHANGED Delivery!deliveryVars
<1>1. payload' = payload /\ Published' = Published
  BY RequestFrame, EventFrame DEF request, Published
<1>2. TickedOff' = TickedOff
  BY TickedOffFrame DEF TickedOff
<1>3. Issued' = Issued /\ SettledEdits' = SettledEdits
  BY <1>1, <1>2 DEF Issued, SettledEdits
<1>4. ASSUME NEW w \in Workers, Upload(w) PROVE Delivery!Next
  <2> DEFINE k == exec[w].key
  <2>1. Holding(w) /\ video' = payload[k]
    BY <1>4 DEF Upload, Holding, Running
  <2>2. k \in Keys /\ events[k].status = "processing"
    BY <2>1, HeldIsFresh DEF Held
  <2> HIDE DEF k
  <2>3. k \in Published /\ k \notin TickedOff
    BY <2>2 DEF Published, TickedOff
  <2>4. payload[k] \in Issued
    BY <2>3 DEF Issued
  <2>5. payload[k] \notin SettledEdits
    <3>1. TickedOff \subseteq Published
      BY DEF TickedOff, Published
    <3> QED
      BY <2>3, <3>1 DEF SettledEdits, Recorded, OneEventEach
  <2>6. payload[k] \in Requests
    BY <2>3 DEF Recorded, DescribesAccepted, Published, TypeOK
  <2>7. Delivery!Render(payload[k])
    BY <1>3, <2>1, <2>4, <2>5 DEF Delivery!Render, Issued, SettledEdits
  <2> QED
    BY <2>6, <2>7 DEF Delivery!Next
<1>5. CASE UNCHANGED video
  BY <1>3, <1>5 DEF Delivery!deliveryVars, Issued, SettledEdits
<1> QED
  BY <1>4, <1>5
  DEF Next, Decide, Accepts, ReviewRead, ReviewCommit, Deliver, DispatchOk, DispatchError,
      DispatchCrash, RetryDue, Work, Proceed, Pop, ClaimGranted, ClaimConsumed, ClaimBusy,
      StartRun, Complete, RunRefuses, RunRaises, FinishOk, Return, FinishFail, Callback,
      Crash, Abandon, OperatorSave, RecoverStale, ReaperFind, ReaperRevert, Tick, vars

(* As long as RQ kills an edit before its lease runs out, the outbox       *)
(* delivers every accepted edit at least once and never again after it has *)
(* ticked it off.                                                          *)
THEOREM OutboxImplementsDeliveries ==
  ASSUME LeaseCoversTimeout
  PROVE  Spec => ImplementsDeliveries
<1>1. Init => Delivery!Init
  BY DEF Init, Delivery!Init, Published, TickedOff, AbsentEvent
<1>2. TypeOK /\ Recorded /\ ClaimHeld /\ [Next]_vars => [Delivery!Next]_(Delivery!deliveryVars)
  BY AcceptImplements, FinishImplements, OtherImplements
<1> QED
  BY <1>1, <1>2, InitType, NextType, RecordedInit, RecordedNext, ClaimInit, ClaimNext, PTL
  DEF Spec, ImplementsDeliveries, Delivery!Spec

=============================================================================
