---------------------- MODULE TranscriptionOutboxProofs ----------------------
(***************************************************************************)
(* Proofs about TranscriptionOutbox for any number of attempts and         *)
(* workers, any timeouts, any number of lyric revisions and of faults.     *)
(***************************************************************************)
EXTENDS TranscriptionOutbox, TLAPS

-----------------------------------------------------------------------------
(* The song's row                                                          *)

Attempts == Events \cup {NoAttempt}

Updates ==
  [status : SongStatuses \cup {Unset}, error : {"none", "transient", "deadline", Unset},
   files : {Unset}, segments : {Unset}, progress : {"given", Unset}]

(* update_job turns a well-formed row into a well-formed row; it may only  *)
(* change the status, the error and the heartbeat, does nothing for an     *)
(* attempt the row does not name, and never fails a finished render.       *)
LEMMA UpdateJobRow ==
  ASSUME NEW row \in SongRows, NEW attempt \in Attempts, NEW upd \in Updates
  PROVE  LET new == UpdateJob(row, attempt, upd)
         IN  /\ new \in SongRows
             /\ new.status \in {row.status, upd.status}
             /\ new.active = row.active /\ new.revision = row.revision
             /\ new.segments = row.segments /\ new.batch = row.batch
             /\ new.document = row.document /\ new.evidence = row.evidence
             /\ new.previous = row.previous /\ new.rendering = row.rendering
             /\ attempt # NoAttempt /\ attempt # row.active => new = row
             /\ row.status \in SUCCESS_TERMINAL_STATUSES
                  => new.status \notin FAILURE_TERMINAL_STATUSES
<1> DEFINE u1 == TerminalGuard(row, upd)
           u2 == SuccessGuard(row, u1, upd.status)
           u3 == SegmentsGuard(row, u2)
<1>0. BeatCap \in Nat
  BY TranscriptionAssumption
<1>1. u1 \in Updates /\ u1.status \in {Unset, upd.status}
  BY DEF TerminalGuard, Updates
<1>2. /\ u2 \in Updates /\ u2.status \in {Unset, upd.status}
      /\ row.status \in SUCCESS_TERMINAL_STATUSES =>
           u2.status = Unset \/ u2.status \notin FAILURE_TERMINAL_STATUSES
  BY <1>1 DEF SuccessGuard, Updates
<1>3. u3 \in Updates /\ u3.status = u2.status
  BY <1>2 DEF SegmentsGuard, Updates
<1> DEFINE new == ApplyUpdate(row, u3)
<1>4. /\ Given(u3.status, row.status) \in SongStatuses
      /\ Given(u3.status, row.status) \in {row.status, upd.status}
      /\ Given(u3.error, row.error) \in {"none", "transient", "deadline"}
      /\ Given(u3.files, row.files) = row.files
      /\ Given(u3.segments, row.segments) = row.segments
      /\ (IF u3.progress = Unset THEN row.beat ELSE 0) \in 0..BeatCap
  <2>1. Given(u3.status, row.status) \in SongStatuses
    BY <1>3 DEF Given, Updates, SongRows
  <2>2. Given(u3.status, row.status) \in {row.status, upd.status}
    BY <1>2, <1>3 DEF Given
  <2>3. Given(u3.error, row.error) \in {"none", "transient", "deadline"}
    BY <1>3 DEF Given, Updates, SongRows, Unset
  <2>4. Given(u3.files, row.files) = row.files /\ Given(u3.segments, row.segments) = row.segments
    BY <1>3 DEF Given, Updates
  <2>5. (IF u3.progress = Unset THEN row.beat ELSE 0) \in 0..BeatCap
    BY <1>0 DEF SongRows
  <2> QED
    BY <2>1, <2>2, <2>3, <2>4, <2>5
<1>5. new \in SongRows
  BY <1>4 DEF ApplyUpdate, SongRows
<1>6. /\ new.status = Given(u3.status, row.status)
      /\ new.active = row.active /\ new.revision = row.revision
      /\ new.segments = row.segments /\ new.batch = row.batch
      /\ new.document = row.document /\ new.evidence = row.evidence
      /\ new.previous = row.previous /\ new.rendering = row.rendering
  BY <1>4 DEF ApplyUpdate, SongRows
<1>7. row.status \in SUCCESS_TERMINAL_STATUSES => new.status \notin FAILURE_TERMINAL_STATUSES
  <2>1. \A s \in SUCCESS_TERMINAL_STATUSES : s \notin FAILURE_TERMINAL_STATUSES
    BY DEF FAILURE_TERMINAL_STATUSES
  <2> QED
    BY <1>2, <1>3, <1>6, <2>1 DEF Given
<1>8. UpdateJob(row, attempt, upd) = IF FenceRejects(row, attempt) THEN row ELSE new
  BY DEF UpdateJob
<1>9. row.status \in SUCCESS_TERMINAL_STATUSES => row.status \notin FAILURE_TERMINAL_STATUSES
  BY DEF FAILURE_TERMINAL_STATUSES
<1> HIDE DEF new, u1, u2, u3
<1> QED
  BY <1>4, <1>5, <1>6, <1>7, <1>8, <1>9 DEF FenceRejects

(* The calls a worker, its failure hook or RQ makes.                       *)
Calls ==
  {upd \in Updates :
     upd.status \in {Unset, "separating", "transcribing", "separation_ready",
                     "transcription_failed"}}

LEMMA CallTypes ==
  /\ \A s \in {"separating", "transcribing", "separation_ready"} :
       [NoUpdate EXCEPT !.status = s, !.progress = "given"] \in Calls
  /\ [NoUpdate EXCEPT !.progress = "given"] \in Calls
  /\ \A c \in {"transient", "deadline"} :
       [NoUpdate EXCEPT !.status = "transcription_failed", !.error = c] \in Calls
  /\ \A s \in {"pending_review", "error"} :
       [NoUpdate EXCEPT !.status = s] \in Updates
BY DEF NoUpdate, Calls, Updates, SongStatuses, Statuses, TERMINAL_STATUSES, ACTIVE_STATUSES

(* The result of an attempt on the row.                                    *)
LEMMA ResultRow ==
  ASSUME NEW row \in SongRows, NEW e \in Events
  PROVE  LET new == Result(row, e)
         IN  /\ new \in SongRows
             /\ new.status \in {row.status, "transcribed_pending"}
             /\ new.active = row.active /\ new.revision = row.revision
             /\ new.batch = row.batch /\ new.previous = row.previous
             /\ new.rendering = row.rendering
             /\ row.revision > 0 => new = row
             /\ row.revision = 0 => new.evidence = e /\ new.segments \in {row.segments, e}
<1>1. "transcribed_pending" \in SongStatuses
  BY DEF SongStatuses
<1>2. CASE row.revision > 0
  BY <1>2 DEF Result, SongRows
<1>3. CASE row.revision = 0
  <2>1. (IF row.document THEN row.segments ELSE e) \in Events \cup {Nothing, Operator}
    BY DEF SongRows
  <2>2. Result(row, e) = [row EXCEPT !.status = "transcribed_pending", !.document = TRUE,
                                     !.segments = IF row.document THEN @ ELSE e,
                                     !.evidence = e]
    BY <1>3 DEF Result
  <2>3. Result(row, e) \in SongRows
    BY <1>1, <2>1, <2>2 DEF SongRows
  <2>4. LET new == Result(row, e)
        IN  /\ new.status = "transcribed_pending" /\ new.evidence = e
            /\ new.active = row.active /\ new.revision = row.revision
            /\ new.batch = row.batch /\ new.previous = row.previous
            /\ new.rendering = row.rendering
            /\ new.segments \in {row.segments, e}
    BY <2>2 DEF SongRows
  <2> QED
    BY <1>3, <2>3, <2>4
<1> QED
  BY <1>2, <1>3 DEF SongRows

-----------------------------------------------------------------------------
(* Types                                                                   *)

(* The operators of the outbox keep a row a row.                           *)
LEMMA OutboxRowTypes ==
  /\ AbsentEvent \in OutboxRows /\ NewEvent \in OutboxRows
  /\ \A ev \in OutboxRows :
       /\ PublishSucceeded(ev) \in OutboxRows
       /\ PublishFailed(ev, TRUE) \in OutboxRows
       /\ StaleRecovered(ev) \in OutboxRows
       /\ Aged(ev) \in OutboxRows
       /\ \A w \in Workers : Claimed(ev, w) \in OutboxRows
       /\ \A w \in Workers : \A b \in BOOLEAN : Finished(ev, w, b) \in OutboxRows
<1>1. /\ StaleAge \in Nat /\ MaxAttempts \in Nat
      /\ 0 \in 0..(StaleAge + 1)
  BY LeaseAssumption
<1>2. AbsentEvent \in OutboxRows /\ NewEvent \in OutboxRows
  BY <1>1 DEF AbsentEvent, NewEvent, OutboxRows, EventStatuses
<1>3. ASSUME NEW ev \in OutboxRows
      PROVE  /\ PublishSucceeded(ev) \in OutboxRows
             /\ PublishFailed(ev, TRUE) \in OutboxRows
             /\ StaleRecovered(ev) \in OutboxRows
             /\ Aged(ev) \in OutboxRows
             /\ \A w \in Workers : Claimed(ev, w) \in OutboxRows
             /\ \A w \in Workers : \A b \in BOOLEAN : Finished(ev, w, b) \in OutboxRows
  <2>1. Attempted(ev.attempts) \in 0..MaxAttempts
    BY <1>1 DEF Attempted, OutboxRows
  <2>2. PublishSucceeded(ev) \in OutboxRows /\ PublishFailed(ev, TRUE) \in OutboxRows
    BY <2>1 DEF PublishSucceeded, PublishFailed, OutboxRows, EventStatuses
  <2>3. /\ ev.attempts \in 0..MaxAttempts
        /\ {"pending", "consumed", "processing"} \subseteq EventStatuses
    BY DEF OutboxRows, EventStatuses
  <2>4. StaleRecovered(ev) \in OutboxRows
    BY <1>1, <2>3 DEF StaleRecovered, OutboxRows
  <2>5. Aged(ev) \in OutboxRows
    BY <1>1 DEF Aged, OutboxRows
  <2>6. \A w \in Workers : Claimed(ev, w) \in OutboxRows
    BY <1>1, <2>1, <2>3 DEF Claimed, OutboxRows
  <2>7. \A w \in Workers : \A b \in BOOLEAN : Finished(ev, w, b) \in OutboxRows
    BY <1>1, <2>3 DEF Finished, OutboxRows
  <2> QED
    BY <2>2, <2>4, <2>5, <2>6, <2>7
<1> QED
  BY <1>2, <1>3

(* What RQ and the publisher do to a queue entry keeps it one.             *)
LEMMA RqRowTypes ==
  /\ NoRqJob \in RqRows
  /\ \A j \in RqRows :
       /\ RqRoom(j) => RqEnqueued(j) \in RqRows
       /\ j.entries > 0 => RqPopped(j) \in RqRows
       /\ RqSucceeded(j) \in RqRows
       /\ RqFailed(j) \in RqRows
       /\ RqRoom(j) => RqRetryDue(j) \in RqRows
<1>1. RetryMax \in Nat /\ MaxEntries \in Nat \ {0}
  BY TranscriptionAssumption
<1>2. NoRqJob \in RqRows
  BY <1>1 DEF NoRqJob, RqRows, RqStatuses
<1>3. ASSUME NEW j \in RqRows
      PROVE  /\ RqRoom(j) => RqEnqueued(j) \in RqRows
             /\ j.entries > 0 => RqPopped(j) \in RqRows
             /\ RqSucceeded(j) \in RqRows
             /\ RqFailed(j) \in RqRows
             /\ RqRoom(j) => RqRetryDue(j) \in RqRows
  <2>1. /\ j.entries \in 0..MaxEntries /\ j.retries \in 0..RetryMax
        /\ j.status \in RqStatuses /\ j.scheduled \in BOOLEAN
        /\ {"queued", "started", "finished", "scheduled", "failed"} \subseteq RqStatuses
    BY DEF RqRows, RqStatuses
  <2>2. RqRoom(j) => j.entries + 1 \in 0..MaxEntries
    BY <1>1, <2>1 DEF RqRoom
  <2>3. j.entries > 0 => j.entries - 1 \in 0..MaxEntries
    BY <1>1, <2>1
  <2>4. j.retries > 0 => j.retries - 1 \in 0..RetryMax
    BY <1>1, <2>1
  <2>5. RetryMax \in 0..RetryMax
    BY <1>1
  <2>6. RqRoom(j) => RqEnqueued(j) \in RqRows
    BY <2>1, <2>2, <2>5 DEF RqEnqueued, RqRows
  <2>7. j.entries > 0 => RqPopped(j) \in RqRows
    BY <2>1, <2>3 DEF RqPopped, RqRows
  <2>8. RqSucceeded(j) \in RqRows
    BY <2>1 DEF RqSucceeded, RqRows
  <2>9. RqFailed(j) \in RqRows
    BY <2>1, <2>4 DEF RqFailed, RqRows
  <2>10. RqRoom(j) => RqRetryDue(j) \in RqRows
    BY <2>1, <2>2 DEF RqRetryDue, RqRows
  <2> QED
    BY <2>6, <2>7, <2>8, <2>9, <2>10
<1> QED
  BY <1>2, <1>3
(* A discard remembers what was discarded.                                 *)
Remembers == job.status = "discarded" => job.previous \in Discardable

(* A worker, its failure hook or RQ writes through update_job, or persists *)
(* a result, or leaves the row alone.                                      *)
LEMMA WorkWrites ==
  ASSUME TypeOK, NEW w \in Workers, Work(w)
  PROVE  /\ UNCHANGED <<stage, reaper>> /\ exec[w].event \in Attempts
         /\ \/ UNCHANGED job
            \/ Persist(w)
            \/ \E upd \in Calls :
                 /\ WorkerUpdate(w, upd) /\ exec[w].pc # "idle"
                 /\ upd.status \in SeparationStatuses => StageOf(w) = "separation"
                 /\ upd.status = "transcription_failed" => exec'[w] # exec[w]
<1>0. exec \in [Workers -> ExecRows] /\ exec[w].event \in Attempts
  BY DEF TypeOK, ExecRows, Attempts
<1>1. \A pc \in WorkerStates : exec[w].pc # pc /\ Goto(w, pc) => exec'[w] # exec[w]
  BY <1>0 DEF Goto, ExecRows
<1>2. exec[w].pc # "idle" /\ Release(w) => exec'[w] # exec[w]
  BY <1>0 DEF Release, IdleWorker, ExecRows
<1>3. \A c \in {"transient", "deadline"} :
        exec[w].pc # "idle" /\ exec'[w] # exec[w] /\ Fail(w, c) =>
          \E upd \in Calls :
            /\ WorkerUpdate(w, upd) /\ exec[w].pc # "idle"
            /\ upd.status \in SeparationStatuses => StageOf(w) = "separation"
            /\ upd.status = "transcription_failed" => exec'[w] # exec[w]
  BY CallTypes DEF Fail, NoUpdate, SeparationStatuses
<1>4. UNCHANGED <<stage, reaper>>
  BY DEF Work, Proceed, Pop, ClaimGranted, ClaimConsumed, ClaimBusy, DiscardRetry, StartRun,
         Progress, SeparationDone, Persist, PersistRefused, FailRefused, RunFails, RunRaises,
         FinishOk, Return, FinishFail, Callback, Crash, Abandon
<1>5. CASE StartRun(w)
  BY <1>0, <1>4, <1>5, CallTypes DEF StartRun, NoUpdate, SeparationStatuses
<1>6. CASE Progress(w)
  BY <1>0, <1>4, <1>6, CallTypes DEF Progress, NoUpdate, SeparationStatuses, Unset
<1>7. CASE SeparationDone(w)
  BY <1>0, <1>4, <1>7, CallTypes DEF SeparationDone, NoUpdate, SeparationStatuses
<1>8. CASE FailRefused(w)
  BY <1>0, <1>1, <1>3, <1>4, <1>8 DEF FailRefused, WorkerStates
<1>9. CASE RunFails(w)
  BY <1>0, <1>1, <1>3, <1>4, <1>9 DEF RunFails, WorkerStates
<1>10. CASE Callback(w)
  BY <1>0, <1>2, <1>3, <1>4, <1>10 DEF Callback
<1>11. CASE Abandon(w)
  BY <1>0, <1>2, <1>3, <1>4, <1>11 DEF Abandon
<1>12. CASE Persist(w)
  BY <1>0, <1>4, <1>12
<1> QED
  BY <1>0, <1>4, <1>5, <1>6, <1>7, <1>8, <1>9, <1>10, <1>11, <1>12
  DEF Work, Proceed, Pop, ClaimGranted, ClaimConsumed, ClaimBusy, DiscardRetry,
      PersistRefused, RunRaises, FinishOk, Return, FinishFail, Crash

(* What a new attempt writes to the row.                                   *)
LEMMA IssueRow ==
  ASSUME TypeOK, NEW e \in Events, NEW s \in {"separation", "full"},
         NEW status \in SongStatuses, Issue(e, s, status)
  PROVE  /\ job' \in SongRows
         /\ job'.status = status /\ job'.active = e /\ stage'[e] = s
         /\ job'.revision = job.revision /\ job'.segments = job.segments
         /\ job'.batch = job.batch /\ job'.evidence = job.evidence
         /\ job'.previous = job.previous /\ job'.rendering = job.rendering
<1>0. job \in SongRows /\ stage \in [Events -> {"none", "separation", "full"}] /\ BeatCap \in Nat
  BY TranscriptionAssumption DEF TypeOK
<1>1. 0 \in 0..BeatCap
  BY <1>0
<1> QED
  BY <1>0, <1>1 DEF Issue, SongRows

(* Every new attempt is one of these.                                      *)
LEMMA AskIssues ==
  ASSUME NEW e \in Events, Ask(e)
  PROVE  \E s \in {"separation", "full"}, status \in SongStatuses :
           /\ Issue(e, s, status)
           /\ <<s, status>> \in {<<"separation", "separation_queued">>,
                                 <<"full", "transcribing_queued">>}
BY DEF Ask, Transcribe, CreateStage, QueueFull, RetryItem, SongStatuses, Statuses,
       ACTIVE_STATUSES

(* A new status leaves the rest of the row alone.                          *)
LEMMA StatusRow ==
  ASSUME NEW row \in SongRows, NEW s \in SongStatuses
  PROVE  LET new == [row EXCEPT !.status = s]
         IN  /\ new \in SongRows /\ new.status = s
             /\ new.active = row.active /\ new.batch = row.batch
             /\ new.evidence = row.evidence /\ new.revision = row.revision
             /\ new.revision >= row.revision
             /\ new.segments = row.segments /\ new.previous = row.previous
             /\ new.rendering = row.rendering
<1>1. MaxRevision \in Nat
  BY TranscriptionAssumption
<1> QED
  BY <1>1 DEF SongRows

(* What people and the end of a render write to the row.                   *)
LEMMA PersonRow ==
  ASSUME TypeOK, Remembers, Person \/ QueueFullFails \/ RenderEnds \/ ReaperReap \/ Tick
  PROVE  /\ job' \in SongRows
         /\ job'.active = job.active /\ job'.batch = job.batch
         /\ job'.evidence = job.evidence
         /\ job'.revision >= job.revision
         /\ job'.segments = job.segments \/ OperatorSave
         /\ job'.status \in SeparationStatuses => job'.status = job.status
<1>0. /\ job \in SongRows /\ MaxRevision \in Nat /\ BeatCap \in Nat
      /\ ReviewStatuses \cup Discardable
           \cup {"discarded", "queued", "transcription_failed"} \subseteq SongStatuses
      /\ (ReviewStatuses \cup Discardable
           \cup {"discarded", "queued", "transcription_failed"}) \cap SeparationStatuses = {}
  BY TranscriptionAssumption
     DEF TypeOK, ReviewStatuses, Discardable, SongStatuses, SeparationStatuses, Statuses,
         TERMINAL_STATUSES, ACTIVE_STATUSES
<1>1. CASE RetryRender
  <2>1. PICK s \in ReviewStatuses : job' = [job EXCEPT !.status = s]
    BY <1>1 DEF RetryRender
  <2> QED
    BY <1>0, <2>1, StatusRow
<1>2. CASE Discard
  <2>1. job.status \in Discardable
        /\ job' = [job EXCEPT !.status = "discarded", !.previous = job.status]
    BY <1>2 DEF Discard
  <2>2. job' \in SongRows
    BY <1>0, <2>1 DEF SongRows
  <2>3. /\ job'.status = "discarded" /\ job'.active = job.active /\ job'.batch = job.batch
        /\ job'.evidence = job.evidence /\ job'.revision = job.revision
        /\ job'.segments = job.segments
    BY <1>0, <2>1 DEF SongRows
  <2> QED
    BY <1>0, <2>2, <2>3 DEF SongRows
<1>3. CASE Restore
  <2>1. job.previous \in Discardable
        /\ job' = [job EXCEPT !.status = job.previous, !.previous = Unset]
    BY <1>3 DEF Restore, Remembers
  <2>2. job' \in SongRows
    BY <1>0, <2>1 DEF SongRows
  <2>3. /\ job'.status = job.previous /\ job'.active = job.active /\ job'.batch = job.batch
        /\ job'.evidence = job.evidence /\ job'.revision = job.revision
        /\ job'.segments = job.segments
    BY <1>0, <2>1 DEF SongRows
  <2> QED
    BY <1>0, <2>1, <2>2, <2>3 DEF SongRows
<1>4. CASE OpenEditor
  <2>1. job' = [job EXCEPT !.document = TRUE]
    BY <1>4 DEF OpenEditor
  <2>2. job' \in SongRows
    BY <1>0, <2>1 DEF SongRows
  <2>3. /\ job'.status = job.status /\ job'.active = job.active /\ job'.batch = job.batch
        /\ job'.evidence = job.evidence /\ job'.revision = job.revision
        /\ job'.segments = job.segments
    BY <1>0, <2>1 DEF SongRows
  <2> QED
    BY <1>0, <2>2, <2>3 DEF SongRows
<1>5. CASE OperatorSave
  <2>1. job.revision + 1 \in 0..MaxRevision /\ job.revision \in Nat
    BY <1>0, <1>5 DEF OperatorSave, SongRows
  <2> DEFINE s == IF job.batch /\ job.status = "lyrics_approved" THEN "transcribed_pending"
                  ELSE job.status
  <2>2. s \in SongStatuses /\ (s \in SeparationStatuses => s = job.status)
    BY <1>0 DEF SongRows, ReviewStatuses
  <2>3. job' = [job EXCEPT !.segments = Operator, !.revision = job.revision + 1, !.status = s]
    BY <1>5 DEF OperatorSave
  <2> HIDE DEF s
  <2>4. job' \in SongRows
    BY <1>0, <2>1, <2>2, <2>3 DEF SongRows
  <2>5. /\ job'.status = s /\ job'.active = job.active /\ job'.batch = job.batch
        /\ job'.evidence = job.evidence /\ job'.revision = job.revision + 1
    BY <1>0, <2>3 DEF SongRows
  <2> QED
    BY <1>5, <2>1, <2>2, <2>4, <2>5
<1>6. CASE CampaignApprove
  BY <1>0, <1>6, StatusRow DEF CampaignApprove, ReviewStatuses
<1>7. CASE Generate
  <2>1. job' = [job EXCEPT !.status = "queued", !.rendering = TRUE]
    BY <1>7 DEF Generate
  <2>2. job' \in SongRows
    BY <1>0, <2>1 DEF SongRows
  <2>3. /\ job'.status = "queued" /\ job'.active = job.active /\ job'.batch = job.batch
        /\ job'.evidence = job.evidence /\ job'.revision = job.revision
        /\ job'.segments = job.segments
    BY <1>0, <2>1 DEF SongRows
  <2> QED
    BY <1>0, <2>2, <2>3 DEF SongRows
<1>8. CASE QueueFullFails
  BY <1>0, <1>8, StatusRow DEF QueueFullFails
<1>9. CASE RenderEnds
  <2>1. PICK s \in {"pending_review", "error"} :
          job' = [UpdateJob(job, NoAttempt, [NoUpdate EXCEPT !.status = s])
                    EXCEPT !.rendering = FALSE]
    BY <1>9 DEF RenderEnds
  <2> DEFINE upd == [NoUpdate EXCEPT !.status = s]
             new == UpdateJob(job, NoAttempt, upd)
  <2>2. upd \in Updates /\ upd.status \notin SeparationStatuses
    BY CallTypes DEF NoUpdate, SeparationStatuses
  <2>3. /\ new \in SongRows /\ new.status \in {job.status, upd.status}
        /\ new.active = job.active /\ new.revision = job.revision
        /\ new.segments = job.segments /\ new.batch = job.batch
        /\ new.evidence = job.evidence
    <3>1. NoAttempt \in Attempts
      BY DEF Attempts
    <3> QED
      BY <1>0, <2>2, <3>1, UpdateJobRow
  <2>4. job' = [new EXCEPT !.rendering = FALSE]
    BY <2>1
  <2> HIDE DEF new, upd
  <2>5. job' \in SongRows
    BY <2>3, <2>4 DEF SongRows
  <2>6. /\ job'.status = new.status /\ job'.active = new.active /\ job'.batch = new.batch
        /\ job'.evidence = new.evidence /\ job'.revision = new.revision
        /\ job'.segments = new.segments
    BY <2>3, <2>4 DEF SongRows
  <2> QED
    BY <1>0, <2>2, <2>3, <2>5, <2>6 DEF SongRows
<1>10. CASE ReaperReap
  <2>1. job' \in {job, [job EXCEPT !.status = "transcription_failed"]}
    BY <1>10 DEF ReaperReap
  <2> QED
    BY <1>0, <2>1, StatusRow DEF SongRows
<1>11. CASE Tick
  <2>1. job' = AgedRow(job)
    BY <1>11 DEF Tick
  <2>2. (IF job.beat < BeatCap THEN job.beat + 1 ELSE job.beat) \in 0..BeatCap
    BY <1>0 DEF SongRows
  <2> QED
    BY <1>0, <2>1, <2>2 DEF AgedRow, SongRows
<1> QED
  BY <1>1, <1>2, <1>3, <1>4, <1>5, <1>6, <1>7, <1>8, <1>9, <1>10, <1>11 DEF Person

(* A write of update_job by a worker or in its name.                       *)
LEMMA WorkerRow ==
  ASSUME TypeOK, NEW w \in Workers, exec[w].event \in Attempts,
         NEW upd \in Calls, WorkerUpdate(w, upd)
  PROVE  /\ job' \in SongRows
         /\ job'.status \in {job.status, upd.status}
         /\ job'.active = job.active /\ job'.revision = job.revision
         /\ job'.segments = job.segments /\ job'.batch = job.batch
         /\ job'.evidence = job.evidence /\ job'.previous = job.previous
         /\ job'.rendering = job.rendering
         /\ exec[w].event \in Events /\ exec[w].event # job.active => job' = job
         /\ job.status \in SUCCESS_TERMINAL_STATUSES
              => job'.status \notin FAILURE_TERMINAL_STATUSES
<1>1. job \in SongRows /\ upd \in Updates /\ NoAttempt \notin Events
  BY TranscriptionAssumption DEF TypeOK, Calls
<1> QED
  BY <1>1, UpdateJobRow DEF WorkerUpdate

(* The result of a worker's attempt.                                       *)
LEMMA PersistRow ==
  ASSUME TypeOK, NEW w \in Workers, exec[w].event \in Events, Persist(w)
  PROVE  /\ job' \in SongRows
         /\ job'.status \in {job.status, "transcribed_pending"}
         /\ job'.active = job.active /\ job'.revision = job.revision
         /\ job'.batch = job.batch /\ job'.previous = job.previous
         /\ job'.rendering = job.rendering
         /\ job.revision > 0 => job' = job
         /\ job.revision = 0 =>
              /\ job.evidence = NoAttempt /\ job'.evidence = exec[w].event
              /\ job'.segments \in {job.segments, exec[w].event}
BY ResultRow DEF Persist, AlreadyFrozen, TypeOK

-----------------------------------------------------------------------------
(* What the outbox remembers                                               *)

(* What is queued or assigned to a worker belongs to an event.             *)
QueuedIsCreated ==
  \A e \in Events : rq[e].entries > 0 \/ rq[e].scheduled => e \in Created

Assigned == \A w \in Workers : exec[w].pc # "idle" => exec[w].event \in Created

Typed == TypeOK /\ Remembers /\ QueuedIsCreated /\ Assigned

(* The states the system starts in are of the types.                       *)
LEMMA TypedInit == Init => Typed
<1> SUFFICES ASSUME Init PROVE Typed
  OBVIOUS
<1>0. /\ 0 \in 0..MaxFaults /\ 0 \in 0..JobTimeout /\ 0 \in 0..MaxRevision /\ 0 \in 0..BeatCap
  BY TranscriptionAssumption
<1>1. job \in SongRows /\ Remembers
  <2>1. PICK batch \in BOOLEAN :
          job = [status |-> IF batch THEN "unlinked" ELSE "awaiting_upload",
                 error |-> "none", files |-> NoAttempt, segments |-> Nothing,
                 revision |-> 0, active |-> NoAttempt, beat |-> 0,
                 batch |-> batch, document |-> FALSE, evidence |-> NoAttempt,
                 previous |-> Unset, rendering |-> FALSE]
    BY DEF Init
  <2>2. (IF batch THEN "unlinked" ELSE "awaiting_upload") \in SongStatuses \ {"discarded"}
    BY DEF SongStatuses
  <2> QED
    BY <1>0, <2>1, <2>2 DEF SongRows, Remembers
<1>2. events \in [Events -> OutboxRows] /\ rq \in [Events -> RqRows]
  BY OutboxRowTypes, RqRowTypes DEF Init
<1>3. exec \in [Workers -> ExecRows] /\ reaper \in ReaperRows
  BY <1>0 DEF Init, IdleWorker, IdleReaper, ExecRows, ReaperRows, WorkerStates
<1>4. stage \in [Events -> {"none", "separation", "full"}] /\ faults \in 0..MaxFaults
  BY <1>0 DEF Init
<1>5. QueuedIsCreated /\ Assigned
  BY DEF Init, QueuedIsCreated, Assigned, NoRqJob, IdleWorker
<1> QED
  BY <1>1, <1>2, <1>3, <1>4, <1>5 DEF Typed, TypeOK

(* Every step keeps the types.                                              *)
LEMMA NextType == Typed /\ [Next]_vars => TypeOK'
<1> SUFFICES ASSUME Typed, [Next]_vars PROVE TypeOK'
  OBVIOUS
<1> USE DEF TypeOK
<1>0. /\ MaxFaults \in Nat /\ JobTimeout \in Nat
      /\ TypeOK /\ Remembers /\ Assigned
  BY TranscriptionAssumption DEF Typed
<1>1. ASSUME NEW e \in Events, Deliver(e) PROVE TypeOK'
  <2>1. CASE DispatchOk(e)
    BY <1>0, <2>1, OutboxRowTypes, RqRowTypes DEF DispatchOk
  <2>2. CASE DispatchError(e)
    <3>1. rq' \in [Events -> RqRows]
      BY <1>0, <2>2, RqRowTypes DEF DispatchError
    <3>2. events' \in [Events -> OutboxRows]
      BY <1>0, <2>2, OutboxRowTypes DEF DispatchError
    <3>3. faults' \in 0..MaxFaults
      BY <1>0, <2>2 DEF DispatchError, Fault
    <3> QED
      BY <1>0, <2>2, <3>1, <3>2, <3>3 DEF DispatchError
  <2>3. CASE DispatchCrash(e)
    BY <1>0, <2>3, RqRowTypes DEF DispatchCrash, Fault
  <2>4. CASE RetryDue(e)
    BY <1>0, <2>4, RqRowTypes DEF RetryDue
  <2> QED
    BY <1>1, <2>1, <2>2, <2>3, <2>4 DEF Deliver
<1>2. ASSUME NEW w \in Workers, Work(w) PROVE TypeOK'
  <2>a. /\ IdleWorker \in ExecRows
        /\ \A pc \in WorkerStates : [exec[w] EXCEPT !.pc = pc] \in ExecRows
    BY <1>0 DEF IdleWorker, ExecRows, WorkerStates
  <2>b. ASSUME NEW pc \in WorkerStates, Goto(w, pc) PROVE exec' \in [Workers -> ExecRows]
    BY <1>0, <2>a, <2>b DEF Goto
  <2>c. ASSUME Release(w) PROVE exec' \in [Workers -> ExecRows]
    BY <1>0, <2>a, <2>c DEF Release
  <2>d. {"start", "run", "refused", "ok", "returned", "failed", "callback"}
             \subseteq WorkerStates
    BY DEF WorkerStates
  <2>j. /\ job' \in SongRows /\ UNCHANGED <<stage, reaper>>
    <3>1. exec[w].pc # "idle" => exec[w].event \in Events
      BY <1>0 DEF Assigned, Created
    <3>2. Persist(w) => exec[w].event \in Events
      BY <3>1 DEF Persist
    <3> QED
      BY <1>0, <1>2, <3>2, WorkWrites, WorkerRow, PersistRow
  <2>f. ASSUME Fault PROVE faults' \in 0..MaxFaults
    BY <1>0, <2>f DEF Fault
  <2>1. ASSUME NEW e \in Events, Pop(w, e) PROVE TypeOK'
    <3>1. rq' \in [Events -> RqRows]
      BY <1>0, <2>1, RqRowTypes DEF Pop
    <3>2. exec' \in [Workers -> ExecRows]
      BY <1>0, <2>1 DEF Pop, ExecRows, WorkerStates
    <3> QED
      BY <1>0, <2>1, <3>1, <3>2 DEF Pop
  <2>2. CASE ClaimGranted(w)
    BY <1>0, <2>2, <2>b, <2>d, OutboxRowTypes DEF ClaimGranted
  <2>3. CASE ClaimConsumed(w)
    BY <1>0, <2>3, <2>c, RqRowTypes DEF ClaimConsumed
  <2>4. CASE ClaimBusy(w) \/ DiscardRetry(w) \/ SeparationDone(w) \/ Persist(w)
             \/ PersistRefused(w) \/ FailRefused(w)
    BY <1>0, <2>4, <2>b, <2>d, <2>j
       DEF ClaimBusy, DiscardRetry, SeparationDone, Persist, PersistRefused, FailRefused
  <2>5. CASE StartRun(w) \/ RunFails(w) \/ RunRaises(w)
    BY <1>0, <2>5, <2>b, <2>d, <2>f, <2>j DEF StartRun, RunFails, RunRaises
  <2>6. CASE Progress(w)
    BY <1>0, <2>6, <2>j DEF Progress
  <2>7. CASE FinishOk(w)
    BY <1>0, <2>7, <2>b, <2>d, OutboxRowTypes DEF FinishOk
  <2>8. CASE Return(w)
    BY <1>0, <2>8, <2>c, RqRowTypes DEF Return
  <2>9. CASE FinishFail(w)
    BY <1>0, <2>9, <2>b, <2>d, OutboxRowTypes DEF FinishFail
  <2>10. CASE Callback(w)
    BY <1>0, <2>10, <2>c, <2>f, <2>j, RqRowTypes DEF Callback
  <2>11. CASE Crash(w)
    <3>1. 0 \in 0..JobTimeout /\ "dead" \in WorkerStates
      BY <1>0 DEF WorkerStates
    <3>2. exec' \in [Workers -> ExecRows]
      BY <1>0, <2>11, <3>1 DEF Crash, ExecRows
    <3> QED
      BY <1>0, <2>11, <2>f, <3>2 DEF Crash
  <2>12. CASE Abandon(w)
    BY <1>0, <2>12, <2>c, <2>j, RqRowTypes DEF Abandon
  <2> QED
    BY <1>2, <2>1, <2>2, <2>3, <2>4, <2>5, <2>6, <2>7, <2>8, <2>9, <2>10, <2>11, <2>12
    DEF Work, Proceed
<1>3. ASSUME NEW e \in Events, Ask(e) PROVE TypeOK'
  <2>1. PICK s \in {"separation", "full"}, status \in SongStatuses : Issue(e, s, status)
    BY <1>3, AskIssues
  <2>2. job' \in SongRows
    BY <1>0, <2>1, IssueRow
  <2>3. events' \in [Events -> OutboxRows]
    BY <1>0, <2>1, OutboxRowTypes DEF Issue
  <2> QED
    BY <1>0, <2>1, <2>2, <2>3 DEF Issue
<1>4. CASE Person \/ RenderEnds
  BY <1>0, <1>4, PersonRow
     DEF Person, Rest, RetryRender, Discard, Restore, OpenEditor, OperatorSave,
         CampaignApprove, Generate, RenderEnds
<1>5. CASE QueueFullFails
  BY <1>0, <1>5, PersonRow DEF QueueFullFails, Fault
<1>6. CASE RecoverStale
  BY <1>0, <1>6, OutboxRowTypes DEF RecoverStale
<1>7. CASE ReaperFind
  BY <1>0, <1>7 DEF ReaperFind, Silent, SongRows, ReaperRows
<1>8. CASE ReaperReap
  <2>1. rq' \in [Events -> RqRows]
    BY <1>0, <1>8, RqRowTypes DEF ReaperReap, RqCancelled
  <2>2. reaper' \in ReaperRows
    BY <1>8 DEF ReaperReap, IdleReaper, ReaperRows
  <2> QED
    BY <1>0, <1>8, <2>1, <2>2, PersonRow DEF ReaperReap
<1>9. CASE Tick
  <2>1. events' \in [Events -> OutboxRows]
    BY <1>0, <1>9, OutboxRowTypes DEF Tick
  <2>2. exec' \in [Workers -> ExecRows]
    BY <1>0, <1>9 DEF Tick, ExecRows, Holding
  <2> QED
    BY <1>0, <1>9, <2>1, <2>2, PersonRow DEF Tick
<1>10. CASE UNCHANGED vars
  BY <1>0, <1>10 DEF vars
<1> QED
  BY <1>1, <1>2, <1>3, <1>4, <1>5, <1>6, <1>7, <1>8, <1>9, <1>10 DEF Next

(* The steps that change neither the row nor the stages.                   *)
LEMMA QuietSteps ==
  ASSUME (\E e \in Events : Deliver(e)) \/ RecoverStale \/ ReaperFind \/ UNCHANGED vars
  PROVE  UNCHANGED <<job, stage>>
BY DEF Deliver, DispatchOk, DispatchError, DispatchCrash, RetryDue, RecoverStale, ReaperFind,
       Silent, vars

(* Discards go on being remembered.                                        *)
LEMMA RemembersNext == Typed /\ [Next]_vars => Remembers'
<1> SUFFICES ASSUME Typed, [Next]_vars PROVE Remembers'
  OBVIOUS
<1> USE DEF Remembers
<1>0. TypeOK /\ Remembers /\ Assigned /\ job \in SongRows
  BY DEF Typed, TypeOK
<1>1. ASSUME NEW w \in Workers, Work(w) PROVE Remembers'
  <2>1. Persist(w) => exec[w].event \in Events
    BY <1>0 DEF Persist, Assigned, Created
  <2>2. \A upd \in Calls : upd.status # "discarded"
    BY DEF Calls, Unset
  <2> QED
    BY <1>0, <1>1, <2>1, <2>2, WorkWrites, WorkerRow, PersistRow
<1>2. ASSUME NEW e \in Events, Ask(e) PROVE Remembers'
  BY <1>0, <1>2, AskIssues, IssueRow
<1>3. CASE Discard
  BY <1>0, <1>3 DEF Discard, SongRows
<1>4. CASE Person /\ ~Discard
  <2>1. "discarded" \notin Discardable
    BY DEF Discardable
  <2> QED
    BY <1>0, <1>4, <2>1
    DEF Person, RetryRender, ReviewStatuses, Restore, OpenEditor, OperatorSave,
        CampaignApprove, Generate, SongRows
<1>5. CASE RenderEnds
  <2>1. PICK s \in {"pending_review", "error"} :
          job' = [UpdateJob(job, NoAttempt, [NoUpdate EXCEPT !.status = s])
                    EXCEPT !.rendering = FALSE]
    BY <1>5 DEF RenderEnds
  <2> DEFINE upd == [NoUpdate EXCEPT !.status = s]
             new == UpdateJob(job, NoAttempt, upd)
  <2>2. upd \in Updates /\ upd.status # "discarded"
    BY CallTypes DEF NoUpdate
  <2>3. new \in SongRows /\ new.status \in {job.status, upd.status} /\ new.previous = job.previous
    <3>1. NoAttempt \in Attempts
      BY DEF Attempts
    <3> QED
      BY <1>0, <2>2, <3>1, UpdateJobRow
  <2>4. job' = [new EXCEPT !.rendering = FALSE]
    BY <2>1
  <2> HIDE DEF new, upd
  <2> QED
    BY <1>0, <2>2, <2>3, <2>4 DEF SongRows
<1>6. CASE QueueFullFails \/ ReaperReap \/ Tick
  BY <1>0, <1>6 DEF QueueFullFails, ReaperReap, Tick, AgedRow, SongRows
<1> QED
  BY <1>0, <1>1, <1>2, <1>3, <1>4, <1>5, <1>6, QuietSteps DEF Next

(* The events a worker's step touches are those of its own claim.          *)
LEMMA WorkEvents ==
  ASSUME NEW w \in Workers, Work(w)
  PROVE  \/ UNCHANGED events
         \/ /\ ClaimGranted(w)
            /\ events' = [events EXCEPT ![exec[w].event] = Claimed(@, w)]
         \/ /\ FinishOk(w)
            /\ events' = [events EXCEPT ![exec[w].event] = Finished(@, w, TRUE)]
         \/ /\ FinishFail(w)
            /\ events' = [events EXCEPT ![exec[w].event] = Finished(@, w, FALSE)]
BY DEF Work, Proceed, Pop, ClaimGranted, ClaimConsumed, ClaimBusy, DiscardRetry, StartRun,
       Progress, SeparationDone, Persist, PersistRefused, FailRefused, RunFails, RunRaises,
       FinishOk, Return, FinishFail, Callback, Crash, Abandon

(* No operation on an event takes it back to not existing.                 *)
LEMMA NeverAbsentAgain ==
  ASSUME NEW ev \in OutboxRows, ev.status # "absent"
  PROVE  /\ PublishSucceeded(ev).status # "absent"
         /\ PublishFailed(ev, TRUE).status # "absent"
         /\ StaleRecovered(ev).status # "absent"
         /\ Aged(ev).status # "absent"
         /\ \A w \in Workers : Claimed(ev, w).status # "absent"
         /\ \A w \in Workers : \A b \in BOOLEAN : Finished(ev, w, b).status # "absent"
BY DEF PublishSucceeded, PublishFailed, StaleRecovered, Aged, Claimed, Finished, OutboxRows

(* An event appears when an attempt is asked for, and never disappears.    *)
LEMMA EventFrame ==
  ASSUME Typed, [Next]_vars, NEW e \in Events
  PROVE  /\ e \in Created => e \in Created'
         /\ e \notin Created /\ e \in Created' => Ask(e)
<1>0. events \in [Events -> OutboxRows] /\ events[e] \in OutboxRows
  BY DEF Typed, TypeOK
<1> SUFFICES ASSUME ~Ask(e)
             PROVE  events'[e].status # "absent" <=> events[e].status # "absent"
  <2>1. CASE Ask(e)
    <3>1. events[e].status = "absent" /\ events'[e] = NewEvent
      BY <1>0, <2>1 DEF Ask, Transcribe, CreateStage, QueueFull, RetryItem, Issue
    <3> QED
      BY <2>1, <3>1 DEF Created, NewEvent, AbsentEvent
  <2>2. CASE ~Ask(e)
    BY <2>2 DEF Created
  <2> QED
    BY <2>1, <2>2
<1>1. CASE UNCHANGED events
  BY <1>1
<1>2. ASSUME NEW d \in Events, Deliver(d)
      PROVE  events'[e].status # "absent" <=> events[e].status # "absent"
  BY <1>0, <1>2, NeverAbsentAgain
     DEF Deliver, DispatchOk, DispatchError, DispatchCrash, RetryDue, Dispatchable
<1>3. ASSUME NEW w \in Workers, Work(w)
      PROVE  events'[e].status # "absent" <=> events[e].status # "absent"
  <2>1. UNCHANGED events \/ events[exec[w].event].status # "absent"
    BY <1>3, WorkEvents
       DEF ClaimGranted, FinishOk, FinishFail, Typed, Assigned, Created
  <2>2. events[e].status # "absent" =>
          /\ Claimed(events[e], w).status # "absent"
          /\ Finished(events[e], w, TRUE).status # "absent"
          /\ Finished(events[e], w, FALSE).status # "absent"
    BY <1>0, NeverAbsentAgain
  <2>3. \/ UNCHANGED events
        \/ events' = [events EXCEPT ![exec[w].event] = Claimed(@, w)]
        \/ events' = [events EXCEPT ![exec[w].event] = Finished(@, w, TRUE)]
        \/ events' = [events EXCEPT ![exec[w].event] = Finished(@, w, FALSE)]
    BY <1>3, WorkEvents
  <2> QED
    BY <1>0, <2>1, <2>2, <2>3
<1>4. CASE RecoverStale
  BY <1>0, <1>4, NeverAbsentAgain DEF RecoverStale, Stale
<1>5. CASE Tick
  <2>1. events'[e] = Aged(events[e])
    BY <1>5 DEF Tick
  <2>2. events[e].status = "absent" => Aged(events[e]) = events[e]
    BY DEF Aged
  <2> QED
    BY <1>0, <2>1, <2>2, NeverAbsentAgain
<1>6. ASSUME NEW d \in Events, Ask(d)
      PROVE  events'[e].status # "absent" <=> events[e].status # "absent"
  <2>1. d # e
    BY <1>6
  <2> QED
    BY <1>0, <1>6, <2>1 DEF Ask, Transcribe, CreateStage, QueueFull, RetryItem, Issue
<1>7. CASE Person \/ QueueFullFails \/ RenderEnds \/ ReaperFind \/ ReaperReap
  BY <1>7 DEF Person, Rest, RetryRender, Discard, Restore, OpenEditor, OperatorSave,
              CampaignApprove, Generate, RenderEnds, QueueFullFails, ReaperFind, Silent,
              ReaperReap
<1> QED
  BY <1>1, <1>2, <1>3, <1>4, <1>5, <1>6, <1>7 DEF Next, vars

(* The steps of people, of the campaign and of the clock leave the queue   *)
(* alone.                                                                  *)
LEMMA QueueSteps ==
  ASSUME (\E e \in Events : Ask(e)) \/ Person \/ QueueFullFails \/ RenderEnds
         \/ RecoverStale \/ ReaperFind \/ Tick \/ UNCHANGED vars
  PROVE  UNCHANGED rq
BY DEF Ask, Transcribe, CreateStage, QueueFull, RetryItem, Issue, Person, Rest, RetryRender,
       Discard, Restore, OpenEditor, OperatorSave, CampaignApprove, Generate, RenderEnds,
       QueueFullFails, RecoverStale, ReaperFind, Silent, Tick, vars

(* Whatever is pending in RQ belongs to an event.                          *)
LEMMA QueueNext == Typed /\ [Next]_vars => QueuedIsCreated'
<1> SUFFICES ASSUME Typed, [Next]_vars, NEW e \in Events,
                    rq'[e].entries > 0 \/ rq'[e].scheduled
             PROVE  e \in Created
  BY EventFrame DEF QueuedIsCreated
<1>0. /\ rq \in [Events -> RqRows] /\ rq[e] \in RqRows
      /\ rq[e].entries > 0 \/ rq[e].scheduled => e \in Created
      /\ \A w \in Workers : exec[w].pc # "idle" => exec[w].event \in Created
  BY DEF Typed, TypeOK, QueuedIsCreated, Assigned
<1>1. CASE UNCHANGED rq
  BY <1>0, <1>1
<1>2. ASSUME NEW d \in Events, Deliver(d) PROVE e \in Created
  <2>1. CASE RetryDue(d)
    BY <1>0, <2>1 DEF RetryDue
  <2>2. CASE Dispatchable(d) /\ (e # d => rq'[e] = rq[e])
    BY <1>0, <2>2 DEF Dispatchable, Created
  <2> QED
    BY <1>0, <1>2, <2>1, <2>2 DEF Deliver, DispatchOk, DispatchError, DispatchCrash
<1>3. ASSUME NEW w \in Workers, Work(w) PROVE e \in Created
  <2>1. ASSUME NEW d \in Events, Pop(w, d) PROVE e \in Created
    BY <1>0, <2>1 DEF Pop, RqPopped, RqRows
  <2>2. CASE UNCHANGED rq \/ (exec[w].pc # "idle" /\ (e # exec[w].event => rq'[e] = rq[e]))
    BY <1>0, <2>2
  <2> QED
    BY <1>0, <1>3, <2>1, <2>2
    DEF Work, Proceed, ClaimGranted, ClaimConsumed, ClaimBusy, DiscardRetry, StartRun,
        Progress, SeparationDone, Persist, PersistRefused, FailRefused, RunFails, RunRaises,
        FinishOk, Return, FinishFail, Callback, Crash, Abandon
<1>4. CASE ReaperReap
  <2>1. rq'[e] \in {rq[e], NoRqJob}
    BY <1>0, <1>4 DEF ReaperReap, RqCancelled
  <2> QED
    BY <1>0, <2>1 DEF NoRqJob
<1> QED
  BY <1>1, <1>2, <1>3, <1>4, QueueSteps DEF Next

(* How the work of one worker goes on.                                     *)
LEMMA ExecFrame ==
  ASSUME TypeOK, [Next]_vars, NEW v \in Workers
  PROVE  \/ exec'[v].pc = "idle"
         \/ exec[v].pc # "idle" /\ exec'[v].event = exec[v].event
         \/ \E e \in Events : Pop(v, e) /\ exec'[v] = [pc |-> "popped", event |-> e, ran |-> 0]
<1>0. exec \in [Workers -> ExecRows]
  BY DEF TypeOK
<1>1. CASE UNCHANGED exec
  BY <1>1
<1>2. ASSUME NEW w \in Workers, Work(w)
      PROVE  \/ exec'[v].pc = "idle"
             \/ exec[v].pc # "idle" /\ exec'[v].event = exec[v].event
             \/ \E e \in Events : Pop(v, e) /\ exec'[v] = [pc |-> "popped", event |-> e, ran |-> 0]
  <2>1. ASSUME NEW e \in Events, Pop(w, e)
        PROVE  \/ exec'[v].pc = "idle"
               \/ exec[v].pc # "idle" /\ exec'[v].event = exec[v].event
               \/ Pop(v, e) /\ exec'[v] = [pc |-> "popped", event |-> e, ran |-> 0]
    BY <1>0, <2>1 DEF Pop
  <2>2. ASSUME Release(w)
        PROVE  exec'[v].pc = "idle" \/ (exec[v].pc # "idle" /\ exec'[v].event = exec[v].event)
    BY <1>0, <2>2 DEF Release, IdleWorker
  <2>3. ASSUME NEW pc \in WorkerStates, exec[w].pc # "idle", Goto(w, pc)
        PROVE  exec'[v].pc = "idle" \/ (exec[v].pc # "idle" /\ exec'[v].event = exec[v].event)
    BY <1>0, <2>3 DEF Goto, ExecRows
  <2>4. CASE Crash(w)
    BY <1>0, <2>4 DEF Crash, ExecRows
  <2>5. CASE Progress(w)
    BY <1>1, <2>5 DEF Progress
  <2> QED
    BY <1>2, <2>1, <2>2, <2>3, <2>4, <2>5
    DEF Work, Proceed, ClaimGranted, ClaimConsumed, ClaimBusy, DiscardRetry, StartRun,
        SeparationDone, Persist, PersistRefused, FailRefused, RunFails, RunRaises, Running,
        FinishOk, Return, FinishFail, Callback, Abandon, WorkerStates
<1>3. CASE Tick
  BY <1>0, <1>3 DEF Tick, ExecRows
<1>4. CASE Person \/ QueueFullFails \/ RenderEnds \/ ReaperFind \/ ReaperReap \/ RecoverStale
           \/ (\E e \in Events : Ask(e) \/ Deliver(e))
  BY <1>1, <1>4
     DEF Person, Rest, RetryRender, Discard, Restore, OpenEditor, OperatorSave,
         CampaignApprove, Generate, RenderEnds, QueueFullFails, ReaperFind, Silent,
         ReaperReap, RecoverStale, Ask, Transcribe, CreateStage, QueueFull, RetryItem, Issue,
         Deliver, DispatchOk, DispatchError, DispatchCrash, RetryDue
<1> QED
  BY <1>1, <1>2, <1>3, <1>4 DEF Next, vars

(* A worker's job belongs to an event.                                     *)
LEMMA AssignedNext == Typed /\ [Next]_vars => Assigned'
<1> SUFFICES ASSUME Typed, [Next]_vars, NEW v \in Workers, exec'[v].pc # "idle"
             PROVE  exec'[v].event \in Created'
  BY DEF Assigned
<1>1. CASE exec[v].pc # "idle" /\ exec'[v].event = exec[v].event
  BY <1>1, EventFrame DEF Typed, Assigned, Created
<1>2. ASSUME NEW e \in Events, Pop(v, e), exec'[v] = [pc |-> "popped", event |-> e, ran |-> 0]
      PROVE  exec'[v].event \in Created'
  BY <1>2, EventFrame DEF Typed, QueuedIsCreated, Pop
<1> QED
  BY <1>1, <1>2, ExecFrame DEF Typed

LEMMA TypedNext == Typed /\ [Next]_vars => Typed'
BY NextType, RemembersNext, QueueNext, AssignedNext DEF Typed

(* Every row and process always stays within its type.                     *)
THEOREM TranscriptionTypes == Spec => []TypeOK
<1>1. Typed => TypeOK
  BY DEF Typed
<1> QED
  BY <1>1, TypedInit, TypedNext, PTL DEF Spec

-----------------------------------------------------------------------------
(* Stages and failures under the attempt                                   *)

(* A separation stage is always that of the attempt the row names.         *)
Reported ==
  job.status \in SeparationStatuses =>
    job.active \in Events /\ stage[job.active] = "separation"

LEMMA ReportedNext == Typed /\ Reported /\ [Next]_vars => Reported'
<1> SUFFICES ASSUME Typed, Reported, [Next]_vars, job'.status \in SeparationStatuses
             PROVE  job'.active \in Events /\ stage'[job'.active] = "separation"
  BY DEF Reported
<1>0. /\ TypeOK /\ Remembers /\ Assigned /\ job \in SongRows
      /\ job.status \in SeparationStatuses =>
           job.active \in Events /\ stage[job.active] = "separation"
  BY DEF Typed, TypeOK, Reported
<1>1. ASSUME NEW w \in Workers, Work(w)
      PROVE  job'.active \in Events /\ stage'[job'.active] = "separation"
  <2>1. UNCHANGED stage /\ exec[w].event \in Attempts
    BY <1>0, <1>1, WorkWrites
  <2>2. CASE UNCHANGED job
    BY <1>0, <2>1, <2>2
  <2>3. CASE Persist(w)
    <3>1. exec[w].event \in Events
      BY <1>0, <2>3 DEF Persist, Assigned, Created
    <3> QED
      BY <1>0, <2>1, <2>3, <3>1, PersistRow DEF SeparationStatuses
  <2>4. ASSUME NEW upd \in Calls, WorkerUpdate(w, upd), exec[w].pc # "idle",
               upd.status \in SeparationStatuses => StageOf(w) = "separation"
        PROVE  job'.active \in Events /\ stage'[job'.active] = "separation"
    <3>1. exec[w].event \in Events
      BY <1>0, <2>4 DEF Assigned, Created
    <3>2. /\ job'.status \in {job.status, upd.status} /\ job'.active = job.active
          /\ exec[w].event # job.active => job' = job
      BY <1>0, <2>1, <2>4, <3>1, WorkerRow
    <3>3. CASE job.status \in SeparationStatuses
      BY <1>0, <2>1, <3>2, <3>3
    <3>4. CASE job.status \notin SeparationStatuses
      BY <2>1, <2>4, <3>1, <3>2, <3>4 DEF StageOf
    <3> QED
      BY <3>3, <3>4
  <2> QED
    BY <1>0, <1>1, <2>2, <2>3, <2>4, WorkWrites
<1>2. ASSUME NEW e \in Events, Ask(e)
      PROVE  job'.active \in Events /\ stage'[job'.active] = "separation"
  <2>1. PICK s \in {"separation", "full"}, status \in SongStatuses :
          /\ Issue(e, s, status)
          /\ <<s, status>> \in {<<"separation", "separation_queued">>,
                                <<"full", "transcribing_queued">>}
    BY <1>2, AskIssues
  <2>2. job'.status = status /\ job'.active = e /\ stage'[e] = s
    BY <1>0, <2>1, IssueRow
  <2> QED
    BY <2>1, <2>2 DEF SeparationStatuses
<1>3. CASE Person \/ QueueFullFails \/ RenderEnds \/ ReaperReap \/ Tick
  <2>1. UNCHANGED stage
    BY <1>3 DEF Person, Rest, RetryRender, Discard, Restore, OpenEditor, OperatorSave,
                CampaignApprove, Generate, RenderEnds, QueueFullFails, ReaperReap, Tick
  <2> QED
    BY <1>0, <1>3, <2>1, PersonRow
<1> QED
  BY <1>0, <1>1, <1>2, <1>3, QuietSteps DEF Next

(* A song whose full transcription is queued never shows a separation      *)
(* stage again, whatever RQ redelivers.                                    *)
THEOREM SeparationIsOver == Spec => []SeparationStaysBehind
<1>1. Init => Reported
  BY DEF Init, Reported, SeparationStatuses
<1>2. Reported => SeparationStaysBehind
  BY DEF Reported, SeparationStaysBehind
<1> QED
  BY <1>1, <1>2, TypedInit, TypedNext, ReportedNext, PTL DEF Spec

(* A queued song is failed by its own attempt or by the reaper.            *)
LEMMA FailsQueued ==
  ASSUME Typed, [Next]_vars, job.status = "transcribing_queued",
         job'.status = "transcription_failed"
  PROVE  \/ reaper' # reaper
         \/ \E w \in Workers : exec'[w] # exec[w] /\ exec[w].event = job.active
<1>0. TypeOK /\ Remembers /\ Assigned /\ job \in SongRows
  BY DEF Typed, TypeOK
<1>1. ASSUME NEW w \in Workers, Work(w)
      PROVE  exec'[w] # exec[w] /\ exec[w].event = job.active
  <2>1. ~UNCHANGED job /\ ~Persist(w)
    BY <1>0, PersistRow DEF Persist, Assigned, Created
  <2>2. PICK upd \in Calls :
          /\ WorkerUpdate(w, upd) /\ exec[w].pc # "idle"
          /\ upd.status = "transcription_failed" => exec'[w] # exec[w]
    BY <1>0, <1>1, <2>1, WorkWrites
  <2>3. exec[w].event \in Events /\ exec[w].event \in Attempts
    BY <1>0, <2>2 DEF Assigned, Created, Attempts
  <2>4. /\ job'.status \in {job.status, upd.status}
        /\ exec[w].event # job.active => job' = job
    BY <1>0, <2>2, <2>3, WorkerRow
  <2> QED
    BY <2>2, <2>4
<1>2. ASSUME NEW e \in Events, Ask(e) PROVE FALSE
  BY <1>0, <1>2, AskIssues, IssueRow
<1>3. CASE ReaperReap
  BY <1>3 DEF ReaperReap, IdleReaper
<1>4. CASE Person \/ QueueFullFails
  BY <1>0, <1>4
     DEF Person, RetryRender, Discard, Discardable, Restore, OpenEditor, OperatorSave,
         CampaignApprove, Generate, QueueFullFails, ReviewStatuses, SongRows
<1>5. CASE RenderEnds
  <2>1. PICK s \in {"pending_review", "error"} :
          job' = [UpdateJob(job, NoAttempt, [NoUpdate EXCEPT !.status = s])
                    EXCEPT !.rendering = FALSE]
    BY <1>5 DEF RenderEnds
  <2> DEFINE upd == [NoUpdate EXCEPT !.status = s]
             new == UpdateJob(job, NoAttempt, upd)
  <2>2. upd \in Updates /\ upd.status # "transcription_failed"
    BY CallTypes DEF NoUpdate
  <2>3. new \in SongRows /\ new.status \in {job.status, upd.status}
    <3>1. NoAttempt \in Attempts
      BY DEF Attempts
    <3> QED
      BY <1>0, <2>2, <3>1, UpdateJobRow
  <2>4. job' = [new EXCEPT !.rendering = FALSE]
    BY <2>1
  <2> HIDE DEF new, upd
  <2> QED
    BY <1>0, <2>2, <2>3, <2>4 DEF SongRows
<1>6. CASE Tick
  BY <1>0, <1>6 DEF Tick, AgedRow, SongRows
<1> QED
  BY <1>0, <1>1, <1>2, <1>3, <1>4, <1>5, <1>6, QuietSteps DEF Next

(* A retry that waits in the queue is not failed by what is left of an     *)
(* earlier attempt.                                                        *)
THEOREM RetriesAreSpared == Spec => RetryIsSpared
<1>1. Typed /\ [Next]_vars =>
        [job.status = "transcribing_queued" /\ job'.status = "transcription_failed"
           => \/ reaper' # reaper
              \/ \E w \in Workers : exec'[w] # exec[w] /\ exec[w].event = job.active]_vars
  BY FailsQueued
<1> QED
  BY <1>1, TypedInit, TypedNext, PTL DEF Spec, RetryIsSpared

(* A video in review is not failed by a transcription.                     *)
LEMMA SparesRender ==
  ASSUME Typed, [Next]_vars, job.status = "pending_review", reaper' = reaper
  PROVE  job'.status # "transcription_failed"
<1>0. /\ TypeOK /\ Remembers /\ Assigned /\ job \in SongRows
      /\ "pending_review" \in SUCCESS_TERMINAL_STATUSES
      /\ "transcription_failed" \in FAILURE_TERMINAL_STATUSES
      /\ NoAttempt \in Attempts
  BY DEF Typed, TypeOK, SUCCESS_TERMINAL_STATUSES, FAILURE_TERMINAL_STATUSES,
         TERMINAL_STATUSES, Attempts
<1>1. ASSUME NEW w \in Workers, Work(w) PROVE job'.status # "transcription_failed"
  <2>1. Persist(w) => exec[w].event \in Events
    BY <1>0 DEF Persist, Assigned, Created
  <2> QED
    BY <1>0, <1>1, <2>1, WorkWrites, WorkerRow, PersistRow
<1>2. ASSUME NEW e \in Events, Ask(e) PROVE job'.status # "transcription_failed"
  BY <1>0, <1>2, AskIssues, IssueRow
<1>3. CASE Person \/ QueueFullFails
  BY <1>0, <1>3
     DEF Person, RetryRender, Discard, Discardable, Restore, OpenEditor, OperatorSave,
         CampaignApprove, Generate, QueueFullFails, ReviewStatuses, SongRows
<1>4. CASE RenderEnds
  <2>1. PICK s \in {"pending_review", "error"} :
          job' = [UpdateJob(job, NoAttempt, [NoUpdate EXCEPT !.status = s])
                    EXCEPT !.rendering = FALSE]
    BY <1>4 DEF RenderEnds
  <2> DEFINE upd == [NoUpdate EXCEPT !.status = s]
             new == UpdateJob(job, NoAttempt, upd)
  <2>2. upd \in Updates
    BY CallTypes
  <2>3. new \in SongRows /\ new.status \notin FAILURE_TERMINAL_STATUSES
    BY <1>0, <2>2, UpdateJobRow
  <2>4. job' = [new EXCEPT !.rendering = FALSE]
    BY <2>1
  <2> HIDE DEF new, upd
  <2> QED
    BY <1>0, <2>3, <2>4 DEF SongRows
<1>5. CASE ReaperReap
  BY <1>5 DEF ReaperReap, IdleReaper
<1>6. CASE Tick
  BY <1>0, <1>6 DEF Tick, AgedRow, SongRows
<1> QED
  BY <1>0, <1>1, <1>2, <1>3, <1>4, <1>5, <1>6, QuietSteps DEF Next

(* A failed transcription reported late does not hide a finished video.    *)
THEOREM RendersAreSpared == Spec => LateFailureSparesRender
<1>1. Typed /\ [Next]_vars =>
        [job.status = "pending_review" /\ reaper' = reaper
           => job'.status # "transcription_failed"]_vars
  BY SparesRender
<1> QED
  BY <1>1, TypedInit, TypedNext, PTL DEF Spec, LateFailureSparesRender

-----------------------------------------------------------------------------
(* Evidence                                                                *)

(* As long as no result has been frozen the song has not been reviewed,    *)
(* nor has a campaign song been rendered or discarded after a review.      *)
Evidenced ==
  \/ job.evidence # NoAttempt
  \/ /\ job.status \notin ReviewStatuses
     /\ job.status = "discarded" => job.previous = "transcription_failed"
     /\ job.batch => job.status # "error" /\ ~job.rendering

(* The end of a render does not take a song back to review.                *)
LEMMA RenderEndsRow ==
  ASSUME TypeOK, RenderEnds
  PROVE  /\ job'.status \in {job.status, "pending_review", "error"}
         /\ job'.evidence = job.evidence /\ job'.batch = job.batch
         /\ job'.previous = job.previous /\ job.rendering
<1>0. job \in SongRows /\ NoAttempt \in Attempts
  BY DEF TypeOK, Attempts
<1>1. PICK s \in {"pending_review", "error"} :
        job' = [UpdateJob(job, NoAttempt, [NoUpdate EXCEPT !.status = s])
                  EXCEPT !.rendering = FALSE]
  BY DEF RenderEnds
<1> DEFINE upd == [NoUpdate EXCEPT !.status = s]
           new == UpdateJob(job, NoAttempt, upd)
<1>2. upd \in Updates /\ upd.status = s
  BY CallTypes DEF NoUpdate
<1>3. /\ new \in SongRows /\ new.status \in {job.status, upd.status}
      /\ new.evidence = job.evidence /\ new.batch = job.batch /\ new.previous = job.previous
  BY <1>0, <1>2, UpdateJobRow
<1>4. job' = [new EXCEPT !.rendering = FALSE]
  BY <1>1
<1> HIDE DEF new, upd
<1> QED
  BY <1>2, <1>3, <1>4 DEF SongRows, RenderEnds

LEMMA EvidencedNext == Typed /\ Evidenced /\ [Next]_vars => Evidenced'
<1> SUFFICES ASSUME Typed, Evidenced, [Next]_vars, job'.evidence = NoAttempt
             PROVE  /\ job'.status \notin ReviewStatuses
                    /\ job'.status = "discarded" => job'.previous = "transcription_failed"
                    /\ job'.batch => job'.status # "error" /\ ~job'.rendering
  BY DEF Evidenced
<1> DEFINE Goal == /\ job'.status \notin ReviewStatuses
                   /\ job'.status = "discarded" => job'.previous = "transcription_failed"
                   /\ job'.batch => job'.status # "error" /\ ~job'.rendering
<1>0. TypeOK /\ Remembers /\ Assigned /\ job \in SongRows /\ NoAttempt \notin Events
  BY TranscriptionAssumption DEF Typed, TypeOK
<1>e. ASSUME job'.evidence = job.evidence
      PROVE  /\ job.status \notin ReviewStatuses
             /\ job.status = "discarded" => job.previous = "transcription_failed"
             /\ job.batch => job.status # "error" /\ ~job.rendering
  BY <1>e DEF Evidenced
<1>s. ASSUME job'.evidence = job.evidence, job'.batch = job.batch,
             job'.previous = job.previous, job'.rendering = job.rendering,
             job'.status \in {job.status, "separation_queued", "transcribing_queued",
                             "separating", "transcribing", "separation_ready",
                             "transcription_failed", Unset}
      PROVE  Goal
  BY <1>e, <1>s DEF ReviewStatuses, Unset
<1> SUFFICES Goal
  OBVIOUS
<1> HIDE DEF Goal
<1>1. ASSUME NEW w \in Workers, Work(w) PROVE Goal
  <2>1. CASE UNCHANGED job
    BY <1>s, <2>1
  <2>2. CASE Persist(w)
    <3>1. exec[w].event \in Events
      BY <1>0, <2>2 DEF Persist, Assigned, Created
    <3>2. job.revision \in Nat
      BY <1>0 DEF SongRows
    <3>3. job' = job
      BY <1>0, <2>2, <3>1, <3>2, PersistRow
    <3> QED
      BY <1>s, <3>3
  <2>3. ASSUME NEW upd \in Calls, WorkerUpdate(w, upd), exec[w].event \in Attempts
        PROVE  Goal
    <3>1. upd.status \in {Unset, "separating", "transcribing", "separation_ready",
                          "transcription_failed"}
      BY DEF Calls
    <3> QED
      BY <1>0, <1>s, <2>3, <3>1, WorkerRow
  <2> QED
    BY <1>0, <1>1, <2>1, <2>2, <2>3, WorkWrites
<1>2. ASSUME NEW e \in Events, Ask(e) PROVE Goal
  <2>1. PICK s \in {"separation", "full"}, status \in SongStatuses :
          /\ Issue(e, s, status)
          /\ <<s, status>> \in {<<"separation", "separation_queued">>,
                                <<"full", "transcribing_queued">>}
    BY <1>2, AskIssues
  <2>2. status \in {"separation_queued", "transcribing_queued"}
    BY <2>1
  <2> QED
    BY <1>0, <1>s, <2>1, <2>2, IssueRow
<1>3. CASE RetryRender
  <2>1. job.batch /\ job.status = "error" /\ job'.evidence = job.evidence
    BY <1>0, <1>3 DEF RetryRender, SongRows
  <2> QED
    BY <1>e, <2>1
<1>4. CASE Discard
  <2>1. /\ job.batch /\ job.status \in Discardable
        /\ job'.evidence = job.evidence /\ job'.batch = job.batch
        /\ job'.previous = job.status /\ job'.status = "discarded"
        /\ job'.rendering = job.rendering
    BY <1>0, <1>4 DEF Discard, SongRows
  <2>2. job.status = "transcription_failed"
    BY <1>e, <2>1 DEF Discardable, ReviewStatuses
  <2> QED
    BY <1>e, <2>1, <2>2 DEF Goal, ReviewStatuses
<1>5. CASE Restore
  <2>1. /\ job.status = "discarded" /\ job'.status = job.previous
        /\ job'.evidence = job.evidence /\ job'.batch = job.batch
        /\ job'.rendering = job.rendering
    BY <1>0, <1>5 DEF Restore, SongRows
  <2> QED
    BY <1>e, <2>1 DEF Goal, ReviewStatuses
<1>6. CASE OpenEditor
  <2>1. /\ job'.evidence = job.evidence /\ job'.batch = job.batch
        /\ job'.previous = job.previous /\ job'.rendering = job.rendering
        /\ job'.status = job.status
    BY <1>0, <1>6 DEF OpenEditor, SongRows
  <2> QED
    BY <1>s, <2>1
<1>7. CASE OperatorSave
  <2>1. job'.evidence = job.evidence
    BY <1>0, <1>7 DEF OperatorSave, SongRows
  <2>2. job.status # "lyrics_approved"
    BY <1>e, <2>1 DEF ReviewStatuses
  <2>3. /\ job'.batch = job.batch /\ job'.previous = job.previous
        /\ job'.rendering = job.rendering /\ job'.status = job.status
    BY <1>0, <1>7, <2>2 DEF OperatorSave, SongRows
  <2> QED
    BY <1>s, <2>1, <2>3
<1>8. CASE CampaignApprove
  <2>1. job.status = "transcribed_pending" /\ job'.evidence = job.evidence
    BY <1>0, <1>8 DEF CampaignApprove, SongRows
  <2> QED
    BY <1>e, <2>1 DEF ReviewStatuses
<1>9. CASE Generate
  <2>1. /\ job.batch => job.status = "lyrics_approved"
        /\ job'.evidence = job.evidence /\ job'.batch = job.batch /\ job'.status = "queued"
    BY <1>0, <1>9 DEF Generate, SongRows
  <2>2. ~job.batch
    BY <1>e, <2>1 DEF ReviewStatuses
  <2> QED
    BY <1>0, <2>1, <2>2 DEF Goal, ReviewStatuses, SongRows
<1>10. CASE RenderEnds
  <2>1. /\ job'.status \in {job.status, "pending_review", "error"}
        /\ job'.evidence = job.evidence /\ job'.batch = job.batch
        /\ job'.previous = job.previous /\ job.rendering
    BY <1>0, <1>10, RenderEndsRow
  <2>2. ~job.batch
    BY <1>e, <2>1
  <2> QED
    BY <1>e, <2>1, <2>2 DEF Goal, ReviewStatuses
<1>11. CASE QueueFullFails \/ ReaperReap \/ Tick
  <2>1. job' \in {job, [job EXCEPT !.status = "transcription_failed"], AgedRow(job)}
    BY <1>11 DEF QueueFullFails, ReaperReap, Tick
  <2>2. /\ job'.evidence = job.evidence /\ job'.batch = job.batch
        /\ job'.previous = job.previous /\ job'.rendering = job.rendering
        /\ job'.status \in {job.status, "transcription_failed"}
    BY <1>0, <2>1 DEF AgedRow, SongRows
  <2> QED
    BY <1>s, <2>2
<1>12. CASE UNCHANGED job
  BY <1>s, <1>12
<1> QED
  BY <1>1, <1>2, <1>3, <1>4, <1>5, <1>6, <1>7, <1>8, <1>9, <1>10, <1>11, <1>12, QuietSteps
  DEF Next, Person

(* A song that is up for review has the evidence of its recognition.       *)
THEOREM ReviewIsEvidenced == Spec => []ReviewHasEvidence
<1>1. Init => Evidenced
  BY DEF Init, Evidenced, ReviewStatuses
<1>2. Evidenced => ReviewHasEvidence
  BY DEF Evidenced, ReviewHasEvidence
<1> QED
  BY <1>1, <1>2, TypedInit, TypedNext, EvidencedNext, PTL DEF Spec

-----------------------------------------------------------------------------
(* Claims                                                                  *)

Held(ev, w, ran) == ev.status = "processing" /\ ev.token = w /\ ev.age <= ran

(* A worker that transcribes has the only claim on its attempt, and the    *)
(* claim is no older than the run.                                         *)
ClaimHeld == \A w \in Workers : Holding(w) => Held(events[exec[w].event], w, exec[w].ran)

LEMMA ClaimInit == Init => ClaimHeld
BY DEF Init, ClaimHeld, Holding, Running, IdleWorker

(* A held claim is within its lease: it is neither stale nor claimable.    *)
LEMMA HeldIsFresh ==
  ASSUME LeaseCoversTimeout, Typed, ClaimHeld, NEW v \in Workers, Holding(v)
  PROVE  LET ev == events[exec[v].event]
         IN  /\ exec[v].event \in Created /\ Held(ev, v, exec[v].ran)
             /\ ~ Dispatchable(exec[v].event) /\ ~ Stale(ev) /\ ~ Claimable(ev)
<1>0. /\ exec \in [Workers -> ExecRows] /\ events \in [Events -> OutboxRows]
      /\ JobTimeout \in Nat /\ LeaseAge \in Nat /\ StaleAge \in Nat
      /\ JobTimeout <= LeaseAge /\ LeaseAge <= StaleAge
  BY TranscriptionAssumption, LeaseAssumption DEF Typed, TypeOK, LeaseCoversTimeout
<1>1. exec[v].event \in Created /\ Held(events[exec[v].event], v, exec[v].ran)
  BY DEF ClaimHeld, Typed, Assigned, Holding, Running
<1>2. events[exec[v].event].age \in Nat /\ events[exec[v].event].age <= LeaseAge
  BY <1>0, <1>1 DEF ExecRows, OutboxRows, Held, Created
<1> QED
  BY <1>0, <1>1, <1>2 DEF Held, Dispatchable, DedupStatuses, Stale, Claimable, Busy

(* The steps that leave claims and workers alone.                          *)
LEMMA ClaimSteps ==
  ASSUME Person \/ QueueFullFails \/ RenderEnds \/ ReaperFind \/ ReaperReap \/ UNCHANGED vars
  PROVE  UNCHANGED <<exec, events>>
BY DEF Person, Rest, RetryRender, Discard, Restore, OpenEditor, OperatorSave, CampaignApprove,
       Generate, RenderEnds, QueueFullFails, ReaperFind, Silent, ReaperReap, vars

LEMMA ClaimNext ==
  ASSUME LeaseCoversTimeout
  PROVE  Typed /\ ClaimHeld /\ [Next]_vars => ClaimHeld'
<1> SUFFICES ASSUME Typed, ClaimHeld, [Next]_vars, NEW v \in Workers, Holding(v)'
             PROVE  Held(events'[exec'[v].event], v, exec'[v].ran)
  BY DEF ClaimHeld, Held
<1>0. exec \in [Workers -> ExecRows] /\ events \in [Events -> OutboxRows]
  BY DEF Typed, TypeOK
<1>s. ASSUME Holding(v), exec'[v].event = exec[v].event, exec'[v].ran = exec[v].ran,
             events'[exec[v].event] = events[exec[v].event]
      PROVE  Held(events'[exec'[v].event], v, exec'[v].ran)
  BY <1>s, HeldIsFresh
<1>1. ASSUME NEW e \in Events, Deliver(e) PROVE Held(events'[exec'[v].event], v, exec'[v].ran)
  <2>1. Holding(v) /\ exec' = exec
    BY <1>1 DEF Deliver, DispatchOk, DispatchError, DispatchCrash, RetryDue, Holding, Running
  <2>2. Dispatchable(e) => e # exec[v].event
    BY <2>1, HeldIsFresh
  <2>3. \/ UNCHANGED events
        \/ Dispatchable(e) /\ \A d \in Events : d # e => events'[d] = events[d]
    BY <1>0, <1>1 DEF Deliver, DispatchOk, DispatchError, DispatchCrash, RetryDue
  <2>4. exec[v].event \in Events
    BY <2>1, HeldIsFresh DEF Created
  <2>5. events'[exec[v].event] = events[exec[v].event]
    BY <2>2, <2>3, <2>4
  <2> QED
    BY <1>s, <2>1, <2>5
<1>2. ASSUME NEW w \in Workers, Work(w) PROVE Held(events'[exec'[v].event], v, exec'[v].ran)
  <2>1. CASE ClaimGranted(w)
    <3>1. CASE v = w
      <4>1. exec[w].event \in Events
        BY <2>1 DEF ClaimGranted, Typed, Assigned, Created
      <4> QED
        BY <1>0, <2>1, <3>1, <4>1
           DEF ClaimGranted, Goto, Claimed, ExecRows, OutboxRows, Held
    <3>2. CASE v # w
      <4>1. Holding(v) /\ exec'[v] = exec[v]
        BY <1>0, <2>1, <3>2 DEF ClaimGranted, Goto, Holding, Running
      <4>2. events'[exec[v].event] = events[exec[v].event]
        BY <1>0, <2>1, <4>1, HeldIsFresh DEF ClaimGranted
      <4> QED
        BY <1>s, <4>1, <4>2
    <3> QED
      BY <3>1, <3>2
  <2>2. CASE FinishOk(w) \/ FinishFail(w)
    <3>1. v # w /\ Holding(v) /\ exec'[v] = exec[v] /\ Holding(w)
      <4>0. \A pc \in WorkerStates : [exec[w] EXCEPT !.pc = pc].pc = pc
        BY <1>0 DEF ExecRows
      <4>1. exec[w].pc \in {"ok", "failed"} /\ exec'[w].pc \in {"returned", "callback"}
        <5>1. CASE FinishOk(w)
          BY <1>0, <4>0, <5>1 DEF FinishOk, Goto, WorkerStates
        <5>2. CASE FinishFail(w)
          BY <1>0, <4>0, <5>2 DEF FinishFail, Goto, WorkerStates
        <5> QED
          BY <2>2, <5>1, <5>2
      <4>2. v # w
        BY <4>1 DEF Holding, Running
      <4>3. exec'[v] = exec[v]
        BY <1>0, <2>2, <4>2 DEF FinishOk, FinishFail, Goto
      <4> QED
        BY <4>1, <4>2, <4>3 DEF Holding, Running
    <3>2. exec[w].event \in Events /\ events[exec[w].event].token = w
      BY <3>1, HeldIsFresh DEF Held, Created
    <3>3. exec[v].event # exec[w].event
      BY <3>1, <3>2, HeldIsFresh DEF Held
    <3>4. events'[exec[v].event] = events[exec[v].event]
      <4>1. CASE FinishOk(w)
        BY <1>0, <3>2, <3>3, <4>1 DEF FinishOk
      <4>2. CASE FinishFail(w)
        BY <1>0, <3>2, <3>3, <4>2 DEF FinishFail
      <4> QED
        BY <2>2, <4>1, <4>2
    <3> QED
      BY <1>s, <3>1, <3>4
  <2>3. ASSUME UNCHANGED events, Holding(v), exec'[v].event = exec[v].event,
               exec'[v].ran = exec[v].ran
        PROVE  Held(events'[exec'[v].event], v, exec'[v].ran)
    BY <1>s, <2>3
  <2>4. ASSUME NEW e \in Events, Pop(w, e) PROVE Held(events'[exec'[v].event], v, exec'[v].ran)
    <3>1. v # w
      BY <1>0, <2>4 DEF Pop, Holding, Running
    <3> QED
      BY <1>0, <2>3, <2>4, <3>1 DEF Pop, Holding, Running
  <2>5. CASE ClaimConsumed(w) \/ Callback(w) \/ Abandon(w) \/ Return(w)
    <3>1. v # w
      BY <1>0, <2>5
         DEF ClaimConsumed, Callback, Abandon, Return, Release, IdleWorker, Holding, Running
    <3> QED
      BY <1>0, <2>3, <2>5, <3>1
         DEF ClaimConsumed, Callback, Abandon, Return, Release, Holding, Running
  <2>6. CASE ClaimBusy(w) \/ Crash(w)
    <3>1. v # w
      BY <1>0, <2>6 DEF ClaimBusy, Crash, Goto, Holding, Running, ExecRows
    <3> QED
      BY <1>0, <2>3, <2>6, <3>1 DEF ClaimBusy, Crash, Goto, Holding, Running
  <2>7. CASE DiscardRetry(w) \/ StartRun(w) \/ Progress(w) \/ SeparationDone(w) \/ Persist(w)
             \/ PersistRefused(w) \/ FailRefused(w) \/ RunFails(w) \/ RunRaises(w)
    <3>1. Holding(w) /\ UNCHANGED events
      BY <2>7 DEF DiscardRetry, StartRun, Progress, SeparationDone, Persist, PersistRefused,
                  FailRefused, RunFails, RunRaises, Running, Holding
    <3>2. exec' = exec \/ \E pc \in WorkerStates : Goto(w, pc)
      BY <2>7 DEF DiscardRetry, StartRun, Progress, SeparationDone, Persist, PersistRefused,
                  FailRefused, RunFails, RunRaises, WorkerStates
    <3>3. Holding(v) /\ exec'[v].event = exec[v].event /\ exec'[v].ran = exec[v].ran
      BY <1>0, <3>1, <3>2 DEF Goto, Holding, Running, ExecRows
    <3> QED
      BY <2>3, <3>1, <3>3
  <2> QED
    BY <1>2, <2>1, <2>2, <2>4, <2>5, <2>6, <2>7 DEF Work, Proceed
<1>3. ASSUME NEW e \in Events, Ask(e) PROVE Held(events'[exec'[v].event], v, exec'[v].ran)
  <2>1. /\ exec' = exec /\ events[e].status = "absent"
        /\ events' = [events EXCEPT ![e] = NewEvent]
    BY <1>3 DEF Ask, Transcribe, CreateStage, QueueFull, RetryItem, Issue
  <2>2. Holding(v)
    BY <2>1 DEF Holding, Running
  <2>3. exec[v].event # e
    BY <2>1, <2>2, HeldIsFresh DEF Created
  <2>4. events'[exec[v].event] = events[exec[v].event]
    BY <1>0, <2>1, <2>3
  <2> QED
    BY <1>s, <2>1, <2>2, <2>4
<1>4. CASE RecoverStale
  <2>1. Holding(v) /\ exec' = exec
    BY <1>4 DEF RecoverStale, Holding, Running
  <2>2. events'[exec[v].event] = events[exec[v].event]
    BY <1>4, <2>1, HeldIsFresh DEF RecoverStale, Created
  <2> QED
    BY <1>s, <2>1, <2>2
<1>5. CASE Tick
  <2>0. StaleAge \in Nat
    BY LeaseAssumption
  <2>1. Holding(v) /\ exec'[v].event = exec[v].event /\ exec'[v].ran = exec[v].ran + 1
    BY <1>0, <1>5 DEF Tick, Holding, Running, ExecRows
  <2>2. exec[v].event \in Events
    BY <2>1, HeldIsFresh DEF Created
  <2>3. events'[exec[v].event] = Aged(events[exec[v].event])
    BY <1>5, <2>2 DEF Tick
  <2>4. Held(Aged(events[exec[v].event]), v, exec[v].ran + 1)
    BY <1>0, <2>0, <2>1, <2>2, HeldIsFresh DEF Aged, OutboxRows, ExecRows, Held
  <2> QED
    BY <2>1, <2>3, <2>4
<1>6. CASE UNCHANGED <<exec, events>>
  <2>1. Holding(v)
    BY <1>6 DEF Holding, Running
  <2> QED
    BY <1>s, <1>6, <2>1
<1> QED
  BY <1>1, <1>2, <1>3, <1>4, <1>5, <1>6, ClaimSteps DEF Next

(* No two workers transcribe or report the same attempt at the same time.  *)
ExclusiveTranscription ==
  \A v, w \in Workers :
    Holding(v) /\ Holding(w) /\ exec[v].event = exec[w].event => v = w

(* As long as RQ kills a transcription before its lease runs out, no two   *)
(* workers separate or recognise the same attempt at once: the provider is *)
(* not paid twice for it.                                                  *)
THEOREM OneTranscriber ==
  ASSUME LeaseCoversTimeout
  PROVE  Spec => []ExclusiveTranscription
<1>1. ClaimHeld => ExclusiveTranscription
  BY DEF ClaimHeld, Held, ExclusiveTranscription
<1> QED
  BY <1>1, TypedInit, TypedNext, ClaimInit, ClaimNext, PTL DEF Spec

-----------------------------------------------------------------------------
(* The abstract transcripts                                                *)

(* Before a result or a save the song has no lyric.                        *)
Untouched == job.evidence = NoAttempt /\ job.revision = 0 => job.segments = Nothing

LEMMA UntouchedNext == Typed /\ Untouched /\ [Next]_vars => Untouched'
<1> SUFFICES ASSUME Typed, Untouched, [Next]_vars PROVE Untouched'
  OBVIOUS
<1>0. /\ TypeOK /\ Remembers /\ Assigned /\ job \in SongRows
      /\ NoAttempt \notin Events /\ job.revision \in Nat
  BY TranscriptionAssumption DEF Typed, TypeOK, SongRows
<1>s. ASSUME job'.evidence = job.evidence, job'.revision = job.revision,
             job'.segments = job.segments
      PROVE  Untouched'
  BY <1>s DEF Untouched
<1>1. ASSUME NEW w \in Workers, Work(w) PROVE Untouched'
  <2>1. CASE UNCHANGED job
    BY <1>s, <2>1
  <2>2. CASE Persist(w)
    <3>1. exec[w].event \in Events
      BY <1>0, <2>2 DEF Persist, Assigned, Created
    <3>2. job' = job \/ job'.evidence = exec[w].event
      BY <1>0, <2>2, <3>1, PersistRow
    <3> QED
      BY <1>0, <1>s, <3>1, <3>2 DEF Untouched
  <2>3. ASSUME NEW upd \in Calls, WorkerUpdate(w, upd), exec[w].event \in Attempts
        PROVE  Untouched'
    BY <1>0, <1>s, <2>3, WorkerRow
  <2> QED
    BY <1>0, <1>1, <2>1, <2>2, <2>3, WorkWrites
<1>2. ASSUME NEW e \in Events, Ask(e) PROVE Untouched'
  BY <1>0, <1>2, <1>s, AskIssues, IssueRow
<1>3. CASE OperatorSave
  <2>1. job'.revision = job.revision + 1
    BY <1>0, <1>3 DEF OperatorSave, SongRows
  <2> QED
    BY <1>0, <2>1 DEF Untouched
<1>4. CASE (Person \/ QueueFullFails \/ RenderEnds \/ ReaperReap \/ Tick) /\ ~OperatorSave
  <2>1. /\ job'.evidence = job.evidence /\ job'.revision >= job.revision
        /\ job'.segments = job.segments /\ job' \in SongRows
    BY <1>0, <1>4, PersonRow
  <2>2. job'.revision = 0 => job.revision = 0
    BY <1>0, <2>1
  <2> QED
    BY <2>1, <2>2 DEF Untouched
<1>5. CASE UNCHANGED job
  BY <1>s, <1>5
<1> QED
  BY <1>1, <1>2, <1>3, <1>4, <1>5, QuietSteps DEF Next

(* Only a worker that returns ticks an event off, and none is ever put     *)
(* back.                                                                   *)
LEMMA TickedOffFrame ==
  ASSUME LeaseCoversTimeout, Typed, ClaimHeld, [Next]_vars, NEW e \in Events,
         ~ \E w \in Workers : FinishOk(w)
  PROVE  events'[e].status = "consumed" <=> events[e].status = "consumed"
<1>0. events \in [Events -> OutboxRows] /\ events[e] \in OutboxRows
  BY DEF Typed, TypeOK
<1>1. ASSUME NEW d \in Events, Deliver(d)
      PROVE  events'[e].status = "consumed" <=> events[e].status = "consumed"
  <2>1. /\ PublishSucceeded(events[d]).status # "consumed"
        /\ PublishFailed(events[d], TRUE).status # "consumed"
    <3>1. events[d] \in OutboxRows
      BY DEF Typed, TypeOK
    <3> QED
      BY <3>1 DEF PublishSucceeded, PublishFailed, OutboxRows
  <2>2. Dispatchable(d) => events[d].status # "consumed"
    BY DEF Dispatchable, DedupStatuses
  <2>3. \/ UNCHANGED events
        \/ /\ Dispatchable(d)
           /\ \/ events' = [events EXCEPT ![d] = PublishSucceeded(@)]
              \/ events' = [events EXCEPT ![d] = PublishFailed(@, TRUE)]
    BY <1>1 DEF Deliver, DispatchOk, DispatchError, DispatchCrash, RetryDue
  <2> QED
    BY <1>0, <2>1, <2>2, <2>3
<1>2. ASSUME NEW w \in Workers, Work(w)
      PROVE  events'[e].status = "consumed" <=> events[e].status = "consumed"
  <2>1. CASE ClaimGranted(w)
    BY <1>0, <2>1 DEF ClaimGranted, Claimable, Claimed
  <2>2. CASE FinishFail(w)
    <3>1. events[exec[w].event].status = "processing"
      BY <2>2, HeldIsFresh DEF FinishFail, Holding, Running, Held
    <3>2. Finished(events[exec[w].event], w, FALSE).status # "consumed"
      <4>1. events[exec[w].event] \in OutboxRows
        BY <2>2, HeldIsFresh DEF FinishFail, Holding, Running, Created, Typed, TypeOK
      <4> QED
        BY <3>1, <4>1 DEF Finished, OutboxRows
    <3> QED
      BY <1>0, <2>2, <3>1, <3>2 DEF FinishFail
  <2> QED
    BY <1>2, <2>1, <2>2, WorkEvents
<1>3. ASSUME NEW d \in Events, Ask(d)
      PROVE  events'[e].status = "consumed" <=> events[e].status = "consumed"
  <2>1. events[d].status = "absent" /\ events' = [events EXCEPT ![d] = NewEvent]
    BY <1>3 DEF Ask, Transcribe, CreateStage, QueueFull, RetryItem, Issue
  <2>2. NewEvent.status = "pending"
    BY DEF NewEvent, AbsentEvent
  <2> QED
    BY <1>0, <2>1, <2>2
<1>4. CASE RecoverStale
  BY <1>0, <1>4 DEF RecoverStale, Stale, StaleRecovered, OutboxRows
<1>5. CASE Tick
  BY <1>0, <1>5 DEF Tick, Aged, OutboxRows
<1>6. CASE UNCHANGED events
  BY <1>6
<1> QED
  BY <1>1, <1>2, <1>3, <1>4, <1>5, <1>6, ClaimSteps DEF Next

(* Asking for an attempt issues it.                                        *)
LEMMA AskImplements ==
  ASSUME LeaseCoversTimeout, Typed, Untouched, ClaimHeld, [Next]_vars,
         NEW e \in Events, Ask(e)
  PROVE  Transcript!Next
<1>1. /\ events[e].status = "absent" /\ events' = [events EXCEPT ![e] = NewEvent]
      /\ UNCHANGED exec
  BY DEF Ask, Transcribe, CreateStage, QueueFull, RetryItem, Issue
<1>2. events \in [Events -> OutboxRows] /\ NewEvent.status = "pending" /\ TypeOK
  BY DEF Typed, TypeOK, NewEvent, AbsentEvent
<1>3. e \notin Created /\ Created' = Created \cup {e} /\ TickedOff' = TickedOff
  BY <1>1, <1>2 DEF Created, TickedOff
<1>4. job'.evidence = job.evidence /\ job'.segments = job.segments
  BY <1>2, AskIssues, IssueRow
<1>5. Transcript!Issue(e)
  BY <1>3, <1>4 DEF Transcript!Issue
<1> QED
  BY <1>5 DEF Transcript!Next

(* The steps that do not ask for an attempt issue none.                    *)
LEMMA CreatedFrame ==
  ASSUME Typed, [Next]_vars, ~ \E e \in Events : Ask(e)
  PROVE  Created' = Created
BY EventFrame DEF Created

(* A worker that returns settles its attempt.                              *)
LEMMA FinishImplements ==
  ASSUME LeaseCoversTimeout, Typed, Untouched, ClaimHeld, [Next]_vars,
         ~ \E e \in Events : Ask(e), NEW w \in Workers, FinishOk(w)
  PROVE  Transcript!Next
<1>1. /\ exec[w].event \in Created /\ Held(events[exec[w].event], w, exec[w].ran)
  BY HeldIsFresh DEF FinishOk, Holding, Running
<1>2. PICK e \in Events : e = exec[w].event
  BY <1>1 DEF Created
<1>3. /\ events \in [Events -> OutboxRows] /\ job' = job
      /\ events' = [events EXCEPT ![e] = Finished(@, w, TRUE)]
  BY <1>2 DEF FinishOk, Typed, TypeOK
<1>4. Finished(events[e], w, TRUE).status = "consumed"
  BY <1>1, <1>2, <1>3 DEF Finished, Held, OutboxRows
<1>5. TickedOff' = TickedOff \cup {e} /\ Created' = Created
  BY <1>3, <1>4, CreatedFrame DEF TickedOff
<1>6. Transcript!Settle(e)
  BY <1>1, <1>2, <1>3, <1>5 DEF Transcript!Settle
<1> QED
  BY <1>6 DEF Transcript!Next

(* A result freezes the evidence of its attempt, or changes nothing.       *)
LEMMA PersistImplements ==
  ASSUME LeaseCoversTimeout, Typed, Untouched, ClaimHeld, [Next]_vars,
         Created' = Created, TickedOff' = TickedOff, NEW w \in Workers, Persist(w)
  PROVE  Transcript!Next \/ UNCHANGED Transcript!transcriptVars
<1>1. /\ exec[w].event \in Created /\ Held(events[exec[w].event], w, exec[w].ran)
  BY HeldIsFresh DEF Persist, Holding, Running
<1>2. PICK e \in Events : e = exec[w].event
  BY <1>1 DEF Created
<1>3. e \in Created \ TickedOff
  BY <1>1, <1>2 DEF Held, TickedOff
<1>4. TypeOK /\ job.revision \in Nat
  BY TranscriptionAssumption DEF Typed, TypeOK, SongRows
<1>5. CASE job.revision > 0
  BY <1>2, <1>4, <1>5, PersistRow DEF Transcript!transcriptVars
<1>6. CASE job.revision = 0
  <2>1. /\ job.evidence = NoAttempt /\ job'.evidence = e
        /\ job'.segments \in {job.segments, e}
    BY <1>2, <1>4, <1>6, PersistRow
  <2>2. job.segments = Nothing
    BY <1>6, <2>1 DEF Untouched
  <2>3. Transcript!Freeze(e)
    BY <1>3, <2>1, <2>2 DEF Transcript!Freeze
  <2> QED
    BY <2>3 DEF Transcript!Next
<1> QED
  BY <1>4, <1>5, <1>6

(* Any other step saves an operator's lyric, or nothing.                   *)
LEMMA OtherImplements ==
  ASSUME LeaseCoversTimeout, Typed, Untouched, ClaimHeld, [Next]_vars,
         ~ \E e \in Events : Ask(e), ~ \E w \in Workers : FinishOk(w)
  PROVE  Transcript!Next \/ UNCHANGED Transcript!transcriptVars
<1>0. TypeOK /\ Remembers /\ Assigned /\ job \in SongRows
  BY DEF Typed, TypeOK
<1>1. Created' = Created /\ TickedOff' = TickedOff
  BY CreatedFrame, TickedOffFrame DEF TickedOff
<1>s. ASSUME job'.evidence = job.evidence, job'.segments = job.segments
      PROVE  UNCHANGED Transcript!transcriptVars
  BY <1>1, <1>s DEF Transcript!transcriptVars
<1>2. ASSUME NEW w \in Workers, Work(w)
      PROVE  Transcript!Next \/ UNCHANGED Transcript!transcriptVars
  <2>1. CASE UNCHANGED job
    BY <1>s, <2>1
  <2>2. CASE Persist(w)
    BY <1>1, <2>2, PersistImplements
  <2>3. ASSUME NEW upd \in Calls, WorkerUpdate(w, upd), exec[w].event \in Attempts
        PROVE  UNCHANGED Transcript!transcriptVars
    BY <1>0, <1>s, <2>3, WorkerRow
  <2> QED
    BY <1>0, <1>2, <2>1, <2>2, <2>3, WorkWrites
<1>3. CASE OperatorSave
  <2>1. job'.evidence = job.evidence /\ job'.segments = Operator
    BY <1>0, <1>3 DEF OperatorSave, SongRows
  <2>2. Transcript!Save
    BY <1>1, <2>1 DEF Transcript!Save
  <2> QED
    BY <2>2 DEF Transcript!Next
<1>4. CASE (Person \/ QueueFullFails \/ RenderEnds \/ ReaperReap \/ Tick) /\ ~OperatorSave
  BY <1>0, <1>4, <1>s, PersonRow
<1>5. CASE UNCHANGED job
  BY <1>s, <1>5
<1> QED
  BY <1>2, <1>3, <1>4, <1>5, QuietSteps DEF Next

(* As long as RQ kills a transcription before its lease runs out, only one *)
(* attempt ever leaves its evidence, its text never replaces another, and  *)
(* no attempt that has been ticked off comes back.                         *)
THEOREM TranscriptionImplementsTranscripts ==
  ASSUME LeaseCoversTimeout
  PROVE  Spec => ImplementsTranscripts
<1>1. Init => Transcript!Init
  BY DEF Init, Transcript!Init, Created, TickedOff, AbsentEvent
<1>2. Init => Untouched
  BY DEF Init, Untouched
<1>3. Typed /\ Untouched /\ ClaimHeld /\ [Next]_vars =>
        [Transcript!Next]_(Transcript!transcriptVars)
  BY AskImplements, FinishImplements, OtherImplements
<1> QED
  BY <1>1, <1>2, <1>3, TypedInit, TypedNext, UntouchedNext, ClaimInit, ClaimNext, PTL
  DEF Spec, ImplementsTranscripts, Transcript!Spec

-----------------------------------------------------------------------------
(* The machine's word is given once                                        *)

(* Frozen evidence is never replaced, and a lyric that is there is only    *)
(* ever replaced by an operator's: no result of another attempt, no retry  *)
(* and no redelivery writes over it, leases or not.                        *)
LyricIsFinal ==
  [][/\ job.evidence # NoAttempt => job'.evidence = job.evidence
     /\ job.segments # Nothing => job'.segments \in {job.segments, Operator}]_vars

(* Every step keeps evidence and lyric, or is an operator's save.          *)
LEMMA FinalStep ==
  ASSUME Typed, Untouched, [Next]_vars
  PROVE  /\ job.evidence # NoAttempt => job'.evidence = job.evidence
         /\ job.segments # Nothing => job'.segments \in {job.segments, Operator}
<1>0. TypeOK /\ Remembers /\ Assigned /\ job \in SongRows /\ job.revision \in Nat
  BY TranscriptionAssumption DEF Typed, TypeOK, SongRows
<1>1. ASSUME NEW w \in Workers, Persist(w)
      PROVE  \/ job' = job
             \/ job.evidence = NoAttempt /\ job.segments = Nothing
  <2>1. exec[w].event \in Events
    BY <1>0, <1>1 DEF Persist, Assigned, Created
  <2> QED
    BY <1>0, <1>1, <2>1, PersistRow DEF Untouched
<1>2. ASSUME NEW w \in Workers, Work(w), ~ Persist(w)
      PROVE  job'.evidence = job.evidence /\ job'.segments = job.segments
  BY <1>0, <1>2, WorkWrites, WorkerRow
<1>3. ASSUME NEW e \in Events, Ask(e)
      PROVE  job'.evidence = job.evidence /\ job'.segments = job.segments
  BY <1>0, <1>3, AskIssues, IssueRow
<1>4. OperatorSave => job'.segments = Operator
  BY <1>0 DEF OperatorSave, SongRows
<1>5. CASE Person \/ QueueFullFails \/ RenderEnds \/ ReaperReap \/ Tick
  BY <1>0, <1>4, <1>5, PersonRow
<1> QED
  BY <1>1, <1>2, <1>3, <1>5, QuietSteps DEF Next

(* The machine writes evidence and lyric at most once, whether or not a    *)
(* lease may run out under a worker: attach_machine_evidence refuses a     *)
(* second result, and a versioned lyric is not looked at again.            *)
THEOREM TheLyricIsFinal == Spec => LyricIsFinal
<1> DEFINE Final ==
      /\ job.evidence # NoAttempt => job'.evidence = job.evidence
      /\ job.segments # Nothing => job'.segments \in {job.segments, Operator}
<1>1. Init => Untouched
  BY DEF Init, Untouched
<1>2. Typed /\ Untouched /\ [Next]_vars => [Final]_vars
  BY FinalStep
<1> QED
  BY <1>1, <1>2, TypedInit, TypedNext, UntouchedNext, PTL DEF Spec, LyricIsFinal

=============================================================================
