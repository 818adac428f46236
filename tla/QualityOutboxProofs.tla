------------------------- MODULE QualityOutboxProofs -------------------------
(***************************************************************************)
(* Proofs about QualityOutbox for any number of workers and dispatchers,   *)
(* any number of new lyrics, new audios and faults.                        *)
(***************************************************************************)
EXTENDS QualityOutbox, TLAPS

-----------------------------------------------------------------------------
(* The inductive invariant                                                 *)

(* A row whose snapshot exists, whose complete analysis is of that         *)
(* snapshot and closed to further answers, and whose pending analysis is   *)
(* open to the answer it waits for.                                        *)
SoundRow(row) ==
  /\ row \in JobRows
  /\ SnapshotOf(row) \in Snapshots
  /\ row.status = "complete" =>
       row.verdict = SnapshotOf(row) /\ row.active = NoAttempt
  /\ row.status = "pending" =>
       /\ row.marker # NoAttempt /\ row.active = row.marker
       /\ row.marker.of = SnapshotOf(row)

(* A publisher past its first look knows its attempt, and none is ahead of *)
(* the row.                                                                *)
SoundPublisher(row, revision) ==
  /\ row \in PublisherRows
  /\ row.revision <= revision
  /\ row.pc \notin {"idle", "seen", "resolve"} => row.attempt \in Attempts
  /\ row.pc = "seen" => row.marker \in Attempts

SoundWorker(row) ==
  row \in ExecRows /\ (row.pc # "idle" => row.attempt \in Attempts)

Sound ==
  /\ SoundRow(job)
  /\ events \in [Snapshots -> OutboxRows]
  /\ rq \in [Attempts -> RqRows]
  /\ pub \in [Publishers -> PublisherRows]
  /\ \A p \in Publishers : SoundPublisher(pub[p], job.revision)
  /\ exec \in [Workers -> ExecRows]
  /\ \A w \in Workers : SoundWorker(exec[w])
  /\ faults \in 0..MaxFaults

LEMMA SoundSuffices == Sound => TypeOK /\ VerdictIsCurrent /\ PendingCanLand
BY DEF Sound, SoundRow, TypeOK, VerdictIsCurrent, PendingCanLand

-----------------------------------------------------------------------------
(* The operators on rows                                                   *)

LEMMA NoAttemptApart == NoAttempt \notin Attempts /\ NoAttempt \notin Snapshots
BY QualityAssumption

LEMMA OutboxRowTypes ==
  /\ AbsentEvent \in OutboxRows /\ NewEvent \in OutboxRows
  /\ \A ev \in OutboxRows :
       PublishSucceeded(ev) \in OutboxRows /\ PublishFailed(ev, TRUE) \in OutboxRows
<1>1. MaxAttempts \in Nat
  BY LeaseAssumption
<1>2. AbsentEvent \in OutboxRows /\ NewEvent \in OutboxRows
  BY <1>1 DEF AbsentEvent, NewEvent, OutboxRows, EventStatuses
<1>3. ASSUME NEW ev \in OutboxRows
      PROVE  PublishSucceeded(ev) \in OutboxRows /\ PublishFailed(ev, TRUE) \in OutboxRows
  <2>1. Attempted(ev.attempts) \in 0..MaxAttempts
    BY <1>1 DEF Attempted, OutboxRows
  <2> QED
    BY <2>1 DEF PublishSucceeded, PublishFailed, OutboxRows, EventStatuses
<1> QED
  BY <1>2, <1>3

LEMMA RqRowTypes ==
  /\ NoRqJob \in RqRows
  /\ \A j \in RqRows :
       /\ RqRoom(j) => RqEnqueued(j) \in RqRows
       /\ j.entries > 0 => RqPopped(j) \in RqRows
       /\ RqSucceeded(j) \in RqRows
       /\ RqFailed(j) \in RqRows
       /\ RqRoom(j) => RqRetryDue(j) \in RqRows
<1>1. RetryMax \in Nat /\ MaxEntries \in Nat \ {0}
  BY QualityAssumption
<1>2. NoRqJob \in RqRows
  BY <1>1 DEF NoRqJob, RqRows, RqStatuses
<1>3. ASSUME NEW j \in RqRows
      PROVE  /\ RqRoom(j) => RqEnqueued(j) \in RqRows
             /\ j.entries > 0 => RqPopped(j) \in RqRows
             /\ RqSucceeded(j) \in RqRows
             /\ RqFailed(j) \in RqRows
             /\ RqRoom(j) => RqRetryDue(j) \in RqRows
  <2>1. /\ j.entries \in 0..MaxEntries /\ j.retries \in 0..RetryMax
        /\ j.status \in RqStatuses /\ j.scheduled \in BOOLEAN
        /\ {"queued", "started", "finished", "scheduled", "failed"} \subseteq RqStatuses
    BY DEF RqRows, RqStatuses
  <2>2. RqRoom(j) => j.entries + 1 \in 0..MaxEntries
    BY <1>1, <2>1 DEF RqRoom
  <2>3. j.entries > 0 => j.entries - 1 \in 0..MaxEntries
    BY <1>1, <2>1
  <2>4. j.retries > 0 => j.retries - 1 \in 0..RetryMax
    BY <1>1, <2>1
  <2>5. RetryMax \in 0..RetryMax
    BY <1>1
  <2>6. RqRoom(j) => RqEnqueued(j) \in RqRows
    BY <2>1, <2>2, <2>5 DEF RqEnqueued, RqRows
  <2>7. j.entries > 0 => RqPopped(j) \in RqRows
    BY <2>1, <2>3 DEF RqPopped, RqRows
  <2>8. RqSucceeded(j) \in RqRows
    BY <2>1 DEF RqSucceeded, RqRows
  <2>9. RqFailed(j) \in RqRows
    BY <2>1, <2>4 DEF RqFailed, RqRows
  <2>10. RqRoom(j) => RqRetryDue(j) \in RqRows
    BY <2>1, <2>2 DEF RqRetryDue, RqRows
  <2> QED
    BY <2>6, <2>7, <2>8, <2>9, <2>10
<1> QED
  BY <1>2, <1>3

(* What the tables of a row say about its fields.                          *)
LEMMA JobFields ==
  ASSUME NEW row \in JobRows
  PROVE  /\ row.revision \in 0..MaxChanges /\ row.audio \in 1..(MaxChanges + 1)
         /\ row.status \in AnalysisStatuses
         /\ row.marker \in Attempts \cup {NoAttempt}
         /\ row.active \in Attempts \cup {NoAttempt}
         /\ row.age \in 0..(StaleAfter + 1)
         /\ row.windows \in BOOLEAN /\ row.approval \in BOOLEAN
         /\ row.resolution \in BOOLEAN
         /\ row.verdict \in Snapshots \cup {NoAttempt}
         /\ {"pending", "complete", "failed", "superseded"} \subseteq AnalysisStatuses
         /\ 0 \in 0..(StaleAfter + 1)
         /\ MaxChanges \in Nat /\ StaleAfter \in Nat
BY QualityAssumption DEF JobRows, AnalysisStatuses

(* A save makes the next snapshot of a sound row; nothing is pending or    *)
(* complete in it.                                                         *)
LEMMA SupersededSound ==
  ASSUME NEW row, SoundRow(row), row.revision + row.audio <= MaxChanges,
         NEW w \in BOOLEAN
  PROVE  /\ SoundRow(Superseded(row, w))
         /\ Superseded(row, w).revision = row.revision + 1
<1>1. row \in JobRows
  BY DEF SoundRow
<1> DEFINE new == Superseded(row, w)
<1>2. row.revision + 1 \in 0..MaxChanges
  BY <1>1, JobFields
<1>3. new \in JobRows
  BY <1>1, <1>2, JobFields DEF Superseded, JobRows
<1>4. new.revision = row.revision + 1 /\ new.audio = row.audio /\ new.status = "superseded"
  BY <1>1 DEF Superseded, JobRows
<1>5. SnapshotOf(new) \in Snapshots
  BY <1>1, <1>2, <1>4, JobFields DEF SnapshotOf, Snapshots
<1> HIDE DEF new
<1>6. SoundRow(new)
  BY <1>3, <1>4, <1>5 DEF SoundRow
<1> QED
  BY <1>4, <1>6 DEF new

(* So does a new audio.                                                    *)
LEMMA NewAudioSound ==
  ASSUME NEW row, SoundRow(row), row.revision + row.audio <= MaxChanges
  PROVE  LET new == [row EXCEPT !.audio = @ + 1, !.status = "superseded",
                                !.active = NoAttempt, !.age = 0, !.windows = TRUE]
         IN  SoundRow(new) /\ new.revision = row.revision
<1>1. row \in JobRows
  BY DEF SoundRow
<1> DEFINE new == [row EXCEPT !.audio = @ + 1, !.status = "superseded",
                              !.active = NoAttempt, !.age = 0, !.windows = TRUE]
<1>2. row.audio + 1 \in 1..(MaxChanges + 1)
  BY <1>1, JobFields
<1>3. new \in JobRows
  BY <1>1, <1>2, JobFields DEF JobRows
<1>4. new.revision = row.revision /\ new.audio = row.audio + 1 /\ new.status = "superseded"
  BY <1>1 DEF JobRows
<1>5. SnapshotOf(new) \in Snapshots
  BY <1>1, <1>2, <1>4, JobFields DEF SnapshotOf, Snapshots
<1> HIDE DEF new
<1>6. SoundRow(new)
  BY <1>3, <1>4, <1>5 DEF SoundRow
<1> QED
  BY <1>4, <1>6 DEF new

(* Everything else leaves the snapshot alone.  To be sound, a new row of   *)
(* the same snapshot needs only what its new status asks for.              *)
LEMMA SameSnapshotSound ==
  ASSUME NEW row, SoundRow(row), NEW new \in JobRows,
         new.revision = row.revision, new.audio = row.audio,
         \/ new.status \in {"failed", "superseded", "none"}
         \/ /\ new.status = "complete"
            /\ new.verdict = SnapshotOf(row) /\ new.active = NoAttempt
         \/ /\ new.status = "pending" /\ new.marker # NoAttempt
            /\ new.active = new.marker /\ new.marker.of = SnapshotOf(row)
         \/ /\ new.status = row.status /\ new.verdict = row.verdict
            /\ new.active = row.active /\ new.marker = row.marker
  PROVE  SoundRow(new)
<1>1. SnapshotOf(new) = SnapshotOf(row)
  BY DEF SnapshotOf
<1> QED
  BY <1>1 DEF SoundRow

(* Approving, resolving and ageing touch one field of the record.          *)
LEMMA TouchedSound ==
  ASSUME NEW row, SoundRow(row)
  PROVE  /\ SoundRow([row EXCEPT !.approval = TRUE])
         /\ SoundRow([row EXCEPT !.resolution = TRUE])
         /\ row.age <= StaleAfter => SoundRow([row EXCEPT !.age = @ + 1])
         /\ SoundRow(MarkedFailed(row))
         /\ [row EXCEPT !.approval = TRUE].revision = row.revision
         /\ [row EXCEPT !.resolution = TRUE].revision = row.revision
         /\ [row EXCEPT !.age = @ + 1].revision = row.revision
         /\ MarkedFailed(row).revision = row.revision
<1>1. row \in JobRows
  BY DEF SoundRow
<1>2. SoundRow([row EXCEPT !.approval = TRUE])
  <2>1. [row EXCEPT !.approval = TRUE] \in JobRows
    BY <1>1 DEF JobRows
  <2> QED
    BY <1>1, <2>1, SameSnapshotSound DEF JobRows
<1>3. SoundRow([row EXCEPT !.resolution = TRUE])
  <2>1. [row EXCEPT !.resolution = TRUE] \in JobRows
    BY <1>1 DEF JobRows
  <2> QED
    BY <1>1, <2>1, SameSnapshotSound DEF JobRows
<1>4. row.age <= StaleAfter => SoundRow([row EXCEPT !.age = @ + 1])
  <2>1. row.age <= StaleAfter => row.age + 1 \in 0..(StaleAfter + 1)
    BY <1>1, JobFields
  <2>2. row.age <= StaleAfter => [row EXCEPT !.age = @ + 1] \in JobRows
    BY <1>1, <2>1 DEF JobRows
  <2> QED
    BY <1>1, <2>2, SameSnapshotSound DEF JobRows
<1>5. SoundRow(MarkedFailed(row))
  <2>1. MarkedFailed(row) \in JobRows
    BY <1>1, JobFields DEF MarkedFailed, JobRows
  <2>2. /\ MarkedFailed(row).status = "failed"
        /\ MarkedFailed(row).revision = row.revision /\ MarkedFailed(row).audio = row.audio
    BY <1>1 DEF MarkedFailed, JobRows
  <2> QED
    BY <2>1, <2>2, SameSnapshotSound
<1> QED
  BY <1>1, <1>2, <1>3, <1>4, <1>5 DEF JobRows, MarkedFailed

(* A marker makes the row wait for an answer it will take.                 *)
LEMMA MarkedSound ==
  ASSUME NEW row, SoundRow(row), NEW a \in Attempts, a.of = SnapshotOf(row)
  PROVE  SoundRow(Marked(row, a)) /\ Marked(row, a).revision = row.revision
<1>1. row \in JobRows
  BY DEF SoundRow
<1>2. Marked(row, a) \in JobRows
  BY <1>1, JobFields DEF Marked, JobRows
<1>3. /\ Marked(row, a).status = "pending" /\ Marked(row, a).marker = a
      /\ Marked(row, a).active = a
      /\ Marked(row, a).revision = row.revision /\ Marked(row, a).audio = row.audio
  BY <1>1 DEF Marked, JobRows
<1>4. a # NoAttempt
  BY NoAttemptApart
<1> QED
  BY <1>2, <1>3, <1>4, SameSnapshotSound

(* An answer is taken as the verdict on the snapshot it was made for, and  *)
(* not by a row that has its verdict; the approval stays.                  *)
LEMMA PersistedSound ==
  ASSUME NEW row, SoundRow(row), NEW a \in Attempts,
         NEW s \in {"complete", "failed"}, NEW left \in BOOLEAN
  PROVE  LET new == Persisted(row, a, s, left)
         IN  /\ SoundRow(new)
             /\ new.revision = row.revision
             /\ new.approval = row.approval
             /\ row.status = "complete" => new = row
<1>1. row \in JobRows /\ a # NoAttempt
  BY NoAttemptApart DEF SoundRow
<1>2. CASE ~Expected(row, a)
  BY <1>2 DEF Persisted
<1>3. CASE Expected(row, a)
  <2> DEFINE new == Replaced(row, a, s, left)
  <2>1. a.of = SnapshotOf(row) /\ a.of \in Snapshots /\ row.status # "complete"
    BY <1>1, <1>3 DEF Expected, SoundRow, Attempts
  <2>2. new \in JobRows
    BY <1>1, <2>1, JobFields DEF Replaced, JobRows
  <2>3. /\ new.status = s /\ new.verdict = a.of /\ new.active = NoAttempt
        /\ new.revision = row.revision /\ new.audio = row.audio
        /\ new.approval = row.approval
    BY <1>1 DEF Replaced, JobRows
  <2> HIDE DEF new
  <2>4. SoundRow(new)
    BY <2>1, <2>2, <2>3, SameSnapshotSound
  <2>5. Persisted(row, a, s, left) = new
    BY <1>3 DEF Persisted, new
  <2> QED
    BY <2>1, <2>3, <2>4, <2>5
<1> QED
  BY <1>2, <1>3

-----------------------------------------------------------------------------
(* Publishers and workers                                                  *)

LEMMA IdleRows ==
  /\ \A r \in Nat : SoundPublisher(IdlePublisher, r)
  /\ SoundWorker(IdleWorker)
<1>1. 0 \in 0..MaxChanges
  BY QualityAssumption
<1>2. IdlePublisher \in PublisherRows
  BY <1>1 DEF IdlePublisher, PublisherRows, PublisherStates
<1>3. IdleWorker \in ExecRows /\ IdleWorker.pc = "idle"
  BY DEF IdleWorker, ExecRows, WorkerStates
<1>4. IdlePublisher.pc = "idle" /\ IdlePublisher.revision = 0
  BY DEF IdlePublisher
<1>5. \A r \in Nat : 0 <= r
  OBVIOUS
<1> QED
  BY <1>2, <1>3, <1>4, <1>5 DEF SoundPublisher, SoundWorker

(* A publisher that stays where it is, or moves to a sound row, leaves all *)
(* of them sound if the row's revision does not go back.                   *)
LEMMA PublishersKept ==
  ASSUME Sound, job'.revision \in Nat, job.revision <= job'.revision,
         \/ pub' = pub
         \/ \E p \in Publishers, row \in PublisherRows :
              SoundPublisher(row, job.revision) /\ pub' = [pub EXCEPT ![p] = row]
  PROVE  /\ pub' \in [Publishers -> PublisherRows]
         /\ \A q \in Publishers : SoundPublisher(pub'[q], job'.revision)
<1>1. job.revision \in Nat
  BY JobFields DEF Sound, SoundRow
<1>2. \A row \in PublisherRows :
        SoundPublisher(row, job.revision) => SoundPublisher(row, job'.revision)
  <2>1. \A row \in PublisherRows : row.revision \in Nat
    BY QualityAssumption DEF PublisherRows
  <2> QED
    BY <1>1, <2>1 DEF SoundPublisher
<1>3. CASE pub' = pub
  BY <1>2, <1>3 DEF Sound
<1>4. ASSUME NEW p \in Publishers, NEW row \in PublisherRows,
             SoundPublisher(row, job.revision), pub' = [pub EXCEPT ![p] = row]
      PROVE  /\ pub' \in [Publishers -> PublisherRows]
             /\ \A q \in Publishers : SoundPublisher(pub'[q], job'.revision)
  <2>1. pub' \in [Publishers -> PublisherRows]
    BY <1>4 DEF Sound
  <2>2. \A q \in Publishers : SoundPublisher(pub'[q], job.revision)
    BY <1>4 DEF Sound
  <2> QED
    BY <1>2, <2>1, <2>2
<1> QED
  BY <1>3, <1>4

(* A worker that stays where it is, or moves to a sound row.               *)
LEMMA WorkersKept ==
  ASSUME Sound,
         \/ exec' = exec
         \/ \E w \in Workers, row \in ExecRows :
              SoundWorker(row) /\ exec' = [exec EXCEPT ![w] = row]
  PROVE  /\ exec' \in [Workers -> ExecRows]
         /\ \A w \in Workers : SoundWorker(exec'[w])
BY DEF Sound

(* A step of a call moves its publisher to a sound row.                    *)
LEMMA Advanced ==
  ASSUME Sound, NEW p \in Publishers, NEW row \in PublisherRows,
         row.revision <= job.revision, row.attempt \in Attempts,
         NEW pc \in PublisherStates \ {"idle", "seen", "resolve"},
         Advance(p, row, pc)
  PROVE  \E new \in PublisherRows :
           SoundPublisher(new, job.revision) /\ pub' = [pub EXCEPT ![p] = new]
<1>1. CASE Forgotten(p, pc)
  <2>1. job.revision \in Nat
    BY JobFields DEF Sound, SoundRow
  <2>2. pub' = [pub EXCEPT ![p] = IdlePublisher]
    BY <1>1 DEF Advance
  <2>3. SoundPublisher(IdlePublisher, job.revision) /\ IdlePublisher \in PublisherRows
    BY <2>1, IdleRows DEF SoundPublisher
  <2> QED
    BY <2>2, <2>3
<1>2. CASE ~Forgotten(p, pc)
  <2> DEFINE new == [row EXCEPT !.pc = pc]
  <2>1. new \in PublisherRows
    BY DEF PublisherRows
  <2>2. new.pc = pc /\ new.attempt = row.attempt /\ new.revision = row.revision
    BY DEF PublisherRows
  <2>3. pub' = [pub EXCEPT ![p] = new]
    BY <1>2 DEF Advance
  <2> HIDE DEF new
  <2>4. SoundPublisher(new, job.revision)
    BY <2>1, <2>2 DEF SoundPublisher
  <2> QED
    BY <2>1, <2>3, <2>4
<1> QED
  BY <1>1, <1>2

(* A step of a call in progress.                                           *)
LEMMA Stepped ==
  ASSUME Sound, NEW p \in Publishers,
         NEW from \in PublisherStates \ {"idle", "seen", "resolve"},
         NEW to \in PublisherStates \ {"idle", "seen", "resolve"},
         Step(p, from, to)
  PROVE  /\ pub[p].attempt \in Attempts
         /\ \E new \in PublisherRows :
              SoundPublisher(new, job.revision) /\ pub' = [pub EXCEPT ![p] = new]
<1>1. SoundPublisher(pub[p], job.revision) /\ pub[p].pc = from /\ Advance(p, pub[p], to)
  BY DEF Sound, Step
<1>2. pub[p].attempt \in Attempts /\ pub[p] \in PublisherRows
      /\ pub[p].revision <= job.revision
  BY <1>1 DEF SoundPublisher
<1> QED
  BY <1>1, <1>2, Advanced

(* So does the beginning of a call.                                        *)
LEMMA Called ==
  ASSUME Sound, NEW p \in Publishers, NEW a \in Attempts, Call(p, a)
  PROVE  /\ Fault \/ UNCHANGED faults
         /\ rq' \in [Attempts -> RqRows]
         /\ \E new \in PublisherRows :
              SoundPublisher(new, job.revision) /\ pub' = [pub EXCEPT ![p] = new]
<1> DEFINE row == [pub[p] EXCEPT !.attempt = a]
<1>1. pub[p] \in PublisherRows /\ pub[p].revision <= job.revision
  BY DEF Sound, SoundPublisher
<1>2. row \in PublisherRows /\ row.attempt = a /\ row.revision <= job.revision
  BY <1>1 DEF PublisherRows
<1>3. /\ Looked(a) \in PublisherStates \ {"idle", "seen", "resolve"}
      /\ "broken" \in PublisherStates \ {"idle", "seen", "resolve"}
  BY DEF Looked, PublisherStates
<1>4. \/ Advance(p, row, Looked(a)) /\ UNCHANGED faults
      \/ Advance(p, row, "broken") /\ Fault
  BY DEF Call
<1>r. rq' \in [Attempts -> RqRows]
  <2>1. rq' = rq \/ rq' = [rq EXCEPT ![a] = Evicted(@)]
    BY DEF Call
  <2>2. Evicted(rq[a]) \in RqRows
    BY RqRowTypes DEF Evicted, Sound
  <2> QED
    BY <2>1, <2>2 DEF Sound
<1> HIDE DEF row
<1>5. \E new \in PublisherRows :
        SoundPublisher(new, job.revision) /\ pub' = [pub EXCEPT ![p] = new]
  BY <1>2, <1>3, <1>4, Advanced
<1> QED
  BY <1>4, <1>5, <1>r

LEMMA Faulted ==
  ASSUME Sound, Fault \/ UNCHANGED faults
  PROVE  faults' \in 0..MaxFaults
BY QualityAssumption DEF Sound, Fault

-----------------------------------------------------------------------------
(* Every step preserves the invariant                                      *)

LEMMA SoundInit == Init => Sound
<1> SUFFICES ASSUME Init PROVE Sound
  OBVIOUS
<1>1. SoundRow(job)
  <2>1. job \in JobRows
    BY QualityAssumption DEF Init, JobRows, AnalysisStatuses
  <2>2. job.revision = 0 /\ job.audio = 1 /\ job.status = "none"
    BY DEF Init
  <2>3. SnapshotOf(job) \in Snapshots
    BY <2>2, QualityAssumption DEF SnapshotOf, Snapshots
  <2> QED
    BY <2>1, <2>2, <2>3 DEF SoundRow
<1>2. events \in [Snapshots -> OutboxRows] /\ rq \in [Attempts -> RqRows]
  BY OutboxRowTypes, RqRowTypes DEF Init
<1>3. \A p \in Publishers : pub[p] \in PublisherRows /\ SoundPublisher(pub[p], job.revision)
  <2> TAKE p \in Publishers
  <2>0. job.revision = 0 /\ 0 \in Nat
    BY DEF Init
  <2>1. SoundPublisher(IdlePublisher, 0) /\ IdlePublisher \in PublisherRows
    BY IdleRows DEF SoundPublisher
  <2> DEFINE row == [IdlePublisher EXCEPT !.pc = "resolve"]
  <2>2. row \in PublisherRows /\ row.pc = "resolve" /\ row.revision = 0
    BY <2>1 DEF PublisherRows, PublisherStates, IdlePublisher
  <2>3. SoundPublisher(row, 0)
    BY <2>2 DEF SoundPublisher
  <2>4. pub[p] \in {row, IdlePublisher}
    BY DEF Init
  <2> QED
    BY <2>0, <2>1, <2>2, <2>3, <2>4
<1>4. \A w \in Workers : SoundWorker(exec[w]) /\ exec[w] \in ExecRows
  BY IdleRows DEF Init, SoundWorker
<1>5. faults \in 0..MaxFaults
  BY QualityAssumption DEF Init
<1>6. pub \in [Publishers -> PublisherRows]
  BY <1>3 DEF Init
<1>7. exec \in [Workers -> ExecRows]
  BY <1>4 DEF Init
<1> QED
  BY <1>1, <1>2, <1>3, <1>4, <1>5, <1>6, <1>7 DEF Sound

(* The parts a step has to establish.                                      *)
LEMMA SoundParts ==
  ASSUME Sound, SoundRow(job'), job.revision <= job'.revision,
         events' \in [Snapshots -> OutboxRows], rq' \in [Attempts -> RqRows],
         \/ pub' = pub
         \/ \E p \in Publishers, row \in PublisherRows :
              SoundPublisher(row, job.revision) /\ pub' = [pub EXCEPT ![p] = row],
         \/ exec' = exec
         \/ \E w \in Workers, row \in ExecRows :
              SoundWorker(row) /\ exec' = [exec EXCEPT ![w] = row],
         Fault \/ UNCHANGED faults
  PROVE  Sound'
<1>1. job'.revision \in Nat
  BY JobFields DEF SoundRow
<1>2. /\ pub' \in [Publishers -> PublisherRows]
      /\ \A q \in Publishers : SoundPublisher(pub'[q], job'.revision)
  BY <1>1, PublishersKept
<1>3. /\ exec' \in [Workers -> ExecRows]
      /\ \A w \in Workers : SoundWorker(exec'[w])
  BY WorkersKept
<1>4. faults' \in 0..MaxFaults
  BY Faulted
<1> QED
  BY <1>2, <1>3, <1>4 DEF Sound

LEMMA SoundPerson == ASSUME Sound, Person PROVE Sound'
<1>0. /\ SoundRow(job) /\ job \in JobRows /\ events \in [Snapshots -> OutboxRows]
      /\ rq \in [Attempts -> RqRows]
      /\ job.revision \in Nat /\ job.revision <= job.revision
      /\ job.windows \in BOOLEAN
  BY JobFields DEF Sound, SoundRow
<1>i. \A s \in Snapshots : \A b \in BOOLEAN :
        Intent(s, b) => events' \in [Snapshots -> OutboxRows]
  BY <1>0, OutboxRowTypes DEF Intent
<1>1. CASE Save
  <2>1. PICK w \in {TRUE, job.windows} :
          job' = Superseded(job, w) /\ Intent(SnapshotOf(job'), w)
    BY <1>1 DEF Save
  <2>2. w \in BOOLEAN /\ job.revision + job.audio <= MaxChanges
    BY <1>0, <1>1 DEF Save, Changeable
  <2>3. SoundRow(job') /\ job'.revision = job.revision + 1
    BY <1>0, <2>1, <2>2, SupersededSound
  <2>4. events' \in [Snapshots -> OutboxRows]
    BY <1>i, <2>1, <2>2, <2>3 DEF SoundRow
  <2> QED
    BY <1>0, <1>1, <2>3, <2>4, SoundParts DEF Save
<1>2. CASE ReplaceAudio
  <2>1. SoundRow(job') /\ job'.revision = job.revision
    BY <1>0, <1>2, NewAudioSound DEF ReplaceAudio, Changeable
  <2>2. events' \in [Snapshots -> OutboxRows]
    BY <1>i, <1>2, <2>1 DEF ReplaceAudio, SoundRow
  <2> QED
    BY <1>0, <1>2, <2>1, <2>2, SoundParts DEF ReplaceAudio
<1>3. CASE Approve
  <2>1. SoundRow(job') /\ job'.revision = job.revision
    BY <1>0, <1>3, TouchedSound DEF Approve
  <2> QED
    BY <1>0, <1>3, <2>1, SoundParts DEF Approve
<1>4. CASE ResolveLanguage
  <2>1. SoundRow(job') /\ job'.revision = job.revision
    BY <1>0, <1>4, TouchedSound DEF ResolveLanguage
  <2> QED
    BY <1>0, <1>4, <2>1, SoundParts DEF ResolveLanguage
<1> QED
  BY <1>1, <1>2, <1>3, <1>4 DEF Person

(* The steps of a call, its errors included.                               *)
LEMMA SoundCall ==
  ASSUME Sound, NEW p \in Publishers, Publish(p) \/ PublishBadly(p)
  PROVE  Sound'
<1>0. /\ SoundRow(job) /\ job \in JobRows /\ events \in [Snapshots -> OutboxRows]
      /\ rq \in [Attempts -> RqRows]
      /\ job.revision \in Nat /\ job.revision <= job.revision
      /\ \A pc \in {"mark", "remark", "enqueue", "undo", "published", "declined", "broken"} :
           pc \in PublisherStates \ {"idle", "seen", "resolve"}
  BY JobFields DEF Sound, SoundRow, PublisherStates
<1> DEFINE Moved == \E q \in Publishers, row \in PublisherRows :
              SoundPublisher(row, job.revision) /\ pub' = [pub EXCEPT ![q] = row]
<1>m. ASSUME \E new \in PublisherRows :
              SoundPublisher(new, job.revision) /\ pub' = [pub EXCEPT ![p] = new]
      PROVE  Moved
  BY <1>m
<1> HIDE DEF Moved
<1>q. ASSUME SoundRow(job'), job.revision <= job'.revision, events' = events,
             rq' \in [Attempts -> RqRows], Moved, exec' = exec, Fault \/ UNCHANGED faults
      PROVE  Sound'
  BY <1>0, <1>q, SoundParts DEF Moved
<1>1. CASE CallDirectly(p)
  <2> DEFINE s == [revision |-> pub[p].revision, audio |-> job.audio]
             a == [of |-> s, via |-> "direct"]
  <2>1. Call(p, a) /\ UNCHANGED <<job, events, exec>>
    BY <1>1 DEF CallDirectly
  <2>2. pub[p].revision \in 0..MaxChanges /\ pub[p].revision <= job.revision
    BY DEF Sound, SoundPublisher, PublisherRows
  <2>3. job.audio \in 1..(MaxChanges + 1) /\ job.revision + job.audio <= MaxChanges + 1
    BY <1>0, JobFields DEF SoundRow, SnapshotOf, Snapshots
  <2>4. pub[p].revision + job.audio <= MaxChanges + 1
    BY <1>0, <2>2, <2>3, QualityAssumption
  <2>5. s \in Snapshots
    BY <2>2, <2>3, <2>4 DEF Snapshots
  <2>6. a \in Attempts
    BY <2>5 DEF Attempts
  <2> HIDE DEF a
  <2>7. Moved /\ rq' \in [Attempts -> RqRows] /\ (Fault \/ UNCHANGED faults)
    BY <1>m, <2>1, <2>6, Called
  <2> QED
    BY <1>0, <1>q, <2>1, <2>7
<1>2. CASE Mark(p)
  <2>1. /\ Step(p, "mark", "enqueue") \/ Step(p, "remark", "published")
        /\ Markable(job, pub[p].attempt) /\ job' = Marked(job, pub[p].attempt)
        /\ UNCHANGED <<events, rq, exec, faults>>
    BY <1>2 DEF Mark
  <2>2. pub[p].attempt \in Attempts /\ Moved
    BY <1>0, <1>m, <2>1, Stepped
  <2>3. SoundRow(job') /\ job'.revision = job.revision
    BY <1>0, <2>1, <2>2, MarkedSound DEF Markable
  <2> QED
    BY <1>0, <1>q, <2>1, <2>2, <2>3
<1>3. CASE MarkDeclined(p)
  <2>1. /\ Step(p, "mark", "declined") \/ Step(p, "remark", "declined")
        /\ Fault \/ UNCHANGED faults
        /\ UNCHANGED <<job, events, rq, exec>>
    BY <1>3 DEF MarkDeclined
  <2>2. Moved
    BY <1>0, <1>m, <2>1, Stepped
  <2> QED
    BY <1>0, <1>q, <2>1, <2>2
<1>4. CASE Enqueue(p)
  <2>1. /\ Step(p, "enqueue", "published") /\ RqRoom(rq[pub[p].attempt])
        /\ rq' = [rq EXCEPT ![pub[p].attempt] = RqEnqueued(@)]
        /\ UNCHANGED <<job, events, exec, faults>>
    BY <1>4 DEF Enqueue
  <2>2. pub[p].attempt \in Attempts /\ Moved
    BY <1>0, <1>m, <2>1, Stepped
  <2>3. rq' \in [Attempts -> RqRows]
    BY <1>0, <2>1, <2>2, RqRowTypes
  <2> QED
    BY <1>0, <1>q, <2>1, <2>2, <2>3
<1>5. CASE Undo(p)
  <2>1. /\ Step(p, "undo", "broken")
        /\ job' \in {job, MarkedFailed(job)}
        /\ Fault \/ UNCHANGED faults
        /\ UNCHANGED <<events, rq, exec>>
    BY <1>5 DEF Undo
  <2>2. Moved
    BY <1>0, <1>m, <2>1, Stepped
  <2>3. SoundRow(job') /\ job'.revision = job.revision
    BY <1>0, <2>1, TouchedSound
  <2> QED
    BY <1>0, <1>q, <2>1, <2>2, <2>3
<1>6. CASE EnqueueFails(p)
  <2>1. /\ Step(p, "enqueue", "undo") /\ Fault
        /\ \/ rq' = rq
           \/ /\ RqRoom(rq[pub[p].attempt])
              /\ rq' = [rq EXCEPT ![pub[p].attempt] = RqEnqueued(@)]
        /\ UNCHANGED <<job, events, exec>>
    BY <1>6 DEF EnqueueFails
  <2>2. pub[p].attempt \in Attempts /\ Moved
    BY <1>0, <1>m, <2>1, Stepped
  <2>3. rq' \in [Attempts -> RqRows]
    BY <1>0, <2>1, <2>2, RqRowTypes
  <2> QED
    BY <1>0, <1>q, <2>1, <2>2, <2>3
<1>7. CASE PublisherDies(p)
  <2>1. /\ pub' = [pub EXCEPT ![p] = IdlePublisher] /\ Fault
        /\ UNCHANGED <<job, events, rq, exec>>
    BY <1>7 DEF PublisherDies
  <2>2. SoundPublisher(IdlePublisher, job.revision) /\ IdlePublisher \in PublisherRows
    BY <1>0, IdleRows DEF SoundPublisher
  <2> QED
    BY <1>0, <1>m, <1>q, <2>1, <2>2
<1> QED
  BY <1>1, <1>2, <1>3, <1>4, <1>5, <1>6, <1>7 DEF Publish, PublishBadly

(* What only the dispatcher and the reconciler do around a call.           *)
LEMMA SoundAround ==
  ASSUME Sound, NEW p \in Publishers,
         \/ \E s \in Snapshots : Dispatch(p, s)
         \/ DispatchEnds(p) \/ Scan(p) \/ Reconsider(p) \/ ScanEnds(p)
  PROVE  Sound'
<1>0. /\ SoundRow(job) /\ job \in JobRows /\ events \in [Snapshots -> OutboxRows]
      /\ rq \in [Attempts -> RqRows]
      /\ job.revision \in Nat /\ job.revision <= job.revision
      /\ SoundPublisher(pub[p], job.revision) /\ pub[p] \in PublisherRows
      /\ SoundPublisher(IdlePublisher, job.revision) /\ IdlePublisher \in PublisherRows
  BY JobFields, IdleRows DEF Sound, SoundRow, SoundPublisher
<1>1. ASSUME NEW s \in Snapshots, Dispatch(p, s)
      PROVE  Sound'
  <2> DEFINE a == [of |-> s, via |-> "outbox"]
  <2>1. Call(p, a) /\ UNCHANGED <<job, events, exec>>
    BY <1>1 DEF Dispatch
  <2>2. a \in Attempts
    BY DEF Attempts
  <2> HIDE DEF a
  <2>3. rq' \in [Attempts -> RqRows] /\ (Fault \/ UNCHANGED faults)
    BY <2>1, <2>2, Called
  <2>4. \E new \in PublisherRows :
          SoundPublisher(new, job.revision) /\ pub' = [pub EXCEPT ![p] = new]
    BY <2>1, <2>2, Called
  <2> QED
    BY <1>0, <2>1, <2>3, <2>4, SoundParts
<1>2. CASE DispatchEnds(p)
  <2>1. /\ pub[p].pc \in {"published", "declined", "broken"}
        /\ events' = [events EXCEPT ![pub[p].attempt.of] =
             IF pub[p].pc = "broken" THEN PublishFailed(@, TRUE) ELSE PublishSucceeded(@)]
        /\ pub' = [pub EXCEPT ![p] = IdlePublisher]
        /\ UNCHANGED <<job, rq, exec, faults>>
    BY <1>2 DEF DispatchEnds, CallEnded
  <2>2. pub[p].attempt.of \in Snapshots
    BY <1>0, <2>1 DEF SoundPublisher, Attempts
  <2>3. events' \in [Snapshots -> OutboxRows]
    BY <1>0, <2>1, <2>2, OutboxRowTypes
  <2> QED
    BY <1>0, <2>1, <2>3, SoundParts
<1>3. CASE Scan(p)
  <2> DEFINE row == [pc |-> "seen", attempt |-> NoAttempt,
                     revision |-> job.revision, marker |-> job.marker]
  <2>1. job.status = "pending" /\ pub' = [pub EXCEPT ![p] = row]
        /\ UNCHANGED <<job, events, rq, exec, faults>>
    BY <1>3 DEF Scan, PendingIsStale
  <2>2. job.marker \in Attempts /\ job.revision \in 0..MaxChanges
    BY <1>0, <2>1, JobFields DEF SoundRow
  <2>3. row \in PublisherRows
    BY <2>2 DEF PublisherRows, PublisherStates
  <2>4. SoundPublisher(row, job.revision)
    BY <1>0, <2>2, <2>3 DEF SoundPublisher
  <2> HIDE DEF row
  <2> QED
    BY <1>0, <2>1, <2>3, <2>4, SoundParts
<1>4. CASE Reconsider(p)
  <2> DEFINE row == [pub[p] EXCEPT !.pc = "resolve"]
  <2>1. /\ pub' \in {[pub EXCEPT ![p] = IdlePublisher], [pub EXCEPT ![p] = row]}
        /\ Fault \/ UNCHANGED faults
        /\ UNCHANGED <<job, events, rq, exec>>
    BY <1>4 DEF Reconsider, Sound
  <2>2. row \in PublisherRows /\ row.pc = "resolve" /\ row.revision = pub[p].revision
    BY <1>0 DEF PublisherRows, PublisherStates
  <2> HIDE DEF row
  <2>3. SoundPublisher(row, job.revision)
    BY <1>0, <2>2 DEF SoundPublisher
  <2> QED
    BY <1>0, <2>1, <2>2, <2>3, SoundParts
<1>5. CASE ScanEnds(p)
  <2>1. /\ job' \in {job, MarkedFailed(job)}
        /\ pub' = [pub EXCEPT ![p] = IdlePublisher]
        /\ UNCHANGED <<events, rq, exec, faults>>
    BY <1>5 DEF ScanEnds
  <2>2. SoundRow(job') /\ job'.revision = job.revision
    BY <1>0, <2>1, TouchedSound
  <2> QED
    BY <1>0, <2>1, <2>2, SoundParts
<1> QED
  BY <1>1, <1>2, <1>3, <1>4, <1>5

(* An analysis on its worker, errors included.                             *)
Analysis(w) ==
  \/ \E a \in Attempts : Pop(w, a)
  \/ Start(w) \/ Discard(w) \/ Persist(w) \/ Return(w) \/ FailureHook(w)
  \/ RunRaises(w) \/ Crash(w)

(* On the row it writes an answer to the worker's attempt, or nothing.     *)
LEMMA AnalysisWrites ==
  ASSUME Sound, NEW w \in Workers, Analysis(w)
  PROVE  \/ job' = job
         \/ /\ exec[w].attempt \in Attempts
            /\ \E s \in {"complete", "failed"}, left \in BOOLEAN :
                 job' = Persisted(job, exec[w].attempt, s, left)
<1>0. SoundWorker(exec[w]) /\ job.windows \in BOOLEAN
  BY JobFields DEF Sound, SoundRow
<1>1. CASE Persist(w)
  BY <1>0, <1>1 DEF Persist, SoundWorker
<1>2. CASE FailureHook(w)
  BY <1>0, <1>2 DEF FailureHook, SoundWorker
<1>3. CASE ~Persist(w) /\ ~FailureHook(w)
  BY <1>3 DEF Analysis, Pop, Start, Discard, Return, RunRaises, Crash
<1> QED
  BY <1>1, <1>2, <1>3

LEMMA SoundAnalysis == ASSUME Sound, NEW w \in Workers, Analysis(w) PROVE Sound'
<1>0. /\ SoundRow(job) /\ events \in [Snapshots -> OutboxRows]
      /\ rq \in [Attempts -> RqRows] /\ job.revision \in Nat
      /\ SoundWorker(exec[w]) /\ exec \in [Workers -> ExecRows]
      /\ SoundWorker(IdleWorker) /\ IdleWorker \in ExecRows
  BY JobFields, IdleRows DEF Sound, SoundRow, SoundWorker
<1>1. SoundRow(job') /\ job'.revision = job.revision
  BY <1>0, AnalysisWrites, PersistedSound
<1>2. events' = events /\ pub' = pub /\ (Fault \/ UNCHANGED faults)
  BY DEF Analysis, Pop, Start, Discard, Persist, Return, FailureHook, RunRaises, Crash
<1>g. \A pc \in {"run", "returned", "callback", "dead"} :
        exec[w].pc # "idle" /\ Goto(w, pc) =>
          \E row \in ExecRows : SoundWorker(row) /\ exec' = [exec EXCEPT ![w] = row]
  <2> TAKE pc \in {"run", "returned", "callback", "dead"}
  <2> HAVE exec[w].pc # "idle" /\ Goto(w, pc)
  <2> DEFINE row == [exec[w] EXCEPT !.pc = pc]
  <2>1. row \in ExecRows /\ row.attempt = exec[w].attempt
    BY <1>0 DEF SoundWorker, ExecRows, WorkerStates
  <2>2. exec' = [exec EXCEPT ![w] = row]
    BY <1>0 DEF Goto
  <2>3. exec[w].attempt \in Attempts
    BY <1>0 DEF SoundWorker
  <2> HIDE DEF row
  <2>4. SoundWorker(row)
    BY <2>1, <2>3 DEF SoundWorker
  <2> QED
    BY <2>1, <2>2, <2>4
<1>3. /\ rq' \in [Attempts -> RqRows]
      /\ \E row \in ExecRows : SoundWorker(row) /\ exec' = [exec EXCEPT ![w] = row]
  <2>1. ASSUME NEW a \in Attempts, Pop(w, a)
        PROVE  /\ rq' \in [Attempts -> RqRows]
               /\ \E row \in ExecRows : SoundWorker(row) /\ exec' = [exec EXCEPT ![w] = row]
    <3> DEFINE row == [pc |-> "popped", attempt |-> a]
    <3>1. row \in ExecRows /\ SoundWorker(row)
      BY DEF SoundWorker, ExecRows, WorkerStates
    <3>2. exec' = [exec EXCEPT ![w] = row]
      BY <2>1 DEF Pop
    <3>3. rq' \in [Attempts -> RqRows]
      BY <1>0, <2>1, RqRowTypes DEF Pop
    <3> QED
      BY <3>1, <3>2, <3>3
  <2>2. CASE Start(w) \/ Discard(w) \/ Persist(w) \/ RunRaises(w) \/ Crash(w)
    <3>1. exec[w].pc # "idle" /\ rq' = rq
      BY <2>2 DEF Start, Discard, Persist, RunRaises, Crash
    <3>2. \E pc \in {"run", "returned", "callback", "dead"} : Goto(w, pc)
      BY <2>2 DEF Start, Discard, Persist, RunRaises, Crash
    <3> QED
      BY <1>0, <1>g, <3>1, <3>2
  <2>3. CASE Return(w) \/ FailureHook(w)
    <3>1. exec[w].attempt \in Attempts
      BY <1>0, <2>3 DEF Return, FailureHook, SoundWorker
    <3>2. exec' = [exec EXCEPT ![w] = IdleWorker]
      BY <2>3 DEF Return, FailureHook
    <3>3. rq' \in [Attempts -> RqRows]
      BY <1>0, <2>3, <3>1, RqRowTypes DEF Return, FailureHook
    <3> QED
      BY <1>0, <3>2, <3>3
  <2> QED
    BY <2>1, <2>2, <2>3 DEF Analysis
<1>4. \E u \in Workers, row \in ExecRows :
        SoundWorker(row) /\ exec' = [exec EXCEPT ![u] = row]
  BY <1>3
<1>5. job.revision <= job'.revision /\ events' \in [Snapshots -> OutboxRows]
  BY <1>0, <1>1, <1>2
<1> QED
  BY <1>1, <1>2, <1>3, <1>4, <1>5, SoundParts

(* The rest: RQ's scheduler and the clock.                                 *)
LEMMA SoundRest ==
  ASSUME Sound, (\E a \in Attempts : RetryDue(a)) \/ Tick \/ UNCHANGED vars
  PROVE  Sound'
<1>0. /\ SoundRow(job) /\ events \in [Snapshots -> OutboxRows]
      /\ rq \in [Attempts -> RqRows] /\ job.revision \in Nat
      /\ job.revision <= job.revision
  BY JobFields DEF Sound, SoundRow
<1>1. ASSUME NEW a \in Attempts, RetryDue(a)
      PROVE  Sound'
  <2>1. rq' \in [Attempts -> RqRows]
    BY <1>0, <1>1, RqRowTypes DEF RetryDue
  <2> QED
    BY <1>0, <1>1, <2>1, SoundParts DEF RetryDue
<1>2. CASE Tick
  <2>1. SoundRow(job') /\ job'.revision = job.revision
    BY <1>0, <1>2, TouchedSound DEF Tick
  <2> QED
    BY <1>0, <1>2, <2>1, SoundParts DEF Tick
<1>3. CASE UNCHANGED vars
  BY <1>0, <1>3, SoundParts DEF vars
<1> QED
  BY <1>1, <1>2, <1>3

(* Who takes a step.                                                       *)
LEMMA Steps ==
  ASSUME [Next]_vars
  PROVE  \/ Person
         \/ \E p \in Publishers : Publish(p) \/ PublishBadly(p)
         \/ \E p \in Publishers :
              \/ \E s \in Snapshots : Dispatch(p, s)
              \/ DispatchEnds(p) \/ Scan(p) \/ Reconsider(p) \/ ScanEnds(p)
         \/ \E w \in Workers : Analysis(w)
         \/ (\E a \in Attempts : RetryDue(a)) \/ Tick \/ UNCHANGED vars
BY DEF Next, DispatcherStep, WorkerStep, Analysis, Publishers

LEMMA SoundNext == ASSUME Sound, [Next]_vars PROVE Sound'
BY Steps, SoundPerson, SoundCall, SoundAround, SoundAnalysis, SoundRest

LEMMA SpecSound == Spec => []Sound
BY SoundInit, SoundNext, PTL DEF Spec

-----------------------------------------------------------------------------
(* The theorems                                                            *)

(* Rows, queue entries and processes stay within their types.              *)
THEOREM Types == Spec => []TypeOK
BY SpecSound, SoundSuffices, PTL

(* A complete analysis is about the lyric and the audio the song has now.  *)
THEOREM VerdictCurrent == Spec => []VerdictIsCurrent
BY SpecSound, SoundSuffices, PTL

(* A pending analysis is one whose answer the row would take.              *)
THEOREM PendingLands == Spec => []PendingCanLand
BY SpecSound, SoundSuffices, PTL

(* No worker and no failure hook takes a complete analysis back: only      *)
(* steps of an analysis move a worker, and what they write is refused by a *)
(* row that has its verdict.                                               *)
THEOREM VerdictSpared == Spec => HookSparesVerdict
<1>1. ASSUME Sound, [Next]_vars, job.status = "complete", exec' # exec
      PROVE  job' = job
  <2>1. ASSUME NEW w \in Workers, Analysis(w)
        PROVE  job' = job
    BY <1>1, <2>1, AnalysisWrites, PersistedSound DEF Sound
  <2>2. CASE Person
    BY <1>1, <2>2 DEF Person, Save, ReplaceAudio, Approve, ResolveLanguage
  <2>3. ASSUME NEW p \in Publishers, Publish(p) \/ PublishBadly(p)
        PROVE  FALSE
    BY <1>1, <2>3 DEF Publish, PublishBadly, CallDirectly, Mark, MarkDeclined, Enqueue,
       Undo, EnqueueFails, PublisherDies
  <2>4. ASSUME NEW p \in Publishers,
               \/ \E s \in Snapshots : Dispatch(p, s)
               \/ DispatchEnds(p) \/ Scan(p) \/ Reconsider(p) \/ ScanEnds(p)
        PROVE  FALSE
    BY <1>1, <2>4 DEF Dispatch, DispatchEnds, Scan, Reconsider, ScanEnds
  <2>5. CASE (\E a \in Attempts : RetryDue(a)) \/ Tick \/ UNCHANGED vars
    BY <1>1, <2>5 DEF RetryDue, Tick, vars
  <2> QED
    BY <1>1, <2>1, <2>2, <2>3, <2>4, <2>5, Steps
<1>2. Sound /\ [Next]_vars => [job.status = "complete" /\ exec' # exec => job' = job]_vars
  BY <1>1
<1> QED
  BY <1>2, SpecSound, PTL DEF Spec, HookSparesVerdict

(* An approval goes only with its lyric: a save is the one step that takes *)
(* it away.                                                                *)
THEOREM ApprovalKept == Spec => ApprovalSurvivesAnalysis
<1>1. ASSUME Sound, [Next]_vars, job.approval, ~job'.approval
      PROVE  job'.revision # job.revision
  <2>0. SoundRow(job) /\ job \in JobRows /\ job.revision \in Nat
    BY <1>1, JobFields DEF Sound, SoundRow
  <2>m. \A a \in Attempts : Marked(job, a).approval = job.approval
    BY <2>0 DEF Marked, JobRows
  <2>f. MarkedFailed(job).approval = job.approval
    BY <2>0 DEF MarkedFailed, JobRows
  <2>1. ASSUME NEW w \in Workers, Analysis(w)
        PROVE  FALSE
    BY <1>1, <2>0, <2>1, AnalysisWrites, PersistedSound
  <2>2. CASE Save
    <3>1. PICK w \in {TRUE, job.windows} : job' = Superseded(job, w)
      BY <2>2 DEF Save
    <3>2. job'.revision = job.revision + 1
      BY <2>0, <2>2, <3>1, JobFields, SupersededSound DEF Save, Changeable
    <3> QED
      BY <2>0, <3>2
  <2>3. CASE ReplaceAudio \/ Approve \/ ResolveLanguage
    BY <1>1, <2>0, <2>3 DEF ReplaceAudio, Approve, ResolveLanguage, JobRows
  <2>4. ASSUME NEW p \in Publishers, Publish(p) \/ PublishBadly(p)
        PROVE  FALSE
    <3>1. CASE Mark(p)
      <4>1. /\ Step(p, "mark", "enqueue") \/ Step(p, "remark", "published")
            /\ job' = Marked(job, pub[p].attempt)
        BY <3>1 DEF Mark
      <4>2. pub[p].attempt \in Attempts
        BY <1>1, <4>1 DEF Step, Sound, SoundPublisher
      <4> QED
        BY <1>1, <2>m, <4>1, <4>2
    <3>2. CASE ~Mark(p)
      BY <1>1, <2>f, <2>4, <3>2 DEF Publish, PublishBadly, CallDirectly, MarkDeclined,
         Enqueue, Undo, EnqueueFails, PublisherDies
    <3> QED
      BY <3>1, <3>2
  <2>5. ASSUME NEW p \in Publishers,
               \/ \E s \in Snapshots : Dispatch(p, s)
               \/ DispatchEnds(p) \/ Scan(p) \/ Reconsider(p) \/ ScanEnds(p)
        PROVE  FALSE
    BY <1>1, <2>f, <2>5 DEF Dispatch, DispatchEnds, Scan, Reconsider, ScanEnds
  <2>6. CASE (\E a \in Attempts : RetryDue(a)) \/ UNCHANGED vars
    BY <1>1, <2>6 DEF RetryDue, vars
  <2>7. CASE Tick
    BY <1>1, <2>0, <2>7 DEF Tick, JobRows
  <2> QED
    BY <1>1, <2>1, <2>2, <2>3, <2>4, <2>5, <2>6, <2>7, Steps DEF Person
<1>2. Sound /\ [Next]_vars =>
        [job.approval /\ ~job'.approval => job'.revision # job.revision]_vars
  BY <1>1
<1> QED
  BY <1>2, SpecSound, PTL DEF Spec, ApprovalSurvivesAnalysis

-----------------------------------------------------------------------------
(* The refinement                                                          *)

NewAudio(row) ==
  [row EXCEPT !.audio = @ + 1, !.status = "superseded",
              !.active = NoAttempt, !.age = 0, !.windows = TRUE]

(* All that ever happens to the row.                                       *)
LEMMA JobMoves ==
  ASSUME Sound, [Next]_vars
  PROVE  \/ job' = job
         \/ \E w \in BOOLEAN : job' = Superseded(job, w)
         \/ job' = NewAudio(job)
         \/ ~job.approval /\ job' = [job EXCEPT !.approval = TRUE]
         \/ job' = [job EXCEPT !.resolution = TRUE]
         \/ job' = [job EXCEPT !.age = @ + 1]
         \/ \E a \in Attempts : a.of = SnapshotOf(job) /\ job' = Marked(job, a)
         \/ job' = MarkedFailed(job)
         \/ \E a \in Attempts, s \in {"complete", "failed"}, left \in BOOLEAN :
              job' = Persisted(job, a, s, left)
<1>0. job.windows \in BOOLEAN
  BY JobFields DEF Sound, SoundRow
<1>1. ASSUME NEW w \in Workers, Analysis(w)
      PROVE  \/ job' = job
             \/ \E a \in Attempts, s \in {"complete", "failed"}, left \in BOOLEAN :
                  job' = Persisted(job, a, s, left)
  BY <1>1, AnalysisWrites
<1>2. CASE Save
  BY <1>0, <1>2 DEF Save
<1>3. CASE ReplaceAudio \/ Approve \/ ResolveLanguage
  BY <1>3 DEF ReplaceAudio, Approve, ResolveLanguage, NewAudio
<1>4. ASSUME NEW p \in Publishers, Publish(p) \/ PublishBadly(p)
      PROVE  \/ job' \in {job, MarkedFailed(job)}
             \/ \E a \in Attempts : a.of = SnapshotOf(job) /\ job' = Marked(job, a)
  <2>1. CASE Mark(p)
    <3>1. /\ Step(p, "mark", "enqueue") \/ Step(p, "remark", "published")
          /\ job' = Marked(job, pub[p].attempt)
          /\ pub[p].attempt.of = SnapshotOf(job)
      BY <2>1 DEF Mark, Markable
    <3>2. pub[p].attempt \in Attempts
      BY <3>1 DEF Step, Sound, SoundPublisher
    <3> QED
      BY <3>1, <3>2
  <2>2. CASE ~Mark(p)
    BY <1>4, <2>2 DEF Publish, PublishBadly, CallDirectly, MarkDeclined, Enqueue, Undo,
       EnqueueFails, PublisherDies
  <2> QED
    BY <2>1, <2>2
<1>5. ASSUME NEW p \in Publishers,
             \/ \E s \in Snapshots : Dispatch(p, s)
             \/ DispatchEnds(p) \/ Scan(p) \/ Reconsider(p) \/ ScanEnds(p)
      PROVE  job' \in {job, MarkedFailed(job)}
  BY <1>5 DEF Dispatch, DispatchEnds, Scan, Reconsider, ScanEnds
<1>6. CASE (\E a \in Attempts : RetryDue(a)) \/ Tick \/ UNCHANGED vars
  BY <1>6 DEF RetryDue, Tick, vars
<1> QED
  BY <1>1, <1>2, <1>3, <1>4, <1>5, <1>6, Steps DEF Person

(* The attempt a row names is not ahead of its lyric, so that a save leaves *)
(* no attempt behind whose answer the new lyric would take.                *)
NothingAhead(row) == row.active # NoAttempt => row.active.of.revision <= row.revision

(* What is visible of a row.                                               *)
OpenRow(row) == row.active # NoAttempt /\ row.active.of = SnapshotOf(row)
ShownRow(row) == IF row.status = "superseded" THEN "none" ELSE row.status
VerdictRow(row) == IF row.status = "complete" THEN row.verdict ELSE NoAttempt

Same(row, new) ==
  /\ SnapshotOf(new) = SnapshotOf(row)
  /\ ShownRow(new) = ShownRow(row) /\ OpenRow(new) = OpenRow(row)
  /\ VerdictRow(new) = VerdictRow(row)

Closed(new) == ShownRow(new) = "none" /\ ~OpenRow(new) /\ VerdictRow(new) = NoAttempt

(* A save leaves nothing said of the new lyric, and nothing that would be. *)
LEMMA SupersededShows ==
  ASSUME NEW row, SoundRow(row), NothingAhead(row), NEW w \in BOOLEAN
  PROVE  LET new == Superseded(row, w)
         IN  /\ SnapshotOf(new) = [SnapshotOf(row) EXCEPT !.revision = @ + 1]
             /\ Closed(new) /\ new.approval = FALSE /\ NothingAhead(new)
<1>1. row \in JobRows /\ row.revision \in Nat
  BY JobFields DEF SoundRow
<1> DEFINE new == Superseded(row, w)
<1>2. /\ new.revision = row.revision + 1 /\ new.audio = row.audio
      /\ new.status = "superseded" /\ new.active = row.active /\ new.approval = FALSE
  BY <1>1 DEF Superseded, JobRows
<1> HIDE DEF new
<1>3. row.active # NoAttempt =>
        row.active.of.revision \in Nat /\ row.active.of.revision <= row.revision
  <2>1. row.active \in Attempts \cup {NoAttempt} /\ MaxChanges \in Nat
    BY <1>1, JobFields
  <2>2. \A a \in Attempts : a.of.revision \in 0..MaxChanges
    BY DEF Attempts, Snapshots
  <2> QED
    BY <2>1, <2>2 DEF NothingAhead
<1>4. SnapshotOf(new) = [SnapshotOf(row) EXCEPT !.revision = @ + 1]
  BY <1>2 DEF SnapshotOf
<1>5. SnapshotOf(new).revision = row.revision + 1
  BY <1>2 DEF SnapshotOf
<1>6. ~OpenRow(new)
  BY <1>1, <1>2, <1>3, <1>5 DEF OpenRow
<1>7. NothingAhead(new)
  BY <1>1, <1>2, <1>3 DEF NothingAhead
<1> QED
  BY <1>2, <1>4, <1>6, <1>7 DEF Closed, ShownRow, VerdictRow, new

(* Nor does a new audio.                                                   *)
LEMMA NewAudioShows ==
  ASSUME NEW row, SoundRow(row)
  PROVE  LET new == NewAudio(row)
         IN  /\ SnapshotOf(new) = [SnapshotOf(row) EXCEPT !.audio = @ + 1]
             /\ Closed(new) /\ new.approval = row.approval /\ NothingAhead(new)
<1>1. row \in JobRows
  BY DEF SoundRow
<1> QED
  BY <1>1 DEF NewAudio, JobRows, SnapshotOf, Closed, ShownRow, OpenRow, VerdictRow,
     NothingAhead

(* A marker opens the row for one answer.                                  *)
LEMMA MarkedShows ==
  ASSUME NEW row, SoundRow(row), NEW a \in Attempts, a.of = SnapshotOf(row)
  PROVE  LET new == Marked(row, a)
         IN  /\ SnapshotOf(new) = SnapshotOf(row) /\ new.approval = row.approval
             /\ ShownRow(new) = "pending" /\ OpenRow(new)
             /\ VerdictRow(new) = NoAttempt /\ NothingAhead(new)
<1>1. row \in JobRows /\ row.revision \in Nat /\ a # NoAttempt
  BY JobFields, NoAttemptApart DEF SoundRow
<1>2. a.of.revision = row.revision
  BY DEF SnapshotOf
<1>3. /\ Marked(row, a).status = "pending" /\ Marked(row, a).active = a
      /\ Marked(row, a).revision = row.revision /\ Marked(row, a).audio = row.audio
      /\ Marked(row, a).approval = row.approval
  BY <1>1 DEF Marked, JobRows
<1> QED
  BY <1>1, <1>2, <1>3 DEF SnapshotOf, ShownRow, OpenRow, VerdictRow, NothingAhead

(* Giving up says so, and leaves the question as it is.                    *)
LEMMA MarkedFailedShows ==
  ASSUME NEW row, SoundRow(row), NothingAhead(row)
  PROVE  LET new == MarkedFailed(row)
         IN  /\ SnapshotOf(new) = SnapshotOf(row) /\ new.approval = row.approval
             /\ ShownRow(new) = "failed" /\ OpenRow(new) = OpenRow(row)
             /\ VerdictRow(new) = NoAttempt /\ NothingAhead(new)
<1>1. row \in JobRows
  BY DEF SoundRow
<1> QED
  BY <1>1 DEF MarkedFailed, JobRows, SnapshotOf, ShownRow, OpenRow, VerdictRow,
     NothingAhead

(* An answer is taken by an open row, which it closes, or not at all.      *)
LEMMA PersistedShows ==
  ASSUME NEW row, SoundRow(row), NEW a \in Attempts,
         NEW s \in {"complete", "failed"}, NEW left \in BOOLEAN
  PROVE  LET new == Persisted(row, a, s, left)
         IN  \/ new = row
             \/ /\ OpenRow(row) /\ ~OpenRow(new)
                /\ SnapshotOf(new) = SnapshotOf(row) /\ new.approval = row.approval
                /\ ShownRow(new) = s /\ NothingAhead(new)
                /\ s = "complete" => VerdictRow(new) = SnapshotOf(row)
                /\ s = "failed" => VerdictRow(new) = NoAttempt
<1>1. row \in JobRows /\ a # NoAttempt
  BY NoAttemptApart DEF SoundRow
<1>2. CASE ~Expected(row, a)
  BY <1>2 DEF Persisted
<1>3. CASE Expected(row, a)
  <2> DEFINE new == Replaced(row, a, s, left)
  <2>1. /\ new.status = s /\ new.verdict = a.of /\ new.active = NoAttempt
        /\ new.revision = row.revision /\ new.audio = row.audio
        /\ new.approval = row.approval
    BY <1>1 DEF Replaced, JobRows
  <2>2. Persisted(row, a, s, left) = new
    BY <1>3 DEF Persisted
  <2> HIDE DEF new
  <2>3. OpenRow(row) /\ a.of = SnapshotOf(row)
    BY <1>1, <1>3 DEF Expected, OpenRow
  <2> QED
    BY <2>1, <2>2, <2>3 DEF SnapshotOf, ShownRow, OpenRow, VerdictRow, NothingAhead
<1> QED
  BY <1>2, <1>3

(* Approving, resolving and ageing show in the approval, if at all.        *)
LEMMA TouchedShows ==
  ASSUME NEW row, SoundRow(row), NothingAhead(row),
         NEW new \in {[row EXCEPT !.approval = TRUE], [row EXCEPT !.resolution = TRUE],
                      [row EXCEPT !.age = @ + 1]}
  PROVE  Same(row, new) /\ NothingAhead(new)
<1>1. row \in JobRows
  BY DEF SoundRow
<1> QED
  BY <1>1 DEF JobRows, Same, SnapshotOf, ShownRow, OpenRow, VerdictRow, NothingAhead

(* One step of the implementation is one of the promise, or a stutter.     *)
LEMMA NextImplements ==
  ASSUME Sound, NothingAhead(job), [Next]_vars
  PROVE  NothingAhead(job)' /\ [Analyses!Next]_(Analyses!analysisVars)
<1> DEFINE Mapped ==
      [Analyses!Next]_(Analyses!analysisVars)
<1>0. SoundRow(job) /\ job.approval \in BOOLEAN
  BY JobFields DEF Sound, SoundRow
<1>v. /\ Shown = ShownRow(job) /\ Open = OpenRow(job) /\ Verdict = VerdictRow(job)
      /\ Shown' = ShownRow(job') /\ Open' = OpenRow(job') /\ Verdict' = VerdictRow(job')
      /\ SnapshotOf(job)' = SnapshotOf(job') /\ NothingAhead(job)' = NothingAhead(job')
  BY DEF Shown, Open, Verdict, ShownRow, OpenRow, VerdictRow, SnapshotOf, NothingAhead
<1>b. Open \in BOOLEAN /\ Open' \in BOOLEAN
  BY DEF Open
<1>1. CASE job' = job
  BY <1>v, <1>1 DEF Analyses!analysisVars
<1>2. ASSUME NEW w \in BOOLEAN, job' = Superseded(job, w)
      PROVE  NothingAhead(job)' /\ Mapped
  <2>1. /\ SnapshotOf(job') = [SnapshotOf(job) EXCEPT !.revision = @ + 1]
        /\ Closed(job') /\ job'.approval = FALSE /\ NothingAhead(job')
    BY <1>0, <1>2, SupersededShows
  <2> QED
    BY <1>v, <2>1 DEF Closed, Analyses!Next, Analyses!NewLyric, Analyses!Overtaken
<1>3. CASE job' = NewAudio(job)
  <2>1. /\ SnapshotOf(job') = [SnapshotOf(job) EXCEPT !.audio = @ + 1]
        /\ Closed(job') /\ job'.approval = job.approval /\ NothingAhead(job')
    BY <1>0, <1>3, NewAudioShows
  <2> QED
    BY <1>v, <2>1 DEF Closed, Analyses!Next, Analyses!NewAudio, Analyses!Overtaken
<1>4. CASE ~job.approval /\ job' = [job EXCEPT !.approval = TRUE]
  <2>1. Same(job, job') /\ NothingAhead(job')
    BY <1>0, <1>4, TouchedShows
  <2>2. job'.approval = TRUE
    BY <1>0, <1>4 DEF SoundRow, JobRows
  <2> QED
    BY <1>v, <1>4, <2>1, <2>2 DEF Same, Analyses!Next, Analyses!Approve
<1>5. CASE job' \in {[job EXCEPT !.resolution = TRUE], [job EXCEPT !.age = @ + 1]}
  <2>1. Same(job, job') /\ NothingAhead(job')
    BY <1>0, <1>5, TouchedShows
  <2>2. job'.approval = job.approval
    BY <1>0, <1>5 DEF SoundRow, JobRows
  <2> QED
    BY <1>v, <2>1, <2>2 DEF Same, Analyses!analysisVars
<1>6. ASSUME NEW a \in Attempts, a.of = SnapshotOf(job), job' = Marked(job, a)
      PROVE  NothingAhead(job)' /\ Mapped
  <2>1. /\ SnapshotOf(job') = SnapshotOf(job) /\ job'.approval = job.approval
        /\ ShownRow(job') = "pending" /\ OpenRow(job')
        /\ VerdictRow(job') = NoAttempt /\ NothingAhead(job')
    BY <1>0, <1>6, MarkedShows
  <2>2. Open' = TRUE
    BY <1>v, <1>b, <2>1
  <2> QED
    BY <1>v, <2>1, <2>2 DEF Analyses!Next, Analyses!Ask
<1>7. CASE job' = MarkedFailed(job)
  <2>1. /\ SnapshotOf(job') = SnapshotOf(job) /\ job'.approval = job.approval
        /\ ShownRow(job') = "failed" /\ OpenRow(job') = OpenRow(job)
        /\ VerdictRow(job') = NoAttempt /\ NothingAhead(job')
    BY <1>0, <1>7, MarkedFailedShows
  <2> QED
    BY <1>v, <2>1 DEF Analyses!Next, Analyses!GiveUp
<1>8. ASSUME NEW a \in Attempts, NEW s \in {"complete", "failed"}, NEW left \in BOOLEAN,
             job' = Persisted(job, a, s, left), job' # job
      PROVE  NothingAhead(job)' /\ Mapped
  <2>1. /\ OpenRow(job) /\ ~OpenRow(job')
        /\ SnapshotOf(job') = SnapshotOf(job) /\ job'.approval = job.approval
        /\ ShownRow(job') = s /\ NothingAhead(job')
        /\ s = "complete" => VerdictRow(job') = SnapshotOf(job)
        /\ s = "failed" => VerdictRow(job') = NoAttempt
    BY <1>0, <1>8, PersistedShows
  <2>2. Open /\ Open' = FALSE
    BY <1>v, <1>b, <2>1
  <2>3. CASE s = "complete"
    BY <1>v, <2>1, <2>2, <2>3 DEF Analyses!Next, Analyses!Complete
  <2>4. CASE s = "failed"
    BY <1>v, <2>1, <2>2, <2>4 DEF Analyses!Next, Analyses!Fail
  <2> QED
    BY <2>3, <2>4
<1> QED
  BY <1>1, <1>2, <1>3, <1>4, <1>5, <1>6, <1>7, <1>8, JobMoves

(* The analyses of a song implement one question at a time about the song  *)
(* as it is, for any number of workers and dispatchers, saves, new audios  *)
(* and faults.                                                             *)
THEOREM QualityImplementsAnalyses == Spec => ImplementsAnalyses
<1>1. Init => NothingAhead(job) /\ Analyses!Init
  BY DEF Init, NothingAhead, Analyses!Init, SnapshotOf, Shown, Open, Verdict
<1>2. Sound /\ NothingAhead(job) /\ [Next]_vars =>
        NothingAhead(job)' /\ [Analyses!Next]_(Analyses!analysisVars)
  BY NextImplements
<1> QED
  BY <1>1, <1>2, SpecSound, PTL DEF Spec, ImplementsAnalyses, Analyses!Spec

=============================================================================
