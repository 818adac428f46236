---------------------------- MODULE QualityOutbox ----------------------------
(***************************************************************************)
(* The quality analysis of one transcribed song.  An analysis is about a   *)
(* snapshot: the lyric revision and the audio revision.  Three parties ask *)
(* for one: the transcription right after its commit, the dispatcher for   *)
(* the intent that a save or a new audio has committed, and a reconciler   *)
(* that runs on the analysing worker and repeats what stayed pending.      *)
(*                                                                         *)
(* What asks marks the row pending first and enqueues afterwards; what     *)
(* answers replaces the whole quality record of the row, in which people   *)
(* keep their approval and their resolution of a language discrepancy.     *)
(* One transaction is one action; a Redis call is another.                 *)
(***************************************************************************)
EXTENDS OutboxEvents, RqQueue, FiniteSets

CONSTANTS Workers,      \* processes on the queue transcription_quality
          Dispatchers,  \* processes that publish committed intents
          Transcriber,  \* the transcription that made revision 0
          NoAttempt,
          StaleAfter,   \* QUALITY_PENDING_MAX_AGE_SECONDS, in clock units
          MaxChanges,   \* bound: new lyrics and new audios together
          MaxFaults     \* bound: crashes and errors together

Snapshots ==
  {s \in [revision : 0..MaxChanges, audio : 1..(MaxChanges + 1)] :
     s.revision + s.audio <= MaxChanges + 1}

(* _transcription_quality_attempt_id: one id per snapshot and publisher.   *)
Attempts == [of : Snapshots, via : {"direct", "outbox"}]

Publishers == Workers \cup Dispatchers \cup {Transcriber}

ASSUME QualityAssumption ==
  /\ MaxChanges \in Nat /\ StaleAfter \in Nat /\ MaxFaults \in Nat
  /\ RetryMax \in Nat /\ MaxEntries \in Nat \ {0}
  /\ NoAttempt \notin Attempts \cup Snapshots
  /\ Workers \cap Dispatchers = {} /\ Transcriber \notin Workers \cup Dispatchers

VARIABLES job,     \* revisions and quality record of the row
          events,  \* [Snapshots -> quality.enqueue row of job_outbox_events]
          rq,      \* [Attempts -> RQ job]
          pub,     \* [Publishers -> call of enqueue_transcription_quality]
          exec,    \* [Workers -> what the worker process is doing]
          faults

vars == <<job, events, rq, pub, exec, faults>>

AnalysisStatuses == {"none", "pending", "complete", "failed", "superseded"}

SnapshotOf(row) == [revision |-> row.revision, audio |-> row.audio]

IdlePublisher ==
  [pc |-> "idle", attempt |-> NoAttempt, revision |-> 0, marker |-> NoAttempt]

IdleWorker == [pc |-> "idle", attempt |-> NoAttempt]

(* The transcription has committed its result with windows to look into,   *)
(* and is about to ask for their analysis.                                 *)
Init ==
  /\ job = [revision |-> 0, audio |-> 1, status |-> "none",
            marker |-> NoAttempt, active |-> NoAttempt, age |-> 0,
            windows |-> TRUE, approval |-> FALSE, resolution |-> FALSE,
            verdict |-> NoAttempt]
  /\ events = [s \in Snapshots |-> AbsentEvent]
  /\ rq = [a \in Attempts |-> NoRqJob]
  /\ pub = [p \in Publishers |->
              IF p = Transcriber THEN [IdlePublisher EXCEPT !.pc = "resolve"]
              ELSE IdlePublisher]
  /\ exec = [w \in Workers |-> IdleWorker]
  /\ faults = 0

Fault == faults < MaxFaults /\ faults' = faults + 1

-----------------------------------------------------------------------------
(* People                                                                  *)

(* Mutant: a save leaves the quality record as it is, but for the people.  *)
SupersedeMissing(row, w) ==
  [row EXCEPT !.revision = @ + 1, !.windows = w,
              !.approval = FALSE, !.resolution = FALSE]

(* supersede_pending_analysis: what was found about the old lyric goes,    *)
(* and the approval and resolution of it; the windows are carried over.    *)
Superseded(row, w) ==
  [row EXCEPT !.revision = @ + 1, !.status = "superseded",
              !.marker = NoAttempt, !.age = 0, !.windows = w,
              !.verdict = NoAttempt, !.approval = FALSE, !.resolution = FALSE]

(* create_quality_outbox_event, in the transaction of the change.          *)
Intent(s, wanted) ==
  events' = IF wanted THEN [events EXCEPT ![s] = NewEvent] ELSE events

Changeable == job.revision + job.audio <= MaxChanges

(* PATCH /editor, POST /segments, restores and re-anchoring.               *)
Save ==
  /\ Changeable
  /\ \E w \in {TRUE, job.windows} :
       /\ job' = Superseded(job, w)
       /\ Intent(SnapshotOf(job'), w)
  /\ UNCHANGED <<rq, pub, exec, faults>>

(* POST /restore-audio: the record is kept but for the verdict; the whole  *)
(* song is one window.                                                     *)
ReplaceAudio ==
  /\ Changeable
  /\ job' = [job EXCEPT !.audio = @ + 1, !.status = "superseded",
                        !.active = NoAttempt, !.age = 0, !.windows = TRUE]
  /\ Intent(SnapshotOf(job'), TRUE)
  /\ UNCHANGED <<rq, pub, exec, faults>>

(* approve_campaign_lyrics, as far as it touches the record.  The lyric    *)
(* differs from its reference, so that only a resolution releases it.      *)
Approve ==
  /\ job.resolution /\ ~job.approval
  /\ job' = [job EXCEPT !.approval = TRUE]
  /\ UNCHANGED <<events, rq, pub, exec, faults>>

(* POST /language-resolution.                                              *)
ResolveLanguage ==
  /\ ~job.resolution
  /\ job' = [job EXCEPT !.resolution = TRUE]
  /\ UNCHANGED <<events, rq, pub, exec, faults>>

-----------------------------------------------------------------------------
(* enqueue_transcription_quality and its three callers                     *)

(* How a call ends is of no interest to a transcription, and of none to    *)
(* the reconciler when it has published.                                   *)
Forgotten(p, pc) ==
  \/ p = Transcriber /\ pc \in {"published", "declined", "broken"}
  \/ p \in Workers /\ pc = "published"

Advance(p, row, pc) ==
  pub' = [pub EXCEPT ![p] = IF Forgotten(p, pc) THEN IdlePublisher
                            ELSE [row EXCEPT !.pc = pc]]

Step(p, from, to) == pub[p].pc = from /\ Advance(p, pub[p], to)

(* A live RQ job of the attempt is enough for the dispatcher; a direct     *)
(* caller marks the row again.                                             *)
Looked(a) ==
  CASE rq[a].status \notin LiveRqStatuses -> "mark"
    [] a.via = "outbox"                   -> "published"
    [] OTHER                              -> "remark"

(* What is left of an earlier run of the attempt is deleted from RQ.       *)
Evicted(j) == IF j.status \in LiveRqStatuses THEN j ELSE NoRqJob

(* The call begins with a look at RQ; submissions may be closed, or Redis  *)
(* down.                                                                   *)
Call(p, a) ==
  LET row == [pub[p] EXCEPT !.attempt = a]
  IN  \/ /\ Advance(p, row, Looked(a))
         /\ rq' = [rq EXCEPT ![a] = Evicted(@)]
         /\ UNCHANGED faults
      \/ Advance(p, row, "broken") /\ Fault /\ UNCHANGED rq

Dispatchable(s) == events[s].status \notin DedupStatuses \cup {"absent"}

UnderWay(s) ==
  \E d \in Dispatchers : pub[d].pc # "idle" /\ pub[d].attempt.of = s

(* dispatch_outbox_event holds the row of the event until it has published.*)
Dispatch(d, s) ==
  /\ pub[d].pc = "idle"
  /\ Dispatchable(s) /\ ~UnderWay(s)
  /\ Call(d, [of |-> s, via |-> "outbox"])
  /\ UNCHANGED <<job, events, exec>>

(* Mutant: the reconciler takes no marker for stale.                       *)
PendingNeverStale == FALSE

PendingIsStale == job.status = "pending" /\ job.age > StaleAfter

(* reconcile_stale_pending_quality_jobs, a job of the same queue, reads a  *)
(* row ...                                                                 *)
Scan(w) ==
  /\ exec[w].pc = "idle" /\ pub[w].pc = "idle"
  /\ PendingIsStale
  /\ pub' = [pub EXCEPT ![w] = [pc |-> "seen", attempt |-> NoAttempt,
                                revision |-> job.revision, marker |-> job.marker]]
  /\ UNCHANGED <<job, events, rq, exec, faults>>

(* ... and leaves it alone while RQ has the analysis it names; an error of *)
(* Redis reads as "it has not".                                            *)
Reconsider(w) ==
  /\ pub[w].pc = "seen"
  /\ \/ /\ rq[pub[w].marker].status \in LiveRqStatuses
        /\ pub' = [pub EXCEPT ![w] = IdlePublisher]
        /\ UNCHANGED faults
     \/ /\ \/ rq[pub[w].marker].status \notin LiveRqStatuses /\ UNCHANGED faults
           \/ Fault
        /\ pub' = [pub EXCEPT ![w].pc = "resolve"]
  /\ UNCHANGED <<job, events, rq, exec>>

(* A direct caller knows the lyric it means; the audio is read here, and   *)
(* compared again by Mark.                                                 *)
CallDirectly(p) ==
  /\ pub[p].pc = "resolve"
  /\ LET s == [revision |-> pub[p].revision, audio |-> job.audio]
     IN  Call(p, [of |-> s, via |-> "direct"])
  /\ UNCHANGED <<job, events, exec>>

Answered(row, a) == row.marker = a /\ row.status \in {"complete", "failed"}

Markable(row, a) == a.of = SnapshotOf(row) /\ ~Answered(row, a)

Marked(row, a) ==
  [row EXCEPT !.status = "pending", !.marker = a, !.active = a, !.age = 0]

(* _mark_transcription_quality_pending, under the row's lock.              *)
Mark(p) ==
  /\ Step(p, "mark", "enqueue") \/ Step(p, "remark", "published")
  /\ Markable(job, pub[p].attempt)
  /\ job' = Marked(job, pub[p].attempt)
  /\ UNCHANGED <<events, rq, exec, faults>>

(* It answers FALSE for a snapshot that is gone or an attempt that is      *)
(* answered, and swallows its own errors as FALSE.                         *)
MarkDeclined(p) ==
  /\ Step(p, "mark", "declined") \/ Step(p, "remark", "declined")
  /\ \/ ~Markable(job, pub[p].attempt) /\ UNCHANGED faults
     \/ Fault
  /\ UNCHANGED <<job, events, rq, exec>>

Enqueue(p) ==
  /\ Step(p, "enqueue", "published")
  /\ RqRoom(rq[pub[p].attempt])
  /\ rq' = [rq EXCEPT ![pub[p].attempt] = RqEnqueued(@)]
  /\ UNCHANGED <<job, events, exec, faults>>

(* The error may come before or after Redis has taken the job.             *)
EnqueueFails(p) ==
  /\ Step(p, "enqueue", "undo")
  /\ Fault
  /\ \/ rq' = rq
     \/ /\ RqRoom(rq[pub[p].attempt])
        /\ rq' = [rq EXCEPT ![pub[p].attempt] = RqEnqueued(@)]
  /\ UNCHANGED <<job, events, exec>>

MarkedFailed(row) == [row EXCEPT !.status = "failed", !.age = 0]

(* _mark_transcription_quality_enqueue_failed; what the row says by now is *)
(* not looked at beyond snapshot and marker.                               *)
Undo(p) ==
  /\ Step(p, "undo", "broken")
  /\ LET a == pub[p].attempt IN
       \/ /\ job' = IF a.of = SnapshotOf(job) /\ job.marker = a
                      THEN MarkedFailed(job) ELSE job
          /\ UNCHANGED faults
       \/ Fault /\ UNCHANGED job
  /\ UNCHANGED <<events, rq, exec>>

CallEnded(p) == pub[p].pc \in {"published", "declined", "broken"}

(* The dispatcher takes a declined marker for a publication.               *)
DispatchEnds(d) ==
  /\ CallEnded(d)
  /\ events' = [events EXCEPT ![pub[d].attempt.of] =
                  IF pub[d].pc = "broken" THEN PublishFailed(@, TRUE)
                  ELSE PublishSucceeded(@)]
  /\ pub' = [pub EXCEPT ![d] = IdlePublisher]
  /\ UNCHANGED <<job, rq, exec, faults>>

(* The reconciler gives up on the row it has read, if it still names the   *)
(* same attempt for the same lyric.                                        *)
ScanEnds(w) ==
  /\ CallEnded(w)
  /\ job' = IF job.revision = pub[w].revision /\ job.marker = pub[w].marker
              THEN MarkedFailed(job) ELSE job
  /\ pub' = [pub EXCEPT ![w] = IdlePublisher]
  /\ UNCHANGED <<events, rq, exec, faults>>

PublisherDies(p) ==
  /\ pub[p].pc # "idle"
  /\ Fault
  /\ pub' = [pub EXCEPT ![p] = IdlePublisher]
  /\ UNCHANGED <<job, events, rq, exec>>

RetryDue(a) ==
  /\ rq[a].scheduled
  /\ RqRoom(rq[a])
  /\ rq' = [rq EXCEPT ![a] = RqRetryDue(@)]
  /\ UNCHANGED <<job, events, pub, exec, faults>>

-----------------------------------------------------------------------------
(* The analysis                                                            *)

Goto(w, pc) == exec' = [exec EXCEPT ![w].pc = pc]

(* Mutant: the lyric revision is not compared.                             *)
ExpectedWhateverLyric(row, a) == row.audio = a.of.audio /\ row.active = a

(* The comparison of snapshot and attempt, made before the analysis and    *)
(* once more under the row's lock after it.                                *)
Expected(row, a) == SnapshotOf(row) = a.of /\ row.active = a

Pop(w, a) ==
  /\ exec[w].pc = "idle" /\ pub[w].pc = "idle"
  /\ rq[a].entries > 0
  /\ rq' = [rq EXCEPT ![a] = RqPopped(@)]
  /\ exec' = [exec EXCEPT ![w] = [pc |-> "popped", attempt |-> a]]
  /\ UNCHANGED <<job, events, pub, faults>>

Start(w) ==
  /\ exec[w].pc = "popped"
  /\ Expected(job, exec[w].attempt) /\ job.windows
  /\ Goto(w, "run")
  /\ UNCHANGED <<job, events, rq, pub, faults>>

(* A stale job, one without windows or one of another release returns and  *)
(* leaves the row as it is.                                                *)
Discard(w) ==
  /\ exec[w].pc = "popped"
  /\ \/ ~(Expected(job, exec[w].attempt) /\ job.windows) /\ UNCHANGED faults
     \/ Fault
  /\ Goto(w, "returned")
  /\ UNCHANGED <<job, events, rq, pub>>

(* Mutant: the row's approval is not carried into the new record.          *)
ReplacedWithoutApproval(row, a, status, w) ==
  [row EXCEPT !.status = status, !.age = 0, !.active = NoAttempt, !.windows = w,
              !.approval = FALSE, !.resolution = FALSE, !.verdict = a.of]

(* Mutant: the attempt stays active.                                       *)
ReplacedStillActive(row, a, status, w) ==
  [row EXCEPT !.status = status, !.age = 0, !.windows = w, !.resolution = FALSE,
              !.verdict = a.of]

(* The new record of _persist_if_current: of what people have written, it  *)
(* takes over the approval and the reference, and nothing else.            *)
Replaced(row, a, status, w) ==
  [row EXCEPT !.status = status, !.age = 0, !.active = NoAttempt, !.windows = w,
              !.resolution = FALSE, !.verdict = a.of]

Persisted(row, a, status, w) ==
  IF Expected(row, a) THEN Replaced(row, a, status, w) ELSE row

(* Complete, with windows left or all resolved; or a decision to retry.    *)
Persist(w) ==
  /\ exec[w].pc = "run"
  /\ \/ \E left \in BOOLEAN : job' = Persisted(job, exec[w].attempt, "complete", left)
     \/ job' = Persisted(job, exec[w].attempt, "failed", job.windows)
  /\ Goto(w, "returned")
  /\ UNCHANGED <<events, rq, pub, faults>>

Return(w) ==
  /\ exec[w].pc = "returned"
  /\ rq' = [rq EXCEPT ![exec[w].attempt] = RqSucceeded(@)]
  /\ exec' = [exec EXCEPT ![w] = IdleWorker]
  /\ UNCHANGED <<job, events, pub, faults>>

RunRaises(w) ==
  /\ exec[w].pc \in {"popped", "run"}
  /\ Fault
  /\ Goto(w, "callback")
  /\ UNCHANGED <<job, events, rq, pub>>

(* Also between the commit of the verdict and RQ's record of the success.  *)
Crash(w) ==
  /\ exec[w].pc \notin {"idle", "dead"}
  /\ Fault
  /\ Goto(w, "dead")
  /\ UNCHANGED <<job, events, rq, pub>>

(* transcription_quality_failure_callback waits for the last retry; RQ     *)
(* calls it before it decides about one, and for abandoned jobs, too.      *)
FailureHook(w) ==
  /\ exec[w].pc \in {"callback", "dead"}
  /\ LET a == exec[w].attempt IN
       /\ \/ /\ job' = IF rq[a].retries > 0 THEN job
                       ELSE Persisted(job, a, "failed", job.windows)
             /\ UNCHANGED faults
          \/ Fault /\ UNCHANGED job
       /\ rq' = [rq EXCEPT ![a] = RqFailed(@)]
  /\ exec' = [exec EXCEPT ![w] = IdleWorker]
  /\ UNCHANGED <<events, pub>>

Tick ==
  /\ job.status = "pending" /\ job.age <= StaleAfter
  /\ job' = [job EXCEPT !.age = @ + 1]
  /\ UNCHANGED <<events, rq, pub, exec, faults>>

-----------------------------------------------------------------------------
Person == Save \/ ReplaceAudio \/ Approve \/ ResolveLanguage

(* What a call of enqueue_transcription_quality does of its own accord.    *)
Publish(p) ==
  CallDirectly(p) \/ Mark(p) \/ MarkDeclined(p) \/ Enqueue(p) \/ Undo(p)

PublishBadly(p) == EnqueueFails(p) \/ PublisherDies(p)

DispatcherStep(d) ==
  \/ \E s \in Snapshots : Dispatch(d, s)
  \/ Publish(d) \/ DispatchEnds(d)

WorkerStep(w) ==
  \/ \E a \in Attempts : Pop(w, a)
  \/ Start(w) \/ Discard(w) \/ Persist(w) \/ Return(w) \/ FailureHook(w)
  \/ Scan(w) \/ Reconsider(w) \/ Publish(w) \/ ScanEnds(w)

Next ==
  \/ Person
  \/ \E d \in Dispatchers : DispatcherStep(d)
  \/ Publish(Transcriber)
  \/ \E w \in Workers : WorkerStep(w) \/ RunRaises(w) \/ Crash(w)
  \/ \E p \in Publishers : PublishBadly(p)
  \/ \E a \in Attempts : RetryDue(a)
  \/ Tick

Spec == Init /\ [][Next]_vars

(* Periodic processes and the clock; people owe nothing.  The queue is     *)
(* first in, first out, so that a reconciler that comes back every few     *)
(* minutes does not keep the worker from an analysis that waits.           *)
Fairness ==
  /\ \A d \in Dispatchers : WF_vars(DispatcherStep(d))
  /\ WF_vars(Publish(Transcriber))
  /\ \A w \in Workers : WF_vars(WorkerStep(w))
  /\ \A w \in Workers : SF_vars(\E a \in Attempts : Pop(w, a))
  /\ WF_vars(\E a \in Attempts : RetryDue(a))
  /\ WF_vars(Tick)

FairSpec == Spec /\ Fairness

-----------------------------------------------------------------------------
JobRows ==
  [revision : 0..MaxChanges, audio : 1..(MaxChanges + 1), status : AnalysisStatuses,
   marker : Attempts \cup {NoAttempt}, active : Attempts \cup {NoAttempt},
   age : 0..(StaleAfter + 1), windows : BOOLEAN, approval : BOOLEAN,
   resolution : BOOLEAN, verdict : Snapshots \cup {NoAttempt}]

OutboxRows ==
  [status : EventStatuses, attempts : 0..MaxAttempts, age : {0}, token : {NoToken}]

RqRows ==
  [status : RqStatuses, entries : 0..MaxEntries, scheduled : BOOLEAN,
   retries : 0..RetryMax]

PublisherStates ==
  {"idle", "seen", "resolve", "mark", "remark", "enqueue", "undo",
   "published", "declined", "broken"}

PublisherRows ==
  [pc : PublisherStates, attempt : Attempts \cup {NoAttempt},
   revision : 0..MaxChanges, marker : Attempts \cup {NoAttempt}]

WorkerStates == {"idle", "popped", "run", "returned", "callback", "dead"}

ExecRows == [pc : WorkerStates, attempt : Attempts \cup {NoAttempt}]

(* Rows and processes stay within their types: nothing is looked up under  *)
(* an attempt that does not exist, counters stay within their bounds.      *)
TypeOK ==
  /\ job \in JobRows
  /\ events \in [Snapshots -> OutboxRows]
  /\ rq \in [Attempts -> RqRows]
  /\ pub \in [Publishers -> PublisherRows]
  /\ exec \in [Workers -> ExecRows]
  /\ faults \in 0..MaxFaults

(* A complete analysis is one of the lyric and the audio the song has now, *)
(* whatever was saved or uploaded while it ran.                            *)
VerdictIsCurrent == job.status = "complete" => job.verdict = SnapshotOf(job)

(* A pending analysis is one whose result the row would take: it is of the *)
(* present snapshot and its attempt is the active one.  Otherwise the row  *)
(* waits for an answer that every worker would throw away.                 *)
PendingCanLand ==
  job.status = "pending" =>
    /\ job.marker # NoAttempt /\ job.active = job.marker
    /\ job.marker.of = SnapshotOf(job)

(* No worker and no failure hook takes back a complete analysis, although  *)
(* one may die between the commit of the verdict and RQ's record of it and *)
(* be repeated or reported as failed.                                      *)
HookSparesVerdict ==
  [][job.status = "complete" /\ exec' # exec => job' = job]_vars

(* An approval goes with the lyric it was given for: no analysis that ends *)
(* or fails after it takes it away.                                        *)
ApprovalSurvivesAnalysis ==
  [][job.approval /\ ~job'.approval => job'.revision # job.revision]_vars

(* The row takes an answer to the attempt it names, of its own snapshot.   *)
Open == job.active # NoAttempt /\ job.active.of = SnapshotOf(job)

Shown == IF job.status = "superseded" THEN "none" ELSE job.status

Verdict == IF job.status = "complete" THEN job.verdict ELSE NoAttempt

Analyses == INSTANCE SongAnalyses
              WITH NoVerdict <- NoAttempt, subject <- SnapshotOf(job),
                   shown <- Shown, open <- Open, verdict <- Verdict,
                   approved <- job.approval

(* Markers, queue entries, retries, repeated publications and late hooks   *)
(* implement one question at a time about the song as it is: no answer is  *)
(* taken twice, by a newer snapshot, or without a question                 *)
(* (_mark_transcription_quality_pending, _persist_if_current).             *)
ImplementsAnalyses == Analyses!Spec

(* A pending analysis with something to look into is answered, refused, or *)
(* overtaken by a newer snapshot.                                          *)
PendingSettles ==
  job.status = "pending" /\ job.windows ~> ~(job.status = "pending" /\ job.windows)
=============================================================================
