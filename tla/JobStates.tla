------------------------------ MODULE JobStates ------------------------------
(***************************************************************************)
(* The durable job row and the one function every background writer goes   *)
(* through: job_states.py (classification of statuses) and jobs.update_job *)
(* (row lock, attempt fence, terminal guard, success-vs-failure guard,     *)
(* operator-text guard).  update_job runs in one transaction that holds    *)
(* SELECT ... FOR UPDATE on the row, so it is one operator from row to     *)
(* row.  Timestamps, messages and URLs are abstracted to what the guards   *)
(* and the properties tell apart.                                          *)
(***************************************************************************)
EXTENDS Naturals

CONSTANTS NoAttempt,     \* no outbox event is bound / no video is published
          BeatCap        \* ages of the heartbeat are told apart up to this

TERMINAL_STATUSES ==
  {"done", "pending_review", "error", "rejected", "validation_failed",
   "transcription_failed", "bg_preview_done", "bg_preview_failed"}

SUCCESS_TERMINAL_STATUSES == {"done", "pending_review", "bg_preview_done"}

FAILURE_TERMINAL_STATUSES == TERMINAL_STATUSES \ SUCCESS_TERMINAL_STATUSES

ACTIVE_STATUSES ==
  {"queued", "processing", "editing", "transcribing_queued", "transcribing",
   "background_generating", "rendering"}

Statuses == TERMINAL_STATUSES \cup ACTIVE_STATUSES

(* A keyword argument update_job was not given.                            *)
Unset == "unset"

CanBackgroundTransition(current, target) ==
  \/ target = Unset
  \/ current \notin TERMINAL_STATUSES
  \/ target \in TERMINAL_STATUSES

-----------------------------------------------------------------------------
(* The keyword arguments of one update_job call: a status, the error text  *)
(* (who wrote it), the published files (of which attempt), the lyric       *)
(* segments (whose text), and whether progress is among them.              *)
NoUpdate == [status |-> Unset, error |-> Unset, files |-> Unset,
             segments |-> Unset, progress |-> Unset]

(* Mutant: the attempt bound by the worker is not looked at.               *)
FenceMissing(row, attempt) == FALSE

(* A call made under bind_job_attempt is ignored unless its attempt is the *)
(* one the row names as active.                                            *)
FenceRejects(row, attempt) == attempt # NoAttempt /\ row.active # attempt

TerminalGuard(row, upd) ==
  IF CanBackgroundTransition(row.status, upd.status)
    THEN upd
    ELSE [upd EXCEPT !.status = Unset, !.progress = Unset]

(* Mutant: a failure may overwrite a finished job.                         *)
SuccessGuardMissing(row, upd, target) == upd

SuccessGuard(row, upd, target) ==
  IF target \in FAILURE_TERMINAL_STATUSES /\ row.status \in SUCCESS_TERMINAL_STATUSES
    THEN [upd EXCEPT !.status = Unset, !.error = Unset]
    ELSE upd

(* Mutant: a worker may overwrite versioned lyrics.                        *)
SegmentsGuardMissing(row, upd) == upd

SegmentsGuard(row, upd) ==
  IF row.revision > 0 /\ upd.segments # row.segments
    THEN [upd EXCEPT !.segments = Unset]
    ELSE upd

Given(new, old) == IF new = Unset THEN old ELSE new

(* The assignments at the end of update_job; any progress argument is also *)
(* the heartbeat the reaper reads (last_progress_at).                      *)
ApplyUpdate(row, upd) ==
  [row EXCEPT !.status   = Given(upd.status, @),
              !.error    = Given(upd.error, @),
              !.files    = Given(upd.files, @),
              !.segments = Given(upd.segments, @),
              !.beat     = IF upd.progress = Unset THEN @ ELSE 0]

UpdateJob(row, attempt, upd) ==
  IF FenceRejects(row, attempt)
    THEN row
    ELSE ApplyUpdate(row,
           SegmentsGuard(row,
             SuccessGuard(row, TerminalGuard(row, upd), upd.status)))

(* One clock unit passes since the last heartbeat.                         *)
AgedRow(row) == [row EXCEPT !.beat = IF @ < BeatCap THEN @ + 1 ELSE @]

=============================================================================
