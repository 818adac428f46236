------------------------------- MODULE RqQueue -------------------------------
(***************************************************************************)
(* One RQ job id in Redis, as the code in queue_jobs.py relies on it:      *)
(* a hash with a status and a number of retries left, the number of times  *)
(* the id sits in a queue list, and whether it is in the scheduled-job     *)
(* registry waiting for a retry.  RQ itself is not in the repository; the  *)
(* facts used here are the ones the code states: enqueueing an existing id *)
(* overwrites its hash and pushes it again (the prewarm helpers), the      *)
(* failure hook runs before RQ decides about a retry (the quality          *)
(* callback), a killed worker's job is later failed as abandoned.          *)
(***************************************************************************)
EXTENDS Naturals

CONSTANTS RetryMax,    \* PIPELINE_RETRY_MAX
          MaxEntries   \* bound: how often one id may sit in the queue at once

RqStatuses == {"absent", "queued", "started", "scheduled", "finished", "failed"}

NoRqJob == [status |-> "absent", entries |-> 0, scheduled |-> FALSE, retries |-> 0]

(* rq_job_is_active / _active_rq_job                                       *)
LiveRqStatuses == {"queued", "started", "scheduled"}

RqRoom(j) == j.entries < MaxEntries

RqEnqueued(j) ==
  [j EXCEPT !.status = "queued", !.entries = @ + 1, !.retries = RetryMax]

(* enqueue_edit: a live job is returned as it is, a finished or failed one *)
(* is evicted and replaced.                                                *)
RqRepublished(j) ==
  IF j.status \in LiveRqStatuses THEN j ELSE RqEnqueued(NoRqJob)

RqPopped(j) == [j EXCEPT !.status = "started", !.entries = @ - 1]

RqSucceeded(j) == [j EXCEPT !.status = "finished"]

RqFailed(j) ==
  IF j.retries > 0
    THEN [j EXCEPT !.status = "scheduled", !.scheduled = TRUE, !.retries = @ - 1]
    ELSE [j EXCEPT !.status = "failed"]

RqRetryDue(j) ==
  [j EXCEPT !.status = "queued", !.scheduled = FALSE, !.entries = @ + 1]

(* cancel_rq_job: out of every queue and registry, and the hash deleted.   *)
RqCancelled == NoRqJob

=============================================================================
