---------------------------- MODULE OutboxEvents ----------------------------
(***************************************************************************)
(* One row of job_outbox_events and what transactional_outbox.py does to   *)
(* it.  Every function there locks the row (SELECT ... FOR UPDATE) for its *)
(* whole transaction, so each is one operator from event to event.         *)
(*                                                                         *)
(* processing_at is kept as the age of the claim in clock units, saturated *)
(* one past the staleness threshold: the code only ever compares it with   *)
(* the consumer lease and with that threshold.  attempts is saturated at   *)
(* MaxAttempts, the only number it is compared with.  available_at is not  *)
(* kept: the back-off of 5 to 300 seconds is below one clock unit, and     *)
(* dispatching is never forced.                                            *)
(***************************************************************************)
EXTENDS Naturals

CONSTANTS LeaseAge,     \* _outbox_consumer_lease_seconds
          StaleAge,     \* _outbox_stale_processing_seconds
          MaxAttempts,  \* _outbox_max_attempts
          NoToken       \* processing_token is NULL

ASSUME LeaseAssumption ==
  LeaseAge \in Nat /\ StaleAge \in Nat /\ MaxAttempts \in Nat /\ LeaseAge <= StaleAge

EventStatuses ==
  {"absent", "pending", "dispatched", "processing", "consumed", "failed", "skipped"}

(* What dispatch_outbox_event returns as "deduplicated".                   *)
DedupStatuses == {"dispatched", "processing", "consumed", "failed", "skipped"}

AbsentEvent == [status |-> "absent", attempts |-> 0, age |-> 0, token |-> NoToken]

NewEvent == [AbsentEvent EXCEPT !.status = "pending"]

Attempted(n) == IF n < MaxAttempts THEN n + 1 ELSE n

-----------------------------------------------------------------------------
(* Publication                                                             *)

PublishSucceeded(ev) ==
  [ev EXCEPT !.status = "dispatched", !.attempts = Attempted(@)]

PublishFailed(ev, retryable) ==
  LET exhausted == ev.attempts + 1 >= MaxAttempts
  IN  [ev EXCEPT !.attempts = Attempted(@),
                 !.status = CASE retryable /\ ~exhausted -> "pending"
                              [] retryable /\ exhausted  -> "failed"
                              [] OTHER                   -> "skipped"]

(* Mutant: the reconciler looks at pending events only.                    *)
StaleNever(ev) == FALSE

Stale(ev) == ev.status = "processing" /\ ev.age > StaleAge

StaleRecovered(ev) ==
  [ev EXCEPT !.status = "pending", !.age = 0, !.token = NoToken]

-----------------------------------------------------------------------------
(* Consumption                                                             *)

Busy(ev) == ev.status = "processing" /\ ev.age <= LeaseAge

(* Mutant: a claim does not look for another consumer's lease.             *)
ClaimableWhenBusy(ev) == ev.status # "consumed"

(* Mutant: a claim does not look whether the event is ticked off.          *)
ClaimableOnceConsumed(ev) == ~Busy(ev)

Claimable(ev) == ev.status # "consumed" /\ ~Busy(ev)

Claimed(ev, token) ==
  [status |-> "processing", attempts |-> Attempted(ev.attempts),
   age |-> 0, token |-> token]

(* _finish_outbox_consumer: a token that no longer owns the row changes    *)
(* nothing; a failed consumer puts the event back, whatever its attempts.  *)
Finished(ev, token, success) ==
  IF ev.token # token
    THEN ev
    ELSE [ev EXCEPT !.status = IF success THEN "consumed" ELSE "pending",
                    !.age = 0, !.token = NoToken]

(* One clock unit passes.                                                  *)
Aged(ev) ==
  IF ev.status = "processing" /\ ev.age <= StaleAge
    THEN [ev EXCEPT !.age = @ + 1]
    ELSE ev

=============================================================================
