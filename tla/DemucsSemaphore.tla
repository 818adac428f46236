--------------------------- MODULE DemucsSemaphore ---------------------------
(***************************************************************************)
(* The fleet-wide semaphore of vocal separations: leases in a Redis sorted *)
(* set, each with its own expiry, taken by a Lua script that first drops   *)
(* the expired ones.  Workers poll for a slot for a bounded time and then  *)
(* go on without one, or give the separation up when they serve batches.   *)
(*                                                                         *)
(* A lease is kept as the clock units it has left (0: not in the set).     *)
(* Dropping the expired ones is therefore done by the clock: every reader  *)
(* of the set drops them first, so nobody can see one.                     *)
(***************************************************************************)
EXTENDS Naturals, FiniteSets

CONSTANTS Workers,
          Batch,      \* the workers whose WORKLOAD_CLASS is batch
          Leases,     \* lease names: a prefix and a uuid
          BatchLeases,\* those whose prefix is batch:
          NoLease,
          Max,        \* DEMUCS_MAX_CONCURRENT
          BatchMax,   \* DEMUCS_BATCH_MAX_CONCURRENT
          Ttl,        \* DEMUCS_LEASE_TTL_S
          WaitMax,    \* DEMUCS_SLOT_WAIT_MAX_S
          Budget,     \* budget_s(): the call to the provider, the wait included
          MaxFaults   \* bound: Redis errors and deaths of workers together

ASSUME DemucsAssumption ==
  /\ Batch \subseteq Workers /\ BatchLeases \subseteq Leases
  /\ NoLease \notin Leases /\ IsFiniteSet(Leases)
  /\ IsFiniteSet(Workers)
  /\ Max \in Nat \ {0} /\ BatchMax \in Nat /\ Ttl \in Nat \ {0}
  /\ WaitMax \in Nat /\ Budget \in Nat /\ MaxFaults \in Nat

(* demucs_semaphore.py, of the lease's life: longer than the budget.       *)
ASSUME LeaseOutlivesCall == Budget < Ttl

VARIABLES set,     \* the sorted set: [Leases -> clock units left]
          worker,  \* [Workers -> state of separate_vocals]
          faults

vars == <<set, worker, faults>>

Idle == [pc |-> "idle", lease |-> NoLease, waited |-> 0, left |-> 0]

Waiting(n) == [pc |-> "waiting", lease |-> NoLease, waited |-> 0, left |-> n]

Releasing(l) == [pc |-> "releasing", lease |-> l, waited |-> 0, left |-> 0]

Members == {l \in Leases : set[l] > 0}

BatchMembers == Members \cap BatchLeases

Init ==
  /\ set = [l \in Leases |-> 0]
  /\ worker = [w \in Workers |-> Idle]
  /\ faults = 0

Fault == faults < MaxFaults /\ faults' = faults + 1

-----------------------------------------------------------------------------
(* The Lua script                                                          *)

(* Mutant: the batch reservation is not looked at.                         *)
RoomForAnyone(w) == Cardinality(Members) < Max

Room(w) ==
  /\ Cardinality(Members) < Max
  /\ w \in Batch => Cardinality(BatchMembers) < BatchMax

(* Mutant: one expiry for the whole set, renewed by every acquisition.     *)
TakeRenewingAll(l) ==
  set' = [m \in Leases |-> IF m = l \/ set[m] > 0 THEN Ttl ELSE 0]

Take(l) ==
  set' = [set EXCEPT ![l] = Ttl]

(* A name nobody has used, with the prefix of the worker's workload class. *)
Fresh(w, l) ==
  /\ l \in BatchLeases <=> w \in Batch
  /\ set[l] = 0 /\ \A v \in Workers : worker[v].lease # l

-----------------------------------------------------------------------------
(* A separation                                                            *)

(* Mutant: the call is given the margin of the post-processing too.        *)
StartWithMargin(w) ==
  /\ worker[w].pc = "idle"
  /\ \E n \in 0..(Budget + 1) :
       worker' = [worker EXCEPT ![w] = Waiting(n)]
  /\ UNCHANGED <<set, faults>>

(* The look into the cache of stems may already have used up some of the   *)
(* time the call has.                                                      *)
Start(w) ==
  /\ worker[w].pc = "idle"
  /\ \E n \in 0..Budget :
       worker' = [worker EXCEPT ![w] = Waiting(n)]
  /\ UNCHANGED <<set, faults>>

(* The call may use what is left of the budget; a worker with nothing left *)
(* makes no call and only gives its lease back.                            *)
After(r, l) ==
  [pc |-> IF r.left > 0 THEN "running" ELSE "releasing",
   lease |-> l, waited |-> 0, left |-> r.left]

(* acquire returned a lease.                                               *)
Granted(w, l) == worker' = [worker EXCEPT ![w] = After(@, l)]

(* Mutant: a batch worker goes on without a slot as the others do.         *)
RefusedGoesOn(w) == worker' = [worker EXCEPT ![w] = After(@, NoLease)]

(* acquire returned None: a batch worker falls back to the mixed audio,    *)
(* the others separate without a slot.                                     *)
Refused(w) ==
  worker' = [worker EXCEPT ![w] =
               IF w \in Batch THEN Idle ELSE After(@, NoLease)]

Acquire(w) ==
  /\ worker[w].pc = "waiting"
  /\ Room(w)
  /\ \E l \in Leases : Fresh(w, l) /\ Take(l) /\ Granted(w, l)
  /\ UNCHANGED faults

(* Redis raised, before the script ran or after it took the slot.          *)
AcquireError(w) ==
  /\ worker[w].pc = "waiting"
  /\ Fault
  /\ \/ UNCHANGED set
     \/ Room(w) /\ \E l \in Leases : Fresh(w, l) /\ Take(l)
  /\ Refused(w)

(* Mutant: the wait has no end.                                            *)
WaitedForever(w) == FALSE

WaitedEnough(w) == worker[w].waited >= WaitMax

GiveUp(w) ==
  /\ worker[w].pc = "waiting"
  /\ ~Room(w)
  /\ WaitedEnough(w)
  /\ Refused(w)
  /\ UNCHANGED <<set, faults>>

(* A poll that is refused before the deadline changes nothing.             *)
Poll(w) == Acquire(w) \/ GiveUp(w)

RunEnds(w) ==
  /\ worker[w].pc = "running"
  /\ worker' = [worker EXCEPT ![w] = Releasing(@.lease)]
  /\ UNCHANGED <<set, faults>>

(* Best effort: after an error the lease is left to its expiry.            *)
Release(w) ==
  /\ worker[w].pc = "releasing"
  /\ \/ /\ set' = [l \in Leases |-> IF l = worker[w].lease THEN 0 ELSE set[l]]
        /\ UNCHANGED faults
     \/ worker[w].lease # NoLease /\ Fault /\ UNCHANGED set
  /\ worker' = [worker EXCEPT ![w] = Idle]

Die(w) ==
  /\ worker[w].pc # "idle"
  /\ Fault
  /\ worker' = [worker EXCEPT ![w] = Idle]
  /\ UNCHANGED set

(* One clock unit passes.  No call outlives its budget, and a worker that  *)
(* has waited long enough polls once more and leaves.                      *)
Less(n) == IF n > 0 THEN n - 1 ELSE 0

More(n) == IF n < WaitMax THEN n + 1 ELSE WaitMax

(* Mutant: the call to the provider has no budget.                         *)
SpentWithoutBudget(r) ==
  IF r.pc = "waiting" THEN [r EXCEPT !.waited = More(@), !.left = Less(@)] ELSE r

Spent(r) ==
  CASE r.pc = "waiting" -> [r EXCEPT !.waited = More(@), !.left = Less(@)]
    [] r.pc = "running" -> [r EXCEPT !.left = Less(@)]
    [] OTHER            -> r

Tick ==
  /\ \A w \in Workers :
       /\ worker[w].pc = "running" => worker[w].left > 0
       /\ worker[w].pc = "waiting" => ~WaitedEnough(w)
  /\ set' = [l \in Leases |-> Less(set[l])]
  /\ worker' = [w \in Workers |-> Spent(worker[w])]
  /\ UNCHANGED faults

-----------------------------------------------------------------------------
Separate(w) ==
  \/ Start(w) \/ Poll(w) \/ AcquireError(w)
  \/ RunEnds(w) \/ Release(w) \/ Die(w)

Next == (\E w \in Workers : Separate(w)) \/ Tick

Spec == Init /\ [][Next]_vars

(* Time passes, and a worker that can act acts: it polls, ends its call,   *)
(* releases.  That a separation starts, or that anything fails, is not     *)
(* assumed.                                                                *)
Fairness ==
  /\ WF_vars(Tick)
  /\ \A w \in Workers :
       WF_vars(Poll(w)) /\ WF_vars(RunEnds(w)) /\ WF_vars(Release(w))

FairSpec == Spec /\ Fairness

-----------------------------------------------------------------------------
Rows ==
  [pc : {"idle", "waiting", "running", "releasing"}, lease : Leases \cup {NoLease},
   waited : 0..WaitMax, left : 0..Budget]

(* Counters stay within the time limits they count down from.              *)
TypeOK ==
  /\ set \in [Leases -> 0..Ttl]
  /\ worker \in [Workers -> Rows]
  /\ faults \in 0..MaxFaults

Running == {w \in Workers : worker[w].pc = "running"}

(* At most DEMUCS_MAX_CONCURRENT separations run under a lease, though     *)
(* every lease expires on its own and workers die without releasing: no    *)
(* lease expires under a call that is still within its budget (the wait    *)
(* counts against the budget, vocal_sep.py).                               *)
CapHolds == Cardinality({w \in Running : worker[w].lease # NoLease}) <= Max

(* Batch separations never exceed their reservation, whatever Redis does:  *)
(* a batch worker without a lease does not separate.                       *)
BatchHolds == Cardinality(Running \cap Batch) <= BatchMax

(* The slots a batch may not take are there for interactive work: with no  *)
(* interactive lease in the set, an interactive acquire is granted.        *)
InteractiveHasSlot ==
  BatchMax < Max /\ Members \subseteq BatchLeases =>
    \A w \in Workers \ Batch : Room(w)

Pool == INSTANCE SeparationSlots
          WITH Slots <- Leases, BatchSlots <- BatchLeases, NoSlot <- NoLease,
               taken <- Members, runs <- {<<w, worker[w].lease>> : w \in Running}

(* The sorted set with its expiries, polls and failures implements a pool  *)
(* of slots: no separation runs on a slot that is free for another, none   *)
(* of a batch without a slot (acquire, release, separate_vocals).          *)
ImplementsSlots == Pool!Spec

(* A lease whose holder is gone leaves the set, even under a steady stream *)
(* of acquisitions (test_lease_vencido_se_libera_aunque_haya_trafico).     *)
DeadLeaseExpires ==
  \A l \in Leases :
    (set[l] > 0 /\ \A w \in Workers : worker[w].lease # l) ~> set[l] = 0

(* Nobody waits for ever for a slot.                                       *)
WaitEnds == \A w \in Workers : worker[w].pc = "waiting" ~> worker[w].pc # "waiting"

=============================================================================
