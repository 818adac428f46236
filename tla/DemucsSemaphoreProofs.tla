------------------------ MODULE DemucsSemaphoreProofs ------------------------
(***************************************************************************)
(* Proofs for DemucsSemaphore: the cap and the batch reservation hold for  *)
(* any number of workers and leases, whatever Redis fails to do.           *)
(***************************************************************************)
EXTENDS DemucsSemaphore, FiniteSetTheorems, TLAPS

Leased(w) == worker[w].lease # NoLease

LeasedRuns == {w \in Running : Leased(w)}

(* A lease belongs to one holder, of its workload class.                   *)
HoldersAgree ==
  /\ \A w \in Workers : Leased(w) =>
       /\ worker[w].lease \in BatchLeases <=> w \in Batch
       /\ worker[w].pc \in {"running", "releasing"}
  /\ \A v, w \in Workers : Leased(v) /\ worker[v].lease = worker[w].lease => v = w

(* A call ends before its lease expires, and batch calls have a lease.     *)
CallsCovered ==
  \A w \in Workers : worker[w].pc = "running" =>
    /\ Leased(w) => worker[w].left < set[worker[w].lease]
    /\ w \in Batch => Leased(w)

(* The script never lets the set outgrow its limits.                       *)
SetWithinLimits ==
  /\ Cardinality(Members) <= Max
  /\ Cardinality(BatchMembers) <= BatchMax

IInv == TypeOK /\ HoldersAgree /\ CallsCovered /\ SetWithinLimits

-----------------------------------------------------------------------------
(* The sorted set                                                          *)

(* The sets of leases the script counts are finite.                        *)
LEMMA MembersFinite == IsFiniteSet(Members) /\ IsFiniteSet(BatchMembers)
<1>1. Members \subseteq Leases /\ BatchMembers \subseteq Leases
  BY DEF Members, BatchMembers
<1> QED BY <1>1, FS_Subset, DemucsAssumption DEF DemucsAssumption

(* Dropping leases keeps the set within its limits.                        *)
LEMMA ShrinkingKeepsLimits ==
  ASSUME SetWithinLimits, Members' \subseteq Members
  PROVE  SetWithinLimits'
<1>1. BatchMembers' \subseteq BatchMembers BY DEF BatchMembers
<1>2. /\ Cardinality(Members') <= Cardinality(Members)
      /\ Cardinality(BatchMembers') <= Cardinality(BatchMembers)
  BY <1>1, MembersFinite, FS_Subset
<1>3. /\ Cardinality(Members) \in Nat /\ Cardinality(BatchMembers) \in Nat
      /\ Cardinality(Members') \in Nat /\ Cardinality(BatchMembers') \in Nat
  BY <1>1, MembersFinite, FS_Subset, FS_CardinalityType
<1> QED BY <1>2, <1>3, DemucsAssumption DEF DemucsAssumption, SetWithinLimits

(* Taking a slot when there is room for it does too.                       *)
LEMMA TakingKeepsLimits ==
  ASSUME TypeOK, SetWithinLimits, NEW w \in Workers, NEW l \in Leases,
         Room(w), Fresh(w, l), Take(l)
  PROVE  SetWithinLimits'
<1>1. Members' = Members \cup {l} /\ l \notin Members
  BY DemucsAssumption DEF DemucsAssumption, TypeOK, Members, Fresh, Take
<1>2. Cardinality(Members') = Cardinality(Members) + 1
  BY <1>1, MembersFinite, FS_AddElement
<1>3. Cardinality(Members) \in Nat /\ Cardinality(BatchMembers) \in Nat
  BY MembersFinite, FS_CardinalityType
<1>4. Cardinality(Members') <= Max
  BY <1>2, <1>3, DemucsAssumption DEF DemucsAssumption, Room
<1>5. Cardinality(BatchMembers') <= BatchMax
  <2>1. CASE w \in Batch
    <3>1. BatchMembers' = BatchMembers \cup {l} /\ l \notin BatchMembers
      BY <1>1, <2>1 DEF BatchMembers, Fresh
    <3>2. Cardinality(BatchMembers') = Cardinality(BatchMembers) + 1
      BY <3>1, MembersFinite, FS_AddElement
    <3> QED BY <3>2, <1>3, <2>1, DemucsAssumption DEF DemucsAssumption, Room
  <2>2. CASE w \notin Batch
    <3>1. BatchMembers' = BatchMembers BY <1>1, <2>2 DEF BatchMembers, Fresh
    <3> QED BY <3>1 DEF SetWithinLimits
  <2> QED BY <2>1, <2>2
<1> QED BY <1>4, <1>5 DEF SetWithinLimits

-----------------------------------------------------------------------------
(* The steps of a separation                                               *)

(* A worker with nothing in hand is in a legal state.                      *)
LEMMA IdleRow == Idle \in Rows
BY DemucsAssumption DEF DemucsAssumption, Idle, Rows

(* What the caller does with a lease, or without one, is typed.            *)
LEMMA AfterRow ==
  ASSUME NEW r \in Rows, NEW l \in Leases \cup {NoLease}
  PROVE  /\ After(r, l) \in Rows
         /\ After(r, l).lease = l
         /\ After(r, l).pc \in {"running", "releasing"}
         /\ After(r, l).left = r.left
BY DemucsAssumption DEF DemucsAssumption, After, Idle, Rows

(* A separation that starts disturbs nothing.                              *)
LEMMA StartKeeps ==
  ASSUME IInv, NEW w \in Workers, Start(w)
  PROVE  IInv'
<1>1. PICK n \in 0..Budget :
        worker' = [worker EXCEPT ![w] = Waiting(n)]
  BY DEF Start
<1> DEFINE r == Waiting(n)
<1>2. r \in Rows /\ r.pc = "waiting" /\ r.lease = NoLease
  BY DemucsAssumption DEF DemucsAssumption, Waiting, Rows
<1> HIDE DEF r
<1>3. worker' = [worker EXCEPT ![w] = r] BY <1>1 DEF r
<1>4. set' = set /\ faults' = faults BY DEF Start
<1>5. TypeOK' BY <1>2, <1>3, <1>4 DEF IInv, TypeOK
<1>6. HoldersAgree' BY <1>2, <1>3, <1>4 DEF IInv, TypeOK, HoldersAgree, Leased
<1>7. CallsCovered' BY <1>2, <1>3, <1>4 DEF IInv, TypeOK, CallsCovered, Leased
<1>8. SetWithinLimits'
  BY <1>4, ShrinkingKeepsLimits DEF IInv, Members
<1> QED BY <1>5, <1>6, <1>7, <1>8 DEF IInv

(* The caller goes on with lease l, which it now holds (or with none).     *)
LEMMA GoingOnKeeps ==
  ASSUME IInv, NEW w \in Workers, NEW l \in Leases \cup {NoLease},
         worker[w].pc = "waiting",
         worker' = [worker EXCEPT ![w] = After(@, l)],
         TypeOK', set' \in [Leases -> 0..Ttl],
         \A m \in Leases : set'[m] = set[m] \/ set[m] = 0,
         l = NoLease => w \notin Batch,
         l # NoLease => Fresh(w, l) /\ set'[l] = Ttl
  PROVE  HoldersAgree' /\ CallsCovered'
<1> DEFINE r == After(worker[w], l)
<1>1. worker[w] \in Rows BY DEF IInv, TypeOK
<1>2. r \in Rows /\ r.lease = l /\ r.pc \in {"running", "releasing"} /\ r.left = worker[w].left
  BY <1>1, AfterRow
<1> HIDE DEF r
<1>3. worker' = [worker EXCEPT ![w] = r] BY DEF r
<1>4. HoldersAgree'
  BY <1>2, <1>3, DemucsAssumption
  DEF DemucsAssumption, IInv, TypeOK, HoldersAgree, Leased, Fresh
<1>5. ASSUME NEW v \in Workers, worker'[v].pc = "running"
      PROVE  /\ Leased(v)' => worker'[v].left < set'[worker'[v].lease]
             /\ v \in Batch => Leased(v)'
  <2>1. CASE v = w
    <3>1. worker'[v] = r BY <1>3, <2>1 DEF IInv, TypeOK
    <3>2. r.left \in 0..Budget BY <1>2 DEF Rows
    <3> QED
      BY <3>1, <3>2, <2>1, <1>2, LeaseOutlivesCall, DemucsAssumption
      DEF DemucsAssumption, Leased
  <2>2. CASE v # w
    <3>1. worker'[v] = worker[v] /\ worker[v] \in Rows BY <1>3, <2>2 DEF IInv, TypeOK
    <3>2. Leased(v) => worker[v].lease \in Leases /\ worker[v].left < set[worker[v].lease]
      BY <3>1, <1>5 DEF IInv, CallsCovered, Leased, Rows
    <3>3. Leased(v) => set'[worker[v].lease] = set[worker[v].lease]
      BY <3>1, <3>2 DEF IInv, TypeOK, Rows
    <3> QED BY <3>1, <3>2, <3>3, <1>5 DEF IInv, CallsCovered, Leased
  <2> QED BY <2>1, <2>2
<1>6. CallsCovered' BY <1>5 DEF CallsCovered, Leased
<1> QED BY <1>4, <1>6

(* A worker that drops everything it had.                                  *)
LEMMA DroppingKeeps ==
  ASSUME IInv, NEW w \in Workers, worker' = [worker EXCEPT ![w] = Idle],
         \A m \in Leases : m # worker[w].lease => set'[m] = set[m] \/ set[m] = 0
  PROVE  HoldersAgree' /\ CallsCovered'
<1>1. Idle \in Rows /\ Idle.pc = "idle" /\ Idle.lease = NoLease BY IdleRow DEF Idle
<1>2. HoldersAgree' BY <1>1 DEF IInv, TypeOK, HoldersAgree, Leased
<1>3. ASSUME NEW v \in Workers, worker'[v].pc = "running"
      PROVE  /\ Leased(v)' => worker'[v].left < set'[worker'[v].lease]
             /\ v \in Batch => Leased(v)'
  <2>1. v # w /\ worker'[v] = worker[v] /\ worker[v] \in Rows
    BY <1>1, <1>3 DEF IInv, TypeOK
  <2>2. Leased(v) => /\ worker[v].lease \in Leases
                     /\ worker[v].lease # worker[w].lease
                     /\ worker[v].left < set[worker[v].lease]
    BY <2>1, <1>3 DEF IInv, CallsCovered, HoldersAgree, Leased, Rows
  <2>3. Leased(v) => set'[worker[v].lease] = set[worker[v].lease]
    BY <2>1, <2>2 DEF IInv, TypeOK, Rows
  <2> QED BY <2>1, <2>2, <2>3, <1>3 DEF IInv, CallsCovered, Leased
<1>4. CallsCovered' BY <1>3 DEF CallsCovered, Leased
<1> QED BY <1>2, <1>4
(* The poll that takes a slot.                                             *)
LEMMA AcquireKeeps ==
  ASSUME IInv, NEW w \in Workers, Acquire(w)
  PROVE  IInv'
<1>1. PICK l \in Leases : Fresh(w, l) /\ Take(l) /\ Granted(w, l) BY DEF Acquire
<1>2. worker[w] \in Rows /\ worker[w].pc = "waiting" /\ Room(w)
  BY DEF IInv, TypeOK, Acquire
<1>3. worker' = [worker EXCEPT ![w] = After(@, l)] BY <1>1 DEF Granted
<1>4. After(worker[w], l) \in Rows BY <1>2, AfterRow
<1>5. /\ set' \in [Leases -> 0..Ttl] /\ set'[l] = Ttl
      /\ \A m \in Leases : set'[m] = set[m] \/ set[m] = 0
  BY <1>1, DemucsAssumption DEF DemucsAssumption, IInv, TypeOK, Take, Fresh
<1>6. TypeOK' BY <1>3, <1>4, <1>5 DEF IInv, TypeOK, Acquire
<1>7. l # NoLease BY DemucsAssumption DEF DemucsAssumption
<1>8. HoldersAgree' /\ CallsCovered'
  BY <1>1, <1>2, <1>3, <1>5, <1>6, <1>7, GoingOnKeeps
<1>9. SetWithinLimits' BY <1>1, <1>2, TakingKeepsLimits DEF IInv
<1> QED BY <1>6, <1>8, <1>9 DEF IInv

(* What acquire does to the row of a worker it returns None to.            *)
LEMMA RefusedKeeps ==
  ASSUME IInv, NEW w \in Workers, worker[w].pc = "waiting", Refused(w),
         set' \in [Leases -> 0..Ttl], faults' \in 0..MaxFaults,
         \A m \in Leases : set'[m] = set[m] \/ set[m] = 0
  PROVE  TypeOK' /\ HoldersAgree' /\ CallsCovered'
<1>1. worker[w] \in Rows BY DEF IInv, TypeOK
<1>2. CASE w \in Batch
  <2>1. worker' = [worker EXCEPT ![w] = Idle] BY <1>2 DEF Refused
  <2>2. TypeOK' BY <2>1, IdleRow DEF IInv, TypeOK
  <2> QED BY <2>1, <2>2, DroppingKeeps
<1>3. CASE w \notin Batch
  <2>1. worker' = [worker EXCEPT ![w] = After(@, NoLease)] BY <1>3 DEF Refused
  <2>2. After(worker[w], NoLease) \in Rows BY <1>1, AfterRow
  <2>3. TypeOK' BY <2>1, <2>2 DEF IInv, TypeOK
  <2> QED BY <2>1, <2>3, <1>3, GoingOnKeeps
<1> QED BY <1>2, <1>3

(* Redis fails under a poll, its slot taken or not.                        *)
LEMMA AcquireErrorKeeps ==
  ASSUME IInv, NEW w \in Workers, AcquireError(w)
  PROVE  IInv'
<1>1. worker[w].pc = "waiting" /\ Refused(w) /\ faults' \in 0..MaxFaults
  BY DemucsAssumption DEF DemucsAssumption, IInv, TypeOK, AcquireError, Fault
<1>2. CASE set' = set
  <2>1. TypeOK' /\ HoldersAgree' /\ CallsCovered'
    BY <1>1, <1>2, RefusedKeeps DEF IInv, TypeOK
  <2>2. SetWithinLimits' BY <1>2, ShrinkingKeepsLimits DEF IInv, Members
  <2> QED BY <2>1, <2>2 DEF IInv
<1>3. CASE Room(w) /\ \E l \in Leases : Fresh(w, l) /\ Take(l)
  <2>1. PICK l \in Leases : Fresh(w, l) /\ Take(l) BY <1>3
  <2>2. /\ set' \in [Leases -> 0..Ttl]
        /\ \A m \in Leases : set'[m] = set[m] \/ set[m] = 0
    BY <2>1, DemucsAssumption DEF DemucsAssumption, IInv, TypeOK, Take, Fresh
  <2>3. TypeOK' /\ HoldersAgree' /\ CallsCovered' BY <1>1, <2>2, RefusedKeeps
  <2>4. SetWithinLimits' BY <1>3, <2>1, TakingKeepsLimits DEF IInv
  <2> QED BY <2>3, <2>4 DEF IInv
<1> QED BY <1>2, <1>3 DEF AcquireError

(* The wait ends without a slot.                                           *)
LEMMA GiveUpKeeps ==
  ASSUME IInv, NEW w \in Workers, GiveUp(w)
  PROVE  IInv'
<1>1. worker[w].pc = "waiting" /\ Refused(w) /\ set' = set /\ faults' = faults
  BY DEF GiveUp
<1>2. TypeOK' /\ HoldersAgree' /\ CallsCovered'
  BY <1>1, RefusedKeeps DEF IInv, TypeOK
<1>3. SetWithinLimits' BY <1>1, ShrinkingKeepsLimits DEF IInv, Members
<1> QED BY <1>2, <1>3 DEF IInv

(* The call to the provider returns.                                       *)
LEMMA RunEndsKeeps ==
  ASSUME IInv, NEW w \in Workers, RunEnds(w)
  PROVE  IInv'
<1> DEFINE r == Releasing(worker[w].lease)
<1>1. worker[w] \in Rows /\ worker[w].pc = "running" BY DEF IInv, TypeOK, RunEnds
<1>2. r \in Rows /\ r.pc = "releasing" /\ r.lease = worker[w].lease
  BY <1>1, DemucsAssumption DEF DemucsAssumption, Releasing, Rows
<1>3. worker' = [worker EXCEPT ![w] = r] BY DEF RunEnds, IInv, TypeOK
<1> HIDE DEF r
<1>4. set' = set /\ faults' = faults BY DEF RunEnds
<1>5. TypeOK' BY <1>2, <1>3, <1>4 DEF IInv, TypeOK
<1>6. HoldersAgree' BY <1>2, <1>3 DEF IInv, TypeOK, HoldersAgree, Leased
<1>7. CallsCovered' BY <1>2, <1>3, <1>4 DEF IInv, TypeOK, CallsCovered, Leased
<1>8. SetWithinLimits' BY <1>4, ShrinkingKeepsLimits DEF IInv, Members
<1> QED BY <1>5, <1>6, <1>7, <1>8 DEF IInv
(* The slot goes back, or its lease is left to expire.                     *)
LEMMA ReleaseKeeps ==
  ASSUME IInv, NEW w \in Workers, Release(w)
  PROVE  IInv'
<1>1. worker' = [worker EXCEPT ![w] = Idle] BY DEF Release
<1>2. faults' \in 0..MaxFaults
  BY DemucsAssumption DEF DemucsAssumption, IInv, TypeOK, Release, Fault
<1>3. /\ set' \in [Leases -> 0..Ttl]
      /\ \A m \in Leases : set'[m] = set[m] \/ (m = worker[w].lease /\ set'[m] = 0)
  <2>1. set \in [Leases -> 0..Ttl] /\ 0 \in 0..Ttl
    BY DemucsAssumption DEF DemucsAssumption, IInv, TypeOK
  <2>2. \/ set' = [m \in Leases |-> IF m = worker[w].lease THEN 0 ELSE set[m]]
        \/ set' = set
    BY DEF Release
  <2> QED BY <2>1, <2>2
<1>4. TypeOK' BY <1>1, <1>2, <1>3, IdleRow DEF IInv, TypeOK
<1>5. HoldersAgree' /\ CallsCovered' BY <1>1, <1>3, DroppingKeeps
<1>6. Members' \subseteq Members BY <1>3 DEF Members, IInv, TypeOK
<1>7. SetWithinLimits' BY <1>6, ShrinkingKeepsLimits DEF IInv
<1> QED BY <1>4, <1>5, <1>7 DEF IInv

(* A worker dies and its lease stays behind.                               *)
LEMMA DieKeeps ==
  ASSUME IInv, NEW w \in Workers, Die(w)
  PROVE  IInv'
<1>1. worker' = [worker EXCEPT ![w] = Idle] /\ set' = set BY DEF Die
<1>2. faults' \in 0..MaxFaults
  BY DemucsAssumption DEF DemucsAssumption, IInv, TypeOK, Die, Fault
<1>3. TypeOK' BY <1>1, <1>2, IdleRow DEF IInv, TypeOK
<1>4. HoldersAgree' /\ CallsCovered' BY <1>1, DroppingKeeps
<1>5. SetWithinLimits' BY <1>1, ShrinkingKeepsLimits DEF IInv, Members
<1> QED BY <1>3, <1>4, <1>5 DEF IInv

(* What a unit of time does to one worker.                                 *)
LEMMA SpentRow ==
  ASSUME NEW r \in Rows
  PROVE  /\ Spent(r) \in Rows
         /\ Spent(r).pc = r.pc /\ Spent(r).lease = r.lease
         /\ r.pc = "running" => Spent(r).left = Less(r.left)
<1>1. Less(r.left) \in 0..Budget /\ More(r.waited) \in 0..WaitMax
  BY DemucsAssumption DEF DemucsAssumption, Less, More, Rows
<1>2. CASE r.pc = "waiting"
  <2>1. Spent(r) = [r EXCEPT !.waited = More(@), !.left = Less(@)] BY <1>2 DEF Spent
  <2> QED BY <2>1, <1>1, <1>2 DEF Rows
<1>3. CASE r.pc = "running"
  <2>1. Spent(r) = [r EXCEPT !.left = Less(@)] BY <1>3 DEF Spent
  <2> QED BY <2>1, <1>1, <1>3 DEF Rows
<1>4. CASE r.pc \notin {"waiting", "running"}
  <2>1. Spent(r) = r BY <1>4 DEF Spent
  <2> QED BY <2>1, <1>4
<1> QED BY <1>2, <1>3, <1>4

(* Time passes: calls and leases get shorter alike.                        *)
LEMMA TickKeeps ==
  ASSUME IInv, Tick
  PROVE  IInv'
<1>1. /\ set' = [l \in Leases |-> Less(set[l])]
      /\ worker' = [w \in Workers |-> Spent(worker[w])]
      /\ faults' = faults
      /\ \A w \in Workers : worker[w].pc = "running" => worker[w].left > 0
  BY DEF Tick
<1>2. \A w \in Workers :
        /\ worker[w] \in Rows
        /\ worker'[w] \in Rows
        /\ worker'[w].pc = worker[w].pc /\ worker'[w].lease = worker[w].lease
        /\ worker[w].pc = "running" => worker'[w].left = Less(worker[w].left)
  BY <1>1, SpentRow DEF IInv, TypeOK
<1>3. \A l \in Leases : set[l] \in 0..Ttl /\ set'[l] \in 0..Ttl /\ set'[l] = Less(set[l])
  BY <1>1, DemucsAssumption DEF DemucsAssumption, IInv, TypeOK, Less
<1>4. TypeOK' BY <1>1, <1>2, <1>3 DEF IInv, TypeOK
<1>5. HoldersAgree' BY <1>2 DEF IInv, HoldersAgree, Leased
<1>6. ASSUME NEW w \in Workers, worker'[w].pc = "running"
      PROVE  /\ Leased(w)' => worker'[w].left < set'[worker'[w].lease]
             /\ w \in Batch => Leased(w)'
  <2>1. worker[w].pc = "running" /\ (Leased(w)' <=> Leased(w))
    BY <1>2, <1>6 DEF Leased
  <2>2. worker[w].left \in 0..Budget /\ worker'[w].left = Less(worker[w].left)
    BY <1>2, <2>1 DEF Rows
  <2>3. Leased(w) => /\ worker[w].lease \in Leases
                     /\ worker[w].left < set[worker[w].lease]
    BY <1>2, <2>1 DEF IInv, CallsCovered, Leased, Rows
  <2>4. Leased(w) => worker'[w].left < set'[worker[w].lease]
    BY <1>1, <1>3, <2>1, <2>2, <2>3, DemucsAssumption DEF DemucsAssumption, Less
  <2> QED BY <2>1, <2>4, <1>2 DEF IInv, CallsCovered
<1>7. CallsCovered' BY <1>6 DEF CallsCovered, Leased
<1>8. Members' \subseteq Members BY <1>3 DEF Members, Less
<1>9. SetWithinLimits' BY <1>8, ShrinkingKeepsLimits DEF IInv
<1> QED BY <1>4, <1>5, <1>7, <1>9 DEF IInv

-----------------------------------------------------------------------------
(* The theorems                                                            *)

(* No lease is taken when the system starts.                               *)
LEMMA InitHolds == Init => IInv
<1> SUFFICES ASSUME Init PROVE IInv OBVIOUS
<1>1. TypeOK BY IdleRow, DemucsAssumption DEF DemucsAssumption, Init, TypeOK
<1>2. HoldersAgree /\ CallsCovered
  BY DEF Init, HoldersAgree, CallsCovered, Leased, Idle
<1>3. Members = {} /\ BatchMembers = {} BY DEF Init, Members, BatchMembers
<1>4. SetWithinLimits
  BY <1>3, FS_EmptySet, DemucsAssumption DEF DemucsAssumption, SetWithinLimits
<1> QED BY <1>1, <1>2, <1>4 DEF IInv

(* Every step keeps the inductive invariant.                               *)
LEMMA StepHolds == IInv /\ [Next]_vars => IInv'
<1> SUFFICES ASSUME IInv, [Next]_vars PROVE IInv' OBVIOUS
<1>1. ASSUME NEW w \in Workers, Separate(w) PROVE IInv'
  BY <1>1, StartKeeps, AcquireKeeps, GiveUpKeeps, AcquireErrorKeeps, RunEndsKeeps,
     ReleaseKeeps, DieKeeps DEF Separate, Poll
<1>2. CASE Tick BY <1>2, TickKeeps
<1>3. CASE UNCHANGED vars
  BY <1>3 DEF vars, IInv, TypeOK, HoldersAgree, CallsCovered, Leased, SetWithinLimits,
              Members, BatchMembers
<1> QED BY <1>1, <1>2, <1>3 DEF Next

(* The inductive invariant holds throughout.                               *)
LEMMA Inductive == Spec => []IInv
BY InitHolds, StepHolds, PTL DEF Spec

(* Calls that run under a lease are as many as their leases.               *)
LEMMA LeasesCoverRuns ==
  ASSUME IInv
  PROVE  /\ IsFiniteSet(LeasedRuns)
         /\ Cardinality(LeasedRuns) <= Cardinality(Members)
         /\ Cardinality(Running \cap Batch) <= Cardinality(BatchMembers)
<1> DEFINE lease == [w \in LeasedRuns |-> worker[w].lease]
           batchLease == [w \in Running \cap Batch |-> worker[w].lease]
<1>1. ASSUME NEW w \in LeasedRuns
      PROVE  worker[w].lease \in Members /\ (w \in Batch => worker[w].lease \in BatchMembers)
  <2>1. w \in Workers /\ Leased(w) /\ worker[w].pc = "running" BY DEF LeasedRuns, Running
  <2>2. worker[w].lease \in Leases /\ worker[w].left \in Nat
    BY <2>1 DEF IInv, TypeOK, Rows, Leased
  <2>3. set[worker[w].lease] \in 0..Ttl /\ worker[w].left < set[worker[w].lease]
    BY <2>1, <2>2 DEF IInv, TypeOK, CallsCovered
  <2>4. set[worker[w].lease] > 0 BY <2>2, <2>3, DemucsAssumption DEF DemucsAssumption
  <2> QED BY <2>1, <2>2, <2>4 DEF IInv, HoldersAgree, Members, BatchMembers
<1>2. Running \cap Batch \subseteq LeasedRuns
  BY DEF IInv, CallsCovered, LeasedRuns, Running
<1>3. \A v, w \in LeasedRuns : worker[v].lease = worker[w].lease => v = w
  BY DEF IInv, HoldersAgree, LeasedRuns, Running
<1>4. lease \in Injection(LeasedRuns, Members)
  BY <1>1, <1>3 DEF Injection, IsInjective
<1>5. batchLease \in Injection(Running \cap Batch, BatchMembers)
  BY <1>1, <1>2, <1>3 DEF Injection, IsInjective
<1>6. IsFiniteSet(LeasedRuns) /\ Cardinality(LeasedRuns) <= Cardinality(Members)
  BY <1>4, MembersFinite, FS_Injection
<1>7. Cardinality(Running \cap Batch) <= Cardinality(BatchMembers)
  BY <1>5, MembersFinite, FS_Injection
<1> QED BY <1>6, <1>7

(* Time limits and leases are typed (acquire, separate_vocals).            *)
THEOREM DemucsTypes == Spec => []TypeOK
BY Inductive, PTL DEF IInv

(* However many workers there are, no more than DEMUCS_MAX_CONCURRENT of   *)
(* them separate under a lease.                                            *)
THEOREM CapIsKept == Spec => []CapHolds
<1>1. IInv => CapHolds
  <2> SUFFICES ASSUME IInv PROVE CapHolds OBVIOUS
  <2>1. LeasedRuns = {w \in Running : worker[w].lease # NoLease} BY DEF LeasedRuns, Leased
  <2>2. /\ Cardinality(LeasedRuns) <= Cardinality(Members)
        /\ Cardinality(LeasedRuns) \in Nat /\ Cardinality(Members) \in Nat
    BY LeasesCoverRuns, MembersFinite, FS_CardinalityType
  <2>3. Cardinality(LeasedRuns) <= Max
    BY <2>2, DemucsAssumption DEF DemucsAssumption, IInv, SetWithinLimits
  <2> QED BY <2>1, <2>3 DEF CapHolds
<1> QED BY <1>1, Inductive, PTL

(* Batch separations stay within DEMUCS_BATCH_MAX_CONCURRENT.              *)
THEOREM BatchIsKept == Spec => []BatchHolds
<1>1. IInv => BatchHolds
  <2> SUFFICES ASSUME IInv PROVE BatchHolds OBVIOUS
  <2>1. Running \cap Batch \subseteq LeasedRuns
    BY DEF IInv, CallsCovered, LeasedRuns, Running
  <2>2. /\ Cardinality(Running \cap Batch) <= Cardinality(BatchMembers)
        /\ Cardinality(Running \cap Batch) \in Nat /\ Cardinality(BatchMembers) \in Nat
    BY <2>1, LeasesCoverRuns, MembersFinite, FS_Subset, FS_CardinalityType
  <2> QED
    BY <2>2, DemucsAssumption DEF DemucsAssumption, IInv, SetWithinLimits, BatchHolds
<1> QED BY <1>1, Inductive, PTL

(* A batch cannot take the slots it leaves to interactive work.            *)
THEOREM SlotIsReserved == Spec => []InteractiveHasSlot
<1>1. IInv => InteractiveHasSlot
  <2> SUFFICES ASSUME IInv, BatchMax < Max, Members \subseteq BatchLeases,
                      NEW w \in Workers \ Batch
               PROVE  Room(w)
    BY DEF InteractiveHasSlot
  <2>1. BatchMembers = Members BY DEF BatchMembers
  <2>2. Cardinality(Members) \in Nat BY MembersFinite, FS_CardinalityType
  <2> QED
    BY <2>1, <2>2, DemucsAssumption DEF DemucsAssumption, IInv, SetWithinLimits, Room
<1> QED BY <1>1, Inductive, PTL
-----------------------------------------------------------------------------
(* The abstract slots                                                      *)

Runs == {<<w, worker[w].lease>> : w \in Running}

(* A run with a lease has it in the set: nothing has expired under it.     *)
RunsHoldSlots == \A r \in Runs : r[2] \in Members \cup {NoLease}

LEMMA CoveredRunsHoldSlots == IInv => RunsHoldSlots
<1> SUFFICES ASSUME IInv, NEW r \in Runs
             PROVE  r[2] \in Members \cup {NoLease}
  BY DEF RunsHoldSlots
<1>1. PICK w \in Workers : worker[w].pc = "running" /\ r = <<w, worker[w].lease>>
  BY DEF Runs, Running
<1>2. worker[w] \in Rows
  BY DEF IInv, TypeOK
<1>3. CASE Leased(w)
  <2>1. /\ worker[w].lease \in Leases /\ worker[w].left \in Nat
        /\ set[worker[w].lease] \in Nat /\ worker[w].left < set[worker[w].lease]
    BY <1>1, <1>2, <1>3, DemucsAssumption
       DEF DemucsAssumption, IInv, TypeOK, CallsCovered, Leased, Rows
  <2> QED
    BY <1>1, <2>1 DEF Members
<1> QED
  BY <1>1, <1>3 DEF Leased

(* What one worker's new state does to the runs.                           *)
LEMMA RunsStep ==
  ASSUME IInv, NEW w \in Workers, NEW r, worker' = [worker EXCEPT ![w] = r]
  PROVE  /\ r.pc # "running" => Runs' = {x \in Runs : x[1] # w}
         /\ r.pc = "running" => Runs' = {x \in Runs : x[1] # w} \cup {<<w, r.lease>>}
         /\ worker[w].pc # "running" => \A x \in Runs : x[1] # w
<1>1. worker'[w] = r /\ \A v \in Workers : v # w => worker'[v] = worker[v]
  BY DEF IInv, TypeOK
<1>2. {x \in Runs : x[1] # w} = {<<v, worker[v].lease>> : v \in Running \ {w}}
  BY DEF Runs
<1>3. Running' \ {w} = Running \ {w} /\ (w \in Running' <=> r.pc = "running")
  BY <1>1 DEF Running
<1>4. {<<v, worker'[v].lease>> : v \in Running' \ {w}} =
        {<<v, worker[v].lease>> : v \in Running \ {w}}
  BY <1>1, <1>3 DEF Running
<1>5. Runs' = {<<v, worker'[v].lease>> : v \in Running'}
  BY DEF Runs
<1>6. ASSUME r.pc # "running" PROVE Runs' = {x \in Runs : x[1] # w}
  <2>1. Running' = Running' \ {w}
    BY <1>3, <1>6
  <2> QED
    BY <1>2, <1>4, <1>5, <2>1
<1>7. ASSUME r.pc = "running"
      PROVE  Runs' = {x \in Runs : x[1] # w} \cup {<<w, r.lease>>}
  <2>1. Running' = (Running' \ {w}) \cup {w}
    BY <1>3, <1>7
  <2>2. Runs' = {<<v, worker'[v].lease>> : v \in Running' \ {w}} \cup {<<w, worker'[w].lease>>}
    BY <1>5, <2>1
  <2> QED
    BY <1>1, <1>2, <1>4, <2>2
<1>8. worker[w].pc # "running" => \A x \in Runs : x[1] # w
  BY DEF Runs, Running
<1> QED
  BY <1>6, <1>7, <1>8

(* A waiting worker has no run, and its next state gives it one or none.   *)
LEMMA WaiterBegins ==
  ASSUME IInv, NEW w \in Workers, worker[w].pc # "running",
         NEW r, worker' = [worker EXCEPT ![w] = r],
         r.lease = NoLease => w \notin Batch \/ r.pc # "running"
  PROVE  Runs' = Runs \/ (r.pc = "running" /\ Pool!Begin(w, r.lease))
<1>1. {x \in Runs : x[1] # w} = Runs /\ \A x \in Runs : x[1] # w
  BY RunsStep
<1>2. CASE r.pc # "running"
  <2>1. Runs' = {x \in Runs : x[1] # w}
    BY <1>2, RunsStep
  <2> QED
    BY <1>1, <2>1
<1>3. CASE r.pc = "running"
  <2>1. Runs' = {x \in Runs : x[1] # w} \cup {<<w, r.lease>>}
    BY <1>3, RunsStep
  <2> QED
    BY <1>1, <1>3, <2>1 DEF Pool!Begin, Runs
<1> QED
  BY <1>2, <1>3

(* So has it after the step.                                               *)
LEMMA RunsKeepSlots == IInv' => RunsHoldSlots'
BY CoveredRunsHoldSlots, PTL

(* Leases that leave the set without any run ending were used by none.     *)
LEMMA FreedSlots ==
  ASSUME IInv', Runs' = Runs, Members' \subseteq Members
  PROVE  Pool!Next
<1> DEFINE S == Members \ Members'
<1>1. S \in SUBSET Leases /\ NoLease \notin S
  BY DemucsAssumption DEF DemucsAssumption, Members
<1>2. \A r \in Runs' : r[2] \in Members' \cup {NoLease}
  BY RunsKeepSlots DEF RunsHoldSlots
<1>3. S \cap Pool!InUse = {}
  BY <1>1, <1>2 DEF Pool!InUse, Runs
<1>4. Members' = Members \ S
  OBVIOUS
<1>5. Pool!Free(S)
  BY <1>3, <1>4 DEF Pool!Free, Runs
<1> QED
  BY <1>1, <1>5 DEF Pool!Next

(* The script finds room in the set when there is room in the pool.        *)
LEMMA RoomMaps ==
  ASSUME NEW w \in Workers, Room(w)
  PROVE  Pool!Room(w)
BY DEF Room, Pool!Room, BatchMembers, Pool!Cardinality, Cardinality

(* A lease the script adds is a slot that is taken, and nobody runs on it. *)
LEMMA TakingSlot ==
  ASSUME IInv, NEW w \in Workers, NEW l \in Leases, worker[w].pc = "waiting",
         Room(w), Fresh(w, l), Take(l),
         Pool!Begin(w, l) \/ Pool!Begin(w, NoLease) \/ Runs' = Runs
  PROVE  Pool!Next
<1>1. Members' = Members \cup {l} /\ l \notin Members
  BY DemucsAssumption DEF DemucsAssumption, IInv, TypeOK, Members, Fresh, Take
<1>2. l \notin Pool!InUse
  <2>1. RunsHoldSlots /\ l # NoLease
    BY CoveredRunsHoldSlots, DemucsAssumption DEF DemucsAssumption
  <2> QED
    BY <1>1, <2>1 DEF RunsHoldSlots, Pool!InUse, Runs
<1>3. Pool!Take(w, l)
  BY <1>1, <1>2, RoomMaps DEF Pool!Take, Fresh, Runs
<1> QED
  BY <1>3 DEF Pool!Next

(* acquire returns: with a slot, without one, or after an error.           *)
LEMMA PollImplements ==
  ASSUME IInv, IInv', NEW w \in Workers, Acquire(w) \/ AcquireError(w) \/ GiveUp(w)
  PROVE  Pool!Next \/ UNCHANGED Pool!slotVars
<1>1. worker[w] \in Rows /\ worker[w].pc = "waiting" /\ worker[w].pc # "running"
  BY DEF IInv, TypeOK, Acquire, AcquireError, GiveUp
<1>2. ASSUME Refused(w)
      PROVE  Runs' = Runs \/ Pool!Begin(w, NoLease)
  <2>1. CASE w \in Batch
    <3>1. worker' = [worker EXCEPT ![w] = Idle] /\ Idle.pc # "running"
      BY <1>2, <2>1 DEF Refused, Idle
    <3> QED
      BY <1>1, <3>1, WaiterBegins
  <2>2. CASE w \notin Batch
    <3> DEFINE r == After(worker[w], NoLease)
    <3>1. worker' = [worker EXCEPT ![w] = r]
      BY <1>2, <2>2 DEF Refused
    <3>2. r.lease = NoLease
      BY <1>1, AfterRow
    <3> HIDE DEF r
    <3> QED
      BY <1>1, <2>2, <3>1, <3>2, WaiterBegins
  <2> QED
    BY <2>1, <2>2
<1>3. CASE Acquire(w)
  <2>1. PICK l \in Leases : Fresh(w, l) /\ Take(l) /\ Granted(w, l)
    BY <1>3 DEF Acquire
  <2> DEFINE r == After(worker[w], l)
  <2>2. worker' = [worker EXCEPT ![w] = r]
    BY <2>1 DEF Granted
  <2>3. r.lease = l /\ l # NoLease
    BY <1>1, AfterRow, DemucsAssumption DEF DemucsAssumption
  <2> HIDE DEF r
  <2>4. Runs' = Runs \/ Pool!Begin(w, l)
    BY <1>1, <2>2, <2>3, WaiterBegins
  <2> QED
    BY <1>1, <1>3, <2>1, <2>4, TakingSlot DEF Acquire
<1>4. ASSUME Refused(w), UNCHANGED set
      PROVE  Pool!Next \/ UNCHANGED Pool!slotVars
  <2>1. Members' = Members
    BY <1>4 DEF Members
  <2>2. CASE Runs' = Runs
    BY <2>1, <2>2 DEF Pool!slotVars, Runs
  <2>3. CASE Pool!Begin(w, NoLease)
    BY <2>1, <2>3 DEF Pool!RunBare, Pool!Next
  <2> QED
    BY <1>2, <1>4, <2>2, <2>3
<1>5. CASE AcquireError(w)
  <2>1. CASE UNCHANGED set
    BY <1>4, <1>5, <2>1 DEF AcquireError
  <2>2. ASSUME Room(w), NEW l \in Leases, Fresh(w, l), Take(l)
        PROVE  Pool!Next
    BY <1>1, <1>2, <1>5, <2>2, TakingSlot DEF AcquireError
  <2> QED
    BY <1>5, <2>1, <2>2 DEF AcquireError
<1>6. CASE GiveUp(w)
  BY <1>4, <1>6 DEF GiveUp
<1> QED
  BY <1>3, <1>5, <1>6

(* A call that ends, or whose worker dies, is off its slot.                *)
LEMMA EndImplements ==
  ASSUME IInv, NEW w \in Workers, RunEnds(w) \/ Die(w)
  PROVE  Pool!Next
<1>1. PICK r : worker' = [worker EXCEPT ![w] = r] /\ r.pc # "running"
  <2>1. CASE RunEnds(w)
    <3> DEFINE r == Releasing(worker[w].lease)
    <3>1. r.pc # "running"
      BY DEF Releasing
    <3>2. worker' = [worker EXCEPT ![w] = r]
      BY <2>1 DEF RunEnds, IInv, TypeOK
    <3> QED
      BY <3>1, <3>2
  <2>2. CASE Die(w)
    <3> DEFINE r == Idle
    <3>1. r.pc # "running" /\ worker' = [worker EXCEPT ![w] = r]
      BY <2>2 DEF Die, Idle
    <3> HIDE DEF r
    <3> QED
      BY <3>1
  <2> QED
    BY <2>1, <2>2
<1>2. Runs' = {x \in Runs : x[1] # w}
  BY <1>1, RunsStep
<1>3. Members' = Members
  BY DEF RunEnds, Die, Members
<1>4. Pool!End(w)
  BY <1>2, <1>3 DEF Pool!End, Runs
<1> QED
  BY <1>4 DEF Pool!Next

(* A separation that starts to wait runs on nothing yet.                   *)
LEMMA StartImplements ==
  ASSUME IInv, NEW w \in Workers, Start(w)
  PROVE  UNCHANGED Pool!slotVars
<1>1. PICK n \in 0..Budget : worker' = [worker EXCEPT ![w] = Waiting(n)]
  BY DEF Start
<1>2. worker[w].pc # "running" /\ Waiting(n).pc # "running"
  BY DEF Start, Waiting
<1>3. Runs' = {x \in Runs : x[1] # w} /\ \A x \in Runs : x[1] # w
  BY <1>1, <1>2, RunsStep
<1>4. Runs' = Runs
  BY <1>3
<1>5. Members' = Members
  BY DEF Start, Members
<1> QED
  BY <1>4, <1>5 DEF Pool!slotVars, Runs

(* A slot that is released, or left to expire, is one nobody runs on.      *)
LEMMA ReleaseImplements ==
  ASSUME IInv, IInv', NEW w \in Workers, Release(w)
  PROVE  Pool!Next
<1>1. worker' = [worker EXCEPT ![w] = Idle] /\ Idle.pc # "running"
  BY DEF Release, Idle
<1>2. Runs' = {x \in Runs : x[1] # w} /\ \A x \in Runs : x[1] # w
  BY <1>1, RunsStep DEF Release
<1>3. Runs' = Runs
  BY <1>2
<1>4. Members' \subseteq Members
  BY DEF Release, Members, IInv, TypeOK
<1> QED
  BY <1>3, <1>4, FreedSlots

(* Time only takes slots from those that do not run.                       *)
LEMMA TickImplements ==
  ASSUME IInv, IInv', Tick
  PROVE  Pool!Next
<1>1. \A w \in Workers :
        worker'[w].pc = worker[w].pc /\ worker'[w].lease = worker[w].lease
  BY SpentRow DEF Tick, IInv, TypeOK
<1>2. Running' = Running
  BY <1>1 DEF Running
<1>3. Runs' = Runs
  BY <1>1, <1>2 DEF Runs, Running
<1>4. Members' \subseteq Members
  <2>1. \A l \in Leases : set[l] \in 0..Ttl /\ set'[l] = Less(set[l])
    BY DEF Tick, IInv, TypeOK
  <2> QED
    BY <2>1, DemucsAssumption DEF DemucsAssumption, Members, Less
<1> QED
  BY <1>3, <1>4, FreedSlots

(* Every step of the semaphore is one of the pool, or none.                *)
LEMMA StepImplements == IInv /\ IInv' /\ [Next]_vars => [Pool!Next]_(Pool!slotVars)
<1> SUFFICES ASSUME IInv, IInv', [Next]_vars
             PROVE  Pool!Next \/ UNCHANGED Pool!slotVars
  OBVIOUS
<1>1. ASSUME NEW w \in Workers, Separate(w)
      PROVE  Pool!Next \/ UNCHANGED Pool!slotVars
  BY <1>1, PollImplements, EndImplements, StartImplements, ReleaseImplements
     DEF Separate, Poll
<1>2. CASE UNCHANGED vars
  BY <1>2 DEF vars, Pool!slotVars, Members, Running
<1> QED
  BY <1>1, <1>2, TickImplements DEF Next

(* Whatever expires, dies or fails, the semaphore hands out the slots of a *)
(* pool: a separation never loses the slot it runs on, two never share     *)
(* one, and a batch never runs without.                                    *)
THEOREM SemaphoreImplementsSlots == Spec => ImplementsSlots
<1>1. Init => Pool!Init
  BY DEF Init, Pool!Init, Members, Running, Idle
<1> QED
  BY <1>1, Inductive, StepImplements, PTL DEF Spec, ImplementsSlots, Pool!Spec

=============================================================================
