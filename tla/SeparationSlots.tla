--------------------------- MODULE SeparationSlots ---------------------------
(***************************************************************************)
(* What the semaphore of vocal separations promises, without clocks,       *)
(* expiries or polls: a slot is taken when there is room for it, by a      *)
(* separation of its own class; no two separations run on one slot; and a  *)
(* slot is not given back, nor lost, while one runs on it.  Interactive    *)
(* work may run without a slot, batches may not; a slot nobody runs on may *)
(* stay taken for a while.                                                 *)
(***************************************************************************)
EXTENDS Naturals, FiniteSets

CONSTANTS Workers, Batch, Slots, BatchSlots, NoSlot, Max, BatchMax

VARIABLES taken,  \* the slots that are taken
          runs    \* the separations that run: pairs of a worker and its slot

slotVars == <<taken, runs>>

Init == taken = {} /\ runs = {}

InUse == {r[2] : r \in runs}

Room(w) ==
  /\ Cardinality(taken) < Max
  /\ w \in Batch => Cardinality(taken \cap BatchSlots) < BatchMax

Begin(w, s) ==
  /\ \A r \in runs : r[1] # w
  /\ s = NoSlot => w \notin Batch
  /\ runs' = runs \cup {<<w, s>>}

(* The slot may be taken for a separation that does not run on it.         *)
Take(w, s) ==
  /\ Room(w)
  /\ s \notin taken \cup InUse
  /\ s \in BatchSlots <=> w \in Batch
  /\ taken' = taken \cup {s}
  /\ Begin(w, s) \/ Begin(w, NoSlot) \/ UNCHANGED runs

RunBare(w) == Begin(w, NoSlot) /\ UNCHANGED taken

End(w) ==
  /\ runs' = {r \in runs : r[1] # w}
  /\ UNCHANGED taken

Free(S) ==
  /\ S \cap InUse = {}
  /\ taken' = taken \ S
  /\ UNCHANGED runs

Next ==
  \/ \E w \in Workers : RunBare(w) \/ End(w) \/ \E s \in Slots : Take(w, s)
  \/ \E S \in SUBSET Slots : Free(S)

Spec == Init /\ [][Next]_slotVars

=============================================================================
