------------------------------ MODULE SongSpend ------------------------------
(***************************************************************************)
(* What the ceiling on paid generations promises, without jobs, leases,    *)
(* locks, retries or a ledger: a generation begins only for a call that    *)
(* took one of the slots of its song and turned it into spend, at most Cap *)
(* slots of a song are taken, and spend is returned only if no generation  *)
(* has begun.  A call that could not be counted, or whose job was given    *)
(* another song, leaves the account for good, or until it takes a slot.    *)
(***************************************************************************)
EXTENDS Naturals, FiniteSets

CONSTANTS Calls, Songs, Cap

VARIABLES charge,  \* [Calls -> what the call has of its song's budget]
          payer    \* [Calls -> the song the call is for]

spendVars == <<charge, payer>>

Charges == {"free", "held", "spent", "begun", "exempt"}

Occupants(s) ==
  {c \in Calls : charge[c] \in {"held", "spent", "begun"} /\ payer[c] = s}

Init == \A c \in Calls : charge[c] = "free"

Others(C) ==
  \A c \in Calls \ C : charge'[c] = charge[c] /\ payer'[c] = payer[c]

Becomes(c, x) ==
  charge'[c] = x /\ payer'[c] = payer[c] /\ Others({c})

(* A call is for a song before it has anything of its budget.              *)
Assign(c) ==
  charge[c] = "free" /\ charge'[c] = "free" /\ Others({c})

Take(c) ==
  /\ charge[c] \in {"free", "exempt"} /\ payer[c] \in Songs
  /\ Cardinality(Occupants(payer[c])) < Cap
  /\ Becomes(c, "held")

Spend(c) == charge[c] = "held" /\ Becomes(c, "spent")

Begin(c) == charge[c] = "spent" /\ Becomes(c, "begun")

Refund(c) == charge[c] = "spent" /\ Becomes(c, "free")

Lapse(C) ==
  /\ \A c \in C : /\ charge[c] = "held" /\ charge'[c] = "free"
                  /\ payer'[c] = payer[c]
  /\ Others(C)

Exempt(C) == (\A c \in C : charge'[c] = "exempt") /\ Others(C)

Next ==
  \/ \E c \in Calls :
       Assign(c) \/ Take(c) \/ Spend(c) \/ Begin(c) \/ Refund(c)
  \/ \E C \in SUBSET Calls : Lapse(C) \/ Exempt(C)

Spec == Init /\ [][Next]_spendVars

=============================================================================
