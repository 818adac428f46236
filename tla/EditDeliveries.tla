---------------------------- MODULE EditDeliveries ----------------------------
(***************************************************************************)
(* What the outbox promises about the edits of one video, without queues,  *)
(* claims or workers: an edit that was accepted may be rendered more than  *)
(* once, in any order with the others, but never again after it has been   *)
(* ticked off, and what is ticked off stays so.                            *)
(***************************************************************************)
CONSTANTS Requests, NoRequest

VARIABLES issued,   \* the edits the outbox holds
          settled,  \* those it has ticked off
          video     \* whose render the deliverables are

deliveryVars == <<issued, settled, video>>

Init == issued = {} /\ settled = {} /\ video = NoRequest

Issue(r) ==
  /\ r \notin issued
  /\ issued' = issued \cup {r}
  /\ UNCHANGED <<settled, video>>

Render(r) ==
  /\ r \in issued \ settled
  /\ video' = r
  /\ UNCHANGED <<issued, settled>>

Settle(r) ==
  /\ r \in issued
  /\ settled' = settled \cup {r}
  /\ UNCHANGED <<issued, video>>

Next == \E r \in Requests : Issue(r) \/ Render(r) \/ Settle(r)

Spec == Init /\ [][Next]_deliveryVars

=============================================================================
