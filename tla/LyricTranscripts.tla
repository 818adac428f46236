--------------------------- MODULE LyricTranscripts ---------------------------
(***************************************************************************)
(* What the transcription of a song promises, without queues, claims or    *)
(* stages: many attempts may be asked for and any of them may run, but     *)
(* only one of them ever leaves its evidence, it is one that has not been  *)
(* ticked off, only its text may become the lyric, and it never replaces   *)
(* what an operator has saved.                                             *)
(***************************************************************************)
CONSTANTS Attempts, NoAttempt,
          Nothing,   \* no lyric yet
          Operator   \* a lyric saved by an operator

VARIABLES issued,    \* the attempts the outbox holds
          settled,   \* those it has ticked off
          evidence,  \* the attempt whose evidence is frozen
          text       \* whose lyric the song has

transcriptVars == <<issued, settled, evidence, text>>

Init == issued = {} /\ settled = {} /\ evidence = NoAttempt /\ text = Nothing

Issue(a) ==
  /\ a \notin issued
  /\ issued' = issued \cup {a}
  /\ UNCHANGED <<settled, evidence, text>>

Settle(a) ==
  /\ a \in issued
  /\ settled' = settled \cup {a}
  /\ UNCHANGED <<issued, evidence, text>>

(* An editor that was open before the result keeps its empty lyric.        *)
Freeze(a) ==
  /\ a \in issued \ settled
  /\ evidence = NoAttempt /\ text = Nothing
  /\ evidence' = a
  /\ text' \in {a, text}
  /\ UNCHANGED <<issued, settled>>

Save ==
  /\ text' = Operator
  /\ UNCHANGED <<issued, settled, evidence>>

Next == Save \/ \E a \in Attempts : Issue(a) \/ Settle(a) \/ Freeze(a)

Spec == Init /\ [][Next]_transcriptVars

=============================================================================
