---------------------------- MODULE SongAnalyses ----------------------------
(***************************************************************************)
(* What the quality analyses of one song promise, without queues, markers, *)
(* retries or workers: the song moves from snapshot to snapshot and never  *)
(* back, a question is about the snapshot it is asked of and takes one     *)
(* answer while the song has that snapshot, and an approval goes only with *)
(* its lyric.  A question may be asked again, and given up at any time; an *)
(* answer that comes after it was given up is still taken.                 *)
(***************************************************************************)
EXTENDS Naturals

CONSTANTS NoVerdict

VARIABLES subject,   \* the lyric and the audio the song has
          shown,     \* what is said of the analysis
          open,      \* an answer would be taken
          verdict,   \* what a complete analysis has looked at
          approved

analysisVars == <<subject, shown, open, verdict, approved>>

Init ==
  /\ subject = [revision |-> 0, audio |-> 1]
  /\ shown = "none" /\ open = FALSE /\ verdict = NoVerdict /\ approved = FALSE

Overtaken == shown' = "none" /\ open' = FALSE /\ verdict' = NoVerdict

NewLyric ==
  /\ subject' = [subject EXCEPT !.revision = @ + 1]
  /\ Overtaken /\ approved' = FALSE

NewAudio ==
  /\ subject' = [subject EXCEPT !.audio = @ + 1]
  /\ Overtaken /\ approved' = approved

Approve ==
  /\ ~approved /\ approved' = TRUE
  /\ UNCHANGED <<subject, shown, open, verdict>>

Ask ==
  /\ shown' = "pending" /\ open' = TRUE /\ verdict' = NoVerdict
  /\ UNCHANGED <<subject, approved>>

Complete ==
  /\ open /\ open' = FALSE
  /\ shown' = "complete" /\ verdict' = subject
  /\ UNCHANGED <<subject, approved>>

Fail ==
  /\ open /\ open' = FALSE
  /\ shown' = "failed" /\ verdict' = NoVerdict
  /\ UNCHANGED <<subject, approved>>

GiveUp ==
  /\ shown' = "failed" /\ verdict' = NoVerdict
  /\ UNCHANGED <<subject, open, approved>>

Next ==
  \/ NewLyric \/ NewAudio \/ Approve
  \/ Ask \/ Complete \/ Fail \/ GiveUp

Spec == Init /\ [][Next]_analysisVars

=============================================================================
