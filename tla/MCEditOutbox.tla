----------------------------- MODULE MCEditOutbox -----------------------------
EXTENDS EditOutbox, TLC

CONSTANTS LyricsEdits, BackgroundEdits

(* The kinds of the requests of a run: the others are of metadata.         *)
MCEditType ==
  [r \in Requests |-> CASE r \in LyricsEdits     -> "lyrics"
                        [] r \in BackgroundEdits -> "background"
                        [] OTHER                 -> "metadata"]
=============================================================================
