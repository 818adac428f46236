------------------------ MODULE MCTranscriptionOutbox ------------------------
EXTENDS TranscriptionOutbox, TLC

(* Attempts, and worker processes, are interchangeable.                    *)
Symmetric == Permutations(Events) \cup Permutations(Workers)
=============================================================================
