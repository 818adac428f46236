--------------------------- MODULE MCEditorDocument ---------------------------
EXTENDS EditorDocument, TLC

CONSTANTS t0, a1, a2, b1

MCTexts == {t0, a1, a2, b1}

(* a1 and a2 are one lyric with different word timings.                    *)
MCLyricOf == (t0 :> "none") @@ (a1 :> "a") @@ (a2 :> "a") @@ (b1 :> "b")

(* Tabs are interchangeable, and so are the two timings of lyric a.        *)
Symmetric == Permutations(Clients) \cup Permutations({a1, a2})
=============================================================================
