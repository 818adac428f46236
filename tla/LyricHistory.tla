----------------------------- MODULE LyricHistory -----------------------------
(***************************************************************************)
(* What the editor promises about the lyric of one song, without job row,  *)
(* document, requests or word timings: a register that is replaced only by *)
(* somebody who holds what it replaces, with a history that enters every   *)
(* lyric under the number it was saved at.  Until the first save the       *)
(* machine may still set the lyric.  A tab that was refused and shown an   *)
(* outcome nobody stored knows the number alone.                           *)
(***************************************************************************)
EXTENDS Integers

CONSTANTS Tabs, Lyrics

VARIABLES lyric,      \* the current one
          revision,   \* its number, 0 until the first save
          history,    \* [numbers -> the lyric entered under them]
          permanent,  \* the numbers the history may not drop
          held        \* [Tabs -> the snapshot the tab last received, and
                      \*  whether it was nothing, stored or refused]

historyVars == <<lyric, revision, history, permanent, held>>

Init ==
  /\ lyric \in Lyrics /\ revision = 0
  /\ DOMAIN history = {} /\ permanent = {}
  /\ \A t \in Tabs : held[t].seen = "nothing"

(* Nobody has saved yet.                                                   *)
Set == revision = 0 /\ lyric' \in Lyrics /\ revision' >= revision

(* The same lyric, under the same or another number.                       *)
Keep == lyric' = lyric /\ revision' >= revision

Holds(t) ==
  /\ held[t].seen # "nothing" /\ held[t].revision = revision
  /\ held[t].seen = "stored" => held[t].lyric = lyric

Replace(t) == Holds(t) /\ lyric' \in Lyrics /\ revision' > revision

(* Nothing entered is rewritten, nothing permanent is dropped, and nothing *)
(* is entered under a number of the past, or under the current number but  *)
(* the lyric it was saved as.                                              *)
Remember ==
  LET old == history
      new == history'
  IN  /\ permanent \subseteq permanent' /\ permanent' \subseteq DOMAIN new
      /\ \A r \in DOMAIN new :
           IF r \in DOMAIN old THEN new[r] = old[r]
           ELSE /\ revision =< r /\ r =< revision'
                /\ r = revision /\ r > 0 => new[r] = lyric
      /\ revision' > 0 /\ revision' \in DOMAIN new => new[revision'] = lyric'

(* What a tab is told as stored is current if its number is.               *)
True(t) ==
  LET told == held'[t]
  IN  told.seen = "stored" =>
        /\ told.revision =< revision'
        /\ revision' > 0 /\ told.revision = revision' => told.lyric = lyric'

Tell(t) == True(t) /\ \A u \in Tabs \ {t} : held'[u] = held[u]

Next ==
  /\ Keep \/ Set \/ \E t \in Tabs : Replace(t)
  /\ Remember
  /\ (\E t \in Tabs : Tell(t)) \/ UNCHANGED held

Spec == Init /\ [][Next]_historyVars

=============================================================================
