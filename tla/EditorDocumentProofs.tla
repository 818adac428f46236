------------------------- MODULE EditorDocumentProofs -------------------------
(***************************************************************************)
(* Proofs about the lyric of a song.  The pure operators on the store are  *)
(* shown once to keep it well formed (Good) and to lead only forward       *)
(* (Follows); every action is then a short composition of them, and the    *)
(* properties of the runs are read off the two relations.                  *)
(***************************************************************************)
EXTENDS EditorDocument, TLAPS

Sound(versions) ==
  /\ DOMAIN versions \subseteq Nat
  /\ versions \in [DOMAIN versions -> Version]

(* The store is typed, its copies are mirrored, no version is ahead of the *)
(* document, and the one at its revision is of its lyric.                  *)
Typed(s) == s \in Store(s.versions) /\ Sound(s.versions)

Mirrored(s) ==
  LET d == s.document
  IN  IF d = NoDocument THEN s.revision = 0 /\ DOMAIN s.versions = {}
      ELSE d.revision = s.revision /\ (s.revision > 0 => d.text = s.text)

Below(s) == \A r \in DOMAIN s.versions : r =< s.revision

Named(v, r, t) == r > 0 /\ r \in DOMAIN v => Equivalent(v[r].text, t)

Good(s) ==
  Typed(s) /\ Mirrored(s) /\ Below(s) /\ Named(s.versions, s.revision, s.text)

(* What a version history may do: keep the text and the approvals of what  *)
(* it keeps, and drop only drafts, unless the evidence is frozen.          *)
Remembers(v, w, frozen) ==
  \A r \in DOMAIN v :
    IF r \in DOMAIN w
    THEN /\ w[r].text = v[r].text
         /\ w[r].machine = v[r].machine
         /\ v[r].approved => w[r].approved
    ELSE ~v[r].approved /\ ~v[r].machine /\ ~frozen

(* What it may enter: future numbers, and the current one with its lyric.  *)
Enters(v, r, t, w) ==
  \A q \in DOMAIN w :
    q \in DOMAIN v \/ q > r \/ (q = r /\ (r > 0 => Equivalent(w[q].text, t)))

Follows(s, u) ==
  /\ u.revision >= s.revision
  /\ s.revision > 0 /\ u.revision = s.revision => u.text = s.text
  /\ s.document # NoDocument =>
       /\ u.document # NoDocument
       /\ u.document.revision = s.document.revision
            => u.document.text = s.document.text
  /\ Remembers(s.versions, u.versions, s.frozen)
  /\ Enters(s.versions, s.revision, s.text, u.versions)
  /\ s.frozen => u.frozen

-----------------------------------------------------------------------------
(* Versions.                                                               *)

LEMMA NoVersions == DOMAIN << >> = {} /\ Sound(<< >>)
  BY DEF Sound

LEMMA EnsuredKeeps ==
  ASSUME NEW v, Sound(v), NEW r \in Nat, NEW t \in Texts, NEW a \in BOOLEAN
  PROVE  /\ Sound(Ensured(v, r, t, a))
         /\ DOMAIN Ensured(v, r, t, a) = DOMAIN v \cup {r}
         /\ \A f : Remembers(v, Ensured(v, r, t, a), f)
  BY DEF Sound, Ensured, Remembers, Version

LEMMA EnsuredText ==
  ASSUME NEW v, Sound(v), NEW r \in Nat, NEW t \in Texts, NEW a \in BOOLEAN,
         r \notin DOMAIN v
  PROVE  Ensured(v, r, t, a)[r].text = t
  BY DEF Sound, Ensured, Version

LEMMA PrunedKeeps ==
  ASSUME NEW v, Sound(v), NEW f \in BOOLEAN
  PROVE  /\ Sound(Pruned(v, f))
         /\ DOMAIN Pruned(v, f) \subseteq DOMAIN v
         /\ Remembers(v, Pruned(v, f), f)
<1>1. CASE f
  BY <1>1 DEF Pruned, Remembers
<1>2. CASE ~f
  <2> DEFINE k == Kept(v)
  <2>1. /\ k \subseteq DOMAIN v
        /\ \A r \in DOMAIN v : r \notin k => ~v[r].approved /\ ~v[r].machine
    BY DEF Kept, Drafts
  <2>2. Pruned(v, f) = [r \in k |-> v[r]]
    BY <1>2 DEF Pruned
  <2> HIDE DEF k
  <2> QED
    BY <1>2, <2>1, <2>2 DEF Sound, Remembers
<1> QED
  BY <1>1, <1>2

LEMMA RemembersComposes ==
  ASSUME NEW u, NEW v, NEW w, NEW f, NEW g, Sound(u), Sound(v), Sound(w),
         Remembers(u, v, f), Remembers(v, w, g), f => g,
         (DOMAIN u) \cap (DOMAIN w) \subseteq DOMAIN v
  PROVE  Remembers(u, w, f)
  BY DEF Remembers, Sound, Version

LEMMA FollowsComposes ==
  ASSUME NEW s, NEW v, NEW u, Good(s), Good(v), Good(u),
         Follows(s, v), Follows(v, u),
         (DOMAIN s.versions) \cap (DOMAIN u.versions) \subseteq DOMAIN v.versions
  PROVE  Follows(s, u)
<1>1. Remembers(s.versions, u.versions, s.frozen)
  BY RemembersComposes DEF Follows, Good, Typed
<1>2. /\ s.revision \in Nat /\ v.revision \in Nat /\ u.revision \in Nat
      /\ \A q \in DOMAIN u.versions : q \in Nat
  BY DEF Good, Typed, Store, Sound
<1>3. Enters(s.versions, s.revision, s.text, u.versions)
  <2>1. SUFFICES ASSUME NEW q \in DOMAIN u.versions, q \notin DOMAIN s.versions,
                        ~(q > s.revision)
                 PROVE  /\ q = s.revision
                        /\ s.revision > 0 => Equivalent(u.versions[q].text, s.text)
    BY DEF Enters
  <2>2. CASE q \in DOMAIN v.versions
    <3>1. u.versions[q].text = v.versions[q].text
      BY <2>2 DEF Follows, Remembers
    <3> QED
      BY <2>1, <2>2, <3>1 DEF Follows, Enters
  <2>3. CASE q \notin DOMAIN v.versions
    <3>1. q = v.revision /\ v.revision = s.revision
      BY <1>2, <2>1, <2>3 DEF Follows, Enters
    <3> QED
      BY <2>1, <2>3, <3>1 DEF Follows, Enters
  <2> QED
    BY <2>2, <2>3
<1> QED
  BY <1>1, <1>2, <1>3 DEF Follows, Good, Mirrored

LEMMA FollowsItself ==
  ASSUME NEW s, Good(s)
  PROVE  Follows(s, s)
  BY DEF Follows, Good, Typed, Store, Remembers, Enters

-----------------------------------------------------------------------------
(* The operators on the store.                                             *)

(* A store put together from a good one, field by field.                   *)
LEMMA StoreOf ==
  ASSUME NEW s, Good(s), NEW t \in Texts, NEW r \in Nat,
         NEW d \in Snapshot, NEW v, Sound(v), NEW f \in BOOLEAN,
         NEW u, u = [text |-> t, revision |-> r, document |-> d,
                     versions |-> v, frozen |-> f],
         d.revision = r, r > 0 => d.text = t, r >= s.revision,
         s.revision > 0 /\ r = s.revision => t = s.text,
         s.document # NoDocument /\ r = s.revision => d.text = s.document.text,
         \A q \in DOMAIN v : q =< r, Named(v, r, t),
         Remembers(s.versions, v, s.frozen), s.frozen => f,
         Enters(s.versions, s.revision, s.text, v)
  PROVE  Good(u) /\ Follows(s, u) /\ u.document # NoDocument
<1>1. d # NoDocument
  BY SentinelAssumption
<1>2. Typed(u)
  BY DEF Typed, Store
<1>3. Mirrored(u) /\ Below(u)
  BY <1>1 DEF Mirrored, Below
<1>4. s.document # NoDocument => s.document.revision = s.revision
  BY DEF Good, Mirrored
<1> QED
  BY <1>1, <1>2, <1>3, <1>4 DEF Good, Follows

IsStore(s) ==
  s = [text |-> s.text, revision |-> s.revision, document |-> s.document,
       versions |-> s.versions, frozen |-> s.frozen]

(* What a good store is made of.                                           *)
LEMMA Parts ==
  ASSUME NEW s, Good(s)
  PROVE  /\ s.text \in Texts /\ s.revision \in Nat /\ s.frozen \in BOOLEAN
         /\ Sound(s.versions)
         /\ IsStore(s)
         /\ s.document # NoDocument =>
              /\ s.document \in Snapshot
              /\ s.document.text \in Texts /\ s.document.revision = s.revision
              /\ s.revision > 0 => s.document.text = s.text
         /\ s.document = NoDocument =>
              s.revision = 0 /\ DOMAIN s.versions = {}
         /\ \A r \in DOMAIN s.versions : r \in Nat /\ r =< s.revision
<1>1. s \in Store(s.versions) /\ Sound(s.versions)
  BY DEF Good, Typed
<1>2. IsStore(s)
  BY <1>1 DEF Store, IsStore
<1>3. /\ s.text \in Texts /\ s.revision \in Nat /\ s.frozen \in BOOLEAN
      /\ s.document \in Snapshot \cup {NoDocument}
  BY <1>1 DEF Store
<1> QED
  BY <1>1, <1>2, <1>3 DEF Good, Mirrored, Below, Sound, Snapshot

(* The updates the operators make, written out.                            *)
LEMMA NewText ==
  ASSUME NEW s, IsStore(s), NEW t, NEW d, NEW v
  PROVE  [s EXCEPT !.text = t, !.document = d, !.versions = v]
           = [text |-> t, revision |-> s.revision, document |-> d,
              versions |-> v, frozen |-> s.frozen]
<1> DEFINE u == [s EXCEPT !.text = t, !.document = d, !.versions = v]
<1>1. s \in [text : {s.text}, revision : {s.revision}, document : {s.document},
            versions : {s.versions}, frozen : {s.frozen}]
  BY DEF IsStore
<1>2. u \in [text : {t}, revision : {s.revision}, document : {d},
            versions : {v}, frozen : {s.frozen}]
  BY <1>1
<1> HIDE DEF u
<1>3. u = [text |-> t, revision |-> s.revision, document |-> d,
           versions |-> v, frozen |-> s.frozen]
  BY <1>2
<1> QED
  BY <1>3 DEF u

LEMMA NewRevision ==
  ASSUME NEW s, IsStore(s), NEW r, NEW d, NEW v
  PROVE  [s EXCEPT !.revision = r, !.document = d, !.versions = v]
           = [text |-> s.text, revision |-> r, document |-> d,
              versions |-> v, frozen |-> s.frozen]
<1> DEFINE u == [s EXCEPT !.revision = r, !.document = d, !.versions = v]
<1>1. s \in [text : {s.text}, revision : {s.revision}, document : {s.document},
            versions : {s.versions}, frozen : {s.frozen}]
  BY DEF IsStore
<1>2. u \in [text : {s.text}, revision : {r}, document : {d},
            versions : {v}, frozen : {s.frozen}]
  BY <1>1
<1> HIDE DEF u
<1>3. u = [text |-> s.text, revision |-> r, document |-> d,
           versions |-> v, frozen |-> s.frozen]
  BY <1>2
<1> QED
  BY <1>3 DEF u

LEMMA NewDocument ==
  ASSUME NEW s, IsStore(s), NEW d, NEW v
  PROVE  [s EXCEPT !.document = d, !.versions = v]
           = [text |-> s.text, revision |-> s.revision, document |-> d,
              versions |-> v, frozen |-> s.frozen]
<1> DEFINE u == [s EXCEPT !.document = d, !.versions = v]
<1>1. s \in [text : {s.text}, revision : {s.revision}, document : {s.document},
            versions : {s.versions}, frozen : {s.frozen}]
  BY DEF IsStore
<1>2. u \in [text : {s.text}, revision : {s.revision}, document : {d},
            versions : {v}, frozen : {s.frozen}]
  BY <1>1
<1> HIDE DEF u
<1>3. u = [text |-> s.text, revision |-> s.revision, document |-> d,
           versions |-> v, frozen |-> s.frozen]
  BY <1>2
<1> QED
  BY <1>3 DEF u

LEMMA NewVersions ==
  ASSUME NEW s, IsStore(s), NEW v
  PROVE  [s EXCEPT !.versions = v]
           = [text |-> s.text, revision |-> s.revision, document |-> s.document,
              versions |-> v, frozen |-> s.frozen]
<1> DEFINE u == [s EXCEPT !.versions = v]
<1>1. s \in [text : {s.text}, revision : {s.revision}, document : {s.document},
            versions : {s.versions}, frozen : {s.frozen}]
  BY DEF IsStore
<1>2. u \in [text : {s.text}, revision : {s.revision}, document : {s.document},
            versions : {v}, frozen : {s.frozen}]
  BY <1>1
<1> HIDE DEF u
<1>3. u = [text |-> s.text, revision |-> s.revision, document |-> s.document,
           versions |-> v, frozen |-> s.frozen]
  BY <1>2
<1> QED
  BY <1>3 DEF u

LEMMA NewRow ==
  ASSUME NEW s, IsStore(s), NEW t, NEW r
  PROVE  [s EXCEPT !.text = t, !.revision = r]
           = [text |-> t, revision |-> r, document |-> s.document,
              versions |-> s.versions, frozen |-> s.frozen]
<1> DEFINE u == [s EXCEPT !.text = t, !.revision = r]
<1>1. s \in [text : {s.text}, revision : {s.revision}, document : {s.document},
            versions : {s.versions}, frozen : {s.frozen}]
  BY DEF IsStore
<1>2. u \in [text : {t}, revision : {r}, document : {s.document},
            versions : {s.versions}, frozen : {s.frozen}]
  BY <1>1
<1> HIDE DEF u
<1>3. u = [text |-> t, revision |-> r, document |-> s.document,
           versions |-> s.versions, frozen |-> s.frozen]
  BY <1>2
<1> QED
  BY <1>3 DEF u

LEMMA NewLine ==
  ASSUME NEW s, IsStore(s), NEW t
  PROVE  [s EXCEPT !.text = t]
           = [text |-> t, revision |-> s.revision, document |-> s.document,
              versions |-> s.versions, frozen |-> s.frozen]
<1> DEFINE u == [s EXCEPT !.text = t]
<1>1. s \in [text : {s.text}, revision : {s.revision}, document : {s.document},
            versions : {s.versions}, frozen : {s.frozen}]
  BY DEF IsStore
<1>2. u \in [text : {t}, revision : {s.revision}, document : {s.document},
            versions : {s.versions}, frozen : {s.frozen}]
  BY <1>1
<1> HIDE DEF u
<1>3. u = [text |-> t, revision |-> s.revision, document |-> s.document,
           versions |-> s.versions, frozen |-> s.frozen]
  BY <1>2
<1> QED
  BY <1>3 DEF u

(* Creation of the document, by an operator or by the transcription.       *)
LEMMA CreatedGood ==
  ASSUME NEW s, Good(s), s.document = NoDocument,
         NEW t \in Texts, NEW machine \in BOOLEAN
  PROVE  /\ Good(Created(s, t, machine)) /\ Follows(s, Created(s, t, machine))
         /\ Created(s, t, machine).document # NoDocument
         /\ Created(s, t, machine).text = t
         /\ Created(s, t, machine).revision = s.revision
<1> DEFINE d == [text |-> t, revision |-> s.revision]
           v == [r \in {s.revision} |->
                   [text |-> t, approved |-> FALSE, machine |-> machine]]
<1>1. s.revision = 0 /\ DOMAIN s.versions = {}
  BY Parts
<1>2. Created(s, t, machine) =
        [text |-> t, revision |-> s.revision, document |-> d,
         versions |-> v, frozen |-> s.frozen]
  <2>1. Created(s, t, machine) =
        [s EXCEPT !.text = t, !.document = d, !.versions = v]
    BY DEF Created
  <2> HIDE DEF d, v
  <2>2. IsStore(s)
    BY Parts
  <2> QED
    BY <2>1, <2>2, NewText, Zenon
<1>3. d \in Snapshot /\ d.revision = s.revision /\ d.text = t
  BY <1>1 DEF Snapshot
<1>4. Sound(v) /\ DOMAIN v = {s.revision}
  BY <1>1 DEF Sound, Version
<1>5. /\ Remembers(s.versions, v, s.frozen)
      /\ Enters(s.versions, s.revision, s.text, v) /\ Named(v, s.revision, t)
  BY <1>1 DEF Remembers, Enters, Named
<1> HIDE DEF d, v
<1> QED
  BY <1>1, <1>2, <1>3, <1>4, <1>5, StoreOf, Parts

(* The next revision is free and directly above the current one.           *)
LEMMA NextRevisionIs ==
  ASSUME NEW s, Good(s), s.document # NoDocument
  PROVE  NextRevision(s) = s.revision + 1
<1> DEFINE S == DOMAIN s.versions \cup {s.revision, s.document.revision}
<1>1. /\ s.revision \in S /\ \A q \in S : q \in Nat /\ s.revision >= q
      /\ s.revision \in Nat
  BY Parts
<1> HIDE DEF S
<1>2. Max(S) \in S /\ \A q \in S : Max(S) >= q
  BY <1>1 DEF Max
<1>3. Max(S) = s.revision
  BY <1>1, <1>2
<1> QED
  BY <1>3 DEF NextRevision, S

LEMMA BothKeptGood ==
  ASSUME NEW s, Good(s), s.document # NoDocument, s.document.text # s.text
  PROVE  /\ Good(BothKept(s)) /\ Follows(s, BothKept(s))
         /\ BothKept(s).document # NoDocument
         /\ DOMAIN s.versions \subseteq DOMAIN BothKept(s).versions
<1> DEFINE n == s.revision + 1
           k == Ensured(s.versions, n, s.document.text, FALSE)
           w == Ensured(k, n + 1, s.text, FALSE)
           d == [text |-> s.text, revision |-> n + 1]
<1>1. BothKept(s) = [text |-> s.text, revision |-> n + 1, document |-> d,
                     versions |-> w, frozen |-> s.frozen]
  <2>1. BothKept(s) =
        [s EXCEPT !.revision = n + 1, !.document = d, !.versions = w]
    BY NextRevisionIs DEF BothKept
  <2>2. IsStore(s)
    BY Parts
  <2> HIDE DEF n, d, w
  <2> QED
    BY <2>1, <2>2, NewRevision, Zenon
<1>2. n \in Nat /\ n + 1 \in Nat /\ s.text \in Texts /\ s.document.text \in Texts
  BY Parts
<1>10. n = s.revision + 1
  OBVIOUS
<1> HIDE DEF n
<1>3. /\ Sound(k) /\ DOMAIN k = DOMAIN s.versions \cup {n}
      /\ Remembers(s.versions, k, s.frozen)
  <2>1. Sound(s.versions)
    BY Parts
  <2> QED
    BY <1>2, <2>1, EnsuredKeeps
<1>4. /\ Sound(w) /\ DOMAIN w = DOMAIN k \cup {n + 1}
      /\ Remembers(k, w, s.frozen)
  BY <1>2, <1>3, EnsuredKeeps
<1>12. n + 1 \notin DOMAIN k => w[n + 1].text = s.text
  BY <1>2, <1>3, EnsuredText
<1> HIDE DEF k, w
<1>5. Remembers(s.versions, w, s.frozen)
  BY <1>3, <1>4, RemembersComposes, Parts
<1>6. d \in Snapshot /\ d.revision = n + 1 /\ d.text = s.text
  BY <1>2 DEF Snapshot
<1>7. \A q \in DOMAIN w : q =< n + 1
  BY <1>10, <1>2, <1>3, <1>4, Parts
<1> HIDE DEF d
<1>8. n + 1 >= s.revision /\ n + 1 # s.revision
  BY <1>10, Parts
<1>11. Named(w, n + 1, s.text) /\ Enters(s.versions, s.revision, s.text, w)
  BY <1>2, <1>3, <1>4, <1>10, <1>12, Parts DEF Named, Enters, Equivalent
<1>9. /\ Good(BothKept(s)) /\ Follows(s, BothKept(s))
      /\ BothKept(s).document # NoDocument
  BY <1>1, <1>2, <1>4, <1>5, <1>6, <1>7, <1>8, <1>11, StoreOf, Parts
<1> QED
  BY <1>1, <1>3, <1>4, <1>9

(* Job row and document at one free revision, with that version.           *)
At(s, t, r, a) ==
  [text |-> t, revision |-> r, document |-> [text |-> t, revision |-> r],
   versions |-> Ensured(s.versions, r, t, a), frozen |-> s.frozen]

LEMMA AtRevision ==
  ASSUME NEW s, Good(s), NEW t \in Texts, NEW r \in Nat, NEW a \in BOOLEAN,
         r > s.revision
  PROVE  /\ Good(At(s, t, r, a)) /\ Follows(s, At(s, t, r, a))
         /\ At(s, t, r, a).document # NoDocument
         /\ DOMAIN s.versions \subseteq DOMAIN At(s, t, r, a).versions
         /\ At(s, t, r, a).text = t /\ At(s, t, r, a).revision = r
<1> DEFINE d == [text |-> t, revision |-> r]
           v == Ensured(s.versions, r, t, a)
<1>1. d \in Snapshot /\ d.text = t /\ d.revision = r
  BY DEF Snapshot
<1>2. At(s, t, r, a) = [text |-> t, revision |-> r, document |-> d,
                        versions |-> v, frozen |-> s.frozen]
  BY DEF At
<1>3. Sound(s.versions)
  BY Parts
<1>4. /\ Sound(v) /\ DOMAIN v = DOMAIN s.versions \cup {r}
      /\ Remembers(s.versions, v, s.frozen)
  BY <1>3, EnsuredKeeps
<1>8. r \notin DOMAIN s.versions => v[r].text = t
  BY <1>3, EnsuredText
<1> HIDE DEF d, v
<1>7. Named(v, r, t) /\ Enters(s.versions, s.revision, s.text, v)
  BY <1>4, <1>8, Parts DEF Named, Enters, Equivalent
<1>5. /\ \A q \in DOMAIN v : q =< r
      /\ r >= s.revision /\ r # s.revision /\ s.frozen \in BOOLEAN
  BY <1>4, Parts
<1>6. /\ Good(At(s, t, r, a)) /\ Follows(s, At(s, t, r, a))
      /\ At(s, t, r, a).document # NoDocument
  BY <1>1, <1>2, <1>4, <1>5, <1>7, StoreOf
<1> QED
  BY <1>2, <1>4, <1>6

(* get_or_create_document, on a well-formed store and ...                  *)
LEMMA ReconciledGood ==
  ASSUME NEW s, Good(s), NEW u, u = Reconciled(s)
  PROVE  /\ Good(u) /\ Follows(s, u) /\ u.document # NoDocument
         /\ DOMAIN s.versions \subseteq DOMAIN u.versions
         /\ s.revision > 0 => u = s
<1>1. CASE s.document = NoDocument
  <2>1. u = Created(s, s.text, FALSE)
    BY <1>1 DEF Reconciled
  <2>2. s.revision = 0 /\ DOMAIN s.versions = {} /\ s.text \in Texts
    BY <1>1, Parts
  <2>3. Good(u) /\ Follows(s, u) /\ u.document # NoDocument
    BY <1>1, <2>1, <2>2, CreatedGood
  <2> QED
    BY <2>2, <2>3
<1>2. CASE s.document # NoDocument
  <2>1. /\ s.revision \in Nat /\ s.document.revision = s.revision
        /\ s.revision > 0 => s.document.text = s.text
    BY <1>2, Parts
  <2>2. CASE s.document.text = s.text
    <3>1. u = s
      BY <1>2, <2>1, <2>2 DEF Reconciled
    <3> QED
      BY <1>2, <3>1, FollowsItself
  <2>3. CASE s.document.text # s.text
    <3>1. u = BothKept(s)
      BY <1>2, <2>1, <2>3 DEF Reconciled
    <3> QED
      BY <1>2, <2>1, <2>3, <3>1, BothKeptGood
  <2> QED
    BY <2>2, <2>3
<1> QED
  BY <1>1, <1>2

(* ... on one whose job row was just written at the next revision.         *)
LEMMA CreatedAtNext ==
  ASSUME NEW w, IsStore(w), w.document = NoDocument, DOMAIN w.versions = {}
  PROVE  Reconciled(w) = At(w, w.text, w.revision, FALSE)
<1> DEFINE d == [text |-> w.text, revision |-> w.revision]
           x == [r \in {w.revision} |->
                   [text |-> w.text, approved |-> FALSE, machine |-> FALSE]]
           t == w.text
<1>1. Reconciled(w) = Created(w, t, FALSE)
  BY DEF Reconciled
<1>2. Created(w, t, FALSE) = [w EXCEPT !.text = t, !.document = d, !.versions = x]
  BY Zenon DEF Created
<1>3. Ensured(w.versions, w.revision, t, FALSE) = x
  BY DEF Ensured
<1>5. d = [text |-> t, revision |-> w.revision]
  OBVIOUS
<1>6. At(w, t, w.revision, FALSE) =
        [text |-> t, revision |-> w.revision, document |-> d,
         versions |-> x, frozen |-> w.frozen]
  BY <1>3 DEF At
<1> HIDE DEF d, x, t
<1>4. [w EXCEPT !.text = t, !.document = d, !.versions = x]
        = [text |-> t, revision |-> w.revision, document |-> d,
           versions |-> x, frozen |-> w.frozen]
  BY NewText, Zenon
<1>7. Reconciled(w) = At(w, t, w.revision, FALSE)
  BY <1>1, <1>2, <1>4, <1>6
<1> QED
  BY <1>7 DEF t

LEMMA AdoptedIs ==
  ASSUME NEW w, IsStore(w), NEW t, NEW n, CanEnsure(w.versions, n, t)
  PROVE  Adopted(w, t, n) = At(w, t, n, FALSE)
<1> DEFINE d == [text |-> t, revision |-> n]
           v == Ensured(w.versions, n, t, FALSE)
<1>1. Adopted(w, t, n) =
      [w EXCEPT !.text = t, !.revision = n, !.document = d, !.versions = v]
  BY Zenon DEF Adopted
<1>2. At(w, t, n, FALSE) =
        [text |-> t, revision |-> n, document |-> d,
         versions |-> v, frozen |-> w.frozen]
  BY DEF At
<1> HIDE DEF d, v
<1> DEFINE u == [w EXCEPT !.text = t, !.revision = n, !.document = d, !.versions = v]
<1>3. u = [text |-> t, revision |-> n, document |-> d,
           versions |-> v, frozen |-> w.frozen]
  <2>1. w \in [text : {w.text}, revision : {w.revision},
               document : {w.document}, versions : {w.versions},
               frozen : {w.frozen}]
    BY DEF IsStore
  <2>2. u \in [text : {t}, revision : {n}, document : {d},
               versions : {v}, frozen : {w.frozen}]
    BY <2>1
  <2> HIDE DEF u
  <2> QED
    BY <2>2
<1> QED
  BY <1>1, <1>2, <1>3

LEMMA AdoptedAtNext ==
  ASSUME NEW w, IsStore(w), w.revision \in Nat,
         w.document # NoDocument, w.document.revision \in Nat,
         w.revision > w.document.revision, w.revision \notin DOMAIN w.versions
  PROVE  Reconciled(w) = At(w, w.text, w.revision, FALSE)
<1>1. Reconciled(w) = Adopted(w, w.text, w.revision)
  BY DEF Reconciled
<1>2. CanEnsure(w.versions, w.revision, w.text)
  BY DEF CanEnsure
<1> QED
  BY <1>1, <1>2, AdoptedIs

(* The revision after the current one is free.                             *)
LEMMA FreeRevision ==
  ASSUME NEW s, Good(s)
  PROVE  /\ s.revision + 1 \in Nat /\ s.revision + 1 > s.revision
         /\ s.revision + 1 \notin DOMAIN s.versions
  BY Parts

LEMMA WrittenIs ==
  ASSUME NEW s, IsStore(s), NEW t
  PROVE  Written(s, t) =
           [text |-> t, revision |-> s.revision + 1, document |-> s.document,
            versions |-> s.versions, frozen |-> s.frozen]
<1> DEFINE n == s.revision + 1
<1>1. Written(s, t) = [s EXCEPT !.text = t, !.revision = n]
  BY DEF Written, IsStore
<1> HIDE DEF n
<1>2. [s EXCEPT !.text = t, !.revision = n]
        = [text |-> t, revision |-> n, document |-> s.document,
           versions |-> s.versions, frozen |-> s.frozen]
  BY NewRow, Zenon
<1>3. n = s.revision + 1
  BY DEF n
<1> QED
  BY <1>1, <1>2, <1>3

LEMMA WrittenAdopted ==
  ASSUME NEW s, Good(s), NEW t \in Texts, NEW n, n = s.revision + 1,
         NEW w, w = [text |-> t, revision |-> n, document |-> s.document,
                     versions |-> s.versions, frozen |-> s.frozen]
  PROVE  Reconciled(w) = At(s, t, n, FALSE)
<1>1. /\ IsStore(w) /\ w.text = t /\ w.revision = n
      /\ w.document = s.document /\ w.versions = s.versions
      /\ w.frozen = s.frozen
  BY DEF IsStore
<1>2. n \in Nat /\ n > s.revision /\ n \notin DOMAIN s.versions
  BY FreeRevision
<1>3. Reconciled(w) = At(w, w.text, w.revision, FALSE)
  <2>1. CASE s.document = NoDocument
    <3>1. DOMAIN w.versions = {} /\ w.document = NoDocument
      BY <1>1, <2>1, Parts
    <3> QED
      BY <1>1, <3>1, CreatedAtNext
  <2>2. CASE s.document # NoDocument
    <3>1. s.document.revision = s.revision /\ s.revision \in Nat
      BY <2>2, Parts
    <3>2. /\ w.document # NoDocument /\ w.document.revision \in Nat
          /\ w.revision \in Nat /\ w.revision > w.document.revision
          /\ w.revision \notin DOMAIN w.versions
      BY <1>1, <1>2, <2>2, <3>1
    <3> QED
      BY <1>1, <3>2, AdoptedAtNext
  <2> QED
    BY <2>1, <2>2
<1> QED
  BY <1>1, <1>3 DEF At

(* A store that leads on from another without losing any version, and what *)
(* that buys: whatever follows it follows the other too.                   *)
Grows(s, v) ==
  /\ Good(v) /\ Follows(s, v) /\ v.document # NoDocument
  /\ DOMAIN s.versions \subseteq DOMAIN v.versions

LEMMA GrowsThenFollows ==
  ASSUME NEW s, Good(s), NEW v, Grows(s, v), NEW u, Good(u), Follows(v, u)
  PROVE  Follows(s, u)
  BY FollowsComposes DEF Grows

LEMMA ReconciledGrows ==
  ASSUME NEW s, Good(s)
  PROVE  Grows(s, Reconciled(s)) /\ (s.revision > 0 => Reconciled(s) = s)
  BY ReconciledGood DEF Grows

LEMMA WrittenGrows ==
  ASSUME NEW s, Good(s), NEW t \in Texts
  PROVE  /\ Grows(s, Reconciled(Written(s, t)))
         /\ Reconciled(Written(s, t)).text = t
         /\ Reconciled(Written(s, t)).revision = s.revision + 1
<1> DEFINE n == s.revision + 1
           u == At(s, t, n, FALSE)
<1>1. IsStore(s)
  BY Parts
<1>2. Reconciled(Written(s, t)) = u
  BY <1>1, WrittenIs, WrittenAdopted
<1>3. n \in Nat /\ n > s.revision
  BY FreeRevision
<1>4. n = s.revision + 1
  OBVIOUS
<1> HIDE DEF n
<1>5. /\ Good(u) /\ Follows(s, u) /\ u.document # NoDocument
      /\ DOMAIN s.versions \subseteq DOMAIN u.versions
      /\ u.text = t /\ u.revision = n
  BY <1>3, AtRevision
<1> HIDE DEF u
<1> QED
  BY <1>2, <1>4, <1>5 DEF Grows

(* Other versions of the same lyric.                                       *)
With(s, v) == [s EXCEPT !.versions = v]

LEMMA WithIs ==
  ASSUME NEW s, IsStore(s), NEW v
  PROVE  With(s, v) =
           [text |-> s.text, revision |-> s.revision, document |-> s.document,
            versions |-> v, frozen |-> s.frozen]
  BY NewVersions, Zenon DEF With

LEMMA VersionsKept ==
  ASSUME NEW s, Good(s), s.document # NoDocument, NEW v, Sound(v),
         Remembers(s.versions, v, s.frozen), \A q \in DOMAIN v : q =< s.revision,
         Named(v, s.revision, s.text), Enters(s.versions, s.revision, s.text, v)
  PROVE  /\ Good(With(s, v)) /\ Follows(s, With(s, v))
         /\ With(s, v).text = s.text /\ With(s, v).revision = s.revision
         /\ With(s, v).document = s.document /\ With(s, v).versions = v
         /\ With(s, v).frozen = s.frozen
<1>1. /\ IsStore(s) /\ s.text \in Texts /\ s.revision \in Nat
      /\ s.frozen \in BOOLEAN
      /\ s.document \in Snapshot /\ s.document.revision = s.revision
      /\ s.revision > 0 => s.document.text = s.text
  BY Parts
<1>2. With(s, v) =
        [text |-> s.text, revision |-> s.revision, document |-> s.document,
         versions |-> v, frozen |-> s.frozen]
  BY <1>1, WithIs
<1> DEFINE r == s.revision
           t == s.text
           d == s.document
           f == s.frozen
<1>4. /\ t \in Texts /\ r \in Nat /\ d \in Snapshot /\ f \in BOOLEAN
      /\ d.revision = r /\ (r > 0 => d.text = t) /\ r >= s.revision
      /\ Named(v, r, t) /\ \A q \in DOMAIN v : q =< r
      /\ s.frozen => f
      /\ t = s.text /\ d.text = s.document.text
  BY <1>1
<1> HIDE DEF r, t, d, f
<1>5. With(s, v) = [text |-> t, revision |-> r, document |-> d,
                    versions |-> v, frozen |-> f]
  BY <1>2 DEF r, t, d, f
<1>3. Good(With(s, v)) /\ Follows(s, With(s, v))
  BY <1>4, <1>5, StoreOf
<1> QED
  BY <1>2, <1>3

(* The next revision, with any history that remembers the old one.         *)
Stepped(s, t, v) ==
  [text |-> t, revision |-> s.revision + 1,
   document |-> [text |-> t, revision |-> s.revision + 1],
   versions |-> v, frozen |-> s.frozen]

LEMMA SteppedGood ==
  ASSUME NEW s, Good(s), NEW t \in Texts, NEW v, Sound(v),
         Remembers(s.versions, v, s.frozen),
         \A q \in DOMAIN v : q =< s.revision + 1,
         Named(v, s.revision + 1, t), Enters(s.versions, s.revision, s.text, v)
  PROVE  /\ Good(Stepped(s, t, v)) /\ Follows(s, Stepped(s, t, v))
         /\ Stepped(s, t, v).document # NoDocument
         /\ Stepped(s, t, v).text = t
         /\ Stepped(s, t, v).revision = s.revision + 1
<1> DEFINE n == s.revision + 1
           d == [text |-> t, revision |-> n]
<1>1. /\ n \in Nat /\ n >= s.revision /\ n # s.revision
      /\ s.frozen \in BOOLEAN /\ \A q \in DOMAIN v : q =< n
      /\ Named(v, n, t)
  BY Parts
<1>2. d \in Snapshot /\ d.revision = n /\ d.text = t
  BY <1>1 DEF Snapshot
<1>3. Stepped(s, t, v) = [text |-> t, revision |-> n, document |-> d,
                          versions |-> v, frozen |-> s.frozen]
  BY DEF Stepped
<1>5. n = s.revision + 1
  OBVIOUS
<1> HIDE DEF n, d
<1>4. /\ Good(Stepped(s, t, v)) /\ Follows(s, Stepped(s, t, v))
      /\ Stepped(s, t, v).document # NoDocument
  BY <1>1, <1>2, <1>3, StoreOf
<1> QED
  BY <1>3, <1>4, <1>5

(* A version is added, and old drafts may go.                              *)
LEMMA AddedAndPruned ==
  ASSUME NEW v, Sound(v), NEW r \in Nat, NEW t \in Texts, NEW a \in BOOLEAN,
         NEW f \in BOOLEAN
  PROVE  /\ Sound(Pruned(Ensured(v, r, t, a), f))
         /\ DOMAIN Pruned(Ensured(v, r, t, a), f) \subseteq DOMAIN v \cup {r}
         /\ Remembers(v, Pruned(Ensured(v, r, t, a), f), f)
         /\ r \in DOMAIN Pruned(Ensured(v, r, t, a), f) /\ r \notin DOMAIN v =>
              Pruned(Ensured(v, r, t, a), f)[r].text = t
<1> DEFINE k == Ensured(v, r, t, a)
           p == Pruned(k, f)
<1>1. /\ Sound(k) /\ DOMAIN k = DOMAIN v \cup {r} /\ Remembers(v, k, f)
  BY EnsuredKeeps
<1>6. r \notin DOMAIN v => k[r].text = t
  BY EnsuredText
<1> HIDE DEF k
<1>2. Sound(p) /\ DOMAIN p \subseteq DOMAIN k /\ Remembers(k, p, f)
  BY <1>1, PrunedKeeps
<1> HIDE DEF p
<1>3. Remembers(v, p, f)
  BY <1>1, <1>2, RemembersComposes
<1>5. r \in DOMAIN p /\ r \notin DOMAIN v => p[r].text = t
  BY <1>1, <1>2, <1>6 DEF Remembers
<1>4. /\ Sound(p) /\ DOMAIN p \subseteq DOMAIN v \cup {r} /\ Remembers(v, p, f)
      /\ r \in DOMAIN p /\ r \notin DOMAIN v => p[r].text = t
  BY <1>1, <1>2, <1>3, <1>5
<1> QED
  BY <1>4 DEF k, p

(* save_document.                                                          *)
LEMMA SavedSame ==
  ASSUME NEW s, Good(s), s.document # NoDocument, NEW t \in Texts,
         NEW reason, NEW base, Unchanging(s, base, t),
         Equivalent(s.document.text, t)
  PROVE  LET u == Saved(s, base, t, reason)
         IN  /\ Good(u) /\ Follows(s, u) /\ u.document = s.document
             /\ u.text = s.text /\ u.revision = s.revision
<1> DEFINE r == s.document.revision
           a == reason = "approve"
           p == Pruned(Ensured(s.versions, r, t, a), s.frozen)
           v == IF reason = "draft" THEN s.versions ELSE p
<1>1. /\ Sound(s.versions) /\ r \in Nat /\ r = s.revision /\ s.frozen \in BOOLEAN
      /\ \A q \in DOMAIN s.versions : q \in Nat /\ q =< s.revision
      /\ s.revision > 0 => Equivalent(t, s.text)
      /\ Named(s.versions, s.revision, s.text)
  BY Parts DEF Good, Equivalent
<1>2. Saved(s, base, t, reason) = With(s, v)
  <2>1. r + 0 = r
    BY <1>1
  <2> QED
    BY <2>1 DEF Saved, With
<1>3. a \in BOOLEAN
  OBVIOUS
<1> HIDE DEF r, a
<1>4. /\ Sound(p) /\ DOMAIN p \subseteq DOMAIN s.versions \cup {r}
      /\ Remembers(s.versions, p, s.frozen)
      /\ r \in DOMAIN p /\ r \notin DOMAIN s.versions => p[r].text = t
  BY <1>1, <1>3, AddedAndPruned
<1> HIDE DEF p
<1>5. /\ Sound(v) /\ Remembers(s.versions, v, s.frozen)
      /\ \A q \in DOMAIN v : q =< s.revision
      /\ Named(v, s.revision, s.text) /\ Enters(s.versions, s.revision, s.text, v)
  <2>1. CASE reason = "draft"
    BY <1>1, <2>1 DEF Remembers, Enters
  <2>2. CASE reason # "draft"
    <3>1. Named(p, s.revision, s.text)
      BY <1>1, <1>4 DEF Named, Remembers
    <3>2. Enters(s.versions, s.revision, s.text, p)
      BY <1>1, <1>4 DEF Enters
    <3> QED
      BY <1>1, <1>4, <2>2, <3>1, <3>2
  <2> QED
    BY <2>1, <2>2
<1> HIDE DEF v
<1> QED
  BY <1>2, <1>5, VersionsKept

LEMMA SavedAnother ==
  ASSUME NEW s, Good(s), s.document # NoDocument, NEW t \in Texts,
         NEW reason, NEW base, ~Unchanging(s, base, t)
  PROVE  LET u == Saved(s, base, t, reason)
         IN  /\ Good(u) /\ Follows(s, u) /\ u.document # NoDocument
             /\ u.text = t /\ u.revision = s.revision + 1
<1> DEFINE n == s.revision + 1
           a == reason = "approve"
           p == Pruned(Ensured(s.versions, n, t, a), s.frozen)
           v == IF reason = "draft" /\ ~s.frozen THEN s.versions ELSE p
<1>1. /\ IsStore(s) /\ Sound(s.versions) /\ n \in Nat /\ s.frozen \in BOOLEAN
      /\ s.document.revision = s.revision
      /\ \A q \in DOMAIN s.versions : q =< n
  BY Parts
<1>2. Saved(s, base, t, reason) =
      [s EXCEPT !.text = t, !.revision = n, !.versions = v,
                !.document = [text |-> t, revision |-> n]]
  BY <1>1 DEF Saved
<1>3. a \in BOOLEAN
  OBVIOUS
<1>4. n = s.revision + 1
  OBVIOUS
<1> HIDE DEF n, a
<1>5. /\ Sound(p) /\ DOMAIN p \subseteq DOMAIN s.versions \cup {n}
      /\ Remembers(s.versions, p, s.frozen)
      /\ n \in DOMAIN p /\ n \notin DOMAIN s.versions => p[n].text = t
  BY <1>1, <1>3, AddedAndPruned
<1> HIDE DEF p
<1>8. s.revision \in Nat /\ n > s.revision /\ n \notin DOMAIN s.versions
  BY <1>1, <1>4, Parts, FreeRevision
<1>6. /\ Sound(v) /\ Remembers(s.versions, v, s.frozen)
      /\ \A q \in DOMAIN v : q =< n
      /\ Named(v, n, t) /\ Enters(s.versions, s.revision, s.text, v)
  <2>1. CASE reason = "draft" /\ ~s.frozen
    BY <1>1, <1>8, <2>1 DEF Remembers, Named, Enters
  <2>2. CASE ~(reason = "draft" /\ ~s.frozen)
    <3>1. Named(p, n, t) /\ Enters(s.versions, s.revision, s.text, p)
      BY <1>5, <1>8 DEF Named, Enters, Equivalent
    <3> QED
      BY <1>1, <1>5, <2>2, <3>1, Parts
  <2> QED
    BY <2>1, <2>2
<1> HIDE DEF v
<1>7. Saved(s, base, t, reason) = Stepped(s, t, v)
  <2> DEFINE d == [text |-> t, revision |-> n]
             u == [s EXCEPT !.text = t, !.revision = n, !.versions = v,
                            !.document = d]
  <2>1. Stepped(s, t, v) = [text |-> t, revision |-> n, document |-> d,
                            versions |-> v, frozen |-> s.frozen]
    BY <1>4 DEF Stepped
  <2>2. Saved(s, base, t, reason) = u
    BY <1>2
  <2> HIDE DEF d
  <2>3. s \in [text : {s.text}, revision : {s.revision},
               document : {s.document}, versions : {s.versions},
               frozen : {s.frozen}]
    BY <1>1 DEF IsStore
  <2>4. u \in [text : {t}, revision : {n}, document : {d},
               versions : {v}, frozen : {s.frozen}]
    BY <2>3
  <2> HIDE DEF u
  <2> QED
    BY <2>1, <2>2, <2>4
<1> QED
  BY <1>4, <1>6, <1>7, SteppedGood

(* sync_legacy_snapshot, after the job row was written.                    *)
LEMMA SyncedGood ==
  ASSUME NEW s, Good(s), NEW t \in Texts
  PROVE  LET u == Synced(Written(s, t))
         IN  /\ Good(u) /\ Follows(s, u) /\ u.document # NoDocument
             /\ u.text = t /\ u.revision = s.revision + 1
<1> DEFINE n == s.revision + 1
           w == Written(s, t)
           p == Pruned(Ensured(s.versions, n, t, FALSE), s.frozen)
           d == [text |-> t, revision |-> n]
<1>1. /\ IsStore(s) /\ Sound(s.versions) /\ n \in Nat /\ s.frozen \in BOOLEAN
      /\ \A q \in DOMAIN s.versions : q =< n
  BY Parts
<1>2. w = [text |-> t, revision |-> n, document |-> s.document,
           versions |-> s.versions, frozen |-> s.frozen]
  BY <1>1, WrittenIs
<1>3. Synced(w) = [w EXCEPT !.document = d, !.versions = p]
  BY <1>2 DEF Synced
<1>4. IsStore(w)
  BY <1>2 DEF IsStore
<1>5. n = s.revision + 1
  OBVIOUS
<1> HIDE DEF n
<1>6. /\ Sound(p) /\ DOMAIN p \subseteq DOMAIN s.versions \cup {n}
      /\ Remembers(s.versions, p, s.frozen)
      /\ n \in DOMAIN p /\ n \notin DOMAIN s.versions => p[n].text = t
  <2> DEFINE a == FALSE
  <2>1. a \in BOOLEAN /\ p = Pruned(Ensured(s.versions, n, t, a), s.frozen)
    OBVIOUS
  <2> HIDE DEF a, p
  <2> QED
    BY <1>1, <2>1, AddedAndPruned
<1>7. d = [text |-> t, revision |-> n]
  OBVIOUS
<1> HIDE DEF d, p, w
<1>8. [w EXCEPT !.document = d, !.versions = p]
        = [text |-> w.text, revision |-> w.revision, document |-> d,
           versions |-> p, frozen |-> w.frozen]
  BY <1>4, NewDocument, Zenon
<1>9. Synced(w) = Stepped(s, t, p)
  BY <1>2, <1>3, <1>5, <1>7, <1>8 DEF Stepped
<1>10. \A q \in DOMAIN p : q =< n
  BY <1>1, <1>6, Parts
<1>12. s.revision \in Nat /\ n > s.revision /\ n \notin DOMAIN s.versions
  BY <1>1, <1>5, Parts, FreeRevision
<1>13. Named(p, n, t) /\ Enters(s.versions, s.revision, s.text, p)
  BY <1>6, <1>12 DEF Named, Enters, Equivalent
<1>11. /\ Good(Synced(w)) /\ Follows(s, Synced(w))
       /\ Synced(w).document # NoDocument
       /\ Synced(w).text = t /\ Synced(w).revision = n
  BY <1>5, <1>6, <1>9, <1>10, <1>13, SteppedGood
<1> QED
  BY <1>5, <1>11 DEF w

(* The version at the document's revision is stored, or marked approved.   *)
LEMMA EnsuredGrows ==
  ASSUME NEW s, Good(s), s.document # NoDocument,
         NEW t \in Texts, NEW a \in BOOLEAN,
         s.revision > 0 => Equivalent(t, s.text)
  PROVE  LET u == With(s, Ensured(s.versions, s.document.revision, t, a))
         IN  /\ Grows(s, u) /\ u.text = s.text /\ u.revision = s.revision
             /\ u.document = s.document
<1> DEFINE r == s.document.revision
           o == s.versions
           v == Ensured(o, r, t, a)
<1>1. Sound(o) /\ r \in Nat
  BY Parts
<1>2. /\ r = s.revision /\ \A q \in DOMAIN o : q =< s.revision
      /\ Named(o, r, s.text)
  BY Parts DEF Good
<1> HIDE DEF r, o
<1>3. /\ Sound(v) /\ DOMAIN v = DOMAIN o \cup {r}
      /\ \A f : Remembers(o, v, f)
  BY <1>1, EnsuredKeeps, Zenon
<1>8. r \notin DOMAIN o => v[r].text = t
  BY <1>1, EnsuredText
<1> HIDE DEF v
<1>9. Named(v, r, s.text) /\ Enters(o, r, s.text, v)
  <2>1. PICK f : Remembers(o, v, f)
    BY <1>3
  <2>2. Named(v, r, s.text)
    BY <1>1, <1>2, <1>3, <1>8, <2>1 DEF Named, Remembers
  <2> QED
    BY <1>1, <1>3, <2>2 DEF Enters, Named
<1>4. \A q \in DOMAIN v : q =< s.revision
  BY <1>1, <1>2, <1>3
<1>5. Remembers(s.versions, v, s.frozen) /\ DOMAIN s.versions \subseteq DOMAIN v
  BY <1>3 DEF o
<1>6. /\ Good(With(s, v)) /\ Follows(s, With(s, v))
      /\ With(s, v).text = s.text /\ With(s, v).revision = s.revision
      /\ With(s, v).document = s.document /\ With(s, v).versions = v
  <2>1. Named(v, s.revision, s.text) /\ Enters(s.versions, s.revision, s.text, v)
    BY <1>2, <1>9 DEF o
  <2> QED
    BY <1>3, <1>4, <1>5, <2>1, VersionsKept
<1>7. Grows(s, With(s, v))
  BY <1>5, <1>6 DEF Grows
<1> QED
  BY <1>6, <1>7 DEF v, r, o

LEMMA MarkedGood ==
  ASSUME NEW s, Good(s), s.document # NoDocument
  PROVE  /\ Grows(s, MarkApproved(s))
         /\ MarkApproved(s).text = s.text
         /\ MarkApproved(s).revision = s.revision
         /\ DOMAIN MarkApproved(s).versions = DOMAIN s.versions
<1>1. s.text \in Texts /\ TRUE \in BOOLEAN /\ Sound(s.versions)
  BY Parts
<1>2. CASE MarkApproved(s) = s
  BY <1>2, FollowsItself DEF Grows
<1>3. CASE /\ s.document.revision \in DOMAIN s.versions
           /\ MarkApproved(s)
                = With(s, Ensured(s.versions, s.document.revision, s.text, TRUE))
  <2> DEFINE v == Ensured(s.versions, s.document.revision, s.text, TRUE)
  <2>1. DOMAIN v = DOMAIN s.versions
    BY <1>3 DEF Ensured
  <2>2. With(s, v).versions = v
    <3>1. IsStore(s)
      BY Parts
    <3> HIDE DEF v
    <3> QED
      BY <3>1, WithIs
  <2>3. /\ Grows(s, With(s, v)) /\ With(s, v).text = s.text
        /\ With(s, v).revision = s.revision
    <3>1. Equivalent(s.text, s.text)
      BY DEF Equivalent
    <3> QED
      BY <1>1, <3>1, EnsuredGrows
  <2>4. MarkApproved(s) = With(s, v)
    BY <1>3
  <2> HIDE DEF v
  <2> QED
    BY <2>1, <2>2, <2>3, <2>4
<1>4. \/ MarkApproved(s) = s
      \/ /\ s.document.revision \in DOMAIN s.versions
         /\ MarkApproved(s)
              = With(s, Ensured(s.versions, s.document.revision, s.text, TRUE))
  BY DEF MarkApproved, With
<1> QED
  BY <1>2, <1>3, <1>4

(* approve_document freezes what an operator selected.                     *)
LEMMA FrozenIs ==
  ASSUME NEW s, IsStore(s), NEW sel
  PROVE  Frozen(s, sel) =
           [text |-> s.document.text, revision |-> s.document.revision,
            document |-> s.document,
            versions |-> Ensured(s.versions, s.document.revision,
                                 Chosen(s, sel), TRUE),
            frozen |-> s.frozen]
<1> DEFINE t == s.document.text
           r == s.document.revision
           v == Ensured(s.versions, r, Chosen(s, sel), TRUE)
<1>1. Frozen(s, sel) = [s EXCEPT !.text = t, !.revision = r, !.versions = v]
  BY DEF Frozen, IsStore
<1> HIDE DEF t, r, v
<1> DEFINE u == [s EXCEPT !.text = t, !.revision = r, !.versions = v]
<1>2. u = [text |-> t, revision |-> r, document |-> s.document,
           versions |-> v, frozen |-> s.frozen]
  <2>1. s \in [text : {s.text}, revision : {s.revision},
               document : {s.document}, versions : {s.versions},
               frozen : {s.frozen}]
    BY DEF IsStore
  <2>2. u \in [text : {t}, revision : {r}, document : {s.document},
               versions : {v}, frozen : {s.frozen}]
    BY <2>1
  <2> HIDE DEF u
  <2> QED
    BY <2>2
<1>3. Frozen(s, sel) = [text |-> t, revision |-> r, document |-> s.document,
                        versions |-> v, frozen |-> s.frozen]
  BY <1>1, <1>2
<1> QED
  BY <1>3 DEF t, r, v

LEMMA FrozenGrows ==
  ASSUME NEW s, Good(s), s.document # NoDocument, NEW sel, Selects(s, sel)
  PROVE  /\ Grows(s, Frozen(s, sel))
         /\ Frozen(s, sel).text = s.document.text
         /\ Frozen(s, sel).revision = s.revision
         /\ Frozen(s, sel).document = s.document
         /\ Chosen(s, sel) \in Texts
<1> DEFINE d == s.document
           x == Chosen(s, sel)
           v == Ensured(s.versions, d.revision, x, TRUE)
<1>1. /\ IsStore(s) /\ Sound(s.versions) /\ d.revision \in Nat
      /\ d.revision = s.revision /\ d.text \in Texts
      /\ s.revision > 0 => d.text = s.text
      /\ d \in Snapshot /\ s.revision \in Nat /\ s.frozen \in BOOLEAN
  BY Parts
<1>2. x \in Texts
  <2>1. CASE sel.by = "version" /\ sel.revision = d.revision
    <3>1. sel.revision \in DOMAIN s.versions
      BY <2>1 DEF Selects
    <3> QED
      BY <1>1, <2>1, <3>1 DEF Chosen, Sound, Version
  <2>2. CASE ~(sel.by = "version" /\ sel.revision = d.revision)
    BY <1>1, <2>2 DEF Chosen
  <2> QED
    BY <2>1, <2>2
<1>4. /\ Sound(v) /\ DOMAIN v = DOMAIN s.versions \cup {d.revision}
      /\ Remembers(s.versions, v, s.frozen)
  <2> DEFINE a == TRUE
             r == d.revision
  <2>1. a \in BOOLEAN /\ v = Ensured(s.versions, r, x, a) /\ r \in Nat
    BY <1>1
  <2>2. r = d.revision
    OBVIOUS
  <2> HIDE DEF a, v, x, r
  <2>4. Sound(s.versions)
    BY <1>1
  <2>3. /\ Sound(v) /\ DOMAIN v = DOMAIN s.versions \cup {r}
        /\ \A f : Remembers(s.versions, v, f)
    BY <1>2, <2>1, <2>4, EnsuredKeeps, Zenon
  <2> QED
    BY <2>2, <2>3
<1>5. Frozen(s, sel) =
      [text |-> d.text, revision |-> d.revision, document |-> d,
       versions |-> v, frozen |-> s.frozen]
  BY <1>1, FrozenIs
<1>9. d.revision \notin DOMAIN s.versions => v[d.revision].text = x
  BY <1>1, <1>2, EnsuredText
<1>10. Equivalent(x, d.text)
  BY DEF Selects, Chosen, Equivalent
<1> HIDE DEF v
<1>11. Named(v, d.revision, d.text) /\ Enters(s.versions, s.revision, s.text, v)
  <2>1. Named(s.versions, d.revision, d.text)
    BY <1>1 DEF Good, Named, Equivalent
  <2>2. Named(v, d.revision, d.text)
    BY <1>1, <1>4, <1>9, <1>10, <2>1 DEF Named, Remembers, Equivalent
  <2> QED
    BY <1>1, <1>4, <2>2 DEF Enters, Named, Equivalent
<1> HIDE DEF x
<1>6. \A q \in DOMAIN v : q =< d.revision
  BY <1>1, <1>4, Parts
<1>7. d = s.document
  OBVIOUS
<1> HIDE DEF d
<1>8. /\ Good(Frozen(s, sel)) /\ Follows(s, Frozen(s, sel))
      /\ Frozen(s, sel).document # NoDocument
  BY <1>1, <1>4, <1>5, <1>6, <1>7, <1>11, StoreOf
<1> QED
  BY <1>1, <1>2, <1>4, <1>5, <1>7, <1>8 DEF Grows, x

(* The attachment of the evidence, and the row's text at revision 0.       *)
LEMMA EvidenceGood ==
  ASSUME NEW s, Good(s), NEW u, u = [s EXCEPT !.frozen = TRUE]
  PROVE  /\ Good(u) /\ Follows(s, u)
         /\ u.text = s.text /\ u.revision = s.revision
<1>1. IsStore(s) /\ Sound(s.versions)
  BY Parts
<1>2. u = [text |-> s.text, revision |-> s.revision, document |-> s.document,
           versions |-> s.versions, frozen |-> TRUE]
  BY <1>1 DEF IsStore
<1>3. Typed(u)
  BY <1>1, <1>2 DEF Typed, Store, Good
<1>4. Mirrored(u) /\ Below(u)
  BY <1>2 DEF Good, Mirrored, Below
<1>5. Follows(s, u)
  BY <1>1, <1>2, FollowsItself DEF Follows
<1>6. Named(u.versions, u.revision, u.text)
  BY <1>2 DEF Good
<1> QED
  BY <1>2, <1>3, <1>4, <1>5, <1>6 DEF Good

LEMMA RowTextGood ==
  ASSUME NEW s, Good(s), s.revision = 0, NEW t \in Texts
  PROVE  LET u == [s EXCEPT !.text = t]
         IN  Grows(s, Reconciled(u)) /\ Good(u) /\ Follows(s, u)
<1> DEFINE u == [s EXCEPT !.text = t]
<1>1. IsStore(s) /\ Sound(s.versions)
  BY Parts
<1>2. u = [text |-> t, revision |-> s.revision, document |-> s.document,
           versions |-> s.versions, frozen |-> s.frozen]
  BY <1>1, NewLine, Zenon
<1> HIDE DEF u
<1>3. Typed(u)
  BY <1>1, <1>2 DEF Typed, Store, Good
<1>4. Mirrored(u) /\ Below(u)
  BY <1>2 DEF Good, Mirrored, Below
<1>5. Follows(s, u)
  BY <1>1, <1>2, FollowsItself DEF Follows
<1>6. Good(u) /\ DOMAIN s.versions = DOMAIN u.versions
  BY <1>2, <1>3, <1>4 DEF Good, Named
<1>7. Grows(u, Reconciled(u))
  BY <1>6, ReconciledGrows
<1>8. Grows(s, Reconciled(u))
  BY <1>5, <1>6, <1>7, FollowsComposes DEF Grows
<1> QED
  BY <1>5, <1>6, <1>8 DEF u

-----------------------------------------------------------------------------
(* The actions.  Of each is shown where it takes the store, what it lets   *)
(* its tab see, and whose lyric it may replace.                            *)

Current(r, t, s) ==
  r =< s.revision /\ (s.revision > 0 /\ r = s.revision => Equivalent(t, s.text))

(* What a tab believes to be stored was stored.                            *)
ViewsKnow ==
  \A c \in Clients : views[c] # NoView /\ views[c].stored =>
    Current(views[c].revision, views[c].text, store)

(* A review in flight is of a text that its revision still names.          *)
ReviewsKnow ==
  \A c \in Clients : requests[c] # NoRequest /\ requests[c].stage = "review" =>
    LET q == requests[c]
        d == store.document
    IN  IF d = NoDocument THEN q.reviewed = NoRevision
        ELSE /\ q.reviewed =< d.revision
             /\ q.reviewed = d.revision /\ ~q.pending
                  => d.text \notin Unreviewed

Rest ==
  /\ job \in Job
  /\ views \in [Clients -> View \cup {NoView}]
  /\ requests \in [Clients -> Request \cup {NoRequest}]

IInv == Good(store) /\ Rest /\ ViewsKnow /\ ReviewsKnow

Leads == Good(store') /\ Follows(store, store')

Quiet == store.revision > 0 => Equivalent(store'.text, store.text)

Attributed(c) ==
  Quiet \/ (Acts(c) /\ Knows(c) /\ views[c].revision = store.revision)

Shown(c) ==
  \/ UNCHANGED views
  \/ \E r \in Nat, t \in Texts, b \in BOOLEAN :
       See(c, r, t, b) /\ (b => Current(r, t, store'))

Fine(c) == Leads /\ Shown(c) /\ Attributed(c)

LEMMA LeadsAfter ==
  ASSUME Good(store), NEW v, Grows(store, v), Good(store'), Follows(v, store')
  PROVE  Leads
<1> DEFINE u == store'
<1>1. Good(u) /\ Follows(v, u)
  OBVIOUS
<1> HIDE DEF u
<1>2. Follows(store, u)
  BY <1>1, GrowsThenFollows
<1> QED
  BY <1>1, <1>2 DEF Leads, u

LEMMA StoreStays ==
  ASSUME Good(store), store' = store
  PROVE  Leads /\ Quiet
  BY FollowsItself DEF Leads, Quiet, Equivalent

(* The reconciled store does not change a saved lyric.                     *)
Keeps(s) == store.revision > 0 => s.revision = store.revision /\ s.text = store.text

LEMMA ReconciledKeeps ==
  ASSUME Good(store)
  PROVE  Grows(store, Reconciled(store)) /\ Keeps(Reconciled(store))
  BY ReconciledGrows DEF Keeps

LEMMA GoodDocument ==
  ASSUME NEW s, Good(s), s.document # NoDocument
  PROVE  /\ s.document.revision = s.revision /\ s.revision \in Nat
         /\ s.document.text \in Texts /\ s.text \in Texts
         /\ s.revision > 0 => s.document.text = s.text
         /\ Current(s.document.revision, s.document.text, s)
         /\ Current(s.revision, s.text, s)
  BY Parts DEF Current, Equivalent

LEMMA ConflictFine ==
  ASSUME Good(store), NEW c \in Clients, Conflict(c)
  PROVE  Fine(c) /\ UNCHANGED <<job, requests>>
<1> DEFINE s == Reconciled(store)
<1>1. /\ See(c, s.document.revision, s.document.text, s = store)
      /\ store' = store /\ job' = job /\ requests' = requests
  BY DEF Conflict
<1>2. Good(s) /\ s.document # NoDocument
  BY ReconciledGood
<1> HIDE DEF s
<1> DEFINE r == s.document.revision
           t == s.document.text
           b == s = store
<1>3. r \in Nat /\ t \in Texts /\ Current(r, t, s)
  BY <1>2, GoodDocument
<1>4. See(c, r, t, b) /\ b \in BOOLEAN /\ (b => s = store')
  BY <1>1
<1> HIDE DEF r, t, b
<1>5. b => Current(r, t, store')
  BY <1>3, <1>4
<1>6. Shown(c)
  BY <1>3, <1>4, <1>5, Zenon DEF Shown
<1> QED
  BY <1>1, <1>6, StoreStays DEF Fine, Attributed

(* A tab that is shown what it just wrote.                                 *)
LEMMA SeenShown ==
  ASSUME NEW c \in Clients, NEW r \in Nat, NEW t \in Texts,
         See(c, r, t, TRUE), Current(r, t, store')
  PROVE  Shown(c)
<1>1. TRUE \in BOOLEAN
  OBVIOUS
<1> QED
  BY <1>1, Zenon DEF Shown

LEMMA SeenActs ==
  ASSUME NEW c \in Clients, views \in [Clients -> View \cup {NoView}],
         NEW r, NEW t, NEW b, See(c, r, t, b), views[c].revision # r
  PROVE  Acts(c)
<1>1. views'[c] = [text |-> t, revision |-> r, stored |-> b]
  BY DEF See
<1>2. views'[c].revision = r
  BY <1>1
<1> QED
  BY <1>2 DEF Acts

LEMMA SubmitFine ==
  ASSUME Good(store), Rest, NEW c \in Clients, Knows(c),
         NEW s, Grows(store, s), Keeps(s), NEW t \in Texts, NEW reason,
         Submit(c, s, t, reason)
  PROVE  Fine(c) /\ job' \in Job
<1> DEFINE base == views[c].revision
           new == Saved(s, base, t, reason)
           r == new.document.revision
<1>1. Good(s) /\ s.document # NoDocument
  BY DEF Grows
<1>2. views[c] \in View /\ base \in Nat
  BY DEF Rest, Knows, View
<1>3. /\ Accepts(s, base, t, reason)
      /\ Commit(new)
      /\ job' = Reopened(~Unchanging(s, base, t))
      /\ See(c, r, t, TRUE)
  BY DEF Submit
<1> QED
  <2>1. job' \in Job
    BY <1>3 DEF Rest, Job, Reopened, JobStatuses
  <2>2. store' = new
    BY <1>3 DEF Commit
  <2>3. /\ s.document.revision = s.revision /\ s.revision \in Nat
        /\ s.revision > 0 => s.document.text = s.text
    BY <1>1, GoodDocument
  <2>4. CASE Unchanging(s, base, t)
    <3>3. Equivalent(s.document.text, t)
      BY <1>3, <2>4 DEF Accepts, Unchanging, Equivalent
    <3>1. /\ Good(new) /\ Follows(s, new) /\ new.document = s.document
          /\ new.text = s.text /\ new.revision = s.revision
      BY <1>1, <2>4, <3>3, SavedSame
    <3>2. Leads
      BY <2>2, <3>1, LeadsAfter
    <3>4. r \in Nat /\ Current(r, t, store')
      BY <2>2, <2>3, <3>1, <3>3 DEF Current, Equivalent
    <3>5. Quiet
      BY <2>2, <3>1 DEF Quiet, Keeps, Equivalent
    <3>6. Shown(c)
      BY <1>3, <3>4, SeenShown
    <3> QED
      BY <2>1, <3>2, <3>5, <3>6 DEF Fine, Attributed
  <2>5. CASE ~Unchanging(s, base, t)
    <3>1. /\ Good(new) /\ Follows(s, new) /\ new.document # NoDocument
          /\ new.text = t /\ new.revision = s.revision + 1
      BY <1>1, <2>5, SavedAnother
    <3>2. Leads
      BY <2>2, <3>1, LeadsAfter
    <3>3. r = s.revision + 1
      BY <3>1, GoodDocument
    <3>4. r \in Nat /\ Current(r, t, store')
      BY <2>2, <2>3, <3>1, <3>3 DEF Current, Equivalent
    <3>5. base = s.revision
      BY <2>3, <2>5 DEF Unchanging
    <3>6. Shown(c)
      BY <1>3, <3>4, SeenShown
    <3>7. Acts(c)
      <4>1. views[c].revision # r
        BY <2>3, <3>3, <3>5
      <4> QED
        BY <1>3, <4>1, SeenActs DEF Rest
    <3>8. Attributed(c)
      <4>1. CASE store.revision > 0
        BY <3>5, <3>7, <4>1 DEF Attributed, Keeps
      <4>2. CASE ~(store.revision > 0)
        BY <4>2 DEF Attributed, Quiet
      <4> QED
        BY <4>1, <4>2
    <3> QED
      BY <2>1, <3>2, <3>6, <3>8 DEF Fine
  <2> QED
    BY <2>4, <2>5

LEMMA PatchFine ==
  ASSUME Good(store), Rest, NEW c \in Clients, NEW t \in Texts, NEW reason,
         Patch(c, t, reason)
  PROVE  Fine(c) /\ job' \in Job /\ requests' = requests
  BY ReconciledKeeps, SubmitFine DEF Patch

LEMMA RestoreFine ==
  ASSUME Good(store), Rest, NEW c \in Clients, NEW r \in DOMAIN store.versions,
         Restore(c, r)
  PROVE  Fine(c) /\ job' \in Job /\ requests' = requests
<1> DEFINE t == store.versions[r].text
<1>1. t \in Texts
  BY DEF Good, Typed, Sound, Version
<1>2. /\ Knows(c) /\ requests' = requests
      /\ Submit(c, Reconciled(store), t, "autosave")
  BY DEF Restore
<1> HIDE DEF t
<1> QED
  BY <1>1, <1>2, ReconciledKeeps, SubmitFine

LEMMA ResolveFine ==
  ASSUME Good(store), Rest, NEW c \in Clients, NEW t \in Texts, Resolve(c, t)
  PROVE  Fine(c) /\ job' \in Job /\ requests' = requests
<1> DEFINE s == Reconciled(store)
           d == s.document
           a == FALSE
           v == Ensured(s.versions, d.revision, d.text, a)
           u == With(s, v)
<1>1. Grows(store, s) /\ Keeps(s)
  BY ReconciledKeeps
<1>2. /\ Knows(c) /\ requests' = requests
      /\ Submit(c, u, t, "autosave")
  BY DEF Resolve, With
<1> QED
  <2>1. Good(s) /\ s.document # NoDocument /\ a \in BOOLEAN
    BY <1>1 DEF Grows
  <2>2. d = s.document
    OBVIOUS
  <2> HIDE DEF s, a
  <2>3. d.text \in Texts /\ (s.revision > 0 => Equivalent(d.text, s.text))
    BY <2>1, GoodDocument DEF Equivalent
  <2>4. Grows(s, u) /\ u.text = s.text /\ u.revision = s.revision
    BY <2>1, <2>3, EnsuredGrows
  <2> HIDE DEF d, v, u
  <2>5. Grows(store, u)
    BY <1>1, <2>4, FollowsComposes DEF Grows
  <2>6. Keeps(u)
    BY <1>1, <2>4 DEF Keeps
  <2> QED
    BY <1>2, <2>5, <2>6, SubmitFine

LEMMA OpenFine ==
  ASSUME Good(store), Rest, NEW c \in Clients, Open(c)
  PROVE  Fine(c) /\ job' \in Job /\ requests' = requests
<1> DEFINE s == Reconciled(store)
           r == s.document.revision
           t == s.document.text
<1>1. /\ store' = s /\ See(c, r, t, TRUE)
      /\ job' = job /\ requests' = requests
  BY DEF Open, Commit
<1>2. Grows(store, s) /\ Keeps(s)
  BY ReconciledKeeps
<1>3. Good(s) /\ s.document # NoDocument
  BY <1>2 DEF Grows
<1> HIDE DEF s
<1>4. /\ r \in Nat /\ t \in Texts /\ Current(r, t, s)
      /\ s.text \in Texts
  BY <1>3, GoodDocument
<1>5. Leads
  BY <1>1, <1>2, <1>3, FollowsItself, LeadsAfter
<1>6. Quiet
  BY <1>1, <1>2 DEF Quiet, Keeps, Equivalent
<1> HIDE DEF r, t
<1>7. Shown(c)
  BY <1>1, <1>4, SeenShown
<1> QED
  BY <1>1, <1>5, <1>6, <1>7 DEF Fine, Attributed, Rest

LEMMA ReadStatusFine ==
  ASSUME Good(store), Rest, NEW c \in Clients, ReadStatus(c)
  PROVE  Fine(c) /\ job' \in Job /\ requests' = requests
<1>1. /\ store' = store /\ See(c, store.revision, store.text, TRUE)
      /\ job' = job /\ requests' = requests
  BY DEF ReadStatus
<1>2. store.revision \in Nat /\ store.text \in Texts
  BY Parts
<1>3. Current(store.revision, store.text, store')
  BY <1>1, <1>2 DEF Current, Equivalent
<1>4. Shown(c)
  BY <1>1, <1>2, <1>3, SeenShown
<1> QED
  BY <1>1, <1>4, StoreStays DEF Fine, Attributed, Rest

(* A lyric written under the compare-and-swap by the tab it is shown to.   *)
LEMMA SwapFine ==
  ASSUME Rest, NEW c \in Clients, Knows(c), NEW t \in Texts, NEW r \in Nat,
         store.revision > 0 =>
           views[c].revision = store.revision /\ r # store.revision,
         Leads, store'.revision = r, store'.text = t, See(c, r, t, TRUE)
  PROVE  Fine(c)
<1>1. Current(r, t, store')
  BY DEF Current, Equivalent
<1>2. Shown(c)
  BY <1>1, SeenShown
<1>3. Attributed(c)
  <2>1. CASE store.revision > 0
    BY <2>1, SeenActs DEF Attributed, Rest
  <2>2. CASE ~(store.revision > 0)
    BY <2>2 DEF Attributed, Quiet
  <2> QED
    BY <2>1, <2>2
<1> QED
  BY <1>2, <1>3 DEF Fine

LEMMA SaveSegmentsFine ==
  ASSUME Good(store), Rest, NEW c \in Clients, NEW t \in Texts,
         SaveSegments(c, t)
  PROVE  Fine(c) /\ job' \in Job /\ requests' = requests
<1> DEFINE s == Reconciled(store)
           u == Saved(s, s.revision, t, "draft")
           w == Synced(Written(s, t))
<1>1. Grows(store, s) /\ Keeps(s)
  BY ReconciledKeeps
<1>2. Knows(c) /\ requests' = requests
  BY DEF SaveSegments
<1>3. Good(s) /\ s.document # NoDocument
  BY <1>1 DEF Grows
<1>4. /\ s.document.revision = s.revision /\ s.revision \in Nat
      /\ s.revision > 0 => s.document.text = s.text
  BY <1>3, GoodDocument
<1>5. store.revision \in Nat
  BY Parts
<1>6. CASE ~(views[c].revision = s.revision \/ s.revision = 0) /\ s.text = t
           /\ See(c, s.revision, t, s = store) /\ store' = store /\ job' = job
  <2> DEFINE r == s.revision
             b == s = store
  <2>1. See(c, r, t, b) /\ b \in BOOLEAN /\ r \in Nat
    BY <1>4, <1>6
  <2>2. b => Current(r, t, store')
    BY <1>4, <1>6 DEF Current, Equivalent
  <2> HIDE DEF r, b, s
  <2>3. Shown(c)
    BY <2>1, <2>2, Zenon DEF Shown
  <2> QED
    BY <1>2, <1>6, <2>3, StoreStays DEF Fine, Attributed, Rest
<1>7. CASE /\ views[c].revision = s.revision \/ s.revision = 0
           /\ job' = Reopened(~Unchanging(s, s.revision, t))
           /\ \/ store' = u /\ See(c, u.revision, t, TRUE)
              \/ store' = w /\ See(c, w.revision, t, TRUE)
  <2> HIDE DEF s
  <2>1. job' \in Job
    BY <1>7 DEF Rest, Job, Reopened, JobStatuses
  <2>2. store.revision > 0 => views[c].revision = store.revision
    BY <1>1, <1>5, <1>7 DEF Keeps
  <2>3. CASE store' = u /\ See(c, u.revision, t, TRUE)
    <3>1. CASE Unchanging(s, s.revision, t)
      <4>7. Equivalent(s.document.text, t)
        BY <1>4, <3>1 DEF Unchanging, Equivalent
      <4>1. /\ Good(u) /\ Follows(s, u) /\ u.text = s.text
            /\ u.revision = s.revision
        BY <1>3, <3>1, <4>7, SavedSame
      <4>2. Leads
        BY <1>1, <2>3, <4>1, LeadsAfter
      <4>3. s.document.text = t
        BY <1>4, <3>1 DEF Unchanging
      <4>4. s.revision \in Nat /\ Current(s.revision, t, store')
        BY <1>4, <2>3, <4>1, <4>3 DEF Current, Equivalent
      <4>5. Shown(c)
        BY <2>3, <4>1, <4>4, SeenShown
      <4>6. Quiet
        BY <1>1, <2>3, <4>1 DEF Quiet, Keeps, Equivalent
      <4> QED
        BY <1>2, <2>1, <4>2, <4>5, <4>6 DEF Fine, Attributed
    <3>2. CASE ~Unchanging(s, s.revision, t)
      <4>1. /\ Good(u) /\ Follows(s, u) /\ u.text = t
            /\ u.revision = s.revision + 1
        BY <1>3, <3>2, SavedAnother
      <4>2. Leads
        BY <1>1, <2>3, <4>1, LeadsAfter
      <4>3. /\ u.revision \in Nat
            /\ store.revision > 0 => u.revision # store.revision
        BY <1>1, <1>4, <1>5, <4>1 DEF Keeps
      <4> QED
        BY <1>2, <2>1, <2>2, <2>3, <4>1, <4>2, <4>3, SwapFine
    <3> QED
      BY <3>1, <3>2
  <2>4. CASE store' = w /\ See(c, w.revision, t, TRUE)
    <3>1. /\ Good(w) /\ Follows(s, w) /\ w.text = t
          /\ w.revision = s.revision + 1
      BY <1>3, SyncedGood
    <3>2. Leads
      BY <1>1, <2>4, <3>1, LeadsAfter
    <3>3. /\ w.revision \in Nat
          /\ store.revision > 0 => w.revision # store.revision
      BY <1>1, <1>4, <1>5, <3>1 DEF Keeps
    <3> QED
      BY <1>2, <2>1, <2>2, <2>4, <3>1, <3>2, <3>3, SwapFine
  <2> QED
    BY <1>7, <2>3, <2>4
<1> QED
  BY <1>6, <1>7 DEF SaveSegments, Commit

LEMMA ReanchorFine ==
  ASSUME Good(store), Rest, NEW c \in Clients, NEW t \in Texts, Reanchor(c, t)
  PROVE  Fine(c) /\ job' \in Job /\ requests' = requests
<1>1. Knows(c) /\ job' \in Job /\ requests' = requests
  BY DEF Reanchor, Rest
<1>2. store.revision \in Nat /\ IsStore(store)
  BY Parts
<1>3. PICK next \in {store.revision, store.revision + 1} :
        LET s == Reconciled([store EXCEPT !.text = t, !.revision = next])
        IN  /\ IF next = store.revision THEN next = 0
               ELSE OnBase(c)
            /\ s.revision = next
            /\ Commit(s)
            /\ See(c, next, t, TRUE)
  BY DEF Reanchor
<1>6. /\ next = store.revision \/ next = store.revision + 1
      /\ IF next = store.revision THEN next = 0 ELSE OnBase(c)
      /\ See(c, next, t, TRUE)
  BY <1>3, Zenon
<1>7. next \in Nat
  BY <1>2, <1>6
<1>4. CASE next = store.revision
  <2>1. next = 0 /\ See(c, next, t, TRUE) /\ store'.revision = 0
    BY <1>3, <1>4 DEF Commit
  <2>2. store' = Reconciled([store EXCEPT !.text = t])
    <3>1. [store EXCEPT !.text = t, !.revision = next] = [store EXCEPT !.text = t]
      BY <1>2, <1>4 DEF IsStore
    <3> QED
      BY <1>3, <3>1 DEF Commit
  <2>3. Grows(store, Reconciled([store EXCEPT !.text = t]))
    BY <1>4, <2>1, RowTextGood
  <2>4. Leads
    BY <2>2, <2>3 DEF Grows, Leads
  <2>5. Quiet /\ Current(next, t, store')
    BY <1>4, <2>1 DEF Quiet, Current
  <2>6. Shown(c)
    BY <1>7, <2>1, <2>5, SeenShown
  <2> QED
    BY <1>1, <2>4, <2>5, <2>6 DEF Fine, Attributed
<1>5. CASE next # store.revision
  <2>1. /\ next = store.revision + 1 /\ next \in Nat
        /\ See(c, next, t, TRUE) /\ views[c].revision = store.revision
    BY <1>2, <1>5, <1>6, <1>7 DEF OnBase
  <2>2. store' = Reconciled(Written(store, t))
    BY <1>2, <1>3, <2>1 DEF Commit, Written, IsStore
  <2>3. /\ Grows(store, Reconciled(Written(store, t)))
        /\ Reconciled(Written(store, t)).text = t
        /\ Reconciled(Written(store, t)).revision = store.revision + 1
    BY WrittenGrows
  <2>4. Leads /\ store'.text = t /\ store'.revision = next
    BY <2>1, <2>2, <2>3 DEF Grows, Leads
  <2> QED
    BY <1>1, <1>5, <2>1, <2>4, SwapFine
<1> QED
  BY <1>4, <1>5

-----------------------------------------------------------------------------
(* Approval and generation.                                                *)

LEMMA OpenedGrows ==
  ASSUME Good(store)
  PROVE  /\ Grows(store, Opened) /\ Keeps(Opened)
         /\ store.document # NoDocument => Opened = store
         /\ store.document = NoDocument => Opened.revision = 0
<1>1. CASE store.document = NoDocument
  <2>1. Opened = Created(store, store.text, FALSE)
    BY <1>1 DEF Opened, Reconciled
  <2>2. store.text \in Texts /\ store.revision = 0
    BY <1>1, Parts
  <2>3. Opened.revision = 0
    BY <1>1, <2>1, <2>2, CreatedGood
  <2>4. Opened = Reconciled(store)
    BY <1>1 DEF Opened
  <2> QED
    BY <1>1, <2>3, <2>4, ReconciledKeeps
<1>2. CASE store.document # NoDocument
  BY <1>2, FollowsItself DEF Opened, Grows, Keeps
<1> QED
  BY <1>1, <1>2

LEMMA GrowsComposes ==
  ASSUME NEW s, Good(s), NEW v, Grows(s, v), NEW u, Grows(v, u)
  PROVE  Grows(s, u)
  BY FollowsComposes DEF Grows

(* The text chosen is the document's, up to word timings.                  *)
LEMMA ChosenEquivalent ==
  ASSUME NEW s, NEW sel, Selects(s, sel)
  PROVE  Equivalent(Chosen(s, sel), s.document.text)
  BY DEF Selects, Chosen, Equivalent

LEMMA CampaignApproveFine ==
  ASSUME Good(store), Rest, NEW c \in Clients, NEW sel, CampaignApprove(c, sel)
  PROVE  Fine(c) /\ job' \in Job /\ requests' = requests
<1> DEFINE s == Opened
           a == Frozen(s, sel)
<1>1. /\ Selects(s, sel) /\ store' = a
      /\ job' = [job EXCEPT !.approval = s.document,
                            !.status = IF @ = "pending_review" THEN @
                                       ELSE "lyrics_approved"]
      /\ views' = views /\ requests' = requests
  BY DEF CampaignApprove, Commit
<1>2. Grows(store, s) /\ Keeps(s)
  BY OpenedGrows
<1>3. Good(s) /\ s.document # NoDocument
  BY <1>2 DEF Grows
<1> HIDE DEF s
<1>4. Grows(s, a) /\ a.text = s.document.text /\ a.revision = s.revision
  BY <1>1, <1>3, FrozenGrows
<1> HIDE DEF a
<1>5. Leads
  BY <1>1, <1>2, <1>4, LeadsAfter DEF Grows
<1>6. Quiet
  BY <1>1, <1>2, <1>3, <1>4, GoodDocument DEF Quiet, Keeps, Equivalent
<1>7. s.document \in Snapshot
  BY <1>3, Parts
<1>8. job' \in Job
  BY <1>1, <1>7 DEF Rest, Job, JobStatuses
<1> QED
  BY <1>1, <1>5, <1>6, <1>8 DEF Fine, Shown, Attributed

(* What MarkApproved leads to from a good store.                           *)
LEMMA MarkedLeads ==
  ASSUME Good(store), NEW v, Grows(store, v),
         NEW u, Good(u), Follows(v, u), u.document # NoDocument,
         store' = MarkApproved(u)
  PROVE  Leads /\ store'.text = u.text
<1>1. /\ Grows(u, MarkApproved(u)) /\ MarkApproved(u).text = u.text
      /\ DOMAIN MarkApproved(u).versions = DOMAIN u.versions
  BY MarkedGood
<1>2. Good(MarkApproved(u)) /\ Follows(u, MarkApproved(u))
  BY <1>1 DEF Grows
<1>3. Good(v)
  BY DEF Grows
<1>4. Follows(v, MarkApproved(u))
  BY <1>1, <1>2, <1>3, FollowsComposes
<1> QED
  BY <1>1, <1>2, <1>4, LeadsAfter

LEMMA GenerateSelectedFine ==
  ASSUME Good(store), Rest, NEW c \in Clients, GenerateSelected(c)
  PROVE  /\ Fine(c) /\ job' \in Job
         /\ \E t \in Texts :
              /\ Ask(c, [stage |-> "publish", text |-> t])
              /\ Equivalent(t, Opened.document.text)
<1> DEFINE s == Opened
           sel == requests[c].selector
           a == Frozen(s, sel)
           t == Chosen(s, sel)
           new == IF t = a.text THEN a ELSE Synced(Written(a, t))
<1>1. /\ Selects(s, sel) /\ store' = MarkApproved(new)
      /\ Ask(c, [stage |-> "publish", text |-> t])
      /\ job' = job /\ views' = views
  BY DEF GenerateSelected, Commit
<1>2. Grows(store, s) /\ Keeps(s)
  BY OpenedGrows
<1>3. Good(s) /\ s.document # NoDocument
  BY <1>2 DEF Grows
<1>9. s = Opened
  OBVIOUS
<1> HIDE DEF s, sel
<1>4. /\ Grows(s, a) /\ a.text = s.document.text /\ a.revision = s.revision
      /\ t \in Texts /\ Equivalent(t, s.document.text)
  BY <1>1, <1>3, FrozenGrows, ChosenEquivalent
<1> HIDE DEF a, t
<1>5. Grows(store, a) /\ Good(a) /\ a.document # NoDocument
  BY <1>2, <1>4, GrowsComposes DEF Grows
<1>6. /\ Good(new) /\ Follows(a, new) /\ new.document # NoDocument
      /\ Equivalent(new.text, a.text)
  <2>1. CASE t = a.text
    BY <1>5, <2>1, FollowsItself DEF Equivalent
  <2>2. CASE t # a.text
    BY <1>4, <1>5, <2>2, SyncedGood
  <2> QED
    BY <2>1, <2>2
<1> HIDE DEF new
<1>7. Leads /\ store'.text = new.text
  BY <1>1, <1>5, <1>6, MarkedLeads
<1>8. Quiet
  <2>1. s.revision > 0 => s.document.text = s.text
    BY <1>3, GoodDocument
  <2> QED
    BY <1>2, <1>4, <1>6, <1>7, <2>1 DEF Quiet, Keeps, Equivalent
<1> QED
  BY <1>1, <1>4, <1>7, <1>8, <1>9 DEF Fine, Shown, Attributed, Rest

LEMMA AskedActs ==
  ASSUME Rest, NEW c \in Clients, NEW t \in Texts,
         requests[c] = NoRequest, Ask(c, [stage |-> "publish", text |-> t])
  PROVE  Acts(c)
<1> DEFINE q == [stage |-> "publish", text |-> t]
<1>1. q # NoRequest
  BY SentinelAssumption DEF Request
<1>2. requests'[c] = q
  BY DEF Ask, Rest
<1> QED
  BY <1>1, <1>2 DEF Acts

LEMMA GenerateFine ==
  ASSUME Good(store), Rest, NEW c \in Clients, NEW t \in Texts, Generate(c, t)
  PROVE  /\ Fine(c) /\ job' \in Job /\ requests[c] = NoRequest
         /\ Ask(c, [stage |-> "publish", text |-> t])
<1>1. /\ requests[c] = NoRequest /\ Knows(c)
      /\ Ask(c, [stage |-> "publish", text |-> t])
      /\ job' = job /\ views' = views
  BY DEF Generate, Idle
<1>2. store.revision \in Nat /\ Acts(c)
  BY <1>1, AskedActs, Parts
<1>3. CASE /\ OnBase(c)
           /\ store' = MarkApproved(Reconciled(
                IF store.text = t THEN store ELSE Written(store, t)))
  <2>1. CASE store.text = t
    <3> DEFINE u == Reconciled(store)
    <3>1. store' = MarkApproved(u) /\ Grows(store, u) /\ Keeps(u)
      BY <1>3, <2>1, ReconciledKeeps
    <3> HIDE DEF u
    <3>2. Leads /\ store'.text = u.text
      BY <3>1, FollowsItself, MarkedLeads DEF Grows
    <3>3. Quiet
      BY <3>1, <3>2 DEF Quiet, Keeps, Equivalent
    <3> QED
      BY <1>1, <3>2, <3>3 DEF Fine, Shown, Attributed, Rest
  <2>2. CASE store.text # t
    <3> DEFINE u == Reconciled(Written(store, t))
    <3>1. store' = MarkApproved(u) /\ Grows(store, u)
      BY <1>3, <2>2, WrittenGrows
    <3> HIDE DEF u
    <3>2. Leads
      BY <3>1, FollowsItself, MarkedLeads DEF Grows
    <3>3. views[c].revision = store.revision
      BY <1>3 DEF OnBase
    <3> QED
      BY <1>1, <1>2, <3>2, <3>3 DEF Fine, Shown, Attributed, Rest
  <2> QED
    BY <2>1, <2>2
<1>4. CASE /\ store.revision = 0
           /\ store' = MarkApproved(Reconciled([store EXCEPT !.text = t]))
  <2> DEFINE u == Reconciled([store EXCEPT !.text = t])
  <2>1. store' = MarkApproved(u) /\ Grows(store, u)
    BY <1>4, RowTextGood
  <2> HIDE DEF u
  <2>2. Leads
    BY <2>1, FollowsItself, MarkedLeads DEF Grows
  <2> QED
    BY <1>1, <1>4, <2>2 DEF Fine, Shown, Attributed, Quiet, Rest
<1> QED
  BY <1>1, <1>3, <1>4 DEF Generate, Commit

-----------------------------------------------------------------------------
(* The workers and the steps that leave the store alone.                   *)

LEMMA TranscribeFine ==
  ASSUME Good(store), Rest, NEW t \in Texts, Transcribe(t)
  PROVE  Leads /\ Quiet /\ job' \in Job
         /\ views' = views /\ requests' = requests
<1> DEFINE s == IF store.document = NoDocument THEN Created(store, t, TRUE)
                ELSE Reconciled(store)
<1>1. /\ store.revision > 0 => t = store.text
      /\ store' = [s EXCEPT !.frozen = TRUE]
      /\ job' = [job EXCEPT !.status = "transcribed_pending"]
      /\ views' = views /\ requests' = requests
  BY DEF Transcribe, Commit
<1>2. Grows(store, s) /\ Keeps(s)
  <2>1. CASE store.document = NoDocument
    <3> DEFINE m == TRUE
               u == Created(store, t, m)
    <3>1. m \in BOOLEAN /\ s = u
      BY <2>1
    <3> HIDE DEF m, s
    <3>2. /\ Good(u) /\ Follows(store, u) /\ u.document # NoDocument
      BY <2>1, <3>1, CreatedGood
    <3>3. DOMAIN store.versions = {} /\ store.revision = 0
      BY <2>1, Parts
    <3> QED
      BY <3>1, <3>2, <3>3 DEF Grows, Keeps
  <2>2. CASE store.document # NoDocument
    BY <2>2, ReconciledKeeps
  <2> QED
    BY <2>1, <2>2
<1> HIDE DEF s
<1> DEFINE u == [s EXCEPT !.frozen = TRUE]
<1>3. /\ Good(u) /\ Follows(s, u)
      /\ u.text = s.text /\ u.revision = s.revision
  BY <1>2, EvidenceGood DEF Grows
<1>4. store' = u
  BY <1>1
<1> HIDE DEF u
<1>5. Leads
  BY <1>2, <1>3, <1>4, LeadsAfter
<1>6. Quiet
  BY <1>2, <1>3, <1>4 DEF Quiet, Keeps, Equivalent
<1>7. job' \in Job
  BY <1>1 DEF Rest, Job, JobStatuses
<1> QED
  BY <1>1, <1>5, <1>6, <1>7

LEMMA RewriteFine ==
  ASSUME Good(store), Rest, NEW t \in Texts, Rewrite(t)
  PROVE  Leads /\ Quiet /\ job' = job
         /\ views' = views /\ requests' = requests
<1>1. /\ store' = IF store.revision > 0 THEN store
                  ELSE [store EXCEPT !.text = t]
      /\ job' = job /\ views' = views /\ requests' = requests
  BY DEF Rewrite
<1>2. CASE store.revision > 0
  BY <1>1, <1>2, StoreStays
<1>3. CASE ~(store.revision > 0)
  <2> DEFINE u == [store EXCEPT !.text = t]
  <2>1. store.revision = 0
    BY <1>3, Parts
  <2>2. Good(u) /\ Follows(store, u) /\ store' = u
    BY <1>1, <1>3, <2>1, RowTextGood
  <2> HIDE DEF u
  <2> QED
    BY <1>1, <1>3, <2>2 DEF Leads, Quiet
<1> QED
  BY <1>2, <1>3

LEMMA RenderDoneFine ==
  ASSUME Good(store), Rest, RenderDone
  PROVE  Leads /\ Quiet /\ job' \in Job
         /\ views' = views /\ requests' = requests
<1>1. /\ store' = store /\ views' = views /\ requests' = requests
      /\ job' = [job EXCEPT !.status = "pending_review"]
  BY DEF RenderDone
<1>2. job' \in Job
  BY <1>1 DEF Rest, Job, JobStatuses
<1> QED
  BY <1>1, <1>2, StoreStays

LEMMA PublishFine ==
  ASSUME Good(store), Rest, NEW c \in Clients, Publish(c)
  PROVE  Fine(c) /\ job' \in Job /\ Ask(c, NoRequest)
<1>1. /\ store' = store /\ views' = views /\ Ask(c, NoRequest)
      /\ requests[c] # NoRequest /\ requests[c].stage = "publish"
      /\ job' = [job EXCEPT !.status = "queued", !.render = requests[c].text]
  BY DEF Publish
<1>2. requests[c].text \in Texts
  BY <1>1 DEF Rest, Request
<1>3. job' \in Job
  BY <1>1, <1>2 DEF Rest, Job, JobStatuses
<1> QED
  BY <1>1, <1>3, StoreStays DEF Fine, Shown, Attributed

LEMMA GenerateFailsFine ==
  ASSUME Good(store), Rest, NEW c \in Clients, GenerateFails(c)
  PROVE  Fine(c) /\ job' \in Job /\ Ask(c, NoRequest)
  BY StoreStays DEF GenerateFails, Fine, Shown, Attributed, Rest

LEMMA GenerateReviewFine ==
  ASSUME Good(store), Rest, NEW c \in Clients, NEW sel \in Selectors,
         GenerateReview(c, sel)
  PROVE  /\ Fine(c) /\ job' \in Job /\ requests[c] = NoRequest
         /\ store' = store
         /\ LET d == store.document
            IN  Ask(c, [stage |-> "review", selector |-> sel,
                  reviewed |-> IF d = NoDocument THEN NoRevision ELSE d.revision,
                  pending |-> d # NoDocument /\ d.text \in Unreviewed])
<1>1. /\ store' = store /\ views' = views /\ job' = job
      /\ requests[c] = NoRequest
      /\ LET d == store.document
         IN  Ask(c, [stage |-> "review", selector |-> sel,
               reviewed |-> IF d = NoDocument THEN NoRevision ELSE d.revision,
               pending |-> d # NoDocument /\ d.text \in Unreviewed])
  BY DEF GenerateReview, Idle
<1> QED
  BY <1>1, StoreStays DEF Fine, Shown, Attributed, Rest

-----------------------------------------------------------------------------
(* The steps.                                                              *)

Answered == (\E c \in Clients : Shown(c) /\ Attributed(c)) \/ (UNCHANGED views /\ Quiet)

Asked ==
  \/ UNCHANGED requests
  \/ \E c \in Clients : Ask(c, NoRequest)
  \/ \E c \in Clients : \E t \in Texts :
       /\ Ask(c, [stage |-> "publish", text |-> t])
       /\ \/ requests[c] = NoRequest
          \/ /\ requests[c] # NoRequest
             /\ Reviewed(requests[c], Opened.document)
             /\ Equivalent(t, Opened.document.text)
  \/ \E c \in Clients, sel \in Selector :
       /\ store' = store
       /\ LET d == store.document
          IN  Ask(c, [stage |-> "review", selector |-> sel,
                reviewed |-> IF d = NoDocument THEN NoRevision ELSE d.revision,
                pending |-> d # NoDocument /\ d.text \in Unreviewed])
       /\ requests[c] = NoRequest

Outcome == Leads /\ job' \in Job /\ Answered /\ Asked

LEMMA FineOutcome ==
  ASSUME NEW c \in Clients, Fine(c), job' \in Job, Asked
  PROVE  Outcome
  BY DEF Outcome, Answered, Fine

LEMMA StepOutcome ==
  ASSUME Good(store), Rest, Next
  PROVE  Outcome
<1>0. Edits \subseteq Texts /\ Empty \in Texts
  BY EditorAssumption
<1>1. ASSUME NEW t \in Edits, Transcribe(t) \/ Rewrite(t)
      PROVE  Outcome
  <2>1. t \in Texts
    BY <1>0
  <2> QED
    BY <1>1, <2>1, TranscribeFine, RewriteFine DEF Outcome, Answered, Asked, Rest
<1>2. CASE RenderDone
  BY <1>2, RenderDoneFine DEF Outcome, Answered, Asked
<1>3. ASSUME NEW c \in Clients, Open(c) \/ ReadStatus(c) PROVE Outcome
  BY <1>3, OpenFine, ReadStatusFine, FineOutcome DEF Asked
<1>11. ASSUME NEW c \in Clients, Conflict(c) PROVE Outcome
  BY <1>11, ConflictFine, FineOutcome DEF Asked, Rest
<1>4. ASSUME NEW c \in Clients, GenerateSelected(c) PROVE Outcome
  <2>1. Fine(c) /\ job' \in Job
    BY <1>4, GenerateSelectedFine
  <2>2. PICK t \in Texts : /\ Ask(c, [stage |-> "publish", text |-> t])
                           /\ Equivalent(t, Opened.document.text)
    BY <1>4, GenerateSelectedFine
  <2>3. requests[c] # NoRequest /\ Reviewed(requests[c], Opened.document)
    BY <1>4 DEF GenerateSelected
  <2>4. Asked
    BY <2>2, <2>3, Zenon DEF Asked
  <2> QED
    BY <2>1, <2>4, FineOutcome
<1>5. ASSUME NEW c \in Clients, Publish(c) \/ GenerateFails(c) PROVE Outcome
  <2>1. Fine(c) /\ job' \in Job /\ Ask(c, NoRequest)
    BY <1>5, PublishFine, GenerateFailsFine
  <2>2. Asked
    BY <2>1, Zenon DEF Asked
  <2> QED
    BY <2>1, <2>2, FineOutcome
<1>6. ASSUME NEW c \in Clients, NEW t \in Edits,
             \/ \E reason \in Reasons : Patch(c, t, reason)
             \/ Resolve(c, t) \/ SaveSegments(c, t) \/ Reanchor(c, t)
      PROVE  Outcome
  <2>1. t \in Texts
    BY <1>0
  <2>2. Fine(c) /\ job' \in Job /\ requests' = requests
    BY <1>6, <2>1, PatchFine, ResolveFine, SaveSegmentsFine, ReanchorFine
  <2> QED
    BY <2>2, FineOutcome DEF Asked
<1>7. ASSUME NEW c \in Clients, NEW t \in Edits \cup {Empty}, Generate(c, t)
      PROVE  Outcome
  <2>1. t \in Texts
    BY <1>0
  <2>2. /\ Fine(c) /\ job' \in Job /\ requests[c] = NoRequest
        /\ Ask(c, [stage |-> "publish", text |-> t])
    BY <1>7, <2>1, GenerateFine
  <2>3. Asked
    BY <2>1, <2>2, Zenon DEF Asked
  <2> QED
    BY <2>2, <2>3, FineOutcome
<1>8. ASSUME NEW c \in Clients, NEW r \in DOMAIN store.versions, Restore(c, r)
      PROVE  Outcome
  BY <1>8, RestoreFine, FineOutcome DEF Asked
<1>9. ASSUME NEW c \in Clients, NEW sel \in Selectors, CampaignApprove(c, sel)
      PROVE  Outcome
  BY <1>9, CampaignApproveFine, FineOutcome DEF Asked
<1>10. ASSUME NEW c \in Clients, NEW sel \in Selectors, GenerateReview(c, sel)
       PROVE  Outcome
  <2>1. sel \in Selector
    BY EditorAssumption DEF Selectors, Selector
  <2>2. /\ Fine(c) /\ job' \in Job /\ requests[c] = NoRequest
        /\ store' = store
        /\ LET d == store.document
           IN  Ask(c, [stage |-> "review", selector |-> sel,
                 reviewed |-> IF d = NoDocument THEN NoRevision ELSE d.revision,
                 pending |-> d # NoDocument /\ d.text \in Unreviewed])
    BY <1>10, GenerateReviewFine
  <2>3. Asked
    BY <2>1, <2>2, Zenon DEF Asked
  <2> QED
    BY <2>2, <2>3, FineOutcome
<1> QED
  BY <1>1, <1>2, <1>3, <1>4, <1>5, <1>6, <1>7, <1>8, <1>9, <1>10, <1>11 DEF Next

LEMMA StutterOutcome ==
  ASSUME Good(store), Rest, UNCHANGED vars
  PROVE  Outcome
  BY StoreStays DEF Outcome, Answered, Asked, Rest, vars

-----------------------------------------------------------------------------
(* The inductive invariant.                                                *)

LEMMA InitIInv ==
  ASSUME Init
  PROVE  IInv
<1>1. Edits \cup {Empty} \subseteq Texts
  BY EditorAssumption
<1>2. /\ store.text \in Texts /\ store.revision = 0
      /\ store.document = NoDocument /\ store.versions = << >>
      /\ store.frozen = FALSE
      /\ store = [text |-> store.text, revision |-> store.revision,
                  document |-> store.document, versions |-> store.versions,
                  frozen |-> store.frozen]
  BY <1>1 DEF Init
<1>7. Sound(store.versions) /\ DOMAIN store.versions = {}
  BY <1>2, NoVersions, Zenon
<1>8. store.versions \in {store.versions} /\ store.frozen \in BOOLEAN
  BY <1>2
<1>3. Typed(store)
  BY <1>2, <1>7, <1>8 DEF Typed, Store
<1>4. Mirrored(store) /\ Below(store)
  BY <1>2, <1>7 DEF Mirrored, Below
<1>5. Rest
  BY EditorAssumption DEF Init, Rest, Job, JobStatuses
<1>6. ViewsKnow /\ ReviewsKnow
  BY DEF Init, ViewsKnow, ReviewsKnow
<1>9. Named(store.versions, store.revision, store.text)
  BY <1>7 DEF Named
<1> QED
  BY <1>3, <1>4, <1>5, <1>6, <1>9 DEF IInv, Good

LEMMA RestKept ==
  ASSUME Good(store), Rest, Outcome
  PROVE  Rest'
<1>1. views' \in [Clients -> View \cup {NoView}]
  BY DEF Outcome, Answered, Rest, Shown, See, View
<1>2. requests' \in [Clients -> Request \cup {NoRequest}]
  <2> DEFINE T == Request \cup {NoRequest}
  <2> SUFFICES requests' \in [Clients -> T]
    OBVIOUS
  <2>1. requests \in [Clients -> T]
    BY DEF Rest
  <2>2. ASSUME NEW c, NEW q \in T, Ask(c, q)
        PROVE  requests' \in [Clients -> T]
    BY <2>1, <2>2 DEF Ask
  <2>3. NoRequest \in T
    OBVIOUS
  <2>4. ASSUME NEW t \in Texts PROVE [stage |-> "publish", text |-> t] \in T
    BY DEF Request
  <2>5. ASSUME NEW sel \in Selector, NEW r \in Nat \cup {NoRevision},
               NEW b \in BOOLEAN
        PROVE  [stage |-> "review", selector |-> sel,
                reviewed |-> r, pending |-> b] \in T
    BY DEF Request
  <2>6. CASE \E c \in Clients, sel \in Selector :
               LET d == store.document
               IN  Ask(c, [stage |-> "review", selector |-> sel,
                     reviewed |-> IF d = NoDocument THEN NoRevision ELSE d.revision,
                     pending |-> d # NoDocument /\ d.text \in Unreviewed])
    <3> DEFINE d == store.document
               r == IF d = NoDocument THEN NoRevision ELSE d.revision
               b == d # NoDocument /\ d.text \in Unreviewed
    <3>1. r \in Nat \cup {NoRevision}
      BY Parts
    <3>2. b \in BOOLEAN
      OBVIOUS
    <3>3. PICK c \in Clients, sel \in Selector :
            Ask(c, [stage |-> "review", selector |-> sel,
                    reviewed |-> r, pending |-> b])
      BY <2>6
    <3> HIDE DEF T, r, b
    <3> QED
      BY <2>2, <2>5, <3>1, <3>2, <3>3
  <2> HIDE DEF T
  <2>7. CASE UNCHANGED requests \/ \E c \in Clients : Ask(c, NoRequest)
    BY <2>1, <2>2, <2>3, <2>7
  <2>8. CASE \E c \in Clients : \E t \in Texts :
               Ask(c, [stage |-> "publish", text |-> t])
    BY <2>2, <2>4, <2>8
  <2> QED
    BY <2>6, <2>7, <2>8 DEF Outcome, Asked
<1> QED
  BY <1>1, <1>2 DEF Rest, Outcome

LEMMA ViewsKept ==
  ASSUME Good(store), Rest, ViewsKnow, Outcome
  PROVE  ViewsKnow'
<1>1. /\ store.revision \in Nat /\ store'.revision \in Nat
      /\ store'.revision >= store.revision
      /\ store.revision > 0 /\ store'.revision = store.revision
           => store'.text = store.text
  BY Parts DEF Outcome, Leads, Follows
<1>2. ASSUME NEW r \in Nat, NEW t \in Texts, Current(r, t, store)
      PROVE  Current(r, t, store')
  BY <1>1, <1>2 DEF Current
<1>3. SUFFICES ASSUME NEW c \in Clients, views'[c] # NoView, views'[c].stored
               PROVE  Current(views'[c].revision, views'[c].text, store')
  BY DEF ViewsKnow
<1>4. CASE views'[c] = views[c]
  <2>1. views[c] \in View
    BY <1>3, <1>4 DEF Rest
  <2> QED
    BY <1>2, <1>3, <1>4, <2>1 DEF ViewsKnow, View
<1>5. CASE views'[c] # views[c]
  <2>1. PICK d \in Clients : Shown(d)
    BY <1>5 DEF Outcome, Answered
  <2>2. PICK r \in Nat, t \in Texts, b \in BOOLEAN :
          See(d, r, t, b) /\ (b => Current(r, t, store'))
    BY <1>5, <2>1 DEF Shown
  <2>3. views'[c] = [text |-> t, revision |-> r, stored |-> b]
    BY <1>5, <2>2 DEF See, Rest
  <2> QED
    BY <1>3, <2>2, <2>3
<1> QED
  BY <1>4, <1>5

LEMMA ReviewsKept ==
  ASSUME Good(store), Rest, ReviewsKnow, Outcome
  PROVE  ReviewsKnow'
<1> DEFINE d == store.document
           e == store'.document
<1>1. /\ Good(store') /\ Follows(store, store')
  BY DEF Outcome, Leads
<1>2. /\ store.revision \in Nat /\ store'.revision \in Nat
      /\ store'.revision >= store.revision
      /\ d # NoDocument =>
           /\ e # NoDocument /\ d.revision = store.revision
           /\ e.revision = d.revision => e.text = d.text
      /\ e # NoDocument => e.revision = store'.revision
  BY <1>1, Parts DEF Follows
<1>3. SUFFICES ASSUME NEW c \in Clients, requests'[c] # NoRequest,
                      requests'[c].stage = "review"
               PROVE  IF e = NoDocument THEN requests'[c].reviewed = NoRevision
                      ELSE /\ requests'[c].reviewed =< e.revision
                           /\ requests'[c].reviewed = e.revision
                                /\ ~requests'[c].pending
                                => e.text \notin Unreviewed
  BY DEF ReviewsKnow
<1>4. CASE requests'[c] = requests[c]
  <2>1. requests[c] \in Request
    BY <1>3, <1>4 DEF Rest
  <2>2. requests[c].reviewed \in Nat \cup {-1}
    BY <1>3, <1>4, <2>1 DEF Request, NoRevision
  <2>3. IF d = NoDocument THEN requests[c].reviewed = -1
        ELSE /\ requests[c].reviewed =< d.revision
             /\ requests[c].reviewed = d.revision /\ ~requests[c].pending
                  => d.text \notin Unreviewed
    BY <1>3, <1>4 DEF ReviewsKnow, NoRevision
  <2> QED
    BY <1>2, <1>4, <2>2, <2>3 DEF NoRevision
<1>5. CASE requests'[c] # requests[c]
  <2>1. CASE \E k \in Clients : Ask(k, NoRequest)
    BY <1>3, <1>5, <2>1 DEF Ask, Rest
  <2>2. CASE \E k \in Clients : \E t \in Texts :
               Ask(k, [stage |-> "publish", text |-> t])
    <3>1. PICK k \in Clients, t \in Texts :
            Ask(k, [stage |-> "publish", text |-> t])
      BY <2>2
    <3>2. requests'[c] = [stage |-> "publish", text |-> t]
      BY <1>5, <3>1 DEF Ask, Rest
    <3> QED
      BY <1>3, <3>2
  <2>3. CASE \E k \in Clients, sel \in Selector :
               /\ store' = store
               /\ Ask(k, [stage |-> "review", selector |-> sel,
                    reviewed |-> IF d = NoDocument THEN NoRevision ELSE d.revision,
                    pending |-> d # NoDocument /\ d.text \in Unreviewed])
    <3> DEFINE q(sel) ==
          [stage |-> "review", selector |-> sel,
           reviewed |-> IF d = NoDocument THEN NoRevision ELSE d.revision,
           pending |-> d # NoDocument /\ d.text \in Unreviewed]
    <3>1. PICK k \in Clients, sel \in Selector : store' = store /\ Ask(k, q(sel))
      BY <2>3
    <3>2. requests'[c] = q(sel)
      <4> HIDE DEF q
      <4> QED
        BY <1>5, <3>1 DEF Ask, Rest
    <3>3. /\ requests'[c].reviewed = IF d = NoDocument THEN NoRevision ELSE d.revision
          /\ requests'[c].pending = (d # NoDocument /\ d.text \in Unreviewed)
      BY <3>2
    <3> QED
      BY <1>2, <3>1, <3>3
  <2> QED
    BY <1>5, <2>1, <2>2, <2>3 DEF Outcome, Asked
<1> QED
  BY <1>4, <1>5

LEMMA IInvKept ==
  ASSUME IInv, [Next]_vars
  PROVE  IInv'
<1>1. Good(store) /\ Rest /\ ViewsKnow /\ ReviewsKnow
  BY DEF IInv
<1>2. Outcome
  BY <1>1, StepOutcome, StutterOutcome
<1>3. Good(store)'
  BY <1>2 DEF Outcome, Leads
<1> QED
  BY <1>1, <1>2, <1>3, RestKept, ViewsKept, ReviewsKept DEF IInv

LEMMA Invariance == Spec => []IInv
  BY InitIInv, IInvKept, PTL DEF Spec

-----------------------------------------------------------------------------
(* The theorems.                                                           *)

(* Every operation of the editor, of /generate and of the workers keeps    *)
(* the row, the document, the versions, the views of the tabs and the      *)
(* requests in flight within their types.                                  *)
THEOREM TypeCorrect == Spec => []TypeOK
<1>1. IInv => TypeOK
  BY DEF IInv, Good, Typed, Sound, Rest, TypeOK
<1> QED
  BY <1>1, Invariance, PTL

(* Job row and document always carry the same revision, and the same text  *)
(* from the first save on, whichever of the writers wrote last.            *)
THEOREM JobMirrors == Spec => []JobMirrorsDocument
<1>1. IInv => JobMirrorsDocument
  BY DEF IInv, Good, Mirrored, JobMirrorsDocument
<1> QED
  BY <1>1, Invariance, PTL

(* A saved revision number names one text for ever.                        *)
THEOREM RevisionsName == Spec => RevisionNamesText
<1>1. IInv /\ [Next]_vars =>
        [/\ store'.revision >= store.revision
         /\ store.revision > 0 /\ store'.revision = store.revision
              => store'.text = store.text]_vars
  BY StepOutcome DEF IInv, Outcome, Leads, Follows
<1> QED
  BY <1>1, Invariance, PTL DEF Spec, RevisionNamesText

(* No step rewrites a version, unapproves one, or drops one that is        *)
(* approved, machine-made or of a song with frozen evidence.               *)
THEOREM HistoryOnlyGrows == Spec => HistoryIsAppendOnly
<1> DEFINE A == \A r \in DOMAIN store.versions :
             LET v == store.versions[r]
             IN  IF r \in DOMAIN store'.versions
                 THEN /\ store'.versions[r].text = v.text
                      /\ store'.versions[r].machine = v.machine
                      /\ v.approved => store'.versions[r].approved
                 ELSE ~v.approved /\ ~v.machine /\ ~store.frozen
<1>1. IInv /\ [Next]_vars => [A]_vars
  BY StepOutcome DEF IInv, Outcome, Leads, Follows, Remembers
<1> QED
  BY <1>1, Invariance, PTL DEF Spec, HistoryIsAppendOnly

(* The tab whose request replaces a saved lyric holds that lyric, unless   *)
(* its last answer was a conflict that was rolled back.                    *)
THEOREM SavesAreKept == Spec => NoSaveIsLost
<1> DEFINE A ==
      store.revision > 0 /\ ~Equivalent(store'.text, store.text)
        => \E c \in Clients :
             /\ Acts(c) /\ Knows(c)
             /\ views[c].stored =>
                  /\ views[c].revision = store.revision
                  /\ Equivalent(views[c].text, store.text)
<1>1. ASSUME IInv, Next PROVE A
  <2>1. Outcome
    BY <1>1, StepOutcome DEF IInv
  <2>2. SUFFICES ASSUME store.revision > 0,
                        ~Equivalent(store'.text, store.text)
                 PROVE  \E c \in Clients :
                          /\ Acts(c) /\ Knows(c)
                          /\ views[c].stored =>
                               /\ views[c].revision = store.revision
                               /\ Equivalent(views[c].text, store.text)
    OBVIOUS
  <2>3. PICK c \in Clients :
          Acts(c) /\ Knows(c) /\ views[c].revision = store.revision
    BY <2>1, <2>2 DEF Outcome, Answered, Attributed, Quiet
  <2>4. views[c].stored => Equivalent(views[c].text, store.text)
    BY <1>1, <2>2, <2>3 DEF IInv, ViewsKnow, Current, Knows
  <2> QED
    BY <2>3, <2>4
<1>2. IInv /\ [Next]_vars => [A]_vars
  BY <1>1
<1> QED
  BY <1>2, Invariance, PTL DEF Spec, NoSaveIsLost

(* An editor approval that was reviewed before the locks were taken never  *)
(* sends a lyric with pending review points to the renderer.               *)
THEOREM ReviewedBeforeApproval == Spec => ApprovedAfterReview
<1> DEFINE A ==
      \A c \in Clients :
        /\ requests[c] # NoRequest /\ requests'[c] # NoRequest
        /\ requests[c].stage = "review" /\ requests'[c].stage = "publish"
        => requests'[c].text \notin Unreviewed
<1>1. ASSUME IInv, Next PROVE A
  <2>1. Good(store) /\ Rest /\ ReviewsKnow
    BY <1>1 DEF IInv
  <2>2. Outcome
    BY <1>1, <2>1, StepOutcome
  <2>3. SUFFICES ASSUME NEW c \in Clients,
                        requests[c] # NoRequest, requests'[c] # NoRequest,
                        requests[c].stage = "review",
                        requests'[c].stage = "publish"
                 PROVE  requests'[c].text \notin Unreviewed
    OBVIOUS
  <2>4. requests'[c] # requests[c]
    BY <2>3
  <2>5. PICK t \in Texts :
          /\ Ask(c, [stage |-> "publish", text |-> t])
          /\ Reviewed(requests[c], Opened.document)
          /\ Equivalent(t, Opened.document.text)
    <3>1. ASSUME NEW k \in Clients, NEW q, Ask(k, q)
          PROVE  c = k /\ requests'[c] = q
      BY <2>1, <2>4, <3>1 DEF Ask, Rest
    <3>2. CASE \E k \in Clients : Ask(k, NoRequest)
      BY <2>3, <3>1, <3>2
    <3>3. CASE \E k \in Clients, sel \in Selector : \E r, b :
                 Ask(k, [stage |-> "review", selector |-> sel,
                         reviewed |-> r, pending |-> b])
      <4>1. PICK k \in Clients, sel \in Selector :
              \E r, b : Ask(k, [stage |-> "review", selector |-> sel,
                               reviewed |-> r, pending |-> b])
        BY <3>3
      <4>2. PICK r, b : Ask(k, [stage |-> "review", selector |-> sel,
                                reviewed |-> r, pending |-> b])
        BY <4>1
      <4>3. requests'[c] = [stage |-> "review", selector |-> sel,
                            reviewed |-> r, pending |-> b]
        BY <3>1, <4>1, <4>2
      <4> QED
        BY <2>3, <4>3
    <3>4. CASE \E k \in Clients : \E t \in Texts :
                 /\ Ask(k, [stage |-> "publish", text |-> t])
                 /\ \/ requests[k] = NoRequest
                    \/ /\ requests[k] # NoRequest
                       /\ Reviewed(requests[k], Opened.document)
                       /\ Equivalent(t, Opened.document.text)
      BY <2>3, <3>1, <3>4
    <3> QED
      BY <2>2, <2>4, <3>2, <3>3, <3>4 DEF Outcome, Asked
  <2>6. requests'[c].text = t
    BY <2>1, <2>5 DEF Ask, Rest
  <2> DEFINE d == Opened.document
  <2>7. d.text \notin Unreviewed
    <3>1. CASE store.document = NoDocument
      <4>1. requests[c].reviewed = -1
        BY <2>1, <2>3, <3>1 DEF ReviewsKnow, NoRevision
      <4>2. d.revision = 0
        <5>1. Opened.revision = 0 /\ Good(Opened) /\ Opened.document # NoDocument
          BY <2>1, <3>1, OpenedGrows DEF Grows
        <5> QED
          BY <5>1, GoodDocument
      <4> QED
        BY <2>5, <4>1, <4>2 DEF Reviewed
    <3>2. CASE store.document # NoDocument
      <4>1. d = store.document
        BY <2>1, <3>2, OpenedGrows
      <4> QED
        BY <2>1, <2>3, <2>5, <3>2, <4>1 DEF ReviewsKnow, Reviewed
    <3> QED
      BY <3>1, <3>2
  <2>8. d.text \in Texts
    <3>1. Good(Opened) /\ Opened.document # NoDocument
      BY <2>1, OpenedGrows DEF Grows
    <3> QED
      BY <3>1, GoodDocument
  <2> QED
    BY <2>5, <2>6, <2>7, <2>8, EditorAssumption
<1>2. IInv /\ [Next]_vars => [A]_vars
  <2>1. UNCHANGED vars => requests' = requests
    BY DEF vars
  <2> QED
    BY <1>1
<1> QED
  BY <1>2, Invariance, PTL DEF Spec, ApprovedAfterReview

-----------------------------------------------------------------------------
(* The abstract history.                                                   *)

LEMMA HistoryInit == Init => History!Init
<1> SUFFICES ASSUME Init PROVE History!Init
  OBVIOUS
<1>1. store.text \in Texts /\ store.revision = 0 /\ DOMAIN store.versions = {}
  <2>1. store.versions = << >> /\ store.text \in Edits \cup {Empty}
    BY DEF Init
  <2> QED
    BY <2>1, NoVersions, EditorAssumption DEF Init
<1>2. \A c \in Clients : Held(c).seen = "nothing"
  BY DEF Init, Held, Unseen
<1> QED
  BY <1>1, <1>2 DEF History!Init

(* The lyric: set before the first save, kept, or replaced by a holder.    *)
LEMMA LyricMoves ==
  ASSUME IInv, Outcome
  PROVE  History!Set \/ History!Keep \/ \E c \in Clients : History!Replace(c)
<1>1. /\ store.text \in Texts /\ store'.text \in Texts
      /\ store.revision \in Nat /\ store'.revision \in Nat
      /\ store'.revision >= store.revision
      /\ store.revision > 0 /\ store'.revision = store.revision
           => store'.text = store.text
  BY Parts DEF IInv, Outcome, Leads, Follows
<1>2. LyricOf[store'.text] \in {LyricOf[t] : t \in Texts}
  BY <1>1
<1>3. CASE store.revision = 0
  BY <1>1, <1>2, <1>3 DEF History!Set
<1>4. CASE Equivalent(store'.text, store.text)
  BY <1>1, <1>4 DEF History!Keep, Equivalent
<1>5. CASE store.revision > 0 /\ ~Equivalent(store'.text, store.text)
  <2>1. PICK c \in Clients : Knows(c) /\ views[c].revision = store.revision
    BY <1>5 DEF Outcome, Answered, Attributed, Quiet
  <2>2. views[c].stored => LyricOf[views[c].text] = LyricOf[store.text]
    BY <1>5, <2>1 DEF IInv, ViewsKnow, Current, Knows, Equivalent
  <2>3. History!Holds(c)
    BY <2>1, <2>2 DEF History!Holds, Held, Knows
  <2>4. store'.revision > store.revision
    BY <1>1, <1>5 DEF Equivalent
  <2> QED
    BY <1>2, <2>3, <2>4 DEF History!Replace
<1> QED
  BY <1>1, <1>3, <1>4, <1>5

LEMMA HistoryRemembers ==
  ASSUME IInv, Outcome
  PROVE  History!Remember
<1> DEFINE v == store.versions
           w == store'.versions
<1>1. /\ store.revision \in Nat /\ store'.revision \in Nat
      /\ \A r \in DOMAIN w : r \in Nat /\ r =< store'.revision
      /\ Named(w, store'.revision, store'.text)
      /\ Remembers(v, w, store.frozen) /\ Enters(v, store.revision, store.text, w)
      /\ store.frozen => store'.frozen
  BY Parts DEF IInv, Outcome, Leads, Follows, Good
<1> DEFINE P == {r \in DOMAIN v : v[r].approved \/ v[r].machine \/ store.frozen}
           Q == {r \in DOMAIN w : w[r].approved \/ w[r].machine \/ store'.frozen}
           H == [r \in DOMAIN v |-> LyricOf[v[r].text]]
           G == [r \in DOMAIN w |-> LyricOf[w[r].text]]
<1> HIDE DEF v, w
<1>2. P \subseteq Q /\ Q \subseteq DOMAIN G
  BY <1>1 DEF Remembers
<1>3. ASSUME NEW r \in DOMAIN G
      PROVE  IF r \in DOMAIN H THEN G[r] = H[r]
             ELSE /\ store.revision =< r /\ r =< store'.revision
                  /\ r = store.revision /\ r > 0 => G[r] = LyricOf[store.text]
  <2>1. CASE r \in DOMAIN v
    BY <1>1, <2>1 DEF Remembers
  <2>2. CASE r \notin DOMAIN v
    BY <1>1, <2>2 DEF Enters, Equivalent
  <2> QED
    BY <2>1, <2>2
<1>4. store'.revision > 0 /\ store'.revision \in DOMAIN G
        => G[store'.revision] = LyricOf[store'.text]
  BY <1>1 DEF Named, Equivalent
<1> HIDE DEF P, Q, H, G
<1> QED
  BY <1>2, <1>3, <1>4 DEF History!Remember, P, Q, H, G, v, w

LEMMA HistoryTells ==
  ASSUME IInv, Outcome
  PROVE  \/ UNCHANGED [c \in Clients |-> Held(c)]
         \/ \E c \in Clients : History!Tell(c)
<1>1. CASE UNCHANGED views
  BY <1>1 DEF Held
<1>2. CASE ~UNCHANGED views
  <2>1. PICK c \in Clients, r \in Nat, t \in Texts, b \in BOOLEAN :
          See(c, r, t, b) /\ (b => Current(r, t, store'))
    BY <1>2 DEF Outcome, Answered, Shown
  <2>2. /\ views'[c] = [text |-> t, revision |-> r, stored |-> b]
        /\ \A d \in Clients \ {c} : views'[d] = views[d]
    BY <2>1 DEF See, IInv, Rest
  <2>3. History!True(c)
    BY <2>1, <2>2, SentinelAssumption DEF History!True, Held, Unseen, Current, Equivalent
  <2>4. \A d \in Clients \ {c} : Held(d)' = Held(d)
    BY <2>2 DEF Held
  <2> QED
    BY <2>3, <2>4 DEF History!Tell
<1> QED
  BY <1>1, <1>2

(* Row, document, versions and tabs do nothing to the song's lyric that    *)
(* the register with a true history does not allow.                        *)
THEOREM EditorImplementsHistory == Spec => ImplementsHistory
<1>1. IInv /\ [Next]_vars => [History!Next]_(History!historyVars)
  <2> SUFFICES ASSUME IInv, [Next]_vars PROVE History!Next
    OBVIOUS
  <2>1. Outcome
    BY StepOutcome, StutterOutcome DEF IInv
  <2> QED
    BY <2>1, LyricMoves, HistoryRemembers, HistoryTells DEF History!Next
<1> QED
  BY <1>1, HistoryInit, Invariance, PTL DEF Spec, ImplementsHistory, History!Spec
=============================================================================
