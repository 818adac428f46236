---------------------------- MODULE EditorDocument ----------------------------
(***************************************************************************)
(* The lyric of one song: the copy on the job row (segments_json and       *)
(* segments_revision), the Editor 2.0 document, and the numbered versions  *)
(* kept of it.  Every endpoint that writes the lyric takes the row lock,   *)
(* reconciles the two copies (get_or_create_document) and compares the     *)
(* revision the client last saw with the stored one, so each of them is    *)
(* one action.  Two writers do not: /generate reviews the lyric before it  *)
(* locks anything and publishes the render in a later transaction, and the *)
(* render worker writes the row through update_job.                        *)
(***************************************************************************)
EXTENDS Integers, FiniteSets, FiniteSetsExt

CONSTANTS Clients,      \* browser tabs of operators
          Texts,        \* lyrics with their word timings
          LyricOf,      \* [Texts -> the operator-owned part of a text]
          Empty,        \* the text without lines
          Edits,        \* the texts operators and renders submit
          Unreviewed,   \* texts with review points still pending
          KeptDrafts,   \* the 50 of _prune_versions
          MaxRevision,  \* bound: revisions
          MaxRequests,  \* bound: /generate requests in flight
          NoDocument, NoView, NoRequest, NoApproval

Equivalent(t, u) == LyricOf[t] = LyricOf[u]

ASSUME EditorAssumption ==
  /\ Empty \in Texts /\ Unreviewed \subseteq Texts /\ Edits \subseteq Texts
  /\ KeptDrafts \in Nat /\ MaxRevision \in Nat /\ MaxRequests \in Nat
  /\ \A t \in Texts : Equivalent(t, Empty) => t = Empty
  /\ \A t \in Unreviewed, u \in Texts : Equivalent(t, u) => u \in Unreviewed

Snapshot == [text : Texts, revision : Nat]

Version == [text : Texts, approved : BOOLEAN, machine : BOOLEAN]

View == [text : Texts, revision : Nat, stored : BOOLEAN]

(* A song is chosen for approval by revision number or by version id.      *)
Selector == [by : {"revision", "version"}, revision : Nat]

NoRevision == -1

Request ==
  [stage : {"review"}, selector : Selector,
   reviewed : Nat \cup {NoRevision}, pending : BOOLEAN]
  \cup [stage : {"publish"}, text : Texts]

ASSUME SentinelAssumption ==
  /\ NoDocument \notin Snapshot /\ NoApproval \notin Snapshot
  /\ NoView \notin View /\ NoRequest \notin Request

VARIABLES store,     \* the lyric: job row, document, versions, evidence
          job,       \* the rest of the row: status, approval, render
          views,     \* [Clients -> the snapshot the tab last received]
          requests   \* [Clients -> its /generate between transactions]

vars == <<store, job, views, requests>>

Store(versions) ==
  [text : Texts, revision : Nat, document : Snapshot \cup {NoDocument},
   versions : {versions}, frozen : BOOLEAN]

JobStatuses ==
  {"transcribing", "transcribed_pending", "lyrics_approved", "queued",
   "pending_review"}

Job == [status : JobStatuses, campaign : BOOLEAN,
        approval : Snapshot \cup {NoApproval}, render : Texts]

TypeOK ==
  /\ store \in Store(store.versions)
  /\ DOMAIN store.versions \subseteq Nat
  /\ store.versions \in [DOMAIN store.versions -> Version]
  /\ job \in Job
  /\ views \in [Clients -> View \cup {NoView}]
  /\ requests \in [Clients -> Request \cup {NoRequest}]

(* A new upload, of a campaign or not, or a song that was transcribed      *)
(* before the durable editor existed.                                      *)
Init ==
  /\ store \in [text : Edits \cup {Empty}, revision : {0}, document : {NoDocument},
                versions : {<< >>}, frozen : {FALSE}]
  /\ job \in [status : {"transcribing", "transcribed_pending"},
              campaign : BOOLEAN, approval : {NoApproval}, render : {Empty}]
  /\ job.status = "transcribing" => store.text = Empty
  /\ job.campaign => job.status = "transcribing"
  /\ views = [c \in Clients |-> NoView]
  /\ requests = [c \in Clients |-> NoRequest]

-----------------------------------------------------------------------------
(* Versions.                                                               *)

(* _ensure_version refuses a revision that already names another text.     *)
CanEnsure(versions, r, t) == r \in DOMAIN versions => versions[r].text = t

Ensured(versions, r, t, approved) ==
  [q \in DOMAIN versions \cup {r} |->
     IF q \in DOMAIN versions
     THEN IF q = r /\ approved THEN [versions[q] EXCEPT !.approved = TRUE]
          ELSE versions[q]
     ELSE [text |-> t, approved |-> approved, machine |-> FALSE]]

(* A variant for the runs: the pruning query forgets is_approved.          *)
DraftsAndApproved(versions) ==
  {r \in DOMAIN versions : ~versions[r].machine}

Drafts(versions) ==
  {r \in DOMAIN versions : ~versions[r].approved /\ ~versions[r].machine}

Kept(versions) ==
  {r \in DOMAIN versions :
     r \in Drafts(versions) =>
       Cardinality({q \in Drafts(versions) : q > r}) < KeptDrafts}

Pruned(versions, frozen) ==
  IF frozen THEN versions ELSE [r \in Kept(versions) |-> versions[r]]

-----------------------------------------------------------------------------
(* The job row and the document.                                           *)

NextRevision(s) ==
  Max(DOMAIN s.versions \cup {s.revision, s.document.revision}) + 1

Created(s, t, machine) ==
  [s EXCEPT !.text = t,
            !.document = [text |-> t, revision |-> s.revision],
            !.versions = [r \in {s.revision} |->
              [text |-> t, approved |-> FALSE, machine |-> machine]]]

(* Job row and document both take text t, at revision r if it is free.     *)
Adopted(s, t, r) ==
  LET at == IF CanEnsure(s.versions, r, t) THEN r ELSE NextRevision(s)
  IN  [s EXCEPT !.text = t, !.revision = at,
                !.document = [text |-> t, revision |-> at],
                !.versions = Ensured(@, at, t, FALSE)]

(* Same revision, different texts: the document's text is kept as a        *)
(* version and the job row's becomes current.                              *)
BothKept(s) ==
  LET old  == NextRevision(s)
      kept == Ensured(s.versions, old, s.document.text, FALSE)
  IN  [s EXCEPT !.revision = old + 1,
                !.document = [text |-> s.text, revision |-> old + 1],
                !.versions = Ensured(kept, old + 1, s.text, FALSE)]

Reconciled(s) ==
  LET d == s.document
  IN  IF d = NoDocument THEN Created(s, s.text, FALSE)
      ELSE IF s.revision > d.revision THEN Adopted(s, s.text, s.revision)
      ELSE IF s.revision < d.revision THEN Adopted(s, d.text, d.revision)
      ELSE IF s.text # d.text THEN BothKept(s)
      ELSE s

(* sync_legacy_snapshot: the document follows a job row one step ahead.    *)
(* One variant stores the version and forgets the document, the other      *)
(* stores it under the revision the document had.                          *)
SyncedBehind(s) ==
  [s EXCEPT !.document = [text |-> s.text, revision |-> s.revision],
            !.versions =
              Pruned(Ensured(@, s.document.revision, s.text, FALSE), s.frozen)]

SyncedVersionOnly(s) ==
  [s EXCEPT !.versions =
              Pruned(Ensured(@, s.revision, s.text, FALSE), s.frozen)]

Synced(s) ==
  [s EXCEPT !.document = [text |-> s.text, revision |-> s.revision],
            !.versions =
              Pruned(Ensured(@, s.revision, s.text, FALSE), s.frozen)]

Written(s, t) == [s EXCEPT !.text = t, !.revision = @ + 1]

(* save_document.  A stale base is harmless when the lyric is the same.    *)
Unchanging(s, base, t) == base # s.document.revision \/ s.document.text = t

Accepts(s, base, t, reason) ==
  LET d == s.document
  IN  /\ base # d.revision => Equivalent(d.text, t)
      /\ Unchanging(s, base, t) /\ reason # "draft"
           => CanEnsure(s.versions, d.revision, t)

Saved(s, base, t, reason) ==
  LET same     == Unchanging(s, base, t)
      at       == s.document.revision + (IF same THEN 0 ELSE 1)
      versions ==
        IF reason = "draft" /\ (same \/ ~s.frozen) THEN s.versions
        ELSE Pruned(Ensured(s.versions, at, t, reason = "approve"), s.frozen)
  IN  IF same THEN [s EXCEPT !.versions = versions]
      ELSE [s EXCEPT !.text = t, !.revision = at, !.versions = versions,
                     !.document = [text |-> t, revision |-> at]]

(* A real edit of an approved campaign song sends it back to review.       *)
Reopened(changed) ==
  IF changed /\ job.campaign /\ job.status = "lyrics_approved"
  THEN [job EXCEPT !.status = "transcribed_pending", !.approval = NoApproval]
  ELSE job

Commit(s) == s.revision =< MaxRevision /\ store' = s

See(c, r, t, stored) ==
  views' = [views EXCEPT ![c] =
              [text |-> t, revision |-> r, stored |-> stored]]

Knows(c) == views[c] # NoView

-----------------------------------------------------------------------------
(* The transcription worker.  When the operator opened the editor first,   *)
(* get_or_create_document refreshes the row and so discards the pending    *)
(* assignment: the evidence is attached to what the document holds.  A     *)
(* result that finds an edited lyric is dropped, with no effect here.      *)
Transcribe(t) ==
  /\ job.status = "transcribing"
  /\ store.revision > 0 => t = store.text
  /\ LET s == IF store.document = NoDocument THEN Created(store, t, TRUE)
              ELSE Reconciled(store)
     IN  Commit([s EXCEPT !.frozen = TRUE])
  /\ job' = [job EXCEPT !.status = "transcribed_pending"]
  /\ UNCHANGED <<views, requests>>

(* GET /editor, and a conflict resolved with use_server.                   *)
Open(c) ==
  LET s == Reconciled(store)
  IN  /\ Commit(s)
      /\ See(c, s.document.revision, s.document.text, TRUE)
      /\ UNCHANGED <<job, requests>>

(* GET /status shows the job row's copy.                                   *)
ReadStatus(c) ==
  /\ See(c, store.revision, store.text, TRUE)
  /\ UNCHANGED <<store, job, requests>>

(* autosave stands for every reason that is neither a draft nor an         *)
(* approval.                                                               *)
Reasons == {"draft", "autosave", "approve"}

Submit(c, s, t, reason) ==
  LET base == views[c].revision
      new  == Saved(s, base, t, reason)
  IN  /\ Accepts(s, base, t, reason)
      /\ Commit(new)
      /\ job' = Reopened(~Unchanging(s, base, t))
      /\ See(c, new.document.revision, t, TRUE)

(* PATCH /editor.  Also the save of POST /edit.                            *)
Patch(c, t, reason) ==
  /\ Knows(c)
  /\ Submit(c, Reconciled(store), t, reason)
  /\ UNCHANGED requests

Restore(c, r) ==
  /\ Knows(c)
  /\ r \in DOMAIN store.versions
  /\ Submit(c, Reconciled(store), store.versions[r].text, "autosave")
  /\ UNCHANGED requests

(* POST /editor/conflicts/resolve, save_local_as_new.                      *)
Resolvable(c, s) ==
  /\ views[c].revision = s.document.revision
  /\ CanEnsure(s.versions, s.document.revision, s.document.text)

Resolve(c, t) ==
  LET s == Reconciled(store)
      d == s.document
  IN  /\ Knows(c) /\ Resolvable(c, s)
      /\ Submit(c, [s EXCEPT !.versions =
                      Ensured(@, d.revision, d.text, FALSE)],
                t, "autosave")
      /\ UNCHANGED requests

(* A patch, a restore or a resolution that is refused: the body of the 409 *)
(* is a reconciliation that is computed and rolled back.                   *)
TakesAll(c, s) ==
  /\ Resolvable(c, s)
  /\ \A reason \in Reasons, t \in Edits :
       Accepts(s, views[c].revision, t, reason)
  /\ \A r \in DOMAIN store.versions :
       Accepts(s, views[c].revision, store.versions[r].text, "autosave")

Conflict(c) ==
  LET s == Reconciled(store)
  IN  /\ Knows(c) /\ ~TakesAll(c, s)
      /\ See(c, s.document.revision, s.document.text, s = store)
      /\ UNCHANGED <<store, job, requests>>

(* POST /save-segments; without a base revision while the revision is 0.   *)
SaveSegments(c, t) ==
  LET s        == Reconciled(store)
      current  == views[c].revision = s.revision \/ s.revision = 0
      approved == job.campaign /\ job.status = "lyrics_approved"
      new      == IF approved THEN Saved(s, s.revision, t, "draft")
                  ELSE Synced(Written(s, t))
  IN  /\ Knows(c)
      /\ job.status \in {"transcribed_pending", "lyrics_approved",
                         "pending_review"}
      /\ \/ /\ current
            /\ Commit(new)
            /\ job' = Reopened(~Unchanging(s, s.revision, t))
            /\ See(c, new.revision, t, TRUE)
         \/ /\ ~current /\ s.text = t
            /\ See(c, s.revision, t, s = store)
            /\ UNCHANGED <<store, job>>
      /\ UNCHANGED requests

(* The compare-and-swap on the revision the tab last received; the variant *)
(* only refuses a revision from the future.                                *)
OnBaseOrBehind(c) == views[c].revision =< store.revision

OnBase(c) == views[c].revision = store.revision

(* POST /reanchor-segments persists what it aligned for minutes without a  *)
(* lock: the revision is looked at again, the status is not.  It writes    *)
(* the row first and rolls back when the document does not follow.         *)
Reanchor(c, t) ==
  /\ Knows(c)
  /\ job.status # "transcribing"
  /\ \E next \in {store.revision, store.revision + 1} :
       LET s == Reconciled([store EXCEPT !.text = t, !.revision = next])
       IN  /\ IF next = store.revision THEN next = 0
              ELSE OnBase(c)
           /\ s.revision = next
           /\ Commit(s)
           /\ See(c, next, t, TRUE)
  /\ UNCHANGED <<job, requests>>

-----------------------------------------------------------------------------
(* Approval and generation.                                                *)

(* approve_document under its locks.                                       *)
Chosen(s, sel) ==
  IF sel.by = "version" /\ sel.revision = s.document.revision
  THEN s.versions[sel.revision].text ELSE s.document.text

(* A tab names the revision it last received or a version of the list.     *)
Offered(c, sel) ==
  sel.revision \in
    IF sel.by = "revision" THEN {views[c].revision} ELSE DOMAIN store.versions

Selects(s, sel) ==
  LET d == s.document
  IN  /\ d.text # Empty
      /\ IF sel.by = "revision" THEN sel.revision = d.revision
         ELSE /\ sel.revision \in DOMAIN s.versions
              /\ Equivalent(s.versions[sel.revision].text, d.text)
      /\ CanEnsure(s.versions, d.revision, Chosen(s, sel))

Frozen(s, sel) ==
  LET d == s.document
  IN  [s EXCEPT !.text = d.text, !.revision = d.revision,
                !.versions = Ensured(@, d.revision, Chosen(s, sel), TRUE)]

Opened == IF store.document = NoDocument THEN Reconciled(store) ELSE store

(* The review of the unlocked read counts only if it was of this revision; *)
(* the variant trusts it.                                                  *)
ReviewedOnce(request, d) == ~request.pending

Reviewed(request, d) ==
  IF d.revision = request.reviewed THEN ~request.pending
  ELSE d.text \notin Unreviewed

(* POST /campaigns/../approve-lyrics locks the row before it reviews.      *)
CampaignApprove(c, sel) ==
  LET s == Opened
      d == s.document
  IN  /\ job.campaign
      /\ job.status \in {"transcribed_pending", "pending_review"}
      /\ Knows(c) /\ Offered(c, sel)
      /\ Selects(s, sel) /\ d.text \notin Unreviewed
      /\ Commit(Frozen(s, sel))
      /\ job' = [job EXCEPT !.approval = d,
                            !.status = IF @ = "pending_review" THEN @
                                       ELSE "lyrics_approved"]
      /\ UNCHANGED <<views, requests>>

Generatable ==
  job.status = IF job.campaign THEN "lyrics_approved" ELSE "transcribed_pending"

(* require_prebackground_approval.                                         *)
MayGenerate(s) ==
  /\ Generatable
  /\ job.campaign => job.approval = [text |-> s.text, revision |-> s.revision]

(* The version at the document's revision is approved if it is this text.  *)
MarkApproved(s) ==
  LET r == s.document.revision
  IN  IF r \in DOMAIN s.versions /\ s.versions[r].text = s.text
      THEN [s EXCEPT !.versions = Ensured(@, r, s.text, TRUE)] ELSE s

Idle(c) ==
  /\ requests[c] = NoRequest
  /\ Cardinality({d \in Clients : requests[d] # NoRequest}) < MaxRequests

Ask(c, request) == requests' = [requests EXCEPT ![c] = request]

(* POST /generate with an editor selector: the review, with no lock ...    *)
GenerateReview(c, sel) ==
  LET d == store.document
  IN  /\ Idle(c) /\ Generatable
      /\ Knows(c) /\ Offered(c, sel)
      /\ Ask(c, [stage |-> "review", selector |-> sel,
                 reviewed |-> IF d = NoDocument THEN NoRevision ELSE d.revision,
                 pending |-> d # NoDocument /\ d.text \in Unreviewed])
      /\ UNCHANGED <<store, job, views>>

(* ... and the transaction that freezes the version it will render.        *)
GenerateSelected(c) ==
  LET s   == Opened
      sel == requests[c].selector
      a   == Frozen(s, sel)
      t   == Chosen(s, sel)
      new == IF t = a.text THEN a ELSE Synced(Written(a, t))
  IN  /\ requests[c] # NoRequest /\ requests[c].stage = "review"
      /\ Selects(s, sel) /\ Reviewed(requests[c], s.document)
      /\ MayGenerate(a)
      /\ Commit(MarkApproved(new))
      /\ Ask(c, [stage |-> "publish", text |-> t])
      /\ UNCHANGED <<job, views>>

(* POST /generate with the segments and the revision they are based on, or *)
(* without lines: the worker then transcribes the song itself.             *)
Generate(c, t) ==
  /\ Idle(c) /\ MayGenerate(store) /\ Knows(c)
  /\ \/ /\ OnBase(c)
        /\ Commit(MarkApproved(Reconciled(
             IF store.text = t THEN store ELSE Written(store, t))))
     \/ /\ store.revision = 0
        /\ Commit(MarkApproved(Reconciled([store EXCEPT !.text = t])))
  /\ Ask(c, [stage |-> "publish", text |-> t])
  /\ UNCHANGED <<job, views>>

(* The second transaction relocks the row and queues the render.  Its look *)
(* at the status sees the copy the session loaded for the first one, which *)
(* passed: a second /generate is not turned away, whatever happened since. *)
Publish(c) ==
  /\ requests[c] # NoRequest /\ requests[c].stage = "publish"
  /\ job' = [job EXCEPT !.status = "queued", !.render = requests[c].text]
  /\ Ask(c, NoRequest)
  /\ UNCHANGED <<store, views>>

(* A 409 or an error between the steps of a /generate.                     *)
GenerateFails(c) ==
  /\ requests[c] # NoRequest
  /\ Ask(c, NoRequest)
  /\ UNCHANGED <<store, job, views>>

(* The variant lacks update_job's guard on the revision.                   *)
RewriteUnguarded(t) ==
  /\ job.status = "queued"
  /\ Equivalent(t, job.render) \/ job.render = Empty
  /\ store' = [store EXCEPT !.text = t]
  /\ UNCHANGED <<job, views, requests>>

(* The render worker's update_job(segments_json=...): word timings of the  *)
(* text it renders, or a transcription of its own; ignored once an         *)
(* operator has saved.                                                     *)
Rewrite(t) ==
  /\ job.status = "queued"
  /\ Equivalent(t, job.render) \/ job.render = Empty
  /\ store' = IF store.revision > 0 THEN store ELSE [store EXCEPT !.text = t]
  /\ UNCHANGED <<job, views, requests>>

(* pending_review stands for done and rejected too: all may be edited.     *)
RenderDone ==
  /\ job.status = "queued"
  /\ job' = [job EXCEPT !.status = "pending_review"]
  /\ UNCHANGED <<store, views, requests>>

Selectors ==
  [by : {"revision", "version"}, revision : 0..MaxRevision]

Next ==
  \/ \E t \in Edits : Transcribe(t) \/ Rewrite(t)
  \/ RenderDone
  \/ \E c \in Clients :
       \/ Open(c) \/ ReadStatus(c) \/ Conflict(c)
       \/ GenerateSelected(c) \/ Publish(c) \/ GenerateFails(c)
       \/ \E t \in Edits :
            \/ \E reason \in Reasons : Patch(c, t, reason)
            \/ Resolve(c, t) \/ SaveSegments(c, t) \/ Reanchor(c, t)
       \/ \E t \in Edits \cup {Empty} : Generate(c, t)
       \/ \E r \in DOMAIN store.versions : Restore(c, r)
       \/ \E sel \in Selectors : CampaignApprove(c, sel) \/ GenerateReview(c, sel)

Spec == Init /\ [][Next]_vars

-----------------------------------------------------------------------------
(* Correctness properties.                                                 *)

(* Once the song has a document, job row and document move together: the   *)
(* same revision always, and the same text as soon as somebody has saved   *)
(* (at revision 0 a render may still refresh the row alone).  Every writer *)
(* must go through the bridge for this (comment at main.py 17390).         *)
JobMirrorsDocument ==
  LET d == store.document
  IN  IF d = NoDocument THEN store.revision = 0 /\ DOMAIN store.versions = {}
      ELSE /\ d.revision = store.revision
           /\ store.revision > 0 => d.text = store.text

(* A saved revision number stands for one text for ever: it never goes     *)
(* back, and no writer, the render worker included, changes the text       *)
(* under it.  Every compare-and-swap of the endpoints relies on it.        *)
RevisionNamesText ==
  [][/\ store'.revision >= store.revision
     /\ store.revision > 0 /\ store'.revision = store.revision
          => store'.text = store.text]_vars

(* The history is append-only: no version changes its text or loses its    *)
(* approval, approved and machine versions are never pruned, and a song    *)
(* with frozen evidence loses no version at all.                           *)
HistoryIsAppendOnly ==
  [][\A r \in DOMAIN store.versions :
       LET v == store.versions[r]
       IN  IF r \in DOMAIN store'.versions
           THEN /\ store'.versions[r].text = v.text
                /\ store'.versions[r].machine = v.machine
                /\ v.approved => store'.versions[r].approved
           ELSE ~v.approved /\ ~v.machine /\ ~store.frozen]_vars

(* No saved lyric is replaced by somebody who has not seen it: the tab     *)
(* whose request changes the lyric holds it, unless the last answer it got *)
(* was a 409 computed on a reconciliation that was rolled back.            *)
Acts(c) == views'[c] # views[c] \/ requests'[c] # requests[c]

NoSaveIsLost ==
  [][store.revision > 0 /\ ~Equivalent(store'.text, store.text)
       => \E c \in Clients :
            /\ Acts(c) /\ Knows(c)
            /\ views[c].stored =>
                 /\ views[c].revision = store.revision
                 /\ Equivalent(views[c].text, store.text)]_vars

(* A lyric with pending review points is not rendered through the editor's *)
(* approval, although the review runs before the rows are locked and the   *)
(* lyric may be saved in between.                                          *)
ApprovedAfterReview ==
  [][\A c \in Clients :
       /\ requests[c] # NoRequest /\ requests'[c] # NoRequest
       /\ requests[c].stage = "review" /\ requests'[c].stage = "publish"
       => requests'[c].text \notin Unreviewed]_vars

(* The promise: the song's lyric is a register with a history.  The one    *)
(* lyric is the row's, without its timings; permanent are the versions     *)
(* that are approved, of the machine, or of a song with frozen evidence.   *)
Unseen == [lyric |-> LyricOf[Empty], revision |-> 0, seen |-> "nothing"]

Held(c) ==
  IF views[c] = NoView THEN Unseen
  ELSE [lyric |-> LyricOf[views[c].text], revision |-> views[c].revision,
        seen |-> IF views[c].stored THEN "stored" ELSE "refused"]

History == INSTANCE LyricHistory
             WITH Tabs <- Clients, Lyrics <- {LyricOf[t] : t \in Texts},
                  lyric <- LyricOf[store.text], revision <- store.revision,
                  history <- [r \in DOMAIN store.versions |->
                                LyricOf[store.versions[r].text]],
                  permanent <- {r \in DOMAIN store.versions :
                                  \/ store.versions[r].approved
                                  \/ store.versions[r].machine
                                  \/ store.frozen},
                  held <- [c \in Clients |-> Held(c)]

(* Through the two copies, the unlocked reviews and the render worker's    *)
(* writes, row, document and versions implement one register whose         *)
(* history is true: what a revision number was saved as is what a later    *)
(* restore of it brings back, up to word timings (save_document,           *)
(* sync_legacy_snapshot, _ensure_version, _prune_versions).                *)
ImplementsHistory == History!Spec

(* What main.py 11068 promises: a campaign song cannot spend on a render   *)
(* without the exact durable human approval of its text.                   *)
CampaignRendersApprovedText ==
  job.campaign /\ job.status = "queued" /\ job.render # Empty
    => job.approval # NoApproval /\ Equivalent(job.approval.text, job.render)
=============================================================================
