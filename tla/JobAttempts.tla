----------------------------- MODULE JobAttempts -----------------------------
(***************************************************************************)
(* What the render pipeline promises about one job, without queues, claims *)
(* or workers.  A job is rendered by attempts, each with a fresh identity. *)
(* Only the current attempt can publish or fail it, a video that is shown  *)
(* as finished is the current attempt's, and only the reaper or a new      *)
(* attempt can take back a finished job.  A failed attempt may still       *)
(* publish: a retry inside RQ belongs to the same attempt.                 *)
(***************************************************************************)
CONSTANTS Attempts, NoVideo

VARIABLES used,     \* the attempts that were ever begun
          current,  \* the attempt that owns the job
          outcome,  \* of the current attempt
          video     \* whose files the job links to

attemptVars == <<used, current, outcome, video>>

Outcomes == {"open", "failed", "reaped", "published"}

Init ==
  \E a \in Attempts :
    used = {a} /\ current = a /\ outcome = "open" /\ video = NoVideo

(* A request replaces the attempt; it may or may not drop the old files.   *)
Begin(a) ==
  /\ a \notin used
  /\ used' = used \cup {a}
  /\ current' = a
  /\ outcome' = "open"
  /\ video' \in {video, NoVideo}

Publish ==
  /\ outcome' = "published"
  /\ video' = current
  /\ UNCHANGED <<used, current>>

Fail ==
  /\ outcome \in {"open", "failed", "reaped"}
  /\ outcome' = "failed"
  /\ UNCHANGED <<used, current, video>>

Reap ==
  /\ outcome' = "reaped"
  /\ UNCHANGED <<used, current, video>>

Next == (\E a \in Attempts : Begin(a)) \/ Publish \/ Fail \/ Reap

Spec == Init /\ [][Next]_attemptVars

=============================================================================
