------------------------------ MODULE VeoBudget ------------------------------
(***************************************************************************)
(* The ceiling on paid video generations of a song.  Every attempt to      *)
(* generate is a call with a provenance row of its own; the row says       *)
(* whether the call waits, holds a slot under a lease, has been handed to  *)
(* the provider, or is known to cost nothing.  Occupied slots are counted  *)
(* and taken under an advisory lock of the song, the request to the        *)
(* provider is sent under that lock and one of the job, and deleting a job *)
(* moves what it has spent to a ledger under the same two.                 *)
(*                                                                         *)
(* One transaction is one action, and so is one answer of the provider.    *)
(* Both locks are asked for in one order, hence taken in one step.  There  *)
(* is one clock, and the calls are those of one rolling window.            *)
(***************************************************************************)
EXTENDS Naturals, FiniteSets

CONSTANTS Jobs, Songs, Calls,
          NoJob, NoSong,
          Listed,       \* VEO_BUDGET_TENANTS covers the tenant, the cap is on
          Cap,          \* VEO_MAX_CALLS_PER_SONG
          MaxAttempts,  \* MAX_ATTEMPTS, requests of one call
          MaxRenames,   \* bound: edits of artist or title
          MaxFaults     \* bound: crashes and database errors together

ASSUME VeoAssumption ==
  /\ IsFiniteSet(Calls) /\ NoJob \notin Jobs /\ NoSong \notin Songs
  /\ Listed \in BOOLEAN /\ Cap \in Nat \ {0} /\ MaxAttempts \in Nat \ {0}
  /\ MaxRenames \in Nat /\ MaxFaults \in Nat

VARIABLES jobs,      \* rows of jobs
          song,      \* [Jobs -> tenant, artist and title of the job]
          row,       \* [Calls -> response_summary of its ai_provenance row]
          lease,     \* [Calls -> reservation_expires_at is in the future]
          ledger,    \* [Calls -> scope of its veo_budget_ledger row]
          call,      \* [Calls -> where _generate_veo_video is]
          deletion,  \* [Jobs -> scope read by a delete under way]
          accepted,  \* calls whose generation the provider has begun
          uncounted, \* history: calls that were let through uncounted
          renamed,   \* history: jobs whose artist or title was edited
          faults

vars == <<jobs, song, row, lease, ledger, call, deletion, accepted,
          uncounted, renamed, faults>>

RowStates == {"absent", "null", "pending", "reserved", "submitted",
              "released", "settled"}

PCs == {"new", "recording", "reserving", "auth", "locking", "unsent",
        "posting", "retrying", "polling", "done"}

CallStates == [pc : PCs, job : Jobs \cup {NoJob}, enforced : BOOLEAN,
               tracked : BOOLEAN, attempt : 0..MaxAttempts,
               scope : Songs \cup {NoSong}]

NewCall == [pc |-> "new", job |-> NoJob, enforced |-> FALSE,
            tracked |-> FALSE, attempt |-> 0, scope |-> NoSong]

Init ==
  /\ jobs = Jobs /\ song \in [Jobs -> Songs]
  /\ row = [c \in Calls |-> "absent"] /\ lease = [c \in Calls |-> FALSE]
  /\ ledger = [c \in Calls |-> NoSong] /\ call = [c \in Calls |-> NewCall]
  /\ deletion = [j \in Jobs |-> NoSong]
  /\ accepted = {} /\ uncounted = {} /\ renamed = {} /\ faults = 0

(* billable_filter: a row without a summary counts as paid.                *)
Billable(c) == row[c] \in {"null", "submitted", "settled"}

(* Mutant: a reservation occupies nothing.                                 *)
OccupiesAsSpend(c) == Billable(c)

(* budget_occupancy_filter                                                 *)
Occupies(c) == Billable(c) \/ (row[c] = "reserved" /\ lease[c])

(* What _veo_budget_exceeded counts: live rows of the jobs that share the  *)
(* song, and the ledger.                                                   *)
Occupants(s) ==
  {c \in Calls : \/ Occupies(c) /\ call[c].job \in jobs /\ song[call[c].job] = s
                 \/ ledger[c] = s}

Full(s) == Cardinality(Occupants(s)) >= Cap

(* The two advisory locks: held by a guarded request to the provider.      *)
Guarded(c) == call[c].pc = "posting" /\ call[c].enforced
SongLocked(s) == \E c \in Calls : Guarded(c) /\ call[c].scope = s
JobLocked(j) == \E c \in Calls : Guarded(c) /\ call[c].job = j

Fault == faults < MaxFaults /\ faults' = faults + 1
At(c, pc) == call[c].pc = pc
Goto(c, pc) == call' = [call EXCEPT ![c].pc = pc]
Stop(c) ==
  call' = [call EXCEPT ![c].pc = "done", ![c].attempt = 0, ![c].scope = NoSong]
SetRow(c, r) == row' = [row EXCEPT ![c] = IF @ = "absent" THEN @ ELSE r]
KeepGhosts == UNCHANGED <<accepted, uncounted, renamed>>
KeepJobs == UNCHANGED <<jobs, song, ledger, deletion>>

-----------------------------------------------------------------------------
(* _veo_budget_enforced_for_job, whose failure lets the call through       *)
(* unenforced, and the read-only look at the ceiling; the cooldown         *)
(* follows.  A call refused here has written nothing.                      *)
Begin(c, j, enforced) ==
  /\ At(c, "new") /\ j \in jobs
  /\ IF enforced = Listed THEN UNCHANGED faults ELSE Listed /\ Fault
  /\ enforced => ~SongLocked(song[j]) /\ ~Full(song[j])
  /\ call' = [call EXCEPT ![c].pc = "recording", ![c].job = j,
                          ![c].enforced = enforced]
  /\ uncounted' = IF enforced THEN uncounted ELSE uncounted \cup {c}
  /\ UNCHANGED <<row, lease, accepted, renamed>> /\ KeepJobs

(* record_ai_call inserts the row; when it cannot (an error, or the job is *)
(* gone) the call goes on without one.                                     *)
Record(c) ==
  /\ At(c, "recording")
  /\ \/ /\ call[c].job \in jobs
        /\ row' = [row EXCEPT ![c] =
                     IF call[c].enforced THEN "pending" ELSE "null"]
        /\ UNCHANGED <<uncounted, faults>>
     \/ /\ IF call[c].job \in jobs THEN Fault ELSE UNCHANGED faults
        /\ uncounted' = uncounted \cup {c} /\ UNCHANGED row
  /\ call' = [call EXCEPT
       ![c].pc = IF call[c].enforced THEN "reserving" ELSE "auth",
       ![c].tracked = row'[c] # "absent"]
  /\ UNCHANGED <<lease, accepted, renamed>> /\ KeepJobs

(* _veo_budget_exceeded: count and take a slot in one transaction.         *)
Reserve(c) ==
  LET j == call[c].job IN
  /\ At(c, "reserving") /\ j \in jobs
  /\ ~SongLocked(song[j]) /\ ~Full(song[j])
  /\ call[c].tracked => row[c] # "absent"
  /\ SetRow(c, "reserved")
  /\ lease' = [lease EXCEPT ![c] = call[c].tracked]
  /\ uncounted' = IF call[c].tracked THEN uncounted \ {c} ELSE uncounted
  /\ Goto(c, "auth")
  /\ UNCHANGED <<accepted, renamed, faults>> /\ KeepJobs

(* The ceiling is reached: a first attempt removes its row, a later one    *)
(* leaves it released.  Or the job, or the row, is gone.                   *)
ReserveRefused(c) ==
  LET j == call[c].job IN
  /\ At(c, "reserving")
  /\ \/ j \notin jobs
     \/ ~SongLocked(song[j])
        /\ (Full(song[j]) \/ (call[c].tracked /\ row[c] = "absent"))
  /\ row' = IF call[c].attempt = 0 THEN [row EXCEPT ![c] = "absent"] ELSE row
  /\ Stop(c)
  /\ UNCHANGED <<lease, faults>> /\ KeepGhosts /\ KeepJobs

(* The count fails: the call is admitted all the same, and its row marked  *)
(* reserved if that can be written.                                        *)
ReserveOpen(c) ==
  /\ At(c, "reserving") /\ Fault
  /\ \/ /\ SetRow(c, "reserved")
        /\ lease' = [lease EXCEPT ![c] = row[c] # "absent"]
        /\ uncounted' = uncounted \cup {c}
     \/ UNCHANGED <<row, lease, uncounted>>
  /\ Goto(c, "auth")
  /\ UNCHANGED <<accepted, renamed>> /\ KeepJobs

(* The token is there.  A guarded call first reads the song of its job,    *)
(* to know which locks to wait for.                                        *)
Authorised(c) ==
  /\ At(c, "auth")
  /\ call[c].enforced => call[c].job \in jobs
  /\ call' = [call EXCEPT
       ![c].pc = IF call[c].enforced THEN "locking" ELSE "posting",
       ![c].scope = IF call[c].enforced THEN song[call[c].job] ELSE @]
  /\ UNCHANGED <<row, lease, faults>> /\ KeepGhosts /\ KeepJobs

(* _release_veo_reservation and the end of the call; when neither the      *)
(* UPDATE nor the DELETE can be written the row stays as it is.            *)
Release(c) ==
  /\ \/ SetRow(c, "released") /\ lease' = [lease EXCEPT ![c] = FALSE]
        /\ UNCHANGED faults
     \/ Fault /\ UNCHANGED <<row, lease>>
  /\ Stop(c) /\ KeepGhosts /\ KeepJobs

(* No token, or the job is gone when the guard looks for it.               *)
NotAuthorised(c) == At(c, "auth") /\ Release(c)

LocksFree(c) == ~SongLocked(call[c].scope) /\ ~JobLocked(call[c].job)

(* A variant for the runs does not look at the lease again.                *)
ReservedOnce(c) == row[c] = "reserved"

Reserved(c) == row[c] = "reserved" /\ lease[c]

(* _VeoSubmissionGuard.__enter__: under both locks, job, row and lease are *)
(* looked at again and the row becomes spend before the request is sent.   *)
Guard(c) ==
  /\ At(c, "locking") /\ LocksFree(c) /\ call[c].job \in jobs
  /\ call[c].tracked => Reserved(c)
  /\ SetRow(c, "submitted") /\ lease' = [lease EXCEPT ![c] = FALSE]
  /\ uncounted' = IF call[c].tracked THEN uncounted ELSE uncounted \cup {c}
  /\ Goto(c, "posting")
  /\ UNCHANGED <<accepted, renamed, faults>> /\ KeepJobs

GuardRefuses(c) ==
  /\ At(c, "locking") /\ LocksFree(c)
  /\ \/ call[c].job \notin jobs
     \/ call[c].tracked /\ ~Reserved(c)
  /\ Release(c)

(* The boundary may have been committed though its writer saw an error.    *)
(* Both locks are given up before the caller hears of it.                  *)
GuardFails(c) ==
  /\ At(c, "locking") /\ LocksFree(c) /\ call[c].job \in jobs /\ Fault
  /\ \/ UNCHANGED <<row, lease>>
     \/ /\ Reserved(c)
        /\ SetRow(c, "submitted") /\ lease' = [lease EXCEPT ![c] = FALSE]
  /\ Goto(c, "unsent") /\ KeepGhosts /\ KeepJobs

(* The caller closes the row as free: no request was sent.                 *)
ReleaseUnsent(c) == At(c, "unsent") /\ Release(c)

-----------------------------------------------------------------------------
(* The provider has begun a generation and named it.                       *)
Accept(c) ==
  /\ At(c, "posting") /\ accepted' = accepted \cup {c}
  /\ call' = [call EXCEPT ![c].pc = "polling", ![c].attempt = 0,
                          ![c].scope = NoSong]
  /\ UNCHANGED <<row, lease, uncounted, renamed, faults>> /\ KeepJobs

(* A broken connection, 408, 5xx or an unreadable success: the generation  *)
(* may have begun, and the row is closed as spend.                         *)
Ambiguous(c) ==
  /\ At(c, "posting") /\ accepted' \in {accepted, accepted \cup {c}}
  /\ \/ SetRow(c, "settled") /\ UNCHANGED faults
     \/ Fault /\ UNCHANGED row
  /\ Stop(c) /\ UNCHANGED <<lease, uncounted, renamed>> /\ KeepJobs

(* 429: nothing has begun.  The row stops being spend until the next       *)
(* request, _pause_veo_reservation_for_retry; without a row to pause, or   *)
(* with no attempt left, the call ends.                                    *)
RateLimited(c) ==
  /\ At(c, "posting") /\ call[c].attempt + 1 < MaxAttempts
  /\ call[c].tracked => row[c] # "absent"
  /\ SetRow(c, "released") /\ lease' = [lease EXCEPT ![c] = FALSE]
  /\ call' = [call EXCEPT ![c].pc = "retrying", ![c].attempt = @ + 1,
                          ![c].scope = NoSong]
  /\ UNCHANGED faults /\ KeepGhosts /\ KeepJobs

(* Any other definite rejection, or the last 429.                          *)
Rejected(c) == At(c, "posting") /\ Release(c)

(* After the backoff and a new token an enforced call takes a slot again;  *)
(* one that is not enforced sends its next request at once.                *)
Retry(c) ==
  /\ At(c, "retrying")
  /\ Goto(c, IF call[c].enforced THEN "reserving" ELSE "posting")
  /\ UNCHANGED <<row, lease, faults>> /\ KeepGhosts /\ KeepJobs

RetryUnauthorised(c) == At(c, "retrying") /\ Release(c)

(* The generation is over, has failed or has timed out; a download that    *)
(* raises leaves the row as it is.                                         *)
Finish(c) ==
  /\ At(c, "polling") /\ (SetRow(c, "settled") \/ UNCHANGED row)
  /\ Stop(c)
  /\ UNCHANGED <<lease, faults>> /\ KeepGhosts /\ KeepJobs

(* The worker dies; a request under way may have reached the provider.     *)
Crash(c) ==
  /\ call[c].pc \notin {"new", "done"} /\ Fault
  /\ \/ UNCHANGED accepted
     \/ At(c, "posting") /\ accepted' = accepted \cup {c}
  /\ Stop(c)
  /\ UNCHANGED <<row, lease, uncounted, renamed>> /\ KeepJobs

LeaseExpires(c) ==
  /\ lease[c] /\ lease' = [lease EXCEPT ![c] = FALSE]
  /\ UNCHANGED <<row, call, faults>> /\ KeepGhosts /\ KeepJobs

-----------------------------------------------------------------------------
(* delete_job has found the row in a deletable status and computes its     *)
(* scope before it waits for the locks.                                    *)
RequestDelete(j) ==
  /\ j \in jobs /\ deletion[j] = NoSong
  /\ deletion' = [deletion EXCEPT ![j] = song[j]]
  /\ UNCHANGED <<jobs, song, row, lease, ledger, call, faults>> /\ KeepGhosts

RowsOf(j) == {c \in Calls : call[c].job = j /\ row[c] # "absent"}

(* Mutant: a request without an answer yet is forgotten.                   *)
ArchivedIfAnswered(j) == [c \in Calls |->
  IF c \in RowsOf(j) /\ row[c] = "settled" THEN deletion[j] ELSE ledger[c]]

(* _archive_veo_budget_spend, and the removal of the rows.                 *)
Archived(j) == [c \in Calls |->
  IF c \in RowsOf(j) /\ Billable(c) THEN deletion[j] ELSE ledger[c]]

Delete(j) ==
  /\ j \in jobs /\ deletion[j] # NoSong
  /\ ~SongLocked(deletion[j]) /\ ~JobLocked(j)
  /\ ledger' = Archived(j)
  /\ row' = [c \in Calls |-> IF c \in RowsOf(j) THEN "absent" ELSE row[c]]
  /\ lease' = [c \in Calls |-> lease[c] /\ c \notin RowsOf(j)]
  /\ jobs' = jobs \ {j} /\ deletion' = [deletion EXCEPT ![j] = NoSong]
  /\ UNCHANGED <<song, call, faults>> /\ KeepGhosts

(* Edits of artist or title take no lock, and the rows of the job count    *)
(* for its new song from then on.                                          *)
Rename(j, s) ==
  /\ j \in jobs /\ s # song[j] /\ Cardinality(renamed) < MaxRenames
  /\ song' = [song EXCEPT ![j] = s] /\ renamed' = renamed \cup {j}
  /\ UNCHANGED <<jobs, row, lease, ledger, call, deletion, accepted,
                 uncounted, faults>>

Step(c) ==
  \/ \E j \in Jobs, enforced \in BOOLEAN : Begin(c, j, enforced)
  \/ Record(c) \/ Reserve(c) \/ ReserveRefused(c) \/ ReserveOpen(c)
  \/ Authorised(c) \/ NotAuthorised(c)
  \/ Guard(c) \/ GuardRefuses(c) \/ GuardFails(c)
  \/ ReleaseUnsent(c)
  \/ Accept(c) \/ Ambiguous(c) \/ RateLimited(c) \/ Rejected(c)
  \/ Retry(c) \/ RetryUnauthorised(c) \/ Finish(c) \/ Crash(c)
  \/ LeaseExpires(c)

Operators == \E j \in Jobs :
  RequestDelete(j) \/ Delete(j) \/ \E s \in Songs : Rename(j, s)

Next == (\E c \in Calls : Step(c)) \/ Operators

Spec == Init /\ [][Next]_vars

-----------------------------------------------------------------------------
TypeOK ==
  /\ jobs \subseteq Jobs /\ song \in [Jobs -> Songs]
  /\ row \in [Calls -> RowStates] /\ lease \in [Calls -> BOOLEAN]
  /\ ledger \in [Calls -> Songs \cup {NoSong}]
  /\ call \in [Calls -> CallStates]
  /\ deletion \in [Jobs -> Songs \cup {NoSong}]
  /\ accepted \subseteq Calls /\ uncounted \subseteq Calls
  /\ renamed \subseteq Jobs /\ faults \in 0..MaxFaults

(* The provider never begins more than Cap generations of a song, through  *)
(* expired leases, retries, deaths and deletions.  Calls that the code     *)
(* lets through uncounted when the database fails, and jobs that were      *)
(* given another song, are outside of what it promises.                    *)
CeilingHeld ==
  \A s \in Songs :
    Cardinality({c \in accepted \ uncounted :
                   call[c].job \notin renamed /\ song[call[c].job] = s}) <= Cap

(* A generation that has begun is spend, in its row or in the ledger, at   *)
(* every moment: no rejection, retry, death or deletion makes it free.     *)
SpendIsKept ==
  \A c \in accepted :
    call[c].enforced /\ call[c].tracked => Billable(c) \/ ledger[c] # NoSong

(* What a call has of its song's budget: a live reservation holds a slot,  *)
(* spend is in its row or in the ledger.                                   *)
Charge(c) ==
  IF c \in uncounted \/ call[c].job \in renamed THEN "exempt"
  ELSE IF c \in accepted THEN "begun"
  ELSE IF Billable(c) \/ ledger[c] # NoSong THEN "spent"
  ELSE IF Occupies(c) THEN "held" ELSE "free"

Payer(c) == IF call[c].job \in Jobs THEN song[call[c].job] ELSE NoSong

Account == INSTANCE SongSpend
             WITH charge <- [c \in Calls |-> Charge(c)],
                  payer <- [c \in Calls |-> Payer(c)]

(* Rows, leases, locks, retries and the ledger implement the account of a  *)
(* song: no request is sent for a slot that was given away, nothing begins *)
(* without its spend recorded first, and a rejection, a death or a         *)
(* deletion returns nothing that has begun (_veo_budget_exceeded,          *)
(* _VeoSubmissionGuard, delete_job).                                       *)
ImplementsSpend == Account!Spec

(* No guarded request is under way for a job that has been deleted.        *)
CancelledIsSilent == \A c \in Calls : Guarded(c) => call[c].job \in jobs
=============================================================================
