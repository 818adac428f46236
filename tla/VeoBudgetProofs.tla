-------------------------- MODULE VeoBudgetProofs --------------------------
(***************************************************************************)
(* Proofs for VeoBudget: the ceiling on paid generations, the spend that   *)
(* is never forgotten and the silence after a deletion hold for any number *)
(* of jobs, songs and calls, and any ceiling.                              *)
(***************************************************************************)
EXTENDS VeoBudget, FiniteSetTheorems, TLAPS

(* What the ceiling bounds: calls that were counted when they were let     *)
(* through, of jobs that kept their song, which are spend or hold a slot.  *)
Counted(c) == Occupies(c) \/ ledger[c] # NoSong

OrdinaryFor(c, s) ==
  /\ c \notin uncounted /\ Counted(c)
  /\ call[c].job \in Jobs /\ call[c].job \notin renamed
  /\ song[call[c].job] = s

Ordinary(s) == {c \in Calls : OrdinaryFor(c, s)}

SlotsHeld == \A s \in Songs : Cardinality(Ordinary(s)) <= Cap

(* A row is that of a begun call, of a job that exists, and was moved to   *)
(* the ledger or not; while the call waits for a slot it is no spend.      *)
RowOwned(c) ==
  /\ row[c] # "absent" => call[c].job \in jobs /\ call[c].tracked
  /\ ledger[c] # NoSong => row[c] = "absent" /\ call[c].tracked
  /\ call[c].tracked => call[c].pc \notin {"new", "recording"}
  /\ call[c].pc # "new" => call[c].job \in Jobs
  /\ Guarded(c) => call[c].job \in jobs
  /\ call[c].pc = "reserving" => row[c] \in {"absent", "pending", "released"}
  /\ call[c].pc = "retrying" => row[c] \in {"absent", "released"}

(* A call without a row, or without the protocol, was let through.         *)
LetThrough(c) ==
  /\ call[c].pc \in {"reserving", "locking"} => call[c].enforced
  /\ call[c].pc # "new" /\ ~call[c].enforced => c \in uncounted
  /\ /\ ~call[c].tracked
     /\ call[c].pc \notin {"new", "recording", "done"} \/ c \in accepted
     => c \in uncounted

(* From the moment the request is sent, a call is spend.                   *)
Spent(c) ==
  /\ c \in accepted => call[c].pc \in {"polling", "done"}
  /\ /\ call[c].enforced /\ call[c].tracked
     /\ call[c].pc \in {"posting", "polling"} \/ c \in accepted
     => Billable(c) \/ ledger[c] # NoSong

(* The spend of a job that kept its song is filed under that song.         *)
FiledRight(c) ==
  call[c].job \notin renamed /\ ledger[c] # NoSong =>
    ledger[c] = song[call[c].job]

DeletesRight == \A j \in Jobs :
  deletion[j] # NoSong /\ j \notin renamed => deletion[j] = song[j]

Local(c) == RowOwned(c) /\ LetThrough(c) /\ Spent(c) /\ FiledRight(c)

IInv ==
  /\ TypeOK /\ DeletesRight /\ SlotsHeld
  /\ \A c \in Calls : Local(c)

-----------------------------------------------------------------------------
(* Typing                                                                  *)

(* Every step of a call leaves its record in its type.                     *)
LEMMA RecordTyped ==
  ASSUME TypeOK, NEW c \in Calls, Step(c)
  PROVE  call' \in [Calls -> CallStates]
<1> DEFINE r == call[c]
<1>1. r \in CallStates /\ call \in [Calls -> CallStates] BY DEF TypeOK
<1>2. r.pc \in PCs /\ r.job \in Jobs \cup {NoJob} /\ r.enforced \in BOOLEAN
      /\ r.tracked \in BOOLEAN /\ r.attempt \in 0..MaxAttempts
      /\ r.scope \in Songs \cup {NoSong}
  BY <1>1 DEF CallStates
<1>3. SUFFICES \E s \in CallStates : call' = [call EXCEPT ![c] = s]
  BY <1>1
<1>4. ASSUME NEW pc \in PCs, Goto(c, pc)
      PROVE  \E s \in CallStates : call' = [call EXCEPT ![c] = s]
  <2>1. [r EXCEPT !.pc = pc] \in CallStates BY <1>1, <1>4 DEF CallStates
  <2>2. call' = [call EXCEPT ![c] = [r EXCEPT !.pc = pc]] BY <1>1, <1>4 DEF Goto
  <2> QED BY <2>1, <2>2
<1>5. ASSUME Stop(c)
      PROVE  \E s \in CallStates : call' = [call EXCEPT ![c] = s]
  <2> DEFINE s == [r EXCEPT !.pc = "done", !.attempt = 0, !.scope = NoSong]
  <2>1. 0 \in 0..MaxAttempts BY VeoAssumption DEF VeoAssumption
  <2>2. s \in CallStates BY <1>1, <2>1 DEF CallStates, PCs
  <2>3. call' = [call EXCEPT ![c] = s] BY <1>1, <1>5 DEF Stop
  <2> QED BY <2>2, <2>3
<1>6. ASSUME NEW j \in Jobs, NEW enforced \in BOOLEAN, Begin(c, j, enforced)
      PROVE  \E s \in CallStates : call' = [call EXCEPT ![c] = s]
  <2> DEFINE s == [r EXCEPT !.pc = "recording", !.job = j, !.enforced = enforced]
  <2>1. s \in CallStates BY <1>1 DEF CallStates, PCs
  <2>2. call' = [call EXCEPT ![c] = s] BY <1>1, <1>6 DEF Begin
  <2> QED BY <2>1, <2>2
<1>7. ASSUME Record(c)
      PROVE  \E s \in CallStates : call' = [call EXCEPT ![c] = s]
  <2> DEFINE pc == IF call[c].enforced THEN "reserving" ELSE "auth"
             s == [r EXCEPT !.pc = pc, !.tracked = (row'[c] # "absent")]
  <2>1. s \in CallStates BY <1>1 DEF CallStates, PCs
  <2>2. call' = [call EXCEPT ![c] = s] BY <1>1, <1>7 DEF Record
  <2> QED BY <2>1, <2>2
<1>8. ASSUME Authorised(c)
      PROVE  \E s \in CallStates : call' = [call EXCEPT ![c] = s]
  <2> DEFINE pc == IF call[c].enforced THEN "locking" ELSE "posting"
             sc == IF call[c].enforced THEN song[call[c].job] ELSE r.scope
             s == [r EXCEPT !.pc = pc, !.scope = sc]
  <2>1. sc \in Songs \cup {NoSong} BY <1>2, <1>8 DEF TypeOK, Authorised
  <2>2. s \in CallStates BY <1>1, <2>1 DEF CallStates, PCs
  <2>3. call' = [call EXCEPT ![c] = s] BY <1>1, <1>8 DEF Authorised
  <2> QED BY <2>2, <2>3
<1>9. ASSUME Accept(c)
      PROVE  \E s \in CallStates : call' = [call EXCEPT ![c] = s]
  <2> DEFINE s == [r EXCEPT !.pc = "polling", !.attempt = 0, !.scope = NoSong]
  <2>1. 0 \in 0..MaxAttempts BY VeoAssumption DEF VeoAssumption
  <2>2. s \in CallStates BY <1>1, <2>1 DEF CallStates, PCs
  <2>3. call' = [call EXCEPT ![c] = s] BY <1>1, <1>9 DEF Accept
  <2> QED BY <2>2, <2>3
<1>10. ASSUME RateLimited(c)
       PROVE  \E s \in CallStates : call' = [call EXCEPT ![c] = s]
  <2> DEFINE n == r.attempt + 1
             s == [r EXCEPT !.pc = "retrying", !.attempt = n, !.scope = NoSong]
  <2>1. n \in 0..MaxAttempts
    BY <1>2, <1>10, VeoAssumption DEF VeoAssumption, RateLimited
  <2> HIDE DEF n
  <2>2. s \in CallStates BY <1>1, <2>1 DEF CallStates, PCs
  <2>3. call' = [call EXCEPT ![c] = s] BY <1>1, <1>10 DEF RateLimited, n
  <2> QED BY <2>2, <2>3
<1>11. CASE Reserve(c) \/ ReserveOpen(c) BY <1>11, <1>4 DEF Reserve, ReserveOpen, PCs
<1>12. CASE Guard(c) \/ GuardFails(c) \/ Retry(c)
  BY <1>12, <1>4 DEF Guard, GuardFails, Reserved, Retry, PCs
<1>13. CASE ReserveRefused(c) \/ Ambiguous(c) \/ Finish(c) \/ Crash(c)
  BY <1>13, <1>5 DEF ReserveRefused, Ambiguous, Finish, Crash
<1>14. CASE \/ NotAuthorised(c) \/ GuardRefuses(c) \/ ReleaseUnsent(c)
            \/ Rejected(c) \/ RetryUnauthorised(c)
  BY <1>14, <1>5
  DEF NotAuthorised, GuardRefuses, ReleaseUnsent, Rejected, RetryUnauthorised,
      Release
<1>15. CASE LeaseExpires(c)
  <2>1. call' = [call EXCEPT ![c] = r] BY <1>1, <1>15 DEF LeaseExpires
  <2> QED BY <1>1, <2>1
<1> QED
  BY <1>6, <1>7, <1>8, <1>9, <1>10, <1>11, <1>12, <1>13, <1>14, <1>15 DEF Step

(* A summary that is written is one of the summaries.                      *)
LEMMA SetRowTyped ==
  ASSUME TypeOK, NEW c \in Calls, NEW r \in RowStates, SetRow(c, r)
  PROVE  row' \in [Calls -> RowStates]
BY DEF TypeOK, SetRow, RowStates

(* Every step of a call leaves the variables in their types.               *)
LEMMA CallTyped ==
  ASSUME TypeOK, NEW c \in Calls, Step(c)
  PROVE  TypeOK'
<1>1. call' \in [Calls -> CallStates] BY RecordTyped
<1>2. /\ row \in [Calls -> RowStates] /\ lease \in [Calls -> BOOLEAN]
      /\ \A b \in BOOLEAN : [lease EXCEPT ![c] = b] \in [Calls -> BOOLEAN]
      /\ \A r \in RowStates : [row EXCEPT ![c] = r] \in [Calls -> RowStates]
      /\ \A r \in RowStates : SetRow(c, r) => row' \in [Calls -> RowStates]
  BY SetRowTyped DEF TypeOK
<1>3. {"absent", "null", "pending", "reserved", "submitted", "released", "settled"} = RowStates
  BY DEF RowStates
<1>4. faults \in 0..MaxFaults /\ (Fault => faults' \in 0..MaxFaults)
  BY VeoAssumption DEF VeoAssumption, TypeOK, Fault
<1>5. call[c].tracked \in BOOLEAN BY DEF TypeOK, CallStates
<1>6. SUFFICES /\ row' \in [Calls -> RowStates] /\ lease' \in [Calls -> BOOLEAN]
               /\ accepted' \subseteq Calls /\ uncounted' \subseteq Calls
               /\ faults' \in 0..MaxFaults
               /\ UNCHANGED <<jobs, song, ledger, deletion, renamed>>
  BY <1>1 DEF TypeOK
<1>7. accepted \subseteq Calls /\ uncounted \subseteq Calls BY DEF TypeOK
<1> DEFINE Goal == /\ row' \in [Calls -> RowStates] /\ lease' \in [Calls -> BOOLEAN]
               /\ accepted' \subseteq Calls /\ uncounted' \subseteq Calls
               /\ faults' \in 0..MaxFaults
               /\ UNCHANGED <<jobs, song, ledger, deletion, renamed>>
<1>8. ASSUME Release(c), faults \in 0..MaxFaults PROVE Goal
  BY <1>2, <1>3, <1>4, <1>7, <1>8 DEF Release, KeepJobs, KeepGhosts
<1>9. ASSUME NEW j \in Jobs, NEW enforced \in BOOLEAN, Begin(c, j, enforced)
      PROVE Goal
  BY <1>2, <1>4, <1>7, <1>9 DEF Begin, KeepJobs
<1>10. CASE Record(c)
  BY <1>2, <1>3, <1>4, <1>5, <1>7, <1>10 DEF Record, KeepJobs, KeepGhosts
<1>11. CASE Reserve(c)
  BY <1>2, <1>3, <1>4, <1>5, <1>7, <1>11 DEF Reserve, KeepJobs, KeepGhosts
<1>12. CASE ReserveRefused(c)
  BY <1>2, <1>3, <1>4, <1>5, <1>7, <1>12 DEF ReserveRefused, KeepJobs, KeepGhosts
<1>13. CASE ReserveOpen(c)
  BY <1>2, <1>3, <1>4, <1>5, <1>7, <1>13 DEF ReserveOpen, KeepJobs, KeepGhosts
<1>14. CASE Authorised(c)
  BY <1>2, <1>3, <1>4, <1>5, <1>7, <1>14 DEF Authorised, KeepJobs, KeepGhosts
<1>15. CASE NotAuthorised(c) BY <1>4, <1>8, <1>15 DEF NotAuthorised
<1>16. CASE Guard(c)
  BY <1>2, <1>3, <1>4, <1>5, <1>7, <1>16 DEF Guard, Reserved, KeepJobs, KeepGhosts
<1>17. CASE GuardRefuses(c) BY <1>4, <1>8, <1>17 DEF GuardRefuses, Reserved
<1>18. CASE GuardFails(c)
  BY <1>2, <1>3, <1>4, <1>5, <1>7, <1>18 DEF GuardFails, Reserved, KeepJobs, KeepGhosts
<1>19. CASE Accept(c)
  BY <1>2, <1>3, <1>4, <1>5, <1>7, <1>19 DEF Accept, KeepJobs, KeepGhosts
<1>20. CASE Ambiguous(c)
  BY <1>2, <1>3, <1>4, <1>5, <1>7, <1>20 DEF Ambiguous, KeepJobs, KeepGhosts
<1>21. CASE RateLimited(c)
  BY <1>2, <1>3, <1>4, <1>5, <1>7, <1>21 DEF RateLimited, KeepJobs, KeepGhosts
<1>22. CASE Rejected(c) BY <1>4, <1>8, <1>22 DEF Rejected
<1>23. CASE Retry(c)
  BY <1>2, <1>3, <1>4, <1>5, <1>7, <1>23 DEF Retry, KeepJobs, KeepGhosts
<1>24. CASE RetryUnauthorised(c) BY <1>4, <1>8, <1>24 DEF RetryUnauthorised
<1>25. CASE ReleaseUnsent(c) BY <1>4, <1>8, <1>25 DEF ReleaseUnsent
<1>26. CASE Finish(c)
  BY <1>2, <1>3, <1>4, <1>5, <1>7, <1>26 DEF Finish, KeepJobs, KeepGhosts
<1>27. CASE Crash(c)
  BY <1>2, <1>3, <1>4, <1>5, <1>7, <1>27 DEF Crash, KeepJobs, KeepGhosts
<1>28. CASE LeaseExpires(c)
  BY <1>2, <1>3, <1>4, <1>5, <1>7, <1>28 DEF LeaseExpires, KeepJobs, KeepGhosts
<1> QED BY <1>9, <1>10, <1>11, <1>12, <1>13, <1>14, <1>15, <1>16, <1>17, <1>18, <1>19, <1>20, <1>21, <1>22, <1>23, <1>24, <1>25, <1>26, <1>27, <1>28 DEF Step

(* So does every step of an operator.                                      *)
LEMMA OperatorsTyped ==
  ASSUME TypeOK, Operators
  PROVE  TypeOK'
<1>1. ASSUME NEW j \in Jobs, RequestDelete(j) PROVE TypeOK'
  BY <1>1 DEF TypeOK, RequestDelete, KeepGhosts
<1>2. ASSUME NEW j \in Jobs, Delete(j) PROVE TypeOK'
  BY <1>2 DEF TypeOK, Delete, KeepGhosts, Archived, RowStates
<1>3. ASSUME NEW j \in Jobs, NEW s \in Songs, Rename(j, s) PROVE TypeOK'
  BY <1>3 DEF TypeOK, Rename
<1> QED BY <1>1, <1>2, <1>3 DEF Operators

-----------------------------------------------------------------------------
(* Steps of one call                                                       *)

(* A step of one call leaves everything of another.                        *)
LEMMA OthersUntouched ==
  ASSUME TypeOK, NEW c \in Calls, NEW d \in Calls, d # c, Step(c)
  PROVE  /\ jobs' = jobs /\ song' = song /\ ledger' = ledger /\ renamed' = renamed
         /\ row'[d] = row[d] /\ lease'[d] = lease[d] /\ call'[d] = call[d]
         /\ d \in accepted' <=> d \in accepted
         /\ d \in uncounted' <=> d \in uncounted
<1> DEFINE Goal ==
      /\ jobs' = jobs /\ song' = song /\ ledger' = ledger /\ renamed' = renamed
      /\ row'[d] = row[d] /\ lease'[d] = lease[d] /\ call'[d] = call[d]
      /\ d \in accepted' <=> d \in accepted
      /\ d \in uncounted' <=> d \in uncounted
<1> SUFFICES Goal OBVIOUS
<1>1. /\ row \in [Calls -> RowStates] /\ lease \in [Calls -> BOOLEAN]
      /\ call \in [Calls -> CallStates]
  BY DEF TypeOK
<1>2. ASSUME NEW j \in Jobs, NEW enforced \in BOOLEAN, Begin(c, j, enforced)
      PROVE Goal
  BY <1>1, <1>2 DEF Begin, KeepJobs
<1>3. ASSUME Release(c) PROVE Goal
  BY <1>1, <1>3 DEF Release, SetRow, Stop, KeepJobs, KeepGhosts
<1>4. CASE Record(c)
  BY <1>1, <1>4 DEF Record, SetRow, Goto, Stop, KeepJobs, KeepGhosts
<1>5. CASE Reserve(c)
  BY <1>1, <1>5 DEF Reserve, SetRow, Goto, Stop, KeepJobs, KeepGhosts
<1>6. CASE ReserveRefused(c)
  BY <1>1, <1>6 DEF ReserveRefused, SetRow, Goto, Stop, KeepJobs, KeepGhosts
<1>7. CASE ReserveOpen(c)
  BY <1>1, <1>7 DEF ReserveOpen, SetRow, Goto, Stop, KeepJobs, KeepGhosts
<1>8. CASE Authorised(c)
  BY <1>1, <1>8 DEF Authorised, SetRow, Goto, Stop, KeepJobs, KeepGhosts
<1>9. CASE NotAuthorised(c) BY <1>3, <1>9 DEF NotAuthorised
<1>10. CASE Guard(c)
  BY <1>1, <1>10 DEF Guard, Reserved, SetRow, Goto, Stop, KeepJobs, KeepGhosts
<1>11. CASE GuardRefuses(c) BY <1>3, <1>11 DEF GuardRefuses, Reserved
<1>12. CASE GuardFails(c)
  BY <1>1, <1>12 DEF GuardFails, Reserved, SetRow, Goto, Stop, KeepJobs, KeepGhosts
<1>13. CASE Accept(c)
  BY <1>1, <1>13 DEF Accept, SetRow, Goto, Stop, KeepJobs, KeepGhosts
<1>14. CASE Ambiguous(c)
  BY <1>1, <1>14 DEF Ambiguous, SetRow, Goto, Stop, KeepJobs, KeepGhosts
<1>15. CASE RateLimited(c)
  BY <1>1, <1>15 DEF RateLimited, SetRow, Goto, Stop, KeepJobs, KeepGhosts
<1>16. CASE Rejected(c) BY <1>3, <1>16 DEF Rejected
<1>17. CASE Retry(c)
  BY <1>1, <1>17 DEF Retry, SetRow, Goto, Stop, KeepJobs, KeepGhosts
<1>18. CASE RetryUnauthorised(c) BY <1>3, <1>18 DEF RetryUnauthorised
<1>19. CASE ReleaseUnsent(c) BY <1>3, <1>19 DEF ReleaseUnsent
<1>20. CASE Finish(c)
  BY <1>1, <1>20 DEF Finish, SetRow, Goto, Stop, KeepJobs, KeepGhosts
<1>21. CASE Crash(c)
  BY <1>1, <1>21 DEF Crash, SetRow, Goto, Stop, KeepJobs, KeepGhosts
<1>22. CASE LeaseExpires(c)
  BY <1>1, <1>22 DEF LeaseExpires, SetRow, Goto, Stop, KeepJobs, KeepGhosts
<1> QED BY <1>2, <1>4, <1>5, <1>6, <1>7, <1>8, <1>9, <1>10, <1>11, <1>12, <1>13, <1>14, <1>15, <1>16, <1>17, <1>18, <1>19, <1>20, <1>21, <1>22 DEF Step

(* It is invisible to what the invariant says of the other.                *)
LEMMA OthersStay ==
  ASSUME TypeOK, NEW c \in Calls, NEW d \in Calls, d # c, Step(c), Local(d)
  PROVE  /\ Local(d)'
         /\ \A s \in Songs : OrdinaryFor(d, s)' => OrdinaryFor(d, s)
<1>1. /\ jobs' = jobs /\ song' = song /\ ledger' = ledger /\ renamed' = renamed
      /\ row'[d] = row[d] /\ lease'[d] = lease[d] /\ call'[d] = call[d]
      /\ d \in accepted' <=> d \in accepted
      /\ d \in uncounted' <=> d \in uncounted
  BY OthersUntouched
<1>2. /\ Billable(d)' <=> Billable(d)
      /\ Occupies(d)' <=> Occupies(d)
      /\ Guarded(d)' <=> Guarded(d)
  BY <1>1 DEF Billable, Occupies, Guarded
<1>3. Local(d)'
  BY <1>1, <1>2 DEF Local, RowOwned, LetThrough, Spent, FiledRight
<1> QED BY <1>1, <1>2, <1>3 DEF OrdinaryFor, Counted

(* A step of a call keeps what the invariant says of it, and makes it one  *)
(* of those that hold a slot only by Reserve.                              *)
LEMMA CallKeeps ==
  ASSUME TypeOK, NEW c \in Calls, Step(c), Local(c)
  PROVE  /\ Local(c)'
         /\ \A s \in Songs : Reserve(c) \/ (OrdinaryFor(c, s)' => OrdinaryFor(c, s))
<1> DEFINE Goal ==
      /\ Local(c)'
      /\ \A s \in Songs : Reserve(c) \/ (OrdinaryFor(c, s)' => OrdinaryFor(c, s))
<1> SUFFICES Goal OBVIOUS
<1>1. /\ row \in [Calls -> RowStates] /\ lease \in [Calls -> BOOLEAN]
      /\ call \in [Calls -> CallStates] /\ call[c].tracked \in BOOLEAN
      /\ call[c].enforced \in BOOLEAN /\ jobs \subseteq Jobs
  BY DEF TypeOK, CallStates
<1> USE DEF Local, RowOwned, LetThrough, Spent, FiledRight, OrdinaryFor,
            Counted, Billable, Occupies, Guarded, At
<1>2. ASSUME NEW j \in Jobs, NEW enforced \in BOOLEAN, Begin(c, j, enforced)
      PROVE Goal
  BY <1>1, <1>2 DEF Begin, KeepJobs, CallStates
<1>3. ASSUME Release(c), c \notin accepted, call[c].pc \notin {"new", "recording"}
      PROVE Goal
  BY <1>1, <1>3 DEF Release, SetRow, Stop, KeepJobs, KeepGhosts, CallStates
<1>4. CASE Record(c)
  BY <1>1, <1>4 DEF Record, SetRow, Goto, Stop, KeepJobs, KeepGhosts, CallStates
<1>5. CASE Reserve(c)
  BY <1>1, <1>5 DEF Reserve, SetRow, Goto, Stop, KeepJobs, KeepGhosts, CallStates
<1>6. CASE ReserveRefused(c)
  BY <1>1, <1>6 DEF ReserveRefused, SetRow, Goto, Stop, KeepJobs, KeepGhosts, CallStates
<1>7. CASE ReserveOpen(c)
  BY <1>1, <1>7 DEF ReserveOpen, SetRow, Goto, Stop, KeepJobs, KeepGhosts, CallStates
<1>8. CASE Authorised(c)
  BY <1>1, <1>8 DEF Authorised, SetRow, Goto, Stop, KeepJobs, KeepGhosts, CallStates
<1>9. CASE NotAuthorised(c) BY <1>3, <1>9 DEF NotAuthorised
<1>10. CASE Guard(c)
  BY <1>1, <1>10 DEF Guard, Reserved, SetRow, Goto, Stop, KeepJobs, KeepGhosts, CallStates
<1>11. CASE GuardRefuses(c) BY <1>3, <1>11 DEF GuardRefuses, Reserved
<1>12. CASE GuardFails(c)
  BY <1>1, <1>12 DEF GuardFails, Reserved, SetRow, Goto, Stop, KeepJobs, KeepGhosts, CallStates
<1>13. CASE Accept(c)
  BY <1>1, <1>13 DEF Accept, SetRow, Goto, Stop, KeepJobs, KeepGhosts, CallStates
<1>14. CASE Ambiguous(c)
  BY <1>1, <1>14 DEF Ambiguous, SetRow, Goto, Stop, KeepJobs, KeepGhosts, CallStates
<1>15. CASE RateLimited(c)
  BY <1>1, <1>15 DEF RateLimited, SetRow, Goto, Stop, KeepJobs, KeepGhosts, CallStates
<1>16. CASE Rejected(c) BY <1>3, <1>16 DEF Rejected
<1>17. CASE Retry(c)
  BY <1>1, <1>17 DEF Retry, SetRow, Goto, Stop, KeepJobs, KeepGhosts, CallStates
<1>18. CASE RetryUnauthorised(c) BY <1>3, <1>18 DEF RetryUnauthorised
<1>19. CASE ReleaseUnsent(c) BY <1>3, <1>19 DEF ReleaseUnsent
<1>20. CASE Finish(c)
  BY <1>1, <1>20 DEF Finish, SetRow, Goto, Stop, KeepJobs, KeepGhosts, CallStates
<1>21. CASE Crash(c)
  <2>1. /\ row' = row /\ lease' = lease /\ uncounted' = uncounted
        /\ renamed' = renamed /\ jobs' = jobs /\ song' = song /\ ledger' = ledger
    BY <1>21 DEF Crash, KeepJobs
  <2>6. call[c].pc # "new" BY <1>21 DEF Crash
  <2>7. accepted' = accepted \/ (call[c].pc = "posting" /\ accepted' = accepted \cup {c})
    BY <1>21 DEF Crash
  <2>2. call'[c] = [call[c] EXCEPT !.pc = "done", !.attempt = 0, !.scope = NoSong]
    BY <1>1, <1>21 DEF Crash, Stop
  <2>3. /\ call'[c].pc = "done" /\ call'[c].job = call[c].job
        /\ call'[c].enforced = call[c].enforced /\ call'[c].tracked = call[c].tracked
    BY <1>1, <2>2 DEF CallStates
  <2>4. Local(c)'
    <3>1. RowOwned(c)' BY <2>1, <2>3, <2>6
    <3>2. LetThrough(c)' BY <2>1, <2>3, <2>6, <2>7
    <3>3. Spent(c)' BY <2>1, <2>3, <2>7
    <3>4. FiledRight(c)' BY <2>1, <2>3
    <3> QED BY <3>1, <3>2, <3>3, <3>4
  <2>5. ASSUME NEW s \in Songs PROVE OrdinaryFor(c, s)' => OrdinaryFor(c, s)
    BY <2>1, <2>3
  <2> QED BY <2>4, <2>5
<1>22. CASE LeaseExpires(c)
  BY <1>1, <1>22 DEF LeaseExpires, SetRow, Goto, Stop, KeepJobs, KeepGhosts, CallStates
<1> QED BY <1>2, <1>4, <1>5, <1>6, <1>7, <1>8, <1>9, <1>10, <1>11, <1>12, <1>13, <1>14, <1>15, <1>16, <1>17, <1>18, <1>19, <1>20, <1>21, <1>22 DEF Step

-----------------------------------------------------------------------------
(* Steps of operators                                                      *)

(* Deletions and renames keep what the invariant says of a call, and give  *)
(* no call a slot.                                                         *)
LEMMA OperatorsKeep ==
  ASSUME TypeOK, DeletesRight, NEW c \in Calls, Operators, Local(c)
  PROVE  /\ Local(c)'
         /\ \A s \in Songs : OrdinaryFor(c, s)' => OrdinaryFor(c, s)
<1> DEFINE Goal ==
      /\ Local(c)'
      /\ \A s \in Songs : OrdinaryFor(c, s)' => OrdinaryFor(c, s)
<1> SUFFICES Goal OBVIOUS
<1>1. /\ row \in [Calls -> RowStates] /\ lease \in [Calls -> BOOLEAN]
      /\ ledger \in [Calls -> Songs \cup {NoSong}]
      /\ song \in [Jobs -> Songs] /\ jobs \subseteq Jobs
  BY DEF TypeOK
<1>2. ASSUME NEW j \in Jobs, RequestDelete(j) PROVE Goal
  BY <1>2
  DEF RequestDelete, KeepGhosts, Local, RowOwned, LetThrough, Spent, FiledRight,
      OrdinaryFor, Counted, Billable, Occupies, Guarded, At
<1>3. ASSUME NEW j \in Jobs, Delete(j) PROVE Goal
  <2>1. /\ call' = call /\ song' = song /\ renamed' = renamed
        /\ accepted' = accepted /\ uncounted' = uncounted /\ jobs' = jobs \ {j}
    BY <1>3 DEF Delete, KeepGhosts
  <2>2. CASE call[c].job = j /\ row[c] # "absent"
    <3>1. row'[c] = "absent" /\ ~lease'[c] /\ ~Guarded(c)
      BY <1>3, <2>2 DEF Delete, RowsOf, JobLocked
    <3>2. ledger'[c] = IF Billable(c) THEN deletion[j] ELSE ledger[c]
      BY <1>3, <2>2 DEF Delete, RowsOf, Archived
    <3>3. /\ deletion[j] # NoSong /\ call[c].job \in Jobs
          /\ j \notin renamed => deletion[j] = song[j]
      BY <1>3, <2>2 DEF Delete, DeletesRight
    <3>4. ~Billable(c)' BY <3>1 DEF Billable
    <3>5. ~Guarded(c)' BY <2>1, <3>1 DEF Guarded, At
    <3>6. Local(c)'
      BY <2>1, <2>2, <3>1, <3>2, <3>3, <3>4, <3>5
      DEF Local, RowOwned, LetThrough, Spent, FiledRight
    <3>7. ASSUME NEW s \in Songs PROVE OrdinaryFor(c, s)' => OrdinaryFor(c, s)
      BY <2>1, <3>1, <3>2 DEF OrdinaryFor, Counted, Occupies, Billable
    <3> QED BY <3>6, <3>7
  <2>3. CASE ~(call[c].job = j /\ row[c] # "absent")
    <3>1. row'[c] = row[c] /\ lease'[c] = lease[c] /\ ledger'[c] = ledger[c]
      BY <1>1, <1>3, <2>3 DEF Delete, RowsOf, Archived
    <3>2. call[c].job = j => ~Guarded(c) BY <1>3 DEF Delete, JobLocked
    <3>3. /\ Billable(c)' <=> Billable(c)
          /\ Occupies(c)' <=> Occupies(c)
          /\ Guarded(c)' <=> Guarded(c)
      BY <2>1, <3>1 DEF Billable, Occupies, Guarded, At
    <3>4. Local(c)'
      BY <2>1, <2>3, <3>1, <3>2, <3>3
      DEF Local, RowOwned, LetThrough, Spent, FiledRight
    <3>5. ASSUME NEW s \in Songs PROVE OrdinaryFor(c, s)' => OrdinaryFor(c, s)
      BY <2>1, <3>1, <3>3 DEF OrdinaryFor, Counted
    <3> QED BY <3>4, <3>5
  <2> QED BY <2>2, <2>3
<1>4. ASSUME NEW j \in Jobs, NEW s \in Songs, Rename(j, s) PROVE Goal
  <2>1. /\ jobs' = jobs /\ row' = row /\ lease' = lease /\ ledger' = ledger
        /\ call' = call /\ accepted' = accepted /\ uncounted' = uncounted
        /\ renamed' = renamed \cup {j}
    BY <1>4 DEF Rename
  <2>2. \A k \in Jobs : k # j => song'[k] = song[k] BY <1>1, <1>4 DEF Rename
  <2>3. /\ Billable(c)' <=> Billable(c)
        /\ Occupies(c)' <=> Occupies(c)
        /\ Guarded(c)' <=> Guarded(c)
    BY <2>1 DEF Billable, Occupies, Guarded, At
  <2>4. ledger[c] # NoSong => call[c].job \in Jobs
    BY DEF Local, RowOwned
  <2>5. Local(c)'
    BY <2>1, <2>2, <2>3, <2>4
    DEF Local, RowOwned, LetThrough, Spent, FiledRight
  <2>6. ASSUME NEW t \in Songs PROVE OrdinaryFor(c, t)' => OrdinaryFor(c, t)
    BY <2>1, <2>2, <2>3 DEF OrdinaryFor, Counted
  <2> QED BY <2>5, <2>6
<1> QED BY <1>2, <1>3, <1>4 DEF Operators

(* A delete under way knows the song of a job that was never renamed.      *)
LEMMA DeletesStayRight ==
  ASSUME TypeOK, DeletesRight, Next
  PROVE  DeletesRight'
<1>1. ASSUME NEW c \in Calls, Step(c) PROVE DeletesRight'
  <2>1. song' = song /\ deletion' = deletion /\ renamed' = renamed
    BY <1>1
    DEF Step, Begin, Record, Reserve, ReserveRefused, ReserveOpen, Authorised,
        NotAuthorised, Guard, GuardRefuses, GuardFails, ReleaseUnsent, Reserved,
        Accept, Ambiguous, RateLimited, Rejected, Retry, RetryUnauthorised, Finish, Crash,
        LeaseExpires, Release, KeepJobs, KeepGhosts
  <2> QED BY <2>1 DEF DeletesRight
<1>2. ASSUME NEW j \in Jobs, RequestDelete(j) \/ Delete(j) PROVE DeletesRight'
  BY <1>2 DEF TypeOK, DeletesRight, RequestDelete, Delete, KeepGhosts
<1>3. ASSUME NEW j \in Jobs, NEW s \in Songs, Rename(j, s) PROVE DeletesRight'
  BY <1>3 DEF TypeOK, DeletesRight, Rename
<1> QED BY <1>1, <1>2, <1>3 DEF Next, Operators

-----------------------------------------------------------------------------
(* The slots                                                               *)

(* Sets of calls are finite.                                               *)
LEMMA CallsFinite ==
  ASSUME NEW S \in SUBSET Calls
  PROVE  IsFiniteSet(S) /\ Cardinality(S) \in Nat
BY VeoAssumption, FS_Subset, FS_CardinalityType DEF VeoAssumption

(* What the ceiling bounds is counted by it.                               *)
LEMMA OrdinaryIsCounted ==
  ASSUME TypeOK, NEW s \in Songs, \A c \in Calls : Local(c)
  PROVE  Ordinary(s) \subseteq Occupants(s)
BY DEF Ordinary, OrdinaryFor, Occupants, Counted, Occupies, Billable, Local,
       RowOwned, FiledRight

(* Taking a slot only when one is left keeps the ceiling.                  *)
LEMMA ReserveKeepsCeiling ==
  ASSUME TypeOK, SlotsHeld, NEW c \in Calls, Reserve(c), NEW s \in Songs,
         \A d \in Calls : Local(d),
         \A d \in Calls : d # c => (OrdinaryFor(d, s)' => OrdinaryFor(d, s))
  PROVE  Cardinality(Ordinary(s)') <= Cap
<1>1. Ordinary(s)' \subseteq Ordinary(s) \cup {c} BY DEF Ordinary
<1>2. Ordinary(s)' \subseteq Calls /\ Ordinary(s) \subseteq Calls
      /\ Ordinary(s) \cup {c} \subseteq Calls /\ Occupants(s) \subseteq Calls
  BY DEF Ordinary, Occupants
<1>3. CASE song[call[c].job] = s
  <2>1. Cardinality(Occupants(s)) < Cap
    BY <1>2, <1>3, CallsFinite, VeoAssumption
    DEF VeoAssumption, Reserve, Full
  <2>2. Cardinality(Ordinary(s)) <= Cardinality(Occupants(s))
    BY <1>2, CallsFinite, FS_Subset, OrdinaryIsCounted
  <2>3. Cardinality(Ordinary(s) \cup {c}) <= Cardinality(Ordinary(s)) + 1
    BY <1>2, CallsFinite, FS_AddElement
  <2>4. Cardinality(Ordinary(s)') <= Cardinality(Ordinary(s) \cup {c})
    BY <1>1, <1>2, CallsFinite, FS_Subset
  <2> QED
    BY <1>2, <2>1, <2>2, <2>3, <2>4, CallsFinite, VeoAssumption DEF VeoAssumption
<1>4. CASE song[call[c].job] # s
  <2>1. call'[c].job = call[c].job /\ song' = song
    BY DEF Reserve, Goto, KeepJobs, TypeOK, CallStates
  <2>2. Ordinary(s)' \subseteq Ordinary(s)
    BY <1>4, <2>1 DEF Ordinary, OrdinaryFor
  <2>3. Cardinality(Ordinary(s)') <= Cardinality(Ordinary(s))
    BY <1>2, <2>2, CallsFinite, FS_Subset
  <2> QED
    BY <1>2, <2>3, CallsFinite, VeoAssumption DEF VeoAssumption, SlotsHeld
<1> QED BY <1>3, <1>4

(* No step takes a slot beyond the ceiling.                                *)
LEMMA SlotsStay ==
  ASSUME IInv, Next
  PROVE  SlotsHeld'
<1>1. TypeOK /\ SlotsHeld /\ DeletesRight /\ \A c \in Calls : Local(c)
  BY DEF IInv
<1>2. SUFFICES ASSUME NEW s \in Songs PROVE Cardinality(Ordinary(s)') <= Cap
  BY DEF SlotsHeld
<1>3. ASSUME \A d \in Calls : OrdinaryFor(d, s)' => OrdinaryFor(d, s)
      PROVE  Cardinality(Ordinary(s)') <= Cap
  <2>1. Ordinary(s)' \subseteq Ordinary(s) /\ Ordinary(s) \subseteq Calls
    BY <1>3 DEF Ordinary
  <2>2. Cardinality(Ordinary(s)') <= Cardinality(Ordinary(s))
    BY <2>1, CallsFinite, FS_Subset
  <2>3. Cardinality(Ordinary(s)) <= Cap BY <1>1 DEF SlotsHeld
  <2> QED
    BY <2>1, <2>2, <2>3, CallsFinite, VeoAssumption DEF VeoAssumption
<1>4. ASSUME NEW c \in Calls, Step(c) PROVE Cardinality(Ordinary(s)') <= Cap
  <2>1. \A d \in Calls : d # c => (OrdinaryFor(d, s)' => OrdinaryFor(d, s))
    BY <1>1, <1>4, OthersStay
  <2>2. Reserve(c) \/ (OrdinaryFor(c, s)' => OrdinaryFor(c, s))
    BY <1>1, <1>4, CallKeeps
  <2> QED BY <1>1, <1>3, <2>1, <2>2, ReserveKeepsCeiling
<1>5. CASE Operators BY <1>1, <1>3, <1>5, OperatorsKeep
<1> QED BY <1>4, <1>5 DEF Next

-----------------------------------------------------------------------------
(* The theorems                                                            *)

(* Nothing has begun at the start.                                         *)
LEMMA Start ==
  ASSUME Init
  PROVE  IInv
<1>1. NewCall \in CallStates
  BY VeoAssumption DEF VeoAssumption, NewCall, CallStates, PCs
<1>2. TypeOK BY <1>1, VeoAssumption DEF VeoAssumption, Init, TypeOK, RowStates
<1>3. DeletesRight BY DEF Init, DeletesRight
<1>4. ASSUME NEW c \in Calls PROVE Local(c)
  BY <1>4
  DEF Init, NewCall, Local, RowOwned, LetThrough, Spent, FiledRight, Guarded, At
<1>5. ASSUME NEW s \in Songs PROVE Cardinality(Ordinary(s)) <= Cap
  <2>1. Ordinary(s) = {}
    BY DEF Init, Ordinary, OrdinaryFor, Counted, Occupies, Billable
  <2> QED BY <2>1, FS_EmptySet, VeoAssumption DEF VeoAssumption
<1> QED BY <1>2, <1>3, <1>4, <1>5 DEF IInv, SlotsHeld

(* Every step keeps the invariant.                                         *)
LEMMA Preserved ==
  ASSUME IInv, [Next]_vars
  PROVE  IInv'
<1>1. TypeOK /\ DeletesRight /\ SlotsHeld /\ \A c \in Calls : Local(c)
  BY DEF IInv
<1>2. CASE Next
  <2>1. TypeOK' BY <1>1, <1>2, CallTyped, OperatorsTyped DEF Next
  <2>2. DeletesRight' BY <1>1, <1>2, DeletesStayRight
  <2>3. SlotsHeld' BY <1>2, SlotsStay
  <2>4. ASSUME NEW d \in Calls PROVE Local(d)'
    <3>1. ASSUME NEW c \in Calls, Step(c) PROVE Local(d)'
      BY <1>1, <3>1, OthersStay, CallKeeps
    <3> QED BY <1>1, <1>2, <3>1, OperatorsKeep DEF Next
  <2> QED BY <2>1, <2>2, <2>3, <2>4 DEF IInv
<1>3. CASE UNCHANGED vars
  BY <1>1, <1>3
  DEF vars, IInv, TypeOK, DeletesRight, SlotsHeld, Ordinary, OrdinaryFor,
      Counted, Occupies, Billable, Local, RowOwned, LetThrough, Spent,
      FiledRight, Guarded, At
<1> QED BY <1>2, <1>3

(* The invariant holds always.                                             *)
LEMMA Invariance == Spec => []IInv
<1>1. Init => IInv BY Start
<1>2. IInv /\ [Next]_vars => IInv' BY Preserved
<1> QED BY <1>1, <1>2, PTL DEF Spec

(* Rows, leases, ledger and calls stay in their types.                     *)
THEOREM Types == Spec => []TypeOK
<1>1. IInv => TypeOK BY DEF IInv
<1> QED BY <1>1, Invariance, PTL

(* However many workers generate for a song at once, die, retry or have    *)
(* their jobs deleted, the provider begins at most Cap generations that    *)
(* the ceiling counted.                                                    *)
THEOREM Ceiling == Spec => []CeilingHeld
<1>1. IInv => CeilingHeld
  <2> SUFFICES ASSUME IInv, NEW s \in Songs
      PROVE Cardinality({c \in accepted \ uncounted :
              call[c].job \notin renamed /\ song[call[c].job] = s}) <= Cap
    BY DEF CeilingHeld
  <2> DEFINE S == {c \in accepted \ uncounted :
              call[c].job \notin renamed /\ song[call[c].job] = s}
  <2>1. TypeOK /\ \A c \in Calls : Local(c) BY DEF IInv
  <2>2. S \subseteq Ordinary(s)
    <3> SUFFICES ASSUME NEW c \in S PROVE c \in Ordinary(s) OBVIOUS
    <3>1. c \in Calls /\ c \in accepted /\ c \notin uncounted BY <2>1 DEF TypeOK
    <3>2. Local(c) /\ call[c].enforced \in BOOLEAN /\ call[c].tracked \in BOOLEAN
      BY <2>1, <3>1 DEF TypeOK, CallStates
    <3>3. call[c].pc # "new" BY <3>1, <3>2 DEF Local, Spent
    <3>4. call[c].enforced /\ call[c].tracked
      BY <3>1, <3>2, <3>3 DEF Local, LetThrough
    <3>5. Counted(c) BY <3>1, <3>2, <3>4 DEF Local, Spent, Counted, Occupies
    <3>6. call[c].job \in Jobs BY <3>2, <3>3 DEF Local, RowOwned
    <3> QED BY <3>1, <3>5, <3>6 DEF Ordinary, OrdinaryFor
  <2>3. Ordinary(s) \subseteq Calls BY DEF Ordinary
  <2>4. Cardinality(S) <= Cardinality(Ordinary(s))
    BY <2>2, <2>3, CallsFinite, FS_Subset
  <2>5. Cardinality(Ordinary(s)) <= Cap BY DEF IInv, SlotsHeld
  <2>6. Cardinality(S) \in Nat /\ Cardinality(Ordinary(s)) \in Nat
    BY <2>2, <2>3, CallsFinite
  <2> QED BY <2>4, <2>5, <2>6, VeoAssumption DEF VeoAssumption
<1> QED BY <1>1, Invariance, PTL

(* A generation that has begun is spend, in its row or in the ledger.      *)
THEOREM Spend == Spec => []SpendIsKept
<1>1. IInv => SpendIsKept BY DEF IInv, TypeOK, SpendIsKept, Local, Spent
<1> QED BY <1>1, Invariance, PTL

(* No guarded request is under way for a job that has been deleted.        *)
THEOREM Silence == Spec => []CancelledIsSilent
<1>1. IInv => CancelledIsSilent BY DEF IInv, CancelledIsSilent, Local, RowOwned
<1> QED BY <1>1, Invariance, PTL

-----------------------------------------------------------------------------
(* The abstract account                                                    *)

(* What a step may do to the charge of a call without taking a slot.       *)
Moves(c) ==
  \/ Charge(c)' = Charge(c) /\ Payer(c)' = Payer(c)
  \/ Charge(c) = "free" /\ Charge(c)' = "free"
  \/ Charge(c)' = "exempt"
  \/ Charge(c) = "held" /\ Charge(c)' \in {"free", "spent"} /\ Payer(c)' = Payer(c)
  \/ Charge(c) = "spent" /\ Charge(c)' \in {"free", "begun"} /\ Payer(c)' = Payer(c)

Takes(c) ==
  /\ Reserve(c) /\ Payer(c)' = Payer(c)
  /\ Charge(c) \in {"free", "exempt"} /\ Charge(c)' = "held"

(* The code takes a slot only through the count, spends only a slot that   *)
(* is held, and returns only what has not begun.                           *)
LEMMA CallMoves ==
  ASSUME TypeOK, NEW c \in Calls, Step(c), Local(c)
  PROVE  Moves(c) \/ Takes(c)
<1> DEFINE Goal == Moves(c) \/ Takes(c)
<1> SUFFICES Goal OBVIOUS
<1>1. /\ row \in [Calls -> RowStates] /\ lease \in [Calls -> BOOLEAN]
      /\ call \in [Calls -> CallStates] /\ call[c].tracked \in BOOLEAN
      /\ call[c].enforced \in BOOLEAN /\ jobs \subseteq Jobs
  BY DEF TypeOK, CallStates
<1> USE DEF Local, RowOwned, LetThrough, Spent, Billable, Occupies, Guarded, At,
            Charge, Payer, Moves
<1>2. ASSUME NEW j \in Jobs, NEW enforced \in BOOLEAN, Begin(c, j, enforced)
      PROVE Goal
  BY <1>1, <1>2 DEF Begin, KeepJobs, CallStates
<1>3. ASSUME Release(c), c \notin accepted, call[c].pc \notin {"new", "recording"}
      PROVE Goal
  BY <1>1, <1>3 DEF Release, SetRow, Stop, KeepJobs, KeepGhosts, CallStates
<1>4. CASE Record(c)
  BY <1>1, <1>4 DEF Record, SetRow, Goto, Stop, KeepJobs, KeepGhosts, CallStates
<1>5. CASE Reserve(c)
  BY <1>1, <1>5
  DEF Reserve, SetRow, Goto, Stop, KeepJobs, KeepGhosts, CallStates, Takes
<1>6. CASE ReserveRefused(c)
  BY <1>1, <1>6 DEF ReserveRefused, SetRow, Goto, Stop, KeepJobs, KeepGhosts, CallStates
<1>7. CASE ReserveOpen(c)
  BY <1>1, <1>7 DEF ReserveOpen, SetRow, Goto, Stop, KeepJobs, KeepGhosts, CallStates
<1>8. CASE Authorised(c)
  BY <1>1, <1>8 DEF Authorised, SetRow, Goto, Stop, KeepJobs, KeepGhosts, CallStates
<1>9. CASE NotAuthorised(c) BY <1>3, <1>9 DEF NotAuthorised
<1>10. CASE Guard(c)
  BY <1>1, <1>10 DEF Guard, Reserved, SetRow, Goto, Stop, KeepJobs, KeepGhosts, CallStates
<1>11. CASE GuardRefuses(c) BY <1>3, <1>11 DEF GuardRefuses, Reserved
<1>12. CASE GuardFails(c)
  BY <1>1, <1>12 DEF GuardFails, Reserved, SetRow, Goto, Stop, KeepJobs, KeepGhosts, CallStates
<1>13. CASE Accept(c)
  BY <1>1, <1>13 DEF Accept, SetRow, Goto, Stop, KeepJobs, KeepGhosts, CallStates
<1>14. CASE Ambiguous(c)
  BY <1>1, <1>14 DEF Ambiguous, SetRow, Goto, Stop, KeepJobs, KeepGhosts, CallStates
<1>15. CASE RateLimited(c)
  BY <1>1, <1>15 DEF RateLimited, SetRow, Goto, Stop, KeepJobs, KeepGhosts, CallStates
<1>16. CASE Rejected(c) BY <1>3, <1>16 DEF Rejected
<1>17. CASE Retry(c)
  BY <1>1, <1>17 DEF Retry, SetRow, Goto, Stop, KeepJobs, KeepGhosts, CallStates
<1>18. CASE RetryUnauthorised(c) BY <1>3, <1>18 DEF RetryUnauthorised
<1>19. CASE ReleaseUnsent(c) BY <1>3, <1>19 DEF ReleaseUnsent
<1>20. CASE Finish(c)
  BY <1>1, <1>20 DEF Finish, SetRow, Goto, Stop, KeepJobs, KeepGhosts, CallStates
<1>21. CASE Crash(c)
  BY <1>1, <1>21 DEF Crash, SetRow, Goto, Stop, KeepJobs, KeepGhosts, CallStates
<1>22. CASE LeaseExpires(c)
  BY <1>1, <1>22 DEF LeaseExpires, SetRow, Goto, Stop, KeepJobs, KeepGhosts, CallStates
<1> QED BY <1>2, <1>4, <1>5, <1>6, <1>7, <1>8, <1>9, <1>10, <1>11, <1>12, <1>13, <1>14, <1>15, <1>16, <1>17, <1>18, <1>19, <1>20, <1>21, <1>22 DEF Step

(* A slot that the account has taken is one that the code counts.          *)
LEMMA TakenIsCounted ==
  ASSUME IInv, NEW s \in Songs
  PROVE  Account!Occupants(s) \subseteq Occupants(s)
<1>1. TypeOK /\ \A c \in Calls : Local(c) BY DEF IInv
<1>2. SUFFICES ASSUME NEW c \in Account!Occupants(s) PROVE c \in Ordinary(s)
  BY <1>1, OrdinaryIsCounted
<1>3. c \in Calls /\ Charge(c) \in {"held", "spent", "begun"} /\ Payer(c) = s
  BY DEF Account!Occupants
<1>4. c \notin uncounted /\ call[c].job \notin renamed
  BY <1>3 DEF Charge
<1>5. Local(c) /\ call[c].enforced \in BOOLEAN /\ call[c].tracked \in BOOLEAN
  BY <1>1, <1>3 DEF TypeOK, CallStates
<1>6. call[c].job \in Jobs /\ song[call[c].job] = s
  BY <1>3, VeoAssumption DEF VeoAssumption, Payer
<1>7. c \in accepted => call[c].enforced /\ call[c].tracked
  BY <1>4, <1>5 DEF Local, Spent, LetThrough
<1>8. Counted(c)
  BY <1>3, <1>4, <1>5, <1>7 DEF Charge, Counted, Local, Spent, Occupies
<1> QED BY <1>3, <1>4, <1>6, <1>8 DEF Ordinary, OrdinaryFor

(* Every step of a call is one of the account, or none.                    *)
LEMMA StepImplements ==
  ASSUME IInv, NEW c \in Calls, Step(c)
  PROVE  Account!Next \/ UNCHANGED Account!spendVars
<1>1. TypeOK /\ \A d \in Calls : Local(d) BY DEF IInv
<1>2. ASSUME NEW d \in Calls, d # c
      PROVE  Charge(d)' = Charge(d) /\ Payer(d)' = Payer(d)
  <2>1. /\ song' = song /\ ledger' = ledger /\ renamed' = renamed
        /\ row'[d] = row[d] /\ lease'[d] = lease[d] /\ call'[d] = call[d]
        /\ d \in accepted' <=> d \in accepted
        /\ d \in uncounted' <=> d \in uncounted
    BY <1>1, <1>2, OthersUntouched
  <2>2. Payer(d)' = Payer(d) BY <2>1 DEF Payer
  <2>3. (Billable(d)' <=> Billable(d)) /\ (Occupies(d)' <=> Occupies(d))
    BY <2>1 DEF Billable, Occupies
  <2> QED BY <2>1, <2>2, <2>3 DEF Charge
<1>3. Account!Others({c}) BY <1>2 DEF Account!Others
<1>4. Moves(c) \/ Takes(c) BY <1>1, CallMoves
<1>5. CASE Charge(c)' = Charge(c) /\ Payer(c)' = Payer(c)
  <2>1. \A d \in Calls : Charge(d)' = Charge(d) /\ Payer(d)' = Payer(d)
    BY <1>2, <1>5
  <2> QED BY <2>1 DEF Account!spendVars
<1>6. CASE Charge(c) = "free" /\ Charge(c)' = "free"
  BY <1>3, <1>6 DEF Account!Next, Account!Assign
<1>7. CASE Charge(c)' = "exempt"
  <2>1. Account!Exempt({c}) BY <1>3, <1>7 DEF Account!Exempt
  <2> QED BY <2>1 DEF Account!Next
<1>8. CASE Charge(c) = "held" /\ Charge(c)' \in {"free", "spent"} /\ Payer(c)' = Payer(c)
  <2>1. CASE Charge(c)' = "free"
    <3>1. Account!Lapse({c}) BY <1>3, <1>8, <2>1 DEF Account!Lapse
    <3> QED BY <3>1 DEF Account!Next
  <2>2. CASE Charge(c)' = "spent"
    BY <1>3, <1>8, <2>2 DEF Account!Next, Account!Spend, Account!Becomes
  <2> QED BY <1>8, <2>1, <2>2
<1>9. CASE Charge(c) = "spent" /\ Charge(c)' \in {"free", "begun"} /\ Payer(c)' = Payer(c)
  BY <1>3, <1>9 DEF Account!Next, Account!Refund, Account!Begin, Account!Becomes
<1>10. CASE Takes(c)
  <2> DEFINE s == song[call[c].job]
  <2>1. call[c].job \in Jobs /\ s \in Songs /\ ~Full(s)
    BY <1>1, <1>10 DEF Takes, Reserve, TypeOK
  <2>2. Payer(c) = s BY <2>1 DEF Payer
  <2>3. Account!Occupants(s) \subseteq Occupants(s) /\ Occupants(s) \subseteq Calls
    BY <2>1, TakenIsCounted DEF Occupants
  <2>4. Cardinality(Account!Occupants(s)) < Cap
    <3>1. /\ Cardinality(Account!Occupants(s)) <= Cardinality(Occupants(s))
          /\ Cardinality(Account!Occupants(s)) \in Nat
          /\ Cardinality(Occupants(s)) \in Nat
      BY <2>3, CallsFinite, FS_Subset
    <3> QED BY <2>1, <3>1, VeoAssumption DEF VeoAssumption, Full
  <2> HIDE DEF s
  <2>5. Account!Take(c)
    <3>1. [d \in Calls |-> Payer(d)][c] = s BY <2>2
    <3>2. Account!Cardinality(Account!Occupants([d \in Calls |-> Payer(d)][c])) < Cap
      <4> DEFINE S == Account!Occupants([d \in Calls |-> Payer(d)][c])
      <4>1. Cardinality(S) < Cap BY <2>4, <3>1, Zenon
      <4> HIDE DEF S
      <4>2. Account!Cardinality(S) = Cardinality(S)
        BY DEF Account!Cardinality, Cardinality
      <4> QED BY <4>1, <4>2 DEF S
    <3>3. Account!Becomes(c, "held") BY <1>3, <1>10 DEF Takes, Account!Becomes
    <3> QED BY <1>10, <2>1, <3>1, <3>2, <3>3 DEF Takes, Account!Take
  <2> QED BY <2>5 DEF Account!Next
<1> QED BY <1>4, <1>5, <1>6, <1>7, <1>8, <1>9, <1>10 DEF Moves

(* A deletion gives up the slots of its job, and moves its spend.          *)
LEMMA DeleteImplements ==
  ASSUME IInv, NEW j \in Jobs, Delete(j)
  PROVE  Account!Next
<1>1. TypeOK /\ \A d \in Calls : Local(d) BY DEF IInv
<1>2. /\ call' = call /\ song' = song /\ renamed' = renamed
      /\ accepted' = accepted /\ uncounted' = uncounted
      /\ deletion[j] # NoSong
  BY DEF Delete, KeepGhosts
<1> DEFINE C == {c \in Calls : Charge(c)' # Charge(c)}
<1>3. ASSUME NEW c \in Calls
      PROVE  /\ Payer(c)' = Payer(c)
             /\ Charge(c)' # Charge(c) => Charge(c) = "held" /\ Charge(c)' = "free"
  <2>1. Payer(c)' = Payer(c) BY <1>2 DEF Payer
  <2>2. CASE c \in RowsOf(j)
    <3>1. row'[c] = "absent" /\ ~lease'[c] BY <2>2 DEF Delete
    <3>2. ledger'[c] = IF Billable(c) THEN deletion[j] ELSE ledger[c]
      BY <2>2 DEF Delete, Archived
    <3>3. ~Billable(c)' /\ ~Occupies(c)' BY <3>1 DEF Billable, Occupies
    <3>4. ledger[c] = NoSong BY <1>1, <2>2 DEF RowsOf, Local, RowOwned
    <3> QED BY <1>2, <2>1, <3>2, <3>3, <3>4 DEF Charge
  <2>3. CASE c \notin RowsOf(j)
    <3>1. row'[c] = row[c] /\ lease'[c] = lease[c] /\ ledger'[c] = ledger[c]
      BY <1>1, <2>3 DEF TypeOK, Delete, Archived
    <3>2. (Billable(c)' <=> Billable(c)) /\ (Occupies(c)' <=> Occupies(c))
      BY <3>1 DEF Billable, Occupies
    <3> QED BY <1>2, <2>1, <3>1, <3>2 DEF Charge
  <2> QED BY <2>2, <2>3
<1>4. Account!Lapse(C) BY <1>3 DEF Account!Lapse, Account!Others
<1> QED BY <1>4 DEF Account!Next

(* A renamed job leaves the account.                                       *)
LEMMA RenameImplements ==
  ASSUME IInv, NEW j \in Jobs, NEW s \in Songs, Rename(j, s)
  PROVE  Account!Next
<1>1. /\ row' = row /\ lease' = lease /\ ledger' = ledger
      /\ call' = call /\ accepted' = accepted /\ uncounted' = uncounted
      /\ renamed' = renamed \cup {j}
      /\ \A k \in Jobs : k # j => song'[k] = song[k]
  BY DEF Rename, IInv, TypeOK
<1> DEFINE C == {c \in Calls : call[c].job = j}
<1>2. ASSUME NEW c \in C PROVE Charge(c)' = "exempt" BY <1>1 DEF Charge
<1>3. ASSUME NEW c \in Calls \ C
      PROVE  Charge(c)' = Charge(c) /\ Payer(c)' = Payer(c)
  <2>1. (Billable(c)' <=> Billable(c)) /\ (Occupies(c)' <=> Occupies(c))
    BY <1>1 DEF Billable, Occupies
  <2> QED BY <1>1, <2>1 DEF Charge, Payer
<1>4. Account!Exempt(C) BY <1>2, <1>3 DEF Account!Exempt, Account!Others
<1> QED BY <1>4 DEF Account!Next

(* Rows, leases, locks, retries and deletions do nothing to the budget of  *)
(* a song that the abstract account does not allow.                        *)
THEOREM VeoImplementsSpend == Spec => ImplementsSpend
<1>1. Init => Account!Init
  <2> SUFFICES ASSUME Init, NEW c \in Calls PROVE Charge(c) = "free"
    BY DEF Account!Init
  <2> QED BY DEF Init, NewCall, Charge, Billable, Occupies
<1>2. IInv /\ [Next]_vars => [Account!Next]_(Account!spendVars)
  <2> SUFFICES ASSUME IInv, [Next]_vars
               PROVE  Account!Next \/ UNCHANGED Account!spendVars
    OBVIOUS
  <2>1. ASSUME NEW c \in Calls, Step(c)
        PROVE  Account!Next \/ UNCHANGED Account!spendVars
    BY <2>1, StepImplements
  <2>2. CASE Operators
    <3>1. ASSUME NEW j \in Jobs, RequestDelete(j)
          PROVE  UNCHANGED Account!spendVars
      BY <3>1 DEF RequestDelete, KeepGhosts, Account!spendVars, Charge, Payer,
                  Billable, Occupies
    <3> QED BY <2>2, <3>1, DeleteImplements, RenameImplements DEF Operators
  <2>3. CASE UNCHANGED vars
    BY <2>3 DEF vars, Account!spendVars, Charge, Payer, Billable, Occupies
  <2> QED BY <2>1, <2>2, <2>3 DEF Next
<1> QED BY <1>1, <1>2, Invariance, PTL DEF Spec, ImplementsSpend, Account!Spec
=============================================================================
