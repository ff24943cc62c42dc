------------------------ MODULE BookingOutcomeProofs ------------------------
(***************************************************************************)
(* Theorems about how a call of BookingService ends: with its whole list   *)
(* or with nothing, with an unlock job for every seat it took, and never   *)
(* refused without a reason.  OutcomeInv strengthens CreateInv by what a   *)
(* call knows at each point of its transaction.                            *)
(***************************************************************************)
EXTENDS BookingServiceProofs, FiniteSetTheorems

Distinct(list) == \A i, j \in 1 .. Len(list) : list[i] = list[j] => i = j

(* The row locks of the call keep it from taking a seat a second time, so  *)
(* a list that got through the loop names each seat once.                  *)
ListDistinct(r) ==
  /\ pc[r] = "locking" =>
       \A i, j \in 1 .. (pos[r] - 1) : seatIds[r][i] = seatIds[r][j] => i = j
  /\ pc[r] \in {"inserting", "scheduling", "committing"} \/ Exists(r) =>
       Distinct(seatIds[r])

RowsFollowList(r) ==
  /\ Exists(r) => bookingSeats[r] = Range(seatIds[r])
  /\ pc[r] = "created" => Exists(r)

(* The jobs of a call at each point: none before its second loop, one for  *)
(* every seat behind the position in it, all of them after it.             *)
JobsFollowLoop(r) ==
  /\ pc[r] \in {"idle", "locking", "inserting", "conflict", "notfound", "deadlocked"} =>
       \A s \in SeatId : UnlockJob(r, s) \notin jobs
  /\ pc[r] = "scheduling" =>
       \A i \in 1 .. Len(seatIds[r]) : i < pos[r] => UnlockJob(r, seatIds[r][i]) \in jobs
  /\ pc[r] = "committing" \/ Exists(r) =>
       \A i \in 1 .. Len(seatIds[r]) : UnlockJob(r, seatIds[r][i]) \in jobs

NotFoundJustified(r) ==
  pc[r] = "notfound" => \E i \in 1 .. Len(seatIds[r]) : seatIds[r][i] \notin Seat

(* The victim of a deadlock leaves a member of its cycle behind.           *)
DeadlockHasSurvivor ==
  (\E r \in Request : pc[r] = "deadlocked") =>
    \E r \in Request : pc[r] \notin {"idle", "deadlocked"}

(* The inductive invariant.                                                *)
OutcomeInv ==
  /\ \A r \in Request : /\ ListDistinct(r)
                        /\ RowsFollowList(r)
                        /\ JobsFollowLoop(r)
                        /\ NotFoundJustified(r)
  /\ ConflictJustified
  /\ DeadlockHasSurvivor

-----------------------------------------------------------------------------
(* Lists *)

(* A list without repetitions has as many seats as positions, and the      *)
(* other way round.                                                        *)
LEMMA DistinctCardinality ==
  ASSUME NEW list \in Seq(SeatId)
  PROVE  Distinct(list) <=> Cardinality(Range(list)) = Len(list)
  <1> DEFINE n == Len(list)
  <1>1. n \in Nat /\ list \in [1 .. n -> SeatId] /\ DOMAIN list = 1 .. n
    OBVIOUS
  <1>2. IsFiniteSet(1 .. n) /\ Cardinality(1 .. n) = n
    BY <1>1, FS_Interval
  <1>3. list \in Surjection(1 .. n, Range(list))
    BY <1>1 DEF Surjection, Range
  <1>4. Cardinality(Range(list)) = n <=> list \in Injection(1 .. n, Range(list))
    BY <1>2, <1>3, FS_Surjection
  <1>5. Distinct(list) <=> list \in Injection(1 .. n, Range(list))
    BY <1>1 DEF Distinct, Injection, IsInjective, Range
  <1>6. QED
    BY <1>4, <1>5

(* Jobs of different calls, or for different seats, are different.         *)
LEMMA JobNamesCall ==
  ASSUME NEW r, NEW s, NEW q, NEW u, UnlockJob(r, s) = UnlockJob(q, u)
  PROVE  r = q /\ s = u
  <1>1. UnlockJob(r, s).id = <<r, s>> /\ UnlockJob(q, u).id = <<q, u>>
    BY DEF UnlockJob
  <1>2. QED
    BY <1>1

-----------------------------------------------------------------------------
(* What a step of call r leaves as it was *)

(* The position of the others, their rows and their jobs.                  *)
LEMMA OthersUntouched ==
  ASSUME CreateInv, NEW r \in Request, CreateStep(r), NEW q \in Request \ {r}
  PROVE  /\ Unmoved(q)
         /\ bookings'[q] = bookings[q] /\ bookingSeats'[q] = bookingSeats[q]
         /\ \A s \in SeatId : UnlockJob(q, s) \in jobs' <=> UnlockJob(q, s) \in jobs
  <1> USE DEF CreateInv, CreateTypeOK, StorageTypeOK
  <1>1. Unmoved(q)
    BY DEF CreateStep, Proceed, Begin, LockSeat, SeatTaken, SeatUnknown, SeatsLocked,
           InsertRows, AddJob, JobsAdded, Abort, Deadlock, Rollback, Commit,
           CommitUnanswered, Goto, Unmoved
  <1>2. bookings'[q] = bookings[q] /\ bookingSeats'[q] = bookingSeats[q]
    BY DEF CreateStep, Proceed, Begin, LockSeat, SeatTaken, SeatUnknown, SeatsLocked,
           InsertRows, AddJob, JobsAdded, Abort, Deadlock, Rollback, Commit,
           CommitUnanswered, CommitRows, BookingCreated, BookingSeatsCreated, storage
  <1>3. jobs' = jobs \/ jobs' = jobs \cup {UnlockJob(r, CurrentSeat(r))}
    BY DEF CreateStep, Proceed, Begin, LockSeat, SeatTaken, SeatUnknown, SeatsLocked,
           InsertRows, AddJob, JobsAdded, Abort, Deadlock, Rollback, Commit,
           CommitUnanswered, CommitRows, storage
  <1>4. QED
    BY <1>1, <1>2, <1>3, JobNamesCall

(* A claim, once made, stays.                                              *)
LEMMA ClaimsGrow ==
  ASSUME CreateInv, [CreateNext]_createVars, NEW q \in Request
  PROVE  Claims(q) \subseteq Claims(q)'
  <1>1. CASE ~ \E r \in Request : Commit(r) \/ CommitUnanswered(r)
    BY <1>1, OnlyCommitWrites
  <1>2. ASSUME NEW r \in Request, Commit(r) \/ CommitUnanswered(r)
        PROVE  Claims(q) \subseteq Claims(q)'
    <2>1. CommitRows(r) /\ pc[r] = "committing"
      BY <1>2, CommitIsOne
    <2>2. Claims(r) = {}
      BY <2>1, CommitFacts, ClaimsAreLocked
    <2>3. QED
      BY <2>1, <2>2, CommitEffect
  <1>3. QED
    BY <1>1, <1>2

(* What is said of another call.                                           *)
CallOutcome(r) ==
  ListDistinct(r) /\ RowsFollowList(r) /\ JobsFollowLoop(r) /\ NotFoundJustified(r)

LEMMA OtherOutcome ==
  ASSUME CreateInv, OutcomeInv, NEW r \in Request, CreateStep(r), NEW q \in Request \ {r}
  PROVE  CallOutcome(q)'
  <1>1. /\ pc'[q] = pc[q] /\ pos'[q] = pos[q] /\ seatIds'[q] = seatIds[q]
        /\ bookings'[q] = bookings[q] /\ bookingSeats'[q] = bookingSeats[q]
        /\ \A s \in SeatId : UnlockJob(q, s) \in jobs' <=> UnlockJob(q, s) \in jobs
    BY OthersUntouched DEF Unmoved
  <1>2. CallOutcome(q)
    BY DEF OutcomeInv, CallOutcome
  <1>3. Exists(q)' <=> Exists(q)
    BY <1>1 DEF Exists
  <1>4. ListDistinct(q)' /\ RowsFollowList(q)' /\ NotFoundJustified(q)'
    BY <1>1, <1>2, <1>3
    DEF CallOutcome, ListDistinct, RowsFollowList, NotFoundJustified, Distinct
  <1>5. \A i \in 1 .. Len(seatIds[q]) : seatIds[q][i] \in SeatId
    BY ListElement DEF CreateInv, CreateTypeOK
  <1>6. JobsFollowLoop(q)'
    BY <1>1, <1>2, <1>3, <1>5 DEF CallOutcome, JobsFollowLoop
  <1>7. QED
    BY <1>4, <1>6 DEF CallOutcome

-----------------------------------------------------------------------------
(* What a step of call r does to r *)

(* A call has no rows until its commit.                                    *)
LEMMA NoRowsYet ==
  ASSUME CreateInv, NEW r \in Request, pc[r] \notin {"created", "failed"}
  PROVE  ~Exists(r)
  BY DEF CreateInv, RowsAfterCommit

LEMMA QuietOutcome ==
  ASSUME CreateInv, OutcomeInv, NEW r \in Request, Quiet(r)
  PROVE  CallOutcome(r)'
  <1> DEFINE n == Len(seatIds[r])
  <1> USE DEF InTransaction
  <1>1. /\ seatIds[r] \in Seq(SeatId) /\ n \in Nat /\ pos[r] \in Nat \ {0}
        /\ pc \in [Request -> {"idle"} \cup InTransaction \cup Ended]
        /\ pos \in [Request -> Nat \ {0}]
    BY DEF CreateInv, CreateTypeOK
  <1>2. ~Exists(r) /\ ~Exists(r)'
    BY NoRowsYet, QuietFacts DEF Exists, Ended, Rejected
  <1>3. CallOutcome(r)
    BY DEF OutcomeInv, CallOutcome
  <1>4. CASE Begin(r)
    <2>1. pc[r] = "idle" /\ pc'[r] = "locking" /\ pos'[r] = 1 /\ jobs' = jobs
      BY <1>1, <1>4 DEF Begin, Goto, storage
    <2>2. QED
      BY <1>2, <1>3, <2>1
      DEF CallOutcome, ListDistinct, RowsFollowList, JobsFollowLoop, NotFoundJustified
  <1>5. CASE SeatsLocked(r)
    <2>1. /\ pc[r] = "locking" /\ pc'[r] = "inserting" /\ pos[r] > n
          /\ jobs' = jobs /\ seatIds' = seatIds
      BY <1>1, <1>5 DEF SeatsLocked, Goto, storage
    <2>2. Distinct(seatIds[r])
      BY <1>1, <1>3, <2>1 DEF CallOutcome, ListDistinct, Distinct
    <2>3. QED
      BY <1>2, <1>3, <2>1, <2>2
      DEF CallOutcome, ListDistinct, RowsFollowList, JobsFollowLoop, NotFoundJustified,
          Distinct
  <1>6. CASE InsertRows(r)
    <2>1. /\ pc[r] = "inserting" /\ pc'[r] = "scheduling" /\ pos'[r] = 1
          /\ jobs' = jobs /\ seatIds' = seatIds
      BY <1>1, <1>6 DEF InsertRows, Goto, storage
    <2>2. QED
      BY <1>2, <1>3, <2>1
      DEF CallOutcome, ListDistinct, RowsFollowList, JobsFollowLoop, NotFoundJustified,
          Distinct
  <1>7. CASE AddJob(r)
    <2>1. /\ pc[r] = "scheduling" /\ pc'[r] = "scheduling" /\ pos'[r] = pos[r] + 1
          /\ jobs' = jobs \cup {UnlockJob(r, seatIds[r][pos[r]])} /\ seatIds' = seatIds
      BY <1>1, <1>7 DEF AddJob, Goto, CurrentSeat
    <2>2. \A i \in 1 .. n : i < pos[r] + 1 => UnlockJob(r, seatIds[r][i]) \in jobs'
      BY <1>1, <1>3, <2>1 DEF CallOutcome, JobsFollowLoop
    <2>3. QED
      BY <1>2, <1>3, <2>1, <2>2
      DEF CallOutcome, ListDistinct, RowsFollowList, JobsFollowLoop, NotFoundJustified,
          Distinct
  <1>8. CASE JobsAdded(r)
    <2>1. /\ pc[r] = "scheduling" /\ pc'[r] = "committing" /\ pos[r] > n
          /\ jobs' = jobs /\ seatIds' = seatIds
      BY <1>1, <1>8 DEF JobsAdded, Goto, storage
    <2>2. \A i \in 1 .. n : UnlockJob(r, seatIds[r][i]) \in jobs'
      BY <1>1, <1>3, <2>1 DEF CallOutcome, JobsFollowLoop
    <2>3. QED
      BY <1>2, <1>3, <2>1, <2>2
      DEF CallOutcome, ListDistinct, RowsFollowList, JobsFollowLoop, NotFoundJustified,
          Distinct
  <1>9. QED
    BY <1>4, <1>5, <1>6, <1>7, <1>8 DEF Quiet

(* The seat it locks is none of those it has locked before.                *)
LEMMA LockOutcome ==
  ASSUME CreateInv, OutcomeInv, NEW r \in Request, LockSeat(r)
  PROVE  CallOutcome(r)'
  <1> DEFINE n == pos[r]
             list == seatIds[r]
  <1>1. /\ n \in Nat \ {0} /\ n <= Len(list) /\ list \in Seq(SeatId)
        /\ list[n] \in Seat /\ seatLock[list[n]] = NoTxn
        /\ pc[r] = "locking" /\ pc'[r] = "locking" /\ pos'[r] = n + 1
        /\ jobs' = jobs /\ seatIds' = seatIds /\ bookings' = bookings
    BY LockFacts DEF CreateInv, CallsInv, CreateTypeOK
  <1>2. CallOutcome(r)
    BY DEF OutcomeInv, CallOutcome
  <1>3. list[n] \notin {list[i] : i \in 1 .. (n - 1)}
    <2>1. LockedBy(r) = {list[i] : i \in 1 .. (n - 1)}
      BY <1>1 DEF CreateInv, LocksFollowLoop, LocksFollow
    <2>2. list[n] \notin LockedBy(r)
      BY <1>1, StorageAssumption DEF LockedBy, Txn
    <2>3. QED
      BY <2>1, <2>2
  <1>4. \A i, j \in 1 .. n : list[i] = list[j] => i = j
    <2>1. \A i, j \in 1 .. (n - 1) : list[i] = list[j] => i = j
      BY <1>1, <1>2 DEF CallOutcome, ListDistinct
    <2>2. QED
      BY <1>1, <1>3, <2>1
  <1>5. ~Exists(r) /\ ~Exists(r)'
    BY <1>1, NoRowsYet DEF Exists
  <1>6. ListDistinct(r)'
    BY <1>1, <1>4, <1>5 DEF ListDistinct
  <1>7. QED
    BY <1>1, <1>2, <1>5, <1>6
    DEF CallOutcome, RowsFollowList, JobsFollowLoop, NotFoundJustified

(* A refusal comes before the first job, and a 404 names its seat.         *)
LEMMA RollbackOutcome ==
  ASSUME CreateInv, OutcomeInv, NEW r \in Request,
         SeatTaken(r) \/ SeatUnknown(r) \/ Abort(r) \/ Deadlock(r)
  PROVE  CallOutcome(r)'
  <1>1. /\ seatIds[r] \in Seq(SeatId) /\ pos[r] \in Nat \ {0}
        /\ pc \in [Request -> {"idle"} \cup InTransaction \cup Ended]
    BY DEF CreateInv, CreateTypeOK
  <1>2. CallOutcome(r)
    BY DEF OutcomeInv, CallOutcome
  <1>3. UNCHANGED <<bookings, bookingSeats, jobs, seatIds, pos>>
    BY DEF SeatTaken, SeatUnknown, Abort, Deadlock, Rollback
  <1>4. ~Exists(r) /\ ~Exists(r)'
    BY <1>3, RollbackSteps, NoRowsYet DEF Exists, InTransaction
  <1>5. CASE Abort(r)
    <2>1. pc'[r] = "failed"
      BY <1>1, <1>5 DEF Abort, Rollback
    <2>2. QED
      BY <1>4, <2>1
      DEF CallOutcome, ListDistinct, RowsFollowList, JobsFollowLoop, NotFoundJustified
  <1>6. CASE SeatTaken(r) \/ SeatUnknown(r) \/ Deadlock(r)
    <2>1. pc[r] = "locking" /\ pc'[r] \in {"conflict", "notfound", "deadlocked"}
      BY <1>1, <1>6
      DEF SeatTaken, SeatUnknown, Deadlock, InCycle, Waiting, AtSeat, Rollback
    <2>2. JobsFollowLoop(r)'
      BY <1>2, <1>3, <1>4, <2>1 DEF CallOutcome, JobsFollowLoop
    <2>3. NotFoundJustified(r)'
      <3>1. CASE SeatUnknown(r)
        BY <1>1, <1>3, <3>1, StorageAssumption
        DEF SeatUnknown, AtSeat, CurrentSeat, NotFoundJustified
      <3>2. CASE SeatTaken(r) \/ Deadlock(r)
        <4>1. pc'[r] # "notfound"
          BY <1>1, <3>2 DEF SeatTaken, Deadlock, Rollback
        <4>2. QED
          BY <4>1 DEF NotFoundJustified
      <3>3. QED
        BY <1>6, <3>1, <3>2
    <2>4. QED
      BY <1>4, <2>1, <2>2, <2>3 DEF CallOutcome, ListDistinct, RowsFollowList
  <1>7. QED
    BY <1>5, <1>6

(* COMMIT makes rows of what the transaction has locked and scheduled.     *)
LEMMA CommitOutcome ==
  ASSUME CreateInv, OutcomeInv, NEW r \in Request, Commit(r) \/ CommitUnanswered(r)
  PROVE  CallOutcome(r)'
  <1>1. CommitRows(r) /\ pc[r] = "committing" /\ jobs' = jobs /\ seatIds' = seatIds
    BY CommitSteps
  <1>2. pc'[r] \in {"created", "failed"}
    BY CommitSteps DEF CreateInv, CreateTypeOK
  <1>3. CallOutcome(r)
    BY DEF OutcomeInv, CallOutcome
  <1>4. Exists(r)' /\ bookingSeats'[r] = Range(seatIds[r])
    BY <1>1, CommitEffect, CommitFacts DEF Exists, PendingBooking
  <1>5. QED
    BY <1>1, <1>2, <1>3, <1>4
    DEF CallOutcome, ListDistinct, RowsFollowList, JobsFollowLoop, NotFoundJustified,
        Distinct

LEMMA OwnOutcome ==
  ASSUME CreateInv, OutcomeInv, NEW r \in Request, CreateStep(r)
  PROVE  CallOutcome(r)'
  <1>1. CASE Quiet(r)
    BY <1>1, QuietOutcome
  <1>2. CASE LockSeat(r)
    BY <1>2, LockOutcome
  <1>3. CASE SeatTaken(r) \/ SeatUnknown(r) \/ Abort(r) \/ Deadlock(r)
    BY <1>3, RollbackOutcome
  <1>4. CASE Commit(r) \/ CommitUnanswered(r)
    BY <1>4, CommitOutcome
  <1>5. QED
    BY <1>1, <1>2, <1>3, <1>4 DEF CreateStep, Proceed, Quiet

-----------------------------------------------------------------------------
(* Refusals *)

Justified(q) ==
  \E i \in DOMAIN seatIds[q] :
    \/ InitialStatus[seatIds[q][i]] # "AVAILABLE"
    \/ \E p \in Request \ {q} : seatIds[q][i] \in Claims(p)
    \/ \E j \in DOMAIN seatIds[q] : j < i /\ seatIds[q][j] = seatIds[q][i]

(* At the moment of a 409 the seat is as seeded, claimed by a committed    *)
(* booking, or locked by the call itself.                                  *)
LEMMA TakenJustified ==
  ASSUME CreateInv, SeatsAccountedFor, NEW r \in Request, SeatTaken(r)
  PROVE  Justified(r)
  <1> DEFINE list == seatIds[r]
             n == pos[r]
             s == list[n]
  <1>1. /\ list \in Seq(SeatId) /\ n \in Nat \ {0} /\ n <= Len(list)
        /\ pc[r] = "locking" /\ s \in Seat
        /\ seats[s].status # "AVAILABLE" \/ seatLock[s] = r
    BY DEF SeatTaken, AtSeat, Matches, CurrentSeat, CreateInv, CreateTypeOK
  <1>2. DOMAIN list = 1 .. Len(list) /\ n \in DOMAIN list
    BY <1>1
  <1>3. CASE seatLock[s] = r
    <2>1. s \in LockedBy(r)
      BY <1>1, <1>3 DEF LockedBy
    <2>2. LockedBy(r) = {list[i] : i \in 1 .. (n - 1)}
      BY <1>1 DEF CreateInv, LocksFollowLoop, LocksFollow
    <2>3. PICK j \in 1 .. (n - 1) : list[j] = s
      BY <2>1, <2>2
    <2>4. j \in DOMAIN list /\ j < n
      BY <1>1, <1>2
    <2>5. QED
      BY <1>2, <2>3, <2>4 DEF Justified
  <1>4. CASE seats[s].status # "AVAILABLE"
    <2>1. Claims(r) = {}
      BY <1>1, NoRowsYet DEF Claims, Live
    <2>2. CASE \E p \in Request : s \in Claims(p)
      BY <1>2, <2>1, <2>2 DEF Justified
    <2>3. CASE ~ \E p \in Request : s \in Claims(p)
      <3>1. seats[s] = [status |-> InitialStatus[s], version |-> 0]
        BY <1>1, <2>3 DEF SeatsAccountedFor
      <3>2. InitialStatus[s] # "AVAILABLE"
        BY <1>4, <3>1
      <3>3. QED
        BY <1>2, <3>2 DEF Justified
    <2>4. QED
      BY <2>2, <2>3
  <1>5. QED
    BY <1>1, <1>3, <1>4

(* A call that has ended does not move, so what justified it stays.        *)
LEMMA ConflictStep ==
  ASSUME CreateInv, SeatsAccountedFor, OutcomeInv, NEW r \in Request, CreateStep(r)
  PROVE  ConflictJustified'
  <1>1. \A q \in Request : Claims(q) \subseteq Claims(q)'
    BY ClaimsGrow DEF CreateNext
  <1>2. pc[r] # "conflict"
    BY RollbackSteps, QuietFacts, CommitSteps
    DEF CreateStep, Proceed, Quiet, LockSeat, AtSeat, InTransaction, Ended, Rejected
  <1>3. ASSUME NEW q \in Request, pc'[q] = "conflict"
        PROVE  Justified(q) /\ seatIds'[q] = seatIds[q]
    <2>1. CASE q = r
      <3>1. SeatTaken(r)
        BY <1>3, <2>1
        DEF CreateStep, Proceed, Begin, LockSeat, SeatUnknown, SeatsLocked, InsertRows,
            AddJob, JobsAdded, Abort, Deadlock, Rollback, Commit, CommitUnanswered, Goto,
            CreateInv, CreateTypeOK
      <3>2. QED
        BY <2>1, <3>1, TakenJustified DEF SeatTaken, Rollback
    <2>2. CASE q # r
      <3>1. pc'[q] = pc[q] /\ seatIds'[q] = seatIds[q]
        BY <2>2, OthersUntouched DEF Unmoved
      <3>2. QED
        BY <1>3, <3>1 DEF OutcomeInv, ConflictJustified, Justified
    <2>3. QED
      BY <2>1, <2>2
  <1>4. QED
    BY <1>1, <1>3 DEF ConflictJustified, Justified

(* Whoever waits for the victim of a deadlock waits for another call than  *)
(* itself, and is still there when the victim has been rolled back.        *)
LEMMA SurvivorStep ==
  ASSUME CreateInv, OutcomeInv, NEW r \in Request, CreateStep(r)
  PROVE  DeadlockHasSurvivor'
  <1> USE DEF CreateInv, CreateTypeOK
  <1>1. CASE Deadlock(r)
    <2>1. PICK q \in Request : Waiting(q) /\ seatLock[CurrentSeat(q)] = r
      BY <1>1 DEF Deadlock, InCycle
    <2>2. q # r
      BY <2>1 DEF Waiting, Matches
    <2>3. pc'[q] = pc[q] /\ pc[q] = "locking"
      BY <2>1, <2>2, OthersUntouched DEF Unmoved, Waiting, AtSeat
    <2>4. QED
      BY <2>3 DEF DeadlockHasSurvivor
  <1>2. CASE ~Deadlock(r)
    <2>1. pc'[r] \notin {"idle", "deadlocked"}
      BY <1>2
      DEF CreateStep, Proceed, Begin, LockSeat, SeatTaken, SeatUnknown, SeatsLocked,
          InsertRows, AddJob, JobsAdded, Abort, Rollback, Commit, CommitUnanswered, Goto
    <2>2. QED
      BY <2>1 DEF DeadlockHasSurvivor
  <1>3. QED
    BY <1>1, <1>2

-----------------------------------------------------------------------------

LEMMA OutcomeInit == CreateInit => OutcomeInv
  <1> SUFFICES ASSUME CreateInit PROVE OutcomeInv
    OBVIOUS
  <1>1. \A r \in Request : pc[r] = "idle" /\ ~Exists(r) /\ jobs = {}
    BY DEF CreateInit, StorageInit, Exists, NoBooking
  <1>2. QED
    BY <1>1
    DEF OutcomeInv, ListDistinct, RowsFollowList, JobsFollowLoop, NotFoundJustified,
        ConflictJustified, DeadlockHasSurvivor

LEMMA OutcomeStep ==
  ASSUME CreateInv, SeatsAccountedFor, OutcomeInv, [CreateNext]_createVars
  PROVE  OutcomeInv'
  <1>1. ASSUME NEW r \in Request, CreateStep(r)
        PROVE  OutcomeInv'
    <2>1. \A q \in Request : CallOutcome(q)'
      BY <1>1, OwnOutcome, OtherOutcome
    <2>2. QED
      BY <1>1, <2>1, ConflictStep, SurvivorStep DEF OutcomeInv, CallOutcome
  <1>2. CASE UNCHANGED createVars
    BY <1>2
    DEF createVars, storage, bookingVars, OutcomeInv, ListDistinct, RowsFollowList,
        JobsFollowLoop, NotFoundJustified, ConflictJustified, DeadlockHasSurvivor,
        Exists, Distinct, Claims, Live
  <1>3. QED
    BY <1>1, <1>2 DEF CreateNext

(* The strengthened invariant holds of every behaviour.                    *)
THEOREM OutcomeInvariance == CreateSpec => []OutcomeInv
  <1>1. CreateInv /\ SeatsAccountedFor /\ OutcomeInv /\ [CreateNext]_createVars
          => OutcomeInv'
    BY OutcomeStep
  <1>2. QED
    BY <1>1, OutcomeInit, Invariance, SeatsAccounted, PTL DEF CreateSpec

(* A committed booking has all the seats of its list, each once, and a     *)
(* call that answered 201 has its booking.                                 *)
THEOREM WholeListBooked == CreateSpec => []WholeListOrNothing
  <1>1. CreateInv /\ OutcomeInv => WholeListOrNothing
    <2> SUFFICES ASSUME CreateInv, OutcomeInv, NEW r \in Request
                 PROVE  /\ Exists(r) => /\ bookingSeats[r] = Range(seatIds[r])
                                        /\ Cardinality(bookingSeats[r]) = Len(seatIds[r])
                        /\ pc[r] = "created" => Exists(r)
      BY DEF WholeListOrNothing
    <2>1. seatIds[r] \in Seq(SeatId)
      BY DEF CreateInv, CreateTypeOK
    <2>2. /\ Exists(r) => bookingSeats[r] = Range(seatIds[r]) /\ Distinct(seatIds[r])
          /\ pc[r] = "created" => Exists(r)
      BY DEF OutcomeInv, ListDistinct, RowsFollowList
    <2>3. QED
      BY <2>1, <2>2, DistinctCardinality
  <1>2. QED
    BY <1>1, Invariance, OutcomeInvariance, PTL

(* No booking is ever committed without an unlock job for each of its      *)
(* seats, however the commit of the transaction and Redis fail.            *)
THEOREM JobsBeforeCommit == CreateSpec => []BookingsHaveJobs
  <1>1. CreateInv /\ OutcomeInv => BookingsHaveJobs
    <2> SUFFICES ASSUME CreateInv, OutcomeInv, NEW r \in Request, NEW s \in bookingSeats[r]
                 PROVE  UnlockJob(r, s) \in jobs
      BY DEF BookingsHaveJobs
    <2>1. Exists(r)
      BY DEF CreateInv, RowsAfterCommit
    <2>2. seatIds[r] \in Seq(SeatId) /\ s \in Range(seatIds[r])
      BY <2>1 DEF CreateInv, CreateTypeOK, OutcomeInv, RowsFollowList
    <2>3. PICK i \in 1 .. Len(seatIds[r]) : s = seatIds[r][i]
      BY <2>2 DEF Range
    <2>4. QED
      BY <2>1, <2>3 DEF OutcomeInv, JobsFollowLoop
  <1>2. QED
    BY <1>1, Invariance, OutcomeInvariance, PTL

(* A call that answers 404 or 409, or is sacrificed to a deadlock, leaves  *)
(* no row, no lock and no job behind.                                      *)
THEOREM RefusalsLeaveNothing == CreateSpec => []RefusalLeavesNothing
  <1>1. CreateInv /\ OutcomeInv => RefusalLeavesNothing
    <2> SUFFICES ASSUME CreateInv, OutcomeInv, NEW r \in Request,
                        pc[r] \in {"conflict", "notfound", "deadlocked"}
                 PROVE  /\ ~Exists(r)
                        /\ LockedBy(r) = {}
                        /\ \A s \in SeatId : UnlockJob(r, s) \notin jobs
      BY DEF RefusalLeavesNothing
    <2>1. ~Exists(r)
      BY NoRowsYet
    <2>2. LockedBy(r) = {}
      BY DEF CreateInv, LocksFollowLoop, LocksFollow, InTransaction
    <2>3. QED
      BY <2>1, <2>2 DEF OutcomeInv, JobsFollowLoop
  <1>2. QED
    BY <1>1, Invariance, OutcomeInvariance, PTL

(* A 409 is never the doing of a transaction that rolled back.             *)
THEOREM ConflictsJustified == CreateSpec => []ConflictJustified
  <1>1. OutcomeInv => ConflictJustified
    BY DEF OutcomeInv
  <1>2. QED
    BY <1>1, OutcomeInvariance, PTL

(* Callers with bookable lists do not all lose.                            *)
THEOREM SomebodyWins == CreateSpec => []NotEverybodyLoses
  <1>1. CreateInv /\ OutcomeInv => NotEverybodyLoses
    <2> DEFINE Started == {r \in Request : pc[r] # "idle"}
    <2> SUFFICES ASSUME CreateInv, OutcomeInv, Started # {},
                        \A r \in Started : pc[r] \in Ended /\ Bookable(seatIds[r]),
                        \A r \in Started : pc[r] \notin {"created", "failed"}
                 PROVE  FALSE
      BY DEF NotEverybodyLoses
    <2>1. \A r \in Request : pc[r] \notin {"created", "failed"}
      OBVIOUS
    <2>2. \A r \in Request : Claims(r) = {}
      BY <2>1 DEF CreateInv, RowsAfterCommit, Claims, Live
    <2>3. ASSUME NEW r \in Started
          PROVE  pc[r] = "deadlocked"
      <3> DEFINE list == seatIds[r]
      <3>1. list \in Seq(SeatId) /\ DOMAIN list = 1 .. Len(list) /\ Bookable(list)
        BY <2>3 DEF CreateInv, CreateTypeOK
      <3>2. Distinct(list)
        BY <3>1, DistinctCardinality DEF Bookable
      <3>3. \A i \in DOMAIN list : list[i] \in Seat /\ InitialStatus[list[i]] = "AVAILABLE"
        BY <3>1 DEF Bookable, Range
      <3>4. pc[r] # "notfound"
        BY <2>3, <3>1, <3>3 DEF OutcomeInv, NotFoundJustified
      <3>5. pc[r] # "conflict"
        BY <2>2, <2>3, <3>1, <3>2, <3>3 DEF OutcomeInv, ConflictJustified, Distinct
      <3>6. QED
        BY <2>1, <2>3, <3>4, <3>5 DEF Ended, Rejected
    <2>4. QED
      BY <2>3 DEF OutcomeInv, DeadlockHasSurvivor
  <1>2. QED
    BY <1>1, Invariance, OutcomeInvariance, PTL

=============================================================================
