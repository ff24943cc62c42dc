------------------------ MODULE BookingServiceProofs ------------------------
(***************************************************************************)
(* Theorems about BookingService for every set of seats, calls and lists.  *)
(* CreateInv is inductive; the lemmas below prove that each action keeps   *)
(* it, in four groups: steps that touch no row and no lock, the step that  *)
(* takes a lock, the steps that roll back, and the two ways COMMIT takes   *)
(* effect.                                                                 *)
(***************************************************************************)
EXTENDS BookingService, TLAPS

(* The seeded system satisfies the invariant.                              *)
LEMMA InitInv == CreateInit => CreateInv
  <1> SUFFICES ASSUME CreateInit PROVE CreateInv
    OBVIOUS
  <1> USE StorageAssumption, ListAssumption
      DEF CreateInit, StorageInit, NoBooking, Exists, Live, Claims
  <1>1. CreateTypeOK
    <2>1. StorageTypeOK
      BY DEF StorageTypeOK, SeatModel, BookingModel, BookingStatusEnum
    <2>2. QED
      BY <2>1 DEF CreateTypeOK
  <1>2. LocksFollowLoop
    BY DEF LocksFollowLoop, LocksFollow, LockedBy, Txn, InTransaction
  <1>3. LockedSeatsAvailable
    BY DEF LockedSeatsAvailable
  <1>4. RowsAfterCommit /\ NoDoubleClaim
    BY DEF RowsAfterCommit, NoDoubleClaim
  <1>5. QED
    BY <1>1, <1>2, <1>3, <1>4 DEF CreateInv

-----------------------------------------------------------------------------

(* A call that has not reached its end has no rows, so moving it inside    *)
(* its transaction disturbs nothing that is said of rows.                  *)
LEMMA RowsUntouched ==
  ASSUME CreateInv, NEW r \in Request, NEW p,
         pc[r] \notin {"created", "failed"},
         pc' = [pc EXCEPT ![r] = p],
         UNCHANGED <<seats, bookings, bookingSeats>>
  PROVE  RowsAfterCommit' /\ NoDoubleClaim'
  <1>1. NoDoubleClaim'
    BY DEF CreateInv, NoDoubleClaim, Claims, Live, Exists
  <1>2. ~Exists(r)
    BY DEF CreateInv, RowsAfterCommit
  <1>3. ASSUME NEW q \in Request, Exists(q)
        PROVE  pc'[q] \in {"created", "failed"}
    <2>1. q # r
      BY <1>2, <1>3
    <2>2. pc'[q] = pc[q]
      BY <2>1 DEF CreateInv, CreateTypeOK
    <2>3. QED
      BY <1>3, <2>2 DEF CreateInv, RowsAfterCommit
  <1>4. RowsAfterCommit'
    BY <1>3 DEF CreateInv, RowsAfterCommit, Exists
  <1>5. QED
    BY <1>1, <1>4

(* A seat of a list at a position of the list is a seat id.                *)
LEMMA ListElement ==
  ASSUME NEW s \in Seq(SeatId), NEW i \in 1 .. Len(s)
  PROVE  s[i] \in SeatId
  OBVIOUS

(* What is said of calls alone: also of calls among other actors.          *)
CallsInv == CreateTypeOK /\ LocksFollowLoop

Unmoved(q) == pc'[q] = pc[q] /\ pos'[q] = pos[q] /\ seatIds'[q] = seatIds[q]

(* A step of one call that leaves the position and the locks of the others *)
(* alone has to be looked at for that call only.                           *)
LEMMA OthersFollow ==
  ASSUME LocksFollowLoop, NEW r \in Request, LocksFollow(r)',
         \A q \in Request \ {r} : Unmoved(q) /\ LockedBy(q)' = LockedBy(q)
  PROVE  LocksFollowLoop'
  BY DEF LocksFollowLoop, LocksFollow, Unmoved

(* The end of a transaction takes the locks of its call and no others.     *)
LEMMA ReleaseFollows ==
  ASSUME LocksFollowLoop, NEW r \in Request, Release(r), pc'[r] \notin InTransaction,
         \A q \in Request \ {r} : Unmoved(q)
  PROVE  LocksFollowLoop'
  <1>1. seatLock' = [s \in Seat |-> IF seatLock[s] = r THEN NoTxn ELSE seatLock[s]]
    BY DEF Release
  <1>2. LockedBy(r)' = {}
    BY <1>1, StorageAssumption DEF LockedBy, Txn
  <1>3. \A q \in Request \ {r} : LockedBy(q)' = LockedBy(q)
    BY <1>1, StorageAssumption DEF LockedBy, Txn
  <1>4. LocksFollow(r)'
    BY <1>2 DEF LocksFollow, InTransaction
  <1>5. QED
    BY <1>3, <1>4, OthersFollow

-----------------------------------------------------------------------------
(* Steps that change neither rows nor locks *)

Quiet(r) == Begin(r) \/ SeatsLocked(r) \/ InsertRows(r) \/ AddJob(r) \/ JobsAdded(r)

(* What BEGIN, and the moves from one loop to the next, leave alone.       *)
LEMMA QuietFacts ==
  ASSUME NEW r \in Request, Quiet(r)
  PROVE  /\ UNCHANGED <<seats, bookings, bookingSeats, seatLock, bookingLock>>
         /\ \E p \in InTransaction : pc' = [pc EXCEPT ![r] = p]
         /\ pc[r] \notin Ended
  BY DEF Quiet, Begin, SeatsLocked, InsertRows, AddJob, JobsAdded, Goto, storage,
         InTransaction, Ended, Rejected

(* ... and what they keep of every call.                                   *)
LEMMA QuietCalls ==
  ASSUME CallsInv, NEW r \in Request, Quiet(r)
  PROVE  CallsInv'
  <1> USE DEF Quiet, Goto, bookingVars, storage
  <1>1. UNCHANGED <<seats, bookings, bookingSeats, seatLock, bookingLock>>
    BY QuietFacts
  <1>2. PICK p \in InTransaction : pc' = [pc EXCEPT ![r] = p]
    BY QuietFacts
  <1>3. CreateTypeOK'
    <2>1. jobs' \subseteq UnlockJobs
      <3>1. CASE AddJob(r)
        <4>1. CurrentSeat(r) \in SeatId
          BY <3>1, ListElement DEF AddJob, CurrentSeat, CallsInv, CreateTypeOK
        <4>2. QED
          BY <3>1, <4>1
          DEF AddJob, UnlockJobs, CallsInv, CreateTypeOK, StorageTypeOK
      <3>2. CASE ~AddJob(r)
        BY <3>2
        DEF Begin, SeatsLocked, InsertRows, JobsAdded, CallsInv, CreateTypeOK,
            StorageTypeOK
      <3>3. QED
        BY <3>1, <3>2
    <2>2. StorageTypeOK'
      BY <1>1, <2>1 DEF CallsInv, CreateTypeOK, StorageTypeOK
    <2>3. seatIds' \in [Request -> Seq(SeatId)]
      BY ListAssumption
      DEF Begin, SeatsLocked, InsertRows, AddJob, JobsAdded, CallsInv, CreateTypeOK
    <2>4. pos' \in [Request -> Nat \ {0}]
      BY DEF Begin, SeatsLocked, InsertRows, AddJob, JobsAdded, CallsInv, CreateTypeOK
    <2>5. QED
      BY <1>2, <2>2, <2>3, <2>4 DEF CallsInv, CreateTypeOK
  <1>4. LocksFollow(r)'
    <2>1. LockedBy(r)' = LockedBy(r)
      BY <1>1 DEF LockedBy
    <2>2. LocksFollow(r)
      BY DEF CallsInv, LocksFollowLoop
    <2>3. CASE Begin(r)
      <3>1. pc'[r] = "locking" /\ pos'[r] = 1 /\ seatIds'[r] \in Seq(SeatId)
        BY <2>3, <1>3 DEF Begin, CallsInv, CreateTypeOK
      <3>2. LockedBy(r) = {}
        BY <2>2, <2>3 DEF Begin, LocksFollow, InTransaction
      <3>3. QED
        BY <2>1, <3>1, <3>2 DEF LocksFollow, InTransaction
    <2>4. CASE SeatsLocked(r)
      <3> DEFINE n == Len(seatIds[r])
      <3>1. seatIds[r] \in Seq(SeatId) /\ n \in Nat /\ pos[r] \in Nat
        BY DEF CallsInv, CreateTypeOK
      <3>2. pos[r] = n + 1 /\ LockedBy(r) = {seatIds[r][i] : i \in 1 .. (pos[r] - 1)}
        BY <2>2, <2>4, <3>1 DEF SeatsLocked, LocksFollow
      <3>3. LockedBy(r) = Range(seatIds[r])
        BY <3>1, <3>2 DEF Range
      <3>4. pc'[r] = "inserting" /\ seatIds' = seatIds
        BY <2>4 DEF SeatsLocked, CallsInv, CreateTypeOK
      <3>5. QED
        BY <2>1, <3>3, <3>4 DEF LocksFollow, InTransaction
    <2>5. CASE InsertRows(r) \/ AddJob(r) \/ JobsAdded(r)
      <3>1. /\ pc[r] \in InTransaction \ {"locking"}
            /\ pc'[r] \in InTransaction \ {"locking"}
            /\ seatIds' = seatIds
        BY <2>5 DEF InsertRows, AddJob, JobsAdded, InTransaction, CallsInv, CreateTypeOK
      <3>2. QED
        BY <2>1, <2>2, <3>1 DEF LocksFollow
    <2>6. QED
      BY <2>3, <2>4, <2>5
  <1>5. \A q \in Request \ {r} : Unmoved(q) /\ LockedBy(q)' = LockedBy(q)
    BY <1>1
    DEF Begin, SeatsLocked, InsertRows, AddJob, JobsAdded, Unmoved, LockedBy,
        CallsInv, CreateTypeOK
  <1>6. QED
    BY <1>3, <1>4, <1>5, OthersFollow DEF CallsInv

(* They keep the invariant of a BookingService alone.                      *)
LEMMA QuietInv ==
  ASSUME CreateInv, NEW r \in Request, Quiet(r)
  PROVE  CreateInv'
  <1>1. CallsInv'
    BY QuietCalls DEF CreateInv, CallsInv
  <1>2. LockedSeatsAvailable'
    BY QuietFacts DEF CreateInv, LockedSeatsAvailable
  <1>3. PICK p \in InTransaction : pc' = [pc EXCEPT ![r] = p]
    BY QuietFacts
  <1>4. RowsAfterCommit' /\ NoDoubleClaim'
    <2>1. pc[r] \notin {"created", "failed"} /\ UNCHANGED <<seats, bookings, bookingSeats>>
      BY QuietFacts DEF Ended, Rejected
    <2>2. QED
      BY <1>3, <2>1, RowsUntouched
  <1>5. QED
    BY <1>1, <1>2, <1>4 DEF CreateInv, CallsInv

-----------------------------------------------------------------------------
(* The step that takes a row lock *)

(* Where a call is that locks a row, and what it does.                     *)
LEMMA LockFacts ==
  ASSUME CallsInv, NEW r \in Request, LockSeat(r)
  PROVE  /\ pos[r] \in Nat \ {0} /\ pos[r] <= Len(seatIds[r])
         /\ seatIds[r] \in Seq(SeatId)
         /\ CurrentSeat(r) \in Seat /\ CurrentSeat(r) = seatIds[r][pos[r]]
         /\ seats[CurrentSeat(r)].status = "AVAILABLE"
         /\ seatLock[CurrentSeat(r)] = NoTxn
         /\ seatLock' = [seatLock EXCEPT ![CurrentSeat(r)] = r]
         /\ pc[r] = "locking"
         /\ pc' = [pc EXCEPT ![r] = "locking"]
         /\ pos' = [pos EXCEPT ![r] = pos[r] + 1]
         /\ UNCHANGED <<seats, bookings, bookingSeats, bookingLock, jobs, seatIds>>
  BY DEF LockSeat, AtSeat, Matches, CurrentSeat, Goto, CallsInv, CreateTypeOK

(* The locks of the call still follow its loop.                            *)
LEMMA LockCalls ==
  ASSUME CallsInv, NEW r \in Request, LockSeat(r)
  PROVE  CallsInv'
  <1> DEFINE s == CurrentSeat(r)
             n == pos[r]
  <1>1. /\ n \in Nat \ {0} /\ n <= Len(seatIds[r]) /\ seatIds[r] \in Seq(SeatId)
        /\ s \in Seat /\ s = seatIds[r][n] /\ seatLock[s] = NoTxn
        /\ seatLock' = [seatLock EXCEPT ![s] = r]
        /\ pc[r] = "locking"
        /\ pc' = [pc EXCEPT ![r] = "locking"]
        /\ pos' = [pos EXCEPT ![r] = n + 1]
        /\ UNCHANGED <<seats, bookings, bookingSeats, bookingLock, jobs, seatIds>>
    BY LockFacts
  <1> HIDE DEF s, n
  <1>2. CreateTypeOK'
    BY <1>1 DEF CallsInv, CreateTypeOK, StorageTypeOK, Txn, InTransaction
  <1>3. seatLock \in [Seat -> Txn \cup {NoTxn}]
    BY DEF CallsInv, CreateTypeOK, StorageTypeOK
  <1>4. LockedBy(r)' = LockedBy(r) \cup {s}
    BY <1>1, <1>3 DEF LockedBy
  <1>5. LocksFollow(r)'
    <2>1. LockedBy(r) = {seatIds[r][i] : i \in 1 .. (n - 1)}
      BY <1>1 DEF CallsInv, LocksFollowLoop, LocksFollow, n
    <2>2. pc'[r] = "locking" /\ pos'[r] = n + 1 /\ seatIds'[r] = seatIds[r]
      BY <1>1 DEF CallsInv, CreateTypeOK
    <2>3. LockedBy(r)' = {seatIds[r][i] : i \in 1 .. n}
      BY <1>1, <1>4, <2>1
    <2>4. QED
      BY <1>1, <2>2, <2>3 DEF LocksFollow, InTransaction
  <1>6. \A q \in Request \ {r} : LockedBy(q)' = LockedBy(q)
    BY <1>1, <1>3, StorageAssumption DEF LockedBy, Txn
  <1>7. \A q \in Request \ {r} : Unmoved(q)
    BY <1>1 DEF Unmoved, CallsInv, CreateTypeOK
  <1>8. QED
    BY <1>2, <1>5, <1>6, <1>7, OthersFollow DEF CallsInv

(* Locking an AVAILABLE, unlocked row keeps the invariant.                 *)
LEMMA LockInv ==
  ASSUME CreateInv, NEW r \in Request, LockSeat(r)
  PROVE  CreateInv'
  <1>1. CallsInv
    BY DEF CreateInv, CallsInv
  <1>2. CallsInv'
    BY <1>1, LockCalls
  <1>3. LockedSeatsAvailable'
    BY <1>1, LockFacts DEF CreateInv, CreateTypeOK, StorageTypeOK, LockedSeatsAvailable
  <1>4. RowsAfterCommit' /\ NoDoubleClaim'
    <2>1. /\ pc[r] \notin {"created", "failed"} /\ pc' = [pc EXCEPT ![r] = "locking"]
          /\ UNCHANGED <<seats, bookings, bookingSeats>>
      BY <1>1, LockFacts
    <2>2. QED
      BY <2>1, RowsUntouched
  <1>5. QED
    BY <1>2, <1>3, <1>4 DEF CreateInv, CallsInv

-----------------------------------------------------------------------------
(* The steps that roll back *)

(* A rollback gives back every lock of its call.                           *)
LEMMA RollbackCalls ==
  ASSUME CallsInv, NEW r \in Request, NEW answer \in Rejected, Rollback(r, answer)
  PROVE  CallsInv'
  <1>1. /\ pc' = [pc EXCEPT ![r] = answer]
        /\ UNCHANGED <<seats, bookings, bookingSeats, bookingLock, jobs, seatIds, pos>>
        /\ seatLock' = [s \in Seat |-> IF seatLock[s] = r THEN NoTxn ELSE seatLock[s]]
    BY DEF Rollback, Release
  <1>2. CreateTypeOK'
    BY <1>1 DEF CallsInv, CreateTypeOK, StorageTypeOK, Rejected, Ended
  <1>3. LocksFollowLoop'
    BY <1>1, ReleaseFollows
    DEF Rollback, CallsInv, CreateTypeOK, Unmoved, Rejected, InTransaction
  <1>4. QED
    BY <1>2, <1>3 DEF CallsInv

(* A rollback, whatever its cause, keeps the invariant.                    *)
LEMMA RollbackInv ==
  ASSUME CreateInv, NEW r \in Request, NEW answer \in Rejected,
         pc[r] \in InTransaction, Rollback(r, answer)
  PROVE  CreateInv'
  <1>1. CallsInv'
    BY RollbackCalls DEF CreateInv, CallsInv
  <1>2. /\ pc' = [pc EXCEPT ![r] = answer]
        /\ UNCHANGED <<seats, bookings, bookingSeats, bookingLock, jobs, seatIds, pos>>
        /\ seatLock' = [s \in Seat |-> IF seatLock[s] = r THEN NoTxn ELSE seatLock[s]]
    BY DEF Rollback, Release
  <1>3. LockedSeatsAvailable'
    BY <1>2 DEF CreateInv, LockedSeatsAvailable
  <1>4. QED
    BY <1>1, <1>2, <1>3, RowsUntouched DEF CreateInv, CallsInv, InTransaction

(* Which steps roll back.                                                  *)
LEMMA RollbackSteps ==
  ASSUME NEW r \in Request, SeatTaken(r) \/ SeatUnknown(r) \/ Abort(r) \/ Deadlock(r)
  PROVE  /\ pc[r] \in InTransaction
         /\ \E answer \in Rejected : Rollback(r, answer)
  BY DEF SeatTaken, SeatUnknown, Abort, Deadlock, InCycle, Waiting, AtSeat,
         InTransaction, Rejected

-----------------------------------------------------------------------------
(* The two ways COMMIT takes effect *)

(* What both ways do.                                                      *)
LEMMA CommitSteps ==
  ASSUME NEW r \in Request, Commit(r) \/ CommitUnanswered(r)
  PROVE  /\ pc[r] = "committing"
         /\ CommitRows(r)
         /\ Release(r)
         /\ \E p \in {"created", "failed"} : pc' = [pc EXCEPT ![r] = p]
         /\ pos' = [pos EXCEPT ![r] = 1]
         /\ UNCHANGED <<bookingLock, jobs, seatIds>>
  BY DEF Commit, CommitUnanswered, Goto, CommitRows

(* COMMIT gives back every lock of its call, too.                          *)
LEMMA CommitCalls ==
  ASSUME CallsInv, NEW r \in Request, Commit(r) \/ CommitUnanswered(r)
  PROVE  CallsInv'
  <1>1. CommitRows(r) /\ Release(r)
    BY CommitSteps
  <1>2. PICK p \in {"created", "failed"} : pc' = [pc EXCEPT ![r] = p]
    BY CommitSteps
  <1>3. /\ pc[r] = "committing"
        /\ pos' = [pos EXCEPT ![r] = 1]
        /\ UNCHANGED <<bookingLock, jobs, seatIds>>
    BY CommitSteps
  <1>4. CreateTypeOK'
    <2>1. seats' \in [Seat -> SeatModel]
      BY <1>1 DEF CommitRows, CommitSeats, Save, SeatModel, SeatStatusEnum,
                  CallsInv, CreateTypeOK, StorageTypeOK
    <2>2. bookings' \in [Request -> BookingModel]
      BY <1>1 DEF CommitRows, BookingCreated, PendingBooking, BookingModel,
                  BookingStatusEnum, CallsInv, CreateTypeOK, StorageTypeOK
    <2>3. LockedBy(r) = Range(seatIds[r])
      BY <1>3 DEF CallsInv, LocksFollowLoop, LocksFollow, InTransaction
    <2>4. bookingSeats' \in [Request -> SUBSET Seat]
      BY <1>1, <2>3
      DEF CommitRows, BookingSeatsCreated, LockedBy, CallsInv, CreateTypeOK, StorageTypeOK
    <2>5. seatLock' \in [Seat -> Txn \cup {NoTxn}]
      BY <1>1 DEF Release, CallsInv, CreateTypeOK, StorageTypeOK
    <2>6. StorageTypeOK'
      BY <1>3, <2>1, <2>2, <2>4, <2>5 DEF StorageTypeOK, CallsInv, CreateTypeOK
    <2>7. QED
      BY <1>2, <1>3, <2>6 DEF CallsInv, CreateTypeOK, Ended, Rejected
  <1>5. pc'[r] = p /\ \A q \in Request \ {r} : Unmoved(q)
    BY <1>2, <1>3 DEF CallsInv, CreateTypeOK, Unmoved
  <1>6. QED
    BY <1>1, <1>4, <1>5, ReleaseFollows DEF CallsInv, InTransaction

(* Every step of a call keeps what is said of calls.                       *)
LEMMA CallStep ==
  ASSUME CallsInv, NEW r \in Request, CreateStep(r)
  PROVE  CallsInv'
  <1>1. CASE Quiet(r)
    BY <1>1, QuietCalls
  <1>2. CASE LockSeat(r)
    BY <1>2, LockCalls
  <1>3. CASE SeatTaken(r) \/ SeatUnknown(r) \/ Abort(r) \/ Deadlock(r)
    BY <1>3, RollbackSteps, RollbackCalls
  <1>4. CASE Commit(r) \/ CommitUnanswered(r)
    BY <1>4, CommitCalls
  <1>5. QED
    BY <1>1, <1>2, <1>3, <1>4 DEF CreateStep, Proceed, Quiet

-----------------------------------------------------------------------------

(* What a call in its commit has locked is its list, and is free.          *)
LEMMA CommitFacts ==
  ASSUME CreateInv, NEW r \in Request, pc[r] = "committing"
  PROVE  /\ LockedBy(r) = Range(seatIds[r])
         /\ \A s \in LockedBy(r) : s \in Seat /\ seats[s].status = "AVAILABLE"
         /\ ~Exists(r)
         /\ bookingSeats[r] = {}
  <1>1. LockedBy(r) = Range(seatIds[r])
    BY DEF CreateInv, LocksFollowLoop, LocksFollow, InTransaction
  <1>2. \A s \in LockedBy(r) : s \in Seat /\ seats[s].status = "AVAILABLE"
    BY StorageAssumption DEF LockedBy, CreateInv, LockedSeatsAvailable, Txn
  <1>3. ~Exists(r) /\ bookingSeats[r] = {}
    BY DEF CreateInv, RowsAfterCommit
  <1>4. QED
    BY <1>1, <1>2, <1>3

(* The rows after COMMIT, seat by seat and booking by booking.             *)
LEMMA CommitEffect ==
  ASSUME CreateInv, NEW r \in Request, CommitRows(r), pc[r] = "committing"
  PROVE  /\ \A s \in LockedBy(r) :
              seats'[s] = [status |-> "LOCKED", version |-> seats[s].version + 1]
         /\ \A s \in Seat \ LockedBy(r) : seats'[s] = seats[s]
         /\ bookings'[r] = PendingBooking /\ bookingSeats'[r] = LockedBy(r)
         /\ \A q \in Request \ {r} :
              bookings'[q] = bookings[q] /\ bookingSeats'[q] = bookingSeats[q]
         /\ Claims(r)' = LockedBy(r)
         /\ \A q \in Request \ {r} : Claims(q)' = Claims(q)
  <1>1. \A s \in Seat :
          seats'[s] = IF seatLock[s] = r THEN Save(seats[s], "LOCKED") ELSE seats[s]
    BY DEF CommitRows, BookingCreated, BookingSeatsCreated, CommitSeats
  <1>2. \A s \in LockedBy(r) :
          seats'[s] = [status |-> "LOCKED", version |-> seats[s].version + 1]
    BY <1>1, CommitFacts DEF LockedBy, Save
  <1>3. \A s \in Seat \ LockedBy(r) : seats'[s] = seats[s]
    BY <1>1 DEF LockedBy
  <1>4. bookings'[r] = PendingBooking /\ bookingSeats'[r] = LockedBy(r)
    BY CommitFacts DEF CommitRows, BookingCreated, BookingSeatsCreated,
                       CreateInv, CreateTypeOK, StorageTypeOK
  <1>5. \A q \in Request \ {r} :
          bookings'[q] = bookings[q] /\ bookingSeats'[q] = bookingSeats[q]
    BY DEF CommitRows, BookingCreated, BookingSeatsCreated,
           CreateInv, CreateTypeOK, StorageTypeOK
  <1>6. Claims(r)' = LockedBy(r)
    BY <1>4 DEF Claims, Live, Exists, PendingBooking
  <1>7. \A q \in Request \ {r} : Claims(q)' = Claims(q)
    BY <1>5 DEF Claims, Live, Exists
  <1>8. QED
    BY <1>2, <1>3, <1>4, <1>5, <1>6, <1>7

(* The seats of a booking are LOCKED, those a call has row-locked are not. *)
LEMMA ClaimsAreLocked ==
  ASSUME CreateInv, NEW q \in Request
  PROVE  /\ Claims(q) \subseteq bookingSeats[q]
         /\ \A s \in bookingSeats[q] : s \in Seat /\ seats[s].status = "LOCKED"
  BY DEF CreateInv, CreateTypeOK, StorageTypeOK, RowsAfterCommit, Claims

(* COMMIT, answered or not, keeps the invariant.                           *)
LEMMA CommitInv ==
  ASSUME CreateInv, NEW r \in Request, Commit(r) \/ CommitUnanswered(r)
  PROVE  CreateInv'
  <1>1. CallsInv'
    BY CommitCalls DEF CreateInv, CallsInv
  <1>2. pc[r] = "committing" /\ CommitRows(r) /\ Release(r)
    BY CommitSteps
  <1>3. PICK p \in {"created", "failed"} : pc' = [pc EXCEPT ![r] = p]
    BY CommitSteps
  <1>4. pc'[r] = p /\ \A q \in Request \ {r} : pc'[q] = pc[q]
    BY <1>3 DEF CreateInv, CreateTypeOK
  <1>5. LockedSeatsAvailable'
    <2>1. ASSUME NEW s \in Seat, seatLock'[s] # NoTxn
          PROVE  seatLock'[s] \in Request /\ seats'[s].status = "AVAILABLE"
      <3>1. seatLock'[s] = seatLock[s] /\ seatLock[s] # r /\ seatLock[s] # NoTxn
        BY <1>2, <2>1 DEF Release
      <3>2. seats'[s] = seats[s]
        BY <1>2, <3>1, CommitEffect DEF LockedBy
      <3>3. QED
        BY <3>1, <3>2 DEF CreateInv, LockedSeatsAvailable
    <2>2. QED
      BY <2>1 DEF LockedSeatsAvailable
  <1>6. RowsAfterCommit'
    <2>1. ASSUME NEW q \in Request \ {r}, NEW s \in bookingSeats[q]
          PROVE  seats'[s] = seats[s]
      BY <1>2, <2>1, CommitFacts, CommitEffect, ClaimsAreLocked
    <2>2. \A q \in Request \ {r} : Exists(q)' = Exists(q) /\ pc'[q] = pc[q]
      BY <1>2, <1>4, CommitEffect DEF Exists
    <2>3. Exists(r)'
      BY <1>2, CommitEffect DEF Exists, PendingBooking
    <2>4. ASSUME NEW q \in Request
          PROVE  IF Exists(q)'
                   THEN /\ pc'[q] \in {"created", "failed"}
                        /\ bookings'[q] = PendingBooking
                        /\ \A s \in bookingSeats'[q] : seats'[s].status = "LOCKED"
                   ELSE bookingSeats'[q] = {}
      <3>1. CASE q = r
        <4>1. bookings'[r] = PendingBooking /\ bookingSeats'[r] = LockedBy(r)
          BY <1>2, CommitEffect
        <4>2. ASSUME NEW s \in LockedBy(r) PROVE seats'[s].status = "LOCKED"
          <5>1. seats'[s] = [status |-> "LOCKED", version |-> seats[s].version + 1]
            BY <1>2, CommitEffect
          <5>2. QED
            BY <5>1
        <4>3. QED
          BY <1>4, <2>3, <3>1, <4>1, <4>2
      <3>2. CASE q # r
        <4>1. bookings'[q] = bookings[q] /\ bookingSeats'[q] = bookingSeats[q]
          BY <1>2, <3>2, CommitEffect
        <4>2. QED
          BY <2>1, <2>2, <3>2, <4>1 DEF CreateInv, RowsAfterCommit
      <3>3. QED
        BY <3>1, <3>2
    <2>5. QED
      BY <2>4 DEF RowsAfterCommit, Exists, PendingBooking
  <1>7. NoDoubleClaim'
    <2>1. \A q \in Request \ {r} : Claims(q) \cap LockedBy(r) = {}
      BY <1>2, CommitFacts, ClaimsAreLocked
    <2>2. Claims(r)' = LockedBy(r) /\ \A q \in Request \ {r} : Claims(q)' = Claims(q)
      BY <1>2, CommitEffect
    <2>3. \A r1, r2 \in Request : r1 # r2 => Claims(r1)' \cap Claims(r2)' = {}
      BY <2>1, <2>2 DEF CreateInv, NoDoubleClaim
    <2>4. QED
      BY <2>3 DEF NoDoubleClaim
  <1>8. QED
    BY <1>1, <1>5, <1>6, <1>7 DEF CreateInv, CallsInv

-----------------------------------------------------------------------------

(* Every step of every call keeps the invariant.                           *)
LEMMA StepInv == CreateInv /\ [CreateNext]_createVars => CreateInv'
  <1> SUFFICES ASSUME CreateInv, [CreateNext]_createVars PROVE CreateInv'
    OBVIOUS
  <1>1. ASSUME NEW r \in Request, CreateStep(r) PROVE CreateInv'
    <2>1. CASE Quiet(r)
      BY <2>1, QuietInv
    <2>2. CASE LockSeat(r)
      BY <2>2, LockInv
    <2>3. CASE SeatTaken(r) \/ SeatUnknown(r) \/ Abort(r) \/ Deadlock(r)
      BY <2>3, RollbackSteps, RollbackInv
    <2>4. CASE Commit(r) \/ CommitUnanswered(r)
      BY <2>4, CommitInv
    <2>5. QED
      BY <1>1, <2>1, <2>2, <2>3, <2>4 DEF CreateStep, Proceed, Quiet
  <1>2. CASE UNCHANGED createVars
    <2> USE <1>2 DEF createVars, storage, bookingVars
    <2>1. CreateTypeOK'
      BY DEF CreateInv, CreateTypeOK, StorageTypeOK
    <2>2. LocksFollowLoop' /\ LockedSeatsAvailable'
      BY DEF CreateInv, LocksFollowLoop, LocksFollow, LockedBy, LockedSeatsAvailable
    <2>3. RowsAfterCommit' /\ NoDoubleClaim'
      BY DEF CreateInv, RowsAfterCommit, NoDoubleClaim, Claims, Live, Exists
    <2>4. QED
      BY <2>1, <2>2, <2>3 DEF CreateInv
  <1>3. QED
    BY <1>1, <1>2 DEF CreateNext

(* The inductive invariant holds of every behaviour, for any number of     *)
(* concurrent calls, seats and lists.                                      *)
THEOREM Invariance == CreateSpec => []CreateInv
  BY InitInv, StepInv, PTL DEF CreateSpec

(* Type correctness.                                                       *)
THEOREM TypeCorrect == CreateSpec => []CreateTypeOK
  <1>1. CreateInv => CreateTypeOK
    BY DEF CreateInv
  <1>2. QED
    BY <1>1, Invariance, PTL

(* createBookingForUser never lets two bookings claim the same seat.       *)
THEOREM NoDoubleBooking == CreateSpec => []NoDoubleClaim
  <1>1. CreateInv => NoDoubleClaim
    BY DEF CreateInv
  <1>2. QED
    BY <1>1, Invariance, PTL

-----------------------------------------------------------------------------
(* Only COMMIT changes rows *)

(* Every other step leaves every claim and every seat row as it was.       *)
LEMMA OnlyCommitWrites ==
  ASSUME [CreateNext]_createVars,
         ~ \E r \in Request : Commit(r) \/ CommitUnanswered(r)
  PROVE  /\ seats' = seats
         /\ \A q \in Request : Claims(q)' = Claims(q)
  <1>1. UNCHANGED <<seats, bookings, bookingSeats>>
    BY DEF CreateNext, CreateStep, Proceed, Begin, LockSeat, SeatTaken, SeatUnknown,
           SeatsLocked, InsertRows, AddJob, JobsAdded, Abort, Deadlock, Rollback,
           createVars, storage
  <1>2. QED
    BY <1>1 DEF Claims, Live, Exists

(* A COMMIT of call r is the only thing the others see of r.               *)
LEMMA CommitIsOne ==
  ASSUME CreateInv, NEW r \in Request, Commit(r) \/ CommitUnanswered(r)
  PROVE  CommitRows(r) /\ pc[r] = "committing"
  BY DEF Commit, CommitUnanswered, Goto

(* A seat that nobody claims is as seeded, a claimed one is LOCKED once.   *)
LEMMA AccountsStep ==
  ASSUME CreateInv, SeatsAccountedFor, [CreateNext]_createVars
  PROVE  SeatsAccountedFor'
  <1> DEFINE Claimed(s) == \E q \in Request : s \in Claims(q)
             Row(s) == IF Claimed(s) THEN [status |-> "LOCKED", version |-> 1]
                                     ELSE [status |-> InitialStatus[s], version |-> 0]
  <1>1. \A s \in Seat : seats[s] = Row(s)
    BY DEF SeatsAccountedFor
  <1>2. CASE ~ \E r \in Request : Commit(r) \/ CommitUnanswered(r)
    BY <1>2, OnlyCommitWrites DEF SeatsAccountedFor
  <1>3. ASSUME NEW r \in Request, Commit(r) \/ CommitUnanswered(r)
        PROVE  SeatsAccountedFor'
    <2>1. CommitRows(r) /\ pc[r] = "committing"
      BY <1>3, CommitIsOne
    <2>2. /\ Claims(r)' = LockedBy(r)
          /\ \A q \in Request \ {r} : Claims(q)' = Claims(q)
          /\ \A s \in Seat \ LockedBy(r) : seats'[s] = seats[s]
          /\ \A s \in LockedBy(r) :
               seats'[s] = [status |-> "LOCKED", version |-> seats[s].version + 1]
      BY <2>1, CommitEffect
    <2>3. Claims(r) = {}
      BY <2>1, CommitFacts, ClaimsAreLocked
    <2>4. ASSUME NEW s \in Seat PROVE seats'[s] = Row(s)'
      <3>1. CASE s \in LockedBy(r)
        <4>1. seats[s].status = "AVAILABLE"
          BY <2>1, <3>1, CommitFacts
        <4>2. ~Claimed(s)
          BY <4>1, ClaimsAreLocked
        <4>3. seats[s].version = 0
          <5>1. seats[s] = [status |-> InitialStatus[s], version |-> 0]
            BY <1>1, <4>2
          <5>2. QED
            BY <5>1
        <4>4. seats'[s] = [status |-> "LOCKED", version |-> 1]
          BY <2>2, <3>1, <4>3
        <4>5. Claimed(s)'
          BY <2>2, <3>1
        <4>6. QED
          BY <4>4, <4>5
      <3>2. CASE s \notin LockedBy(r)
        <4>1. Claimed(s)' <=> Claimed(s)
          BY <2>2, <2>3, <3>2
        <4>2. QED
          BY <1>1, <2>2, <3>2, <4>1
      <3>3. QED
        BY <3>1, <3>2
    <2>5. QED
      BY <2>4 DEF SeatsAccountedFor
  <1>4. QED
    BY <1>2, <1>3

(* No error path of createBookingForUser leaves a seat LOCKED, and none    *)
(* loses a claim: the seats table always equals the seeded one plus the    *)
(* claims of the committed bookings.                                       *)
THEOREM SeatsAccounted == CreateSpec => []SeatsAccountedFor
  <1>1. CreateInit => SeatsAccountedFor
    BY DEF CreateInit, StorageInit, SeatsAccountedFor, Claims, Live, Exists, NoBooking
  <1>2. CreateInv /\ SeatsAccountedFor /\ [CreateNext]_createVars => SeatsAccountedFor'
    BY AccountsStep
  <1>3. QED
    BY <1>1, <1>2, Invariance, PTL DEF CreateSpec

-----------------------------------------------------------------------------
(* Refinement *)

(* The seeded system is the abstract one before any reservation.           *)
LEMMA ReservationInit == CreateInit => Reservation!Init
  BY DEF CreateInit, StorageInit, Reservation!Init, Claims, Live, Exists, NoBooking

(* A COMMIT is one Reserve of the abstract specification; nothing else     *)
(* moves it.                                                               *)
LEMMA ReservationStep ==
  ASSUME CreateInv, SeatsAccountedFor, [CreateNext]_createVars
  PROVE  Reservation!Next \/ UNCHANGED [r \in Request |-> Claims(r)]
  <1>1. CASE ~ \E r \in Request : Commit(r) \/ CommitUnanswered(r)
    BY <1>1, OnlyCommitWrites
  <1>2. ASSUME NEW r \in Request, Commit(r) \/ CommitUnanswered(r)
        PROVE  Reservation!Next
    <2>1. CommitRows(r) /\ pc[r] = "committing"
      BY <1>2, CommitIsOne
    <2>2. /\ Claims(r)' = LockedBy(r)
          /\ \A q \in Request \ {r} : Claims(q)' = Claims(q)
      BY <2>1, CommitEffect
    <2>3. Claims(r) = {}
      BY <2>1, CommitFacts, ClaimsAreLocked
    <2>4. \A s \in LockedBy(r) : s \in Seat /\ seats[s].status = "AVAILABLE"
      BY <2>1, CommitFacts
    <2>5. ASSUME NEW s \in LockedBy(r)
          PROVE  InitialStatus[s] = "AVAILABLE" /\ \A q \in Request : s \notin Claims(q)
      <3>1. s \in Seat /\ seats[s].status = "AVAILABLE"
        BY <2>4
      <3>2. \A q \in Request : s \notin Claims(q)
        BY <3>1, ClaimsAreLocked
      <3>3. seats[s] = [status |-> InitialStatus[s], version |-> 0]
        BY <3>1, <3>2 DEF SeatsAccountedFor
      <3>4. QED
        BY <3>1, <3>2, <3>3
    <2>6. LockedBy(r) \in
            SUBSET ({s \in Seat : InitialStatus[s] = "AVAILABLE"} \ Reservation!Taken)
      BY <2>4, <2>5 DEF Reservation!Taken
    <2>7. [q \in Request |-> Claims(q)]'
            = [[q \in Request |-> Claims(q)] EXCEPT ![r] = LockedBy(r)]
      BY <2>2
    <2>8. Reservation!Reserve(r)
      BY <2>3, <2>6, <2>7 DEF Reservation!Reserve
    <2>9. QED
      BY <2>8 DEF Reservation!Next
  <1>3. QED
    BY <1>1, <1>2

(* createBookingForUser, with its row locks taken one by one and its       *)
(* failures, implements a reservation that takes a whole list in one step. *)
THEOREM Refinement == CreateSpec => ReservationSpec
  <1>1. CreateInv /\ SeatsAccountedFor /\ [CreateNext]_createVars
          => [Reservation!Next]_([r \in Request |-> Claims(r)])
    BY ReservationStep
  <1>2. QED
    BY <1>1, ReservationInit, Invariance, SeatsAccounted, PTL
    DEF CreateSpec, ReservationSpec, Reservation!Spec

=============================================================================
