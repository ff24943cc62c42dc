--------------------------- MODULE BookingService ---------------------------
(***************************************************************************)
(* BookingService.createBookingForUser: one database transaction that      *)
(* locks the seats of a list one by one, inserts one booking for all of    *)
(* them, schedules an unlock job for each, and commits.  Any number of     *)
(* calls run at once; every await is a point where they interleave.        *)
(*                                                                         *)
(*   idle -> locking -> inserting -> scheduling -> committing -> created   *)
(*                                                                         *)
(* with the other ends "conflict" (409), "notfound" (404), "deadlocked"    *)
(* (PostgreSQL made the transaction a deadlock victim) and "failed" (an    *)
(* awaited call rejected, or the process died).                            *)
(***************************************************************************)
EXTENDS Storage

CONSTANT SeatLists     \* the seat_ids a caller may send

ASSUME ListAssumption == SeatLists \subseteq Seq(SeatId)

VARIABLES
  pc,         \* where each call is
  seatIds,    \* its payload.seat_ids
  pos         \* index of the loop it is in

bookingVars == <<pc, seatIds, pos>>

createVars == <<storage, bookingVars>>

InTransaction == {"locking", "inserting", "scheduling", "committing"}

Rejected == {"conflict", "notfound", "deadlocked", "failed"}

Ended == Rejected \cup {"created"}

-----------------------------------------------------------------------------

CreateInit ==
  /\ StorageInit
  /\ pc = [r \in Request |-> "idle"]
  /\ seatIds = [r \in Request |-> <<>>]
  /\ pos = [r \in Request |-> 1]

(* Move call r from one point to another, at index i of its next loop.     *)
Goto(r, from, to, i) ==
  /\ pc[r] = from
  /\ pc' = [pc EXCEPT ![r] = to]
  /\ pos' = [pos EXCEPT ![r] = i]

(* sequelize.transaction(): BEGIN.  The validated list may be empty, name  *)
(* a seat twice, or name a seat that does not exist.                       *)
Begin(r) ==
  /\ Goto(r, "idle", "locking", 1)
  /\ \E list \in SeatLists : seatIds' = [seatIds EXCEPT ![r] = list]
  /\ UNCHANGED storage

-----------------------------------------------------------------------------
(* The loop over seatIds *)

AtSeat(r) == pc[r] = "locking" /\ pos[r] <= Len(seatIds[r])

CurrentSeat(r) == seatIds[r][pos[r]]

(* Variant: a row locked by another transaction is skipped, not waited for.*)
MatchesSkipLocked(r) ==
  /\ CurrentSeat(r) \in Seat
  /\ seats[CurrentSeat(r)].status = "AVAILABLE"
  /\ seatLock[CurrentSeat(r)] = NoTxn

(* Variant: the condition on the status is forgotten.                      *)
MatchesAnyStatus(r) ==
  /\ CurrentSeat(r) \in Seat
  /\ seatLock[CurrentSeat(r)] # r

(* The row matches WHERE id AND status = AVAILABLE in the eyes of r's      *)
(* transaction, which sees its own uncommitted LOCKED.                     *)
Matches(r) ==
  /\ CurrentSeat(r) \in Seat
  /\ seats[CurrentSeat(r)].status = "AVAILABLE"
  /\ seatLock[CurrentSeat(r)] # r

(* SELECT ... FOR UPDATE of a matching row that another open transaction   *)
(* has locked waits for that transaction to end.                           *)
Waiting(r) == AtSeat(r) /\ Matches(r) /\ seatLock[CurrentSeat(r)] # NoTxn

(* Variant: the unlock job is added as soon as the seat is locked.         *)
LockSeatAndAddJob(r) ==
  /\ AtSeat(r)
  /\ Matches(r)
  /\ seatLock[CurrentSeat(r)] = NoTxn
  /\ seatLock' = [seatLock EXCEPT ![CurrentSeat(r)] = r]
  /\ jobs' = jobs \cup {UnlockJob(r, CurrentSeat(r))}
  /\ Goto(r, "locking", "locking", pos[r] + 1)
  /\ UNCHANGED <<seats, bookings, bookingSeats, bookingLock, seatIds>>

(* updateByCondition: the row is locked, then saved as LOCKED.  Nobody can *)
(* come between the two, so they are one step.                             *)
LockSeat(r) ==
  /\ AtSeat(r)
  /\ Matches(r)
  /\ seatLock[CurrentSeat(r)] = NoTxn
  /\ seatLock' = [seatLock EXCEPT ![CurrentSeat(r)] = r]
  /\ Goto(r, "locking", "locking", pos[r] + 1)
  /\ UNCHANGED <<seats, bookings, bookingSeats, bookingLock, jobs, seatIds>>

(* Variant: the catch block does not roll back.                            *)
RollbackForgotten(r, answer) ==
  /\ pc' = [pc EXCEPT ![r] = answer]
  /\ UNCHANGED <<storage, seatIds, pos>>

(* Variant: the seats were saved without { transaction }.                  *)
RollbackTooLate(r, answer) ==
  /\ CommitSeats(r, "LOCKED")
  /\ Release(r)
  /\ pc' = [pc EXCEPT ![r] = answer]
  /\ UNCHANGED <<bookings, bookingSeats, bookingLock, jobs, seatIds, pos>>

(* transaction.rollback() and the rethrow.                                 *)
Rollback(r, answer) ==
  /\ Release(r)
  /\ pc' = [pc EXCEPT ![r] = answer]
  /\ UNCHANGED <<seats, bookings, bookingSeats, bookingLock, jobs, seatIds, pos>>

(* No row matched: findById tells a taken seat from an unknown one.        *)
SeatTaken(r) ==
  /\ AtSeat(r)
  /\ ~Matches(r)
  /\ CurrentSeat(r) \in Seat
  /\ Rollback(r, "conflict")

SeatUnknown(r) ==
  /\ AtSeat(r)
  /\ CurrentSeat(r) \notin Seat
  /\ Rollback(r, "notfound")

SeatsLocked(r) ==
  /\ pos[r] > Len(seatIds[r])
  /\ Goto(r, "locking", "inserting", 1)
  /\ UNCHANGED <<storage, seatIds>>

-----------------------------------------------------------------------------
(* After the loop *)

(* INSERT INTO bookings and, per seat, INTO booking_seats.  The rows are   *)
(* new and uncommitted: nobody else sees them before Commit.               *)
InsertRows(r) ==
  /\ Goto(r, "inserting", "scheduling", 1)
  /\ UNCHANGED <<storage, seatIds>>

(* seatQueue.add: takes effect in Redis at once, transaction or not.       *)
AddJob(r) ==
  /\ pos[r] <= Len(seatIds[r])
  /\ jobs' = jobs \cup {UnlockJob(r, CurrentSeat(r))}
  /\ Goto(r, "scheduling", "scheduling", pos[r] + 1)
  /\ UNCHANGED <<seats, bookings, bookingSeats, seatLock, bookingLock, seatIds>>

(* Variant: the loop leaves the last seat out.                             *)
JobsAddedButLast(r) ==
  /\ pos[r] >= Len(seatIds[r])
  /\ Goto(r, "scheduling", "committing", 1)
  /\ UNCHANGED <<storage, seatIds>>

JobsAdded(r) ==
  /\ pos[r] > Len(seatIds[r])
  /\ Goto(r, "scheduling", "committing", 1)
  /\ UNCHANGED <<storage, seatIds>>

(* bookingRepository.create.                                               *)
BookingCreated(r) == bookings' = [bookings EXCEPT ![r] = PendingBooking]

(* Variant: the first seat gets no row of booking_seats.                   *)
AllSeatsButFirst(r) ==
  bookingSeats' = [bookingSeats EXCEPT ![r] = {seatIds[r][i] : i \in 2 .. Len(seatIds[r])}]

(* bookingSeatService.create, once per seat.                               *)
BookingSeatsCreated(r) == bookingSeats' = [bookingSeats EXCEPT ![r] = Range(seatIds[r])]

(* What COMMIT makes visible.                                              *)
CommitRows(r) ==
  /\ CommitSeats(r, "LOCKED")
  /\ BookingCreated(r)
  /\ BookingSeatsCreated(r)
  /\ Release(r)
  /\ UNCHANGED <<bookingLock, jobs>>

Commit(r) ==
  /\ Goto(r, "committing", "created", 1)
  /\ CommitRows(r)
  /\ UNCHANGED seatIds

-----------------------------------------------------------------------------
(* Failures *)

(* An awaited call rejects (the database, Redis), or the process dies: the *)
(* transaction is rolled back, by the catch block or by PostgreSQL when    *)
(* the connection breaks.  Jobs already added stay in Redis.               *)
Abort(r) ==
  /\ pc[r] \in InTransaction
  /\ Rollback(r, "failed")

(* COMMIT took effect but its answer was lost: the caller gets an error    *)
(* (rollback() of a finished transaction throws) and the booking stands.   *)
CommitUnanswered(r) ==
  /\ Goto(r, "committing", "failed", 1)
  /\ CommitRows(r)
  /\ UNCHANGED seatIds

(* PostgreSQL's deadlock detector: r waits, through others that wait, for  *)
(* itself.  A waiting call waits for one holder, so a set in which every   *)
(* member is waited for by a member consists of cycles.                    *)
InCycle(r) ==
  \E D \in SUBSET Request :
    /\ r \in D
    /\ \A q \in D : Waiting(q)
    /\ \A q \in D : \E p \in D : seatLock[CurrentSeat(p)] = q

Deadlock(r) ==
  /\ InCycle(r)
  /\ Rollback(r, "deadlocked")

-----------------------------------------------------------------------------

(* What a started call does by itself.                                     *)
Proceed(r) ==
  \/ LockSeat(r)
  \/ SeatTaken(r)
  \/ SeatUnknown(r)
  \/ SeatsLocked(r)
  \/ InsertRows(r)
  \/ AddJob(r)
  \/ JobsAdded(r)
  \/ Commit(r)

CreateStep(r) ==
  \/ Begin(r)
  \/ Proceed(r)
  \/ Abort(r)
  \/ CommitUnanswered(r)
  \/ Deadlock(r)

CreateNext == \E r \in Request : CreateStep(r)

(* An awaited call that is not waiting for a lock answers, and PostgreSQL  *)
(* finds every deadlock (deadlock_timeout).                                *)
CreateFairness ==
  /\ \A r \in Request : WF_createVars(Proceed(r))
  /\ WF_createVars(\E r \in Request : Deadlock(r))

CreateSpec == CreateInit /\ [][CreateNext]_createVars /\ CreateFairness

-----------------------------------------------------------------------------
(* Properties *)

(* Every variable has its type.                                            *)
CreateTypeOK ==
  /\ StorageTypeOK
  /\ pc \in [Request -> {"idle"} \cup InTransaction \cup Ended]
  /\ seatIds \in [Request -> Seq(SeatId)]
  /\ pos \in [Request -> Nat \ {0}]

(* The row locks a call holds are exactly the seats of its list it has got *)
(* past, and it holds none before its transaction or after it ended: no    *)
(* path out of createBookingForUser forgets a lock.                        *)
LocksFollow(r) ==
  /\ pc[r] = "locking" =>
       /\ pos[r] <= Len(seatIds[r]) + 1
       /\ LockedBy(r) = {seatIds[r][i] : i \in 1 .. (pos[r] - 1)}
  /\ pc[r] \in InTransaction \ {"locking"} => LockedBy(r) = Range(seatIds[r])
  /\ pc[r] \notin InTransaction => LockedBy(r) = {}

LocksFollowLoop == \A r \in Request : LocksFollow(r)

(* A seat row locked by an open transaction is still AVAILABLE as          *)
(* committed: two calls never both hold a seat, one as a lock and one as a *)
(* booking.                                                                *)
LockedSeatsAvailable ==
  \A s \in Seat :
    seatLock[s] # NoTxn => /\ seatLock[s] \in Request
                           /\ seats[s].status = "AVAILABLE"

(* A call has rows only once its transaction ended, the seats of its rows  *)
(* are LOCKED, and a call without a booking has no booking_seats.          *)
RowsAfterCommit ==
  \A r \in Request :
    IF Exists(r)
      THEN /\ pc[r] \in {"created", "failed"}
           /\ bookings[r] = PendingBooking
           /\ \A s \in bookingSeats[r] : seats[s].status = "LOCKED"
      ELSE bookingSeats[r] = {}

(* No seat is claimed by two bookings: the reason the transaction takes    *)
(* row locks at all.                                                       *)
NoDoubleClaim ==
  \A r1, r2 \in Request : r1 # r2 => Claims(r1) \cap Claims(r2) = {}

(* The inductive invariant.                                                *)
CreateInv ==
  /\ CreateTypeOK
  /\ LocksFollowLoop
  /\ LockedSeatsAvailable
  /\ RowsAfterCommit
  /\ NoDoubleClaim

(* A seat row differs from the seeded one exactly when a booking claims    *)
(* it, and then by one version: no call that ended in an error leaves a    *)
(* seat LOCKED, and no claim is lost.                                      *)
SeatsAccountedFor ==
  \A s \in Seat :
    seats[s] = IF \E r \in Request : s \in Claims(r)
                 THEN [status |-> "LOCKED", version |-> 1]
                 ELSE [status |-> InitialStatus[s], version |-> 0]

(* A booking has a row of booking_seats for every seat of its list, each   *)
(* listed once; a call that answered 201 has its booking.                  *)
WholeListOrNothing ==
  \A r \in Request :
    /\ Exists(r) => /\ bookingSeats[r] = Range(seatIds[r])
                    /\ Cardinality(bookingSeats[r]) = Len(seatIds[r])
    /\ pc[r] = "created" => Exists(r)

(* Jobs are added before COMMIT, so no booking is ever committed without   *)
(* an unlock job for each of its seats, whatever fails in between.         *)
BookingsHaveJobs ==
  \A r \in Request : \A s \in bookingSeats[r] : UnlockJob(r, s) \in jobs

(* A call refused with 404 or 409, or sacrificed to a deadlock, leaves no  *)
(* row, no lock and no job: every refusal comes before the first job.      *)
RefusalLeavesNothing ==
  \A r \in Request :
    pc[r] \in {"conflict", "notfound", "deadlocked"} =>
      /\ ~Exists(r)
      /\ LockedBy(r) = {}
      /\ \A s \in SeatId : UnlockJob(r, s) \notin jobs

(* A 409 is never caused by a transaction that rolled back: the seat was   *)
(* seeded as taken, belongs to a committed booking, or is twice in the     *)
(* list.                                                                   *)
ConflictJustified ==
  \A r \in Request :
    pc[r] = "conflict" =>
      \E i \in DOMAIN seatIds[r] :
        \/ InitialStatus[seatIds[r][i]] # "AVAILABLE"
        \/ \E q \in Request \ {r} : seatIds[r][i] \in Claims(q)
        \/ \E j \in DOMAIN seatIds[r] : j < i /\ seatIds[r][j] = seatIds[r][i]

(* A list that could be booked if its caller were alone.                   *)
Bookable(list) ==
  /\ Range(list) \subseteq {s \in Seat : InitialStatus[s] = "AVAILABLE"}
  /\ Cardinality(Range(list)) = Len(list)

(* Callers that compete do not all lose: when every started call has ended *)
(* and each of them had a bookable list, one call made a booking or failed *)
(* for a reason outside the program.  A deadlock never refuses all of its  *)
(* members.  It can refuse the only one that had a bookable list, in       *)
(* favour of a call that then fails on a taken, repeated or unknown seat.  *)
NotEverybodyLoses ==
  LET Started == {r \in Request : pc[r] # "idle"} IN
    /\ Started # {}
    /\ \A r \in Started : pc[r] \in Ended /\ Bookable(seatIds[r])
    => \E r \in Started : pc[r] \in {"created", "failed"}

(* Every started call ends, whatever lists the others lock in whatever     *)
(* order.                                                                  *)
EveryCallEnds ==
  \A r \in Request : pc[r] \in InTransaction ~> pc[r] \in Ended

(* The promise to a caller: a booking takes its seats all at once.         *)
Reservation ==
  INSTANCE SeatReservation WITH
    Open <- {s \in Seat : InitialStatus[s] = "AVAILABLE"},
    held <- [r \in Request |-> Claims(r)]

ReservationSpec == Reservation!Spec

=============================================================================
