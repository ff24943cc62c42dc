------------------------------- MODULE Storage -------------------------------
(***************************************************************************)
(* The state every service of the backend shares: the PostgreSQL tables    *)
(* "seats", "bookings" and "booking_seats" as committed rows, the row      *)
(* locks that open transactions hold, and the BullMQ queue of unlock jobs  *)
(* in Redis, which no database transaction covers.                         *)
(*                                                                         *)
(* A row lock stands for a SELECT ... FOR UPDATE or an UPDATE of a         *)
(* transaction that is still open.  The transaction's uncommitted writes   *)
(* are not state of their own: what a transaction will write to a row it   *)
(* has locked follows from who it is, and becomes visible when it commits  *)
(* (READ COMMITTED).                                                       *)
(***************************************************************************)
EXTENDS Naturals, Sequences, FiniteSets, Functions

CONSTANTS
  Seat,           \* ids of rows of "seats"
  Ghost,          \* well-formed ids that no row of "seats" has
  Request,        \* POST /bookings calls; a call names the booking it creates
  Delivery,       \* webhook calls of the payment providers
  NoTxn,          \* "nobody holds this row lock"
  InitialStatus   \* the statuses the seeder gave the seats

SeatStatusEnum == {"AVAILABLE", "LOCKED", "BOOKED"}

BookingStatusEnum == {"PENDING_PAYMENT", "PAID", "FAILED", "EXPIRED"}

SeatId == Seat \cup Ghost

Txn == Request \cup Delivery

ASSUME StorageAssumption ==
  /\ Seat \cap Ghost = {}
  /\ Request \cap Delivery = {}
  /\ NoTxn \notin Txn
  /\ InitialStatus \in [Seat -> SeatStatusEnum]

VARIABLES
  seats,          \* committed rows of "seats"
  bookings,       \* committed rows of "bookings", by the call that made them
  bookingSeats,   \* committed rows of "booking_seats", as sets of seat ids
  seatLock,       \* the open transaction that holds the lock of a seat row
  bookingLock,    \* the same for a committed row of "bookings"
  jobs            \* unlock jobs waiting in the queue

storage == <<seats, bookings, bookingSeats, seatLock, bookingLock, jobs>>

-----------------------------------------------------------------------------
(* Rows *)

SeatModel == [status : SeatStatusEnum, version : Nat]

(* "session" is whether provider_session_id is set, "deleted" whether      *)
(* deleted_at is: the models are paranoid, so a deleted row is neither     *)
(* found nor updated by any query.                                         *)
BookingModel ==
  [status : BookingStatusEnum \cup {"NONE"}, session : BOOLEAN, deleted : BOOLEAN]

NoBooking == [status |-> "NONE", session |-> FALSE, deleted |-> FALSE]

(* The row a call of create makes before anything else is known of it.     *)
PendingBooking ==
  [status |-> "PENDING_PAYMENT", session |-> FALSE, deleted |-> FALSE]

Exists(r) == bookings[r].status # "NONE"

(* What a query sees: the row is committed and not soft-deleted.           *)
Live(r) == Exists(r) /\ ~bookings[r].deleted

(* The seats a customer may hope to sit on: those of a booking that is     *)
(* waiting for its payment or paid.                                        *)
Claims(r) ==
  IF Live(r) /\ bookings[r].status \in {"PENDING_PAYMENT", "PAID"}
    THEN bookingSeats[r]
    ELSE {}

(* Variant: the fields are those the worker reads.                         *)
JobDataAsRead(s) == [seatId |-> s, version |-> 1]

(* A job carries its id and the data the handler will read.                *)
JobData(s) == [seat_id |-> s]

UnlockJob(r, s) == [id |-> <<r, s>>, data |-> JobData(s)]

UnlockJobs == {UnlockJob(r, s) : r \in Request, s \in SeatId}

-----------------------------------------------------------------------------
(* Row locks *)

LockedBy(t) == {s \in Seat : seatLock[s] = t}

(* The end of a transaction, committed or not, releases its row locks.     *)
Release(t) == seatLock' = [s \in Seat |-> IF seatLock[s] = t THEN NoTxn ELSE seatLock[s]]

(* seat.save(): a changed row gets the next version, an unchanged row is   *)
(* not written.                                                            *)
Save(row, status) ==
  IF row.status = status THEN row
                         ELSE [status |-> status, version |-> row.version + 1]

(* Commit of a transaction whose update of every row it locked is status.  *)
CommitSeats(t, status) ==
  seats' = [s \in Seat |-> IF seatLock[s] = t THEN Save(seats[s], status) ELSE seats[s]]

-----------------------------------------------------------------------------

StorageInit ==
  /\ seats = [s \in Seat |-> [status |-> InitialStatus[s], version |-> 0]]
  /\ bookings = [r \in Request |-> NoBooking]
  /\ bookingSeats = [r \in Request |-> {}]
  /\ seatLock = [s \in Seat |-> NoTxn]
  /\ bookingLock = [r \in Request |-> NoTxn]
  /\ jobs = {}

StorageTypeOK ==
  /\ seats \in [Seat -> SeatModel]
  /\ bookings \in [Request -> BookingModel]
  /\ bookingSeats \in [Request -> SUBSET Seat]
  /\ seatLock \in [Seat -> Txn \cup {NoTxn}]
  /\ bookingLock \in [Request -> Delivery \cup {NoTxn}]
  /\ jobs \subseteq UnlockJobs

=============================================================================
