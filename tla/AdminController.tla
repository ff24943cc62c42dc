--------------------------- MODULE AdminController ---------------------------
(***************************************************************************)
(* AdminController.resetSystem: two statements, each committed on its own, *)
(* first a soft delete of every booking, then an update of every seat.     *)
(***************************************************************************)
EXTENDS Storage

VARIABLE reset     \* "idle", "seats" between the statements, "done", "failed"

ResetInit == reset = "idle"

ResetTypeOK == reset \in {"idle", "seats", "done", "failed"}

(* The update of the bookings waits for the rows that webhooks have locked.*)
DeleteBookings ==
  /\ reset # "seats"
  /\ \A r \in Request : bookingLock[r] = NoTxn
  /\ reset' = "seats"
  /\ bookings' = [r \in Request |->
                    IF Exists(r) THEN [bookings[r] EXCEPT !.deleted = TRUE] ELSE bookings[r]]
  /\ UNCHANGED <<seats, bookingSeats, seatLock, bookingLock, jobs>>

(* The update of the seats waits for the rows that transactions have       *)
(* locked, and is not under optimistic locking.                            *)
ResetSeats ==
  /\ reset = "seats"
  /\ \A s \in Seat : seatLock[s] = NoTxn
  /\ reset' = "done"
  /\ seats' = [s \in Seat |-> [status |-> "AVAILABLE", version |-> 0]]
  /\ UNCHANGED <<bookings, bookingSeats, seatLock, bookingLock, jobs>>

(* The second statement fails (a deadlock with a booking, a lost           *)
(* connection): the bookings stay deleted.                                 *)
ResetFails ==
  /\ reset = "seats"
  /\ reset' = "failed"
  /\ UNCHANGED storage

ResetStep == DeleteBookings \/ ResetSeats \/ ResetFails

=============================================================================
