---------------------------- MODULE SeatProcessor ----------------------------
(***************************************************************************)
(* SeatProcessor, the worker of the seat queue: a job fires some time      *)
(* after it was added, reads two fields of its data and updates the seat   *)
(* that matches them.  Jobs have one attempt and are removed whether they  *)
(* succeed or fail.                                                        *)
(***************************************************************************)
EXTENDS Storage

(* const { seatId, version } = job.data: a field that the data does not    *)
(* have reads as undefined, and Sequelize refuses a WHERE with an          *)
(* undefined value before any statement is sent: the job fails.            *)
Throws(data) == ~({"seatId", "version"} \subseteq DOMAIN data)

(* WHERE id AND version AND status = LOCKED.                               *)
Unlocks(data, s) ==
  /\ ~Throws(data)
  /\ data.seatId = s
  /\ data.version = seats[s].version
  /\ seats[s].status = "LOCKED"

(* The update waits for a row that an open transaction has locked.         *)
HandleUnlockSeat(j) ==
  /\ j \in jobs
  /\ \A s \in Seat : Unlocks(j.data, s) => seatLock[s] = NoTxn
  /\ jobs' = jobs \ {j}
  /\ seats' = [s \in Seat |->
                 IF Unlocks(j.data, s) THEN Save(seats[s], "AVAILABLE") ELSE seats[s]]
  /\ UNCHANGED <<bookings, bookingSeats, seatLock, bookingLock>>

=============================================================================
