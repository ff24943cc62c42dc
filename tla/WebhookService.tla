--------------------------- MODULE WebhookService ---------------------------
(***************************************************************************)
(* WebhookService: the calls by which Stripe and MoMo report the end of a  *)
(* checkout.  A provider repeats a call until it is answered with 2xx, and *)
(* may deliver it more than once, also at the same time.                   *)
(*                                                                         *)
(* handleCheckoutCompleted (Stripe, paid) is one transaction:              *)
(*                                                                         *)
(*   idle -> received -> seat, booking -> committing -> acked              *)
(*                                                                         *)
(* The three others find the booking without its seats, so that            *)
(* booking.seats.map throws once the update of the booking has started:    *)
(* the call is answered with 500, nobody waits for the update (it is       *)
(* "floating"), and the update of the seats is never reached.              *)
(*                                                                         *)
(* A transaction keeps one of the connections of Sequelize's pool until it *)
(* ends, a statement outside one needs a connection while it runs.         *)
(***************************************************************************)
EXTENDS PaymentService

CONSTANTS
  CheckoutOf,    \* the checkout that each delivery is about
  Reports,       \* what it says became of it
  Genuine,       \* deliveries that a provider makes, of what really happened
  Connections,   \* connections to the primary
  SeatFirst,     \* the order of the two updates of handleCheckoutCompleted
  MaxFaults      \* bound on crashes and on failing webhook transactions

ASSUME DeliveryAssumption ==
  /\ CheckoutOf \in [Delivery -> Request]
  /\ Reports \in [Delivery -> {"paid", "closed"}]
  /\ Genuine \subseteq Delivery
  /\ \A w \in Delivery : Method[CheckoutOf[w]] = "MOMO" => w \in Genuine
  /\ Connections \in Nat \ {0}
  /\ SeatFirst \in BOOLEAN
  /\ MaxFaults \in Nat

VARIABLES
  hook,        \* where each delivery is
  hookSeat,    \* the row its SELECT ... LIMIT 1 will come to first
  floating,    \* updates of bookings that nobody waits for
  leaked,      \* deliveries whose transaction was never ended
  faults       \* faults so far

hookVars == <<hook, hookSeat, floating, leaked, faults>>

HookInTransaction == {"seat", "booking", "committing"}

HookInit ==
  /\ hook = [w \in Delivery |-> "idle"]
  /\ hookSeat = [w \in Delivery |-> NoTxn]
  /\ floating = {}
  /\ leaked = {}
  /\ faults = 0

HookTypeOK ==
  /\ hook \in [Delivery -> {"idle", "received", "acked", "error"} \cup HookInTransaction]
  /\ hookSeat \in [Delivery -> Seat \cup {NoTxn}]
  /\ floating \subseteq Request \X BookingStatusEnum
  /\ leaked \subseteq Delivery
  /\ faults \in 0 .. MaxFaults

HookGoto(w, from, to) ==
  /\ hook[w] = from
  /\ hook' = [hook EXCEPT ![w] = to]

-----------------------------------------------------------------------------
(* The connection pool *)

(* Whoever has a transaction open holds a connection.                      *)
InUse ==
  {r \in Request : pc[r] \in InTransaction}
    \cup {w \in Delivery : hook[w] \in HookInTransaction}
    \cup leaked

Free == Cardinality(InUse) < Connections

(* No transaction that still runs will ever give a connection back.        *)
Exhausted == Cardinality(leaked) >= Connections

-----------------------------------------------------------------------------
(* Dispatch *)

(* findOne by provider_session_id, in the row that the query sees.         *)
Found(row) == ~row.deleted /\ row.session

(* What the event asks for has been done: a payment is only refused to a   *)
(* PAID booking, the end of a session to any but a PENDING_PAYMENT one.    *)
AlreadyDone(w, row) ==
  IF Reports[w] = "paid" THEN row.status = "PAID"
                         ELSE row.status # "PENDING_PAYMENT"

ToDo(w, row) == Found(row) /\ ~AlreadyDone(w, row)

Transactional(w) == Method[CheckoutOf[w]] = "STRIPE" /\ Reports[w] = "paid"

(* A query of a transaction goes to the primary.                           *)
RowsRead(w) ==
  IF Transactional(w) THEN {bookings[CheckoutOf[w]]} ELSE SeenRows(CheckoutOf[w])

(* The first query of a handler gets its connection: from the pool of the  *)
(* replicas if there are any and it is not in a transaction.               *)
Connected(w) == Free \/ (Replicas /\ ~Transactional(w))

(* Variant: the resultCode of MoMo is not looked at.                       *)
NewStatusAnyResult(w) ==
  IF Method[CheckoutOf[w]] = "STRIPE" /\ Reports[w] = "closed" THEN "EXPIRED" ELSE "PAID"

NewStatus(w) ==
  CASE Reports[w] = "paid" -> "PAID"
    [] Reports[w] = "closed" /\ Method[CheckoutOf[w]] = "STRIPE" -> "EXPIRED"
    [] Reports[w] = "closed" /\ Method[CheckoutOf[w]] = "MOMO" -> "FAILED"

(* The provider calls, for the first time or because the last call failed, *)
(* of a session that ended so.  The handler of Stripe's calls only logs    *)
(* the signature and believes what it is told: a call that is not Stripe's *)
(* may come at any time.  MoMo's calls are answered without touching any   *)
(* state unless the signature is MoMo's.                                   *)
Deliver(w) ==
  /\ w \in Genuine => checkout[CheckoutOf[w]] = Reports[w]
  /\ hook[w] \in {"idle", "error"}
  /\ hook' = [hook EXCEPT ![w] = "received"]
  /\ UNCHANGED <<storage, bookingVars, payVars, hookSeat, floating, leaked, faults>>

(* The pool has no connection to give within its acquire time: the handler *)
(* rejects before it has done anything.                                    *)
AcquireTimeout(w) ==
  /\ ~Connected(w)
  /\ HookGoto(w, "received", "error")
  /\ UNCHANGED <<storage, bookingVars, payVars, hookSeat, floating, leaked, faults>>

(* Variant: the transactional findOne locks the row it finds.              *)
IgnoreLocked(w) ==
  LET r == CheckoutOf[w] IN
  /\ Connected(w)
  /\ \E row \in RowsRead(w) : ~ToDo(w, row)
  /\ bookingLock[r] = NoTxn
  /\ HookGoto(w, "received", "acked")
  /\ leaked' = IF Transactional(w) THEN leaked \cup {w} ELSE leaked
  /\ bookingLock' = IF Transactional(w) /\ Found(bookings[r]) THEN [bookingLock EXCEPT ![r] = w]
                                                   ELSE bookingLock
  /\ UNCHANGED <<seats, bookings, bookingSeats, seatLock, jobs>>
  /\ UNCHANGED <<bookingVars, payVars, hookSeat, floating, faults>>

(* Unknown session, or nothing left to do: answered at once.  In the       *)
(* transactional handler the return skips commit and rollback, so the      *)
(* transaction stays open and keeps its connection.                        *)
Ignore(w) ==
  /\ Connected(w)
  /\ \E row \in RowsRead(w) : ~ToDo(w, row)
  /\ HookGoto(w, "received", "acked")
  /\ leaked' = IF Transactional(w) THEN leaked \cup {w} ELSE leaked
  /\ UNCHANGED <<storage, bookingVars, payVars, hookSeat, floating, faults>>

(* Variant: the TypeError is swallowed and the call answered with 2xx.     *)
UpdateAndAck(w) ==
  /\ ~Transactional(w)
  /\ Connected(w)
  /\ \E row \in RowsRead(w) : ToDo(w, row)
  /\ HookGoto(w, "received", "acked")
  /\ floating' = floating \cup {<<CheckoutOf[w], NewStatus(w)>>}
  /\ UNCHANGED <<storage, bookingVars, payVars, hookSeat, leaked, faults>>

(* The handlers outside a transaction: the update of the booking starts,   *)
(* then booking.seats.map throws a TypeError.                              *)
UpdateAndThrow(w) ==
  /\ ~Transactional(w)
  /\ Connected(w)
  /\ \E row \in RowsRead(w) : ToDo(w, row)
  /\ HookGoto(w, "received", "error")
  /\ floating' = floating \cup {<<CheckoutOf[w], NewStatus(w)>>}
  /\ UNCHANGED <<storage, bookingVars, payVars, hookSeat, leaked, faults>>

(* The floating update reaches the database.                               *)
FloatingUpdate(u) ==
  LET r == u[1] IN
  /\ u \in floating
  /\ Free
  /\ bookingLock[r] = NoTxn
  /\ Live(r)
  /\ floating' = floating \ {u}
  /\ bookings' = [bookings EXCEPT ![r].status = u[2]]
  /\ UNCHANGED <<seats, bookingSeats, seatLock, bookingLock, jobs>>
  /\ UNCHANGED <<bookingVars, payVars, hook, hookSeat, leaked, faults>>

-----------------------------------------------------------------------------
(* handleCheckoutCompleted *)

(* Promise.all starts both updates on the one connection of the            *)
(* transaction, where they run one after the other.  Which is sent first   *)
(* is up to Sequelize, and the same for every call.                        *)
Sent == IF SeatFirst THEN <<"seat", "booking">> ELSE <<"booking", "seat">>

Statement(w, update) ==
  HookGoto(w, update, IF update = Sent[1] THEN Sent[2] ELSE "committing")

(* seatQueue.remove(booking.id): the jobs whose id is that of the booking. *)
RemoveJob(r) == jobs' = {j \in jobs : j.id # <<r>>}

(* findOne with the seats of the booking.  Which of them the later         *)
(* SELECT ... WHERE id IN (...) LIMIT 1 comes to first is PostgreSQL's     *)
(* choice.  The third call of Promise.all goes to Redis.                   *)
FindBooking(w) ==
  LET r == CheckoutOf[w] IN
  /\ Transactional(w)
  /\ Connected(w)
  /\ ToDo(w, bookings[r])
  /\ HookGoto(w, "received", Sent[1])
  /\ \E s \in bookingSeats[r] : hookSeat' = [hookSeat EXCEPT ![w] = s]
  /\ RemoveJob(r)
  /\ UNCHANGED <<seats, bookings, bookingSeats, seatLock, bookingLock>>
  /\ UNCHANGED <<bookingVars, payVars, floating, leaked, faults>>

(* Variant: the update of the booking is not given the transaction.        *)
UpdateBookingAtOnce(w) ==
  LET r == CheckoutOf[w] IN
  /\ bookingLock[r] = NoTxn
  /\ Live(r)
  /\ Statement(w, "booking")
  /\ bookings' = [bookings EXCEPT ![r].status = "PAID"]
  /\ UNCHANGED <<seats, bookingSeats, seatLock, bookingLock, jobs>>
  /\ UNCHANGED <<bookingVars, payVars, hookSeat, floating, leaked, faults>>

(* Variant: the row is checked, but written only at the end.               *)
UpdateBookingLater(w) ==
  LET r == CheckoutOf[w] IN
  /\ bookingLock[r] = NoTxn
  /\ Live(r)
  /\ Statement(w, "booking")
  /\ UNCHANGED storage
  /\ UNCHANGED <<bookingVars, payVars, hookSeat, floating, leaked, faults>>

(* UPDATE bookings: waits for the row, and takes its lock.                 *)
UpdateBooking(w) ==
  LET r == CheckoutOf[w] IN
  /\ bookingLock[r] = NoTxn
  /\ Live(r)
  /\ Statement(w, "booking")
  /\ bookingLock' = [bookingLock EXCEPT ![r] = w]
  /\ UNCHANGED <<seats, bookings, bookingSeats, seatLock, jobs>>
  /\ UNCHANGED <<bookingVars, payVars, hookSeat, floating, leaked, faults>>

(* seatService.updateByCondition: locks and saves one row as BOOKED.       *)
BookSeat(w) ==
  /\ Statement(w, "seat")
  /\ seatLock[hookSeat[w]] = NoTxn
  /\ seatLock' = [seatLock EXCEPT ![hookSeat[w]] = w]
  /\ UNCHANGED <<seats, bookings, bookingSeats, bookingLock, jobs>>
  /\ UNCHANGED <<bookingVars, payVars, hookSeat, floating, leaked, faults>>

ReleaseAll(w) ==
  /\ Release(w)
  /\ bookingLock' = [r \in Request |-> IF bookingLock[r] = w THEN NoTxn ELSE bookingLock[r]]
  /\ hookSeat' = [hookSeat EXCEPT ![w] = NoTxn]

(* What COMMIT makes visible.                                              *)
CommitPaid(w) ==
  /\ CommitSeats(w, "BOOKED")
  /\ bookings' = [bookings EXCEPT ![CheckoutOf[w]].status = "PAID"]
  /\ ReleaseAll(w)
  /\ UNCHANGED <<bookingSeats, jobs, bookingVars, payVars, floating, leaked>>

HookCommit(w) ==
  /\ HookGoto(w, "committing", "acked")
  /\ CommitPaid(w)
  /\ UNCHANGED faults

-----------------------------------------------------------------------------
(* Failures *)

Fault == faults < MaxFaults /\ faults' = faults + 1

(* Variant: the seat was saved without { transaction }.                    *)
HookRollbackTooLate(w) ==
  /\ CommitSeats(w, "BOOKED")
  /\ ReleaseAll(w)
  /\ hook' = [hook EXCEPT ![w] = "error"]
  /\ UNCHANGED <<bookings, bookingSeats, jobs, bookingVars, payVars, floating, leaked>>

(* Variant: the catch block does not rethrow.                              *)
HookRollbackAndAck(w) ==
  /\ ReleaseAll(w)
  /\ hook' = [hook EXCEPT ![w] = "acked"]
  /\ UNCHANGED <<seats, bookings, bookingSeats, jobs, bookingVars, payVars, floating, leaked>>

(* The catch block.                                                        *)
HookRollback(w) ==
  /\ ReleaseAll(w)
  /\ hook' = [hook EXCEPT ![w] = "error"]
  /\ UNCHANGED <<seats, bookings, bookingSeats, jobs, bookingVars, payVars, floating, leaked>>

(* 'Unable to update booking': the row was soft-deleted since it was read. *)
BookingGone(w) ==
  /\ hook[w] = "booking"
  /\ ~Live(CheckoutOf[w])
  /\ HookRollback(w)
  /\ UNCHANGED faults

(* An awaited call of the transaction rejects.                             *)
HookAbort(w) ==
  /\ hook[w] \in HookInTransaction
  /\ Fault
  /\ HookRollback(w)

(* COMMIT took effect but its answer was lost.                             *)
HookCommitUnanswered(w) ==
  /\ Fault
  /\ HookGoto(w, "committing", "error")
  /\ CommitPaid(w)

-----------------------------------------------------------------------------

HookProceed(w) ==
  \/ AcquireTimeout(w)
  \/ Ignore(w)
  \/ UpdateAndThrow(w)
  \/ FindBooking(w)
  \/ UpdateBooking(w)
  \/ BookSeat(w)
  \/ HookCommit(w)
  \/ BookingGone(w)

HookStep(w) ==
  \/ Deliver(w)
  \/ HookProceed(w)
  \/ HookAbort(w)
  \/ HookCommitUnanswered(w)

=============================================================================
