-------------------------------- MODULE Seatly --------------------------------
(***************************************************************************)
(* The backend: booking calls with their payment links, webhook calls, the *)
(* worker of the seat queue and the reset of an administrator, all over    *)
(* one Storage and one pool of connections, and crashes of the one process *)
(* they run in.                                                            *)
(***************************************************************************)
EXTENDS WebhookService, SeatProcessor, AdminController

CONSTANT AllowReset     \* whether the administrator uses reset-system

ASSUME ResetAssumption == AllowReset \in BOOLEAN

vars == <<storage, bookingVars, payVars, hookVars, reset>>

Init ==
  /\ CreateInit
  /\ PayInit
  /\ HookInit
  /\ ResetInit

-----------------------------------------------------------------------------

(* Who begins a transaction or sends a statement waits for a connection.   *)
Create(r) ==
  /\ pc[r] = "idle" => Free
  /\ CreateStep(r)
  /\ UNCHANGED <<payVars, hookVars, reset>>

Pay(r) ==
  /\ \/ PayQuery(r) /\ (Replicas \/ Free)
     \/ PayUpdate(r) /\ Free
     \/ PayCall(r)
  /\ UNCHANGED <<hookVars, reset>>

Webhook(w) == HookStep(w) /\ UNCHANGED reset

Float(u) == FloatingUpdate(u) /\ UNCHANGED reset

UnlockSeat(j) == HandleUnlockSeat(j) /\ UNCHANGED <<bookingVars, payVars, hookVars, reset>>

Reset ==
  /\ AllowReset
  /\ ResetStep
  /\ Free \/ reset' = "failed"
  /\ UNCHANGED <<bookingVars, payVars, hookVars>>

(* The process dies and docker restarts it.  PostgreSQL rolls back what    *)
(* was open; calls in flight end without an answer, which a provider takes *)
(* as a failure.  Redis and the committed rows stay.                       *)
ProcessDies ==
  /\ pc' = [r \in Request |-> IF pc[r] \in InTransaction THEN "failed" ELSE pc[r]]
  /\ pay' = [r \in Request |->
               IF pay[r] \in Paying \/ (pc[r] = "created" /\ pay[r] = "idle")
                 THEN "failed" ELSE pay[r]]
  /\ hook' = [w \in Delivery |->
                IF hook[w] \in {"received"} \cup HookInTransaction THEN "error" ELSE hook[w]]
  /\ reset' = IF reset = "seats" THEN "failed" ELSE reset
  /\ seatLock' = [s \in Seat |-> NoTxn]
  /\ bookingLock' = [r \in Request |-> NoTxn]
  /\ hookSeat' = [w \in Delivery |-> NoTxn]
  /\ floating' = {}
  /\ leaked' = {}
  /\ UNCHANGED <<seats, bookings, bookingSeats, jobs, seatIds, pos, checkout, stripe>>

Crash == Fault /\ ProcessDies

(* A floating update finds its booking soft-deleted, or waits in vain for  *)
(* a connection, and rejects with nobody to catch it: Node ends the        *)
(* process.                                                                *)
UnhandledRejection ==
  /\ \/ \E u \in floating : bookingLock[u[1]] = NoTxn /\ ~Live(u[1])
     \/ floating # {} /\ Exhausted
  /\ ProcessDies
  /\ UNCHANGED faults

Next ==
  \/ \E r \in Request : Create(r) \/ Pay(r)
  \/ \E w \in Delivery : Webhook(w)
  \/ \E u \in floating : Float(u)
  \/ \E j \in jobs : UnlockSeat(j)
  \/ Reset
  \/ Crash
  \/ UnhandledRejection

(* A provider repeats a call that was not answered with 2xx; a handler or  *)
(* a floating update that waits for nothing goes on.  Nobody has to call,  *)
(* to pay or to reset.                                                     *)
Fairness ==
  /\ \A w \in Genuine : WF_vars(Deliver(w) /\ UNCHANGED reset)
  /\ \A w \in Delivery : WF_vars(HookProceed(w) /\ UNCHANGED reset)
  /\ \A r \in Request :
       WF_vars(Proceed(r) /\ UNCHANGED <<payVars, hookVars, reset>>)
  /\ WF_vars((\E r \in Request : Deadlock(r)) /\ UNCHANGED <<payVars, hookVars, reset>>)
  /\ WF_vars(\E u \in floating : Float(u))

Spec == Init /\ [][Next]_vars /\ Fairness

-----------------------------------------------------------------------------
(* Properties *)

(* Every variable has its type.                                            *)
TypeOK == CreateTypeOK /\ PayTypeOK /\ HookTypeOK /\ ResetTypeOK

(* A call has rows once its transaction has committed, and a row lock of a *)
(* call in its transaction is that of a seat still AVAILABLE.              *)
RowsFollowCalls ==
  /\ \A r \in Request :
       /\ Exists(r) => pc[r] \in {"created", "failed"}
       /\ ~Exists(r) => bookings[r] = NoBooking /\ bookingSeats[r] = {}
       /\ pc[r] = "created" => Exists(r)
  /\ \A s \in Seat : seatLock[s] \in Request => seats[s].status = "AVAILABLE"

(* Somebody has said of a session that it was paid.                        *)
SaidPaid(r) ==
  \E w \in Delivery : CheckoutOf[w] = r /\ Reports[w] = "paid" /\ hook[w] # "idle"

(* A session is opened for the seats of a committed booking and is paid    *)
(* only when its id is stored; a booking becomes PAID only by a delivery   *)
(* that says so.                                                           *)
PaymentFollows(r) ==
  /\ pay[r] # "idle" => pc[r] = "created"
  /\ pay[r] \in Paying \cup {"linked"} => bookingSeats[r] # {}
  /\ pay[r] = "linked" => bookings[r].session
  /\ checkout[r] # "none" => pay[r] \in {"saving", "linked", "failed"}
  /\ checkout[r] = "paid" => pay[r] = "linked"
  /\ bookings[r].status = "PAID" => SaidPaid(r)

PaymentsFollow == \A r \in Request : PaymentFollows(r)

(* A delivery of a provider says what became of its session.  A delivery   *)
(* holds row locks only in a transaction: on a row of booking_seats and on *)
(* its booking, each from its own statement on.                            *)
DeliveryFollows(w) ==
  LET r == CheckoutOf[w] IN
  /\ hook[w] # "idle" /\ w \in Genuine => checkout[r] = Reports[w]
  /\ hook[w] \in HookInTransaction => Transactional(w) /\ hookSeat[w] \in bookingSeats[r]
  /\ \A s \in Seat : seatLock[s] = w => hook[w] \in HookInTransaction /\ s = hookSeat[w]
  /\ \A q \in Request : bookingLock[q] = w => hook[w] \in HookInTransaction /\ q = r
  /\ hook[w] = "committing" \/ (hook[w] = "booking" /\ SeatFirst) => seatLock[hookSeat[w]] = w
  /\ hook[w] = "committing" \/ (hook[w] = "seat" /\ ~SeatFirst) => bookingLock[r] = w
  /\ w \in leaked => hook[w] = "acked"

(* A booking whose row is locked is live: the soft delete of a reset waits.*)
DeliveriesFollow ==
  /\ \A w \in Delivery : DeliveryFollows(w)
  /\ \A r \in Request : bookingLock[r] # NoTxn => Live(r)

(* An update that nobody waits for writes what a delivery asked for.       *)
FloatsFollow ==
  \A u \in floating :
    \E w \in Delivery :
      /\ CheckoutOf[w] = u[1]
      /\ hook[w] # "idle"
      /\ ~Transactional(w)
      /\ u[2] = NewStatus(w)

(* The inductive invariant.                                                *)
SeatlyInv ==
  /\ TypeOK
  /\ LocksFollowLoop
  /\ RowsFollowCalls
  /\ PaymentsFollow
  /\ CustomersFollow
  /\ DeliveriesFollow
  /\ FloatsFollow

(* A seat is BOOKED only if it was sold outside the system (seeded so) or  *)
(* a booking that has it is PAID: the seat and the booking change in one   *)
(* transaction, whatever deliveries repeat, overlap or fail.               *)
BookedMeansPaid ==
  \A s \in Seat :
    seats[s].status = "BOOKED" =>
      \/ InitialStatus[s] = "BOOKED"
      \/ \E r \in Request : s \in bookingSeats[r] /\ bookings[r].status = "PAID"

(* A booking paid through Stripe has a BOOKED seat at the least: the       *)
(* update of one row is in the transaction that makes the booking PAID.    *)
StripePaidHasSeat ==
  \A r \in Request :
    bookings[r].status = "PAID" /\ Method[r] = "STRIPE" =>
      \E s \in bookingSeats[r] : seats[s].status = "BOOKED"

(* A delivery in which a provider reports a payment is answered with 2xx   *)
(* only when the booking is recorded as PAID, so that no payment is lost   *)
(* because the provider stopped repeating it too early.                    *)
AckedMeansRecorded ==
  \A w \in Genuine :
    LET r == CheckoutOf[w] IN
      Reports[w] = "paid" /\ hook[w] = "acked" /\ ~bookings[r].deleted =>
        bookings[r].status = "PAID"

(* A booking is PAID only when its session was paid, or when a call that   *)
(* is not the provider's said so of it: webhook.service.ts verifies MoMo's *)
(* signature and logs Stripe's.  Neither a session that closed nor an      *)
(* update that floats since an earlier call makes it PAID.                 *)
RecordedMeansPaid ==
  \A r \in Request :
    bookings[r].status = "PAID" =>
      \/ checkout[r] = "paid"
      \/ \E w \in Delivery \ Genuine :
           CheckoutOf[w] = r /\ Reports[w] = "paid" /\ hook[w] # "idle"

(* Whoever can pay has a booking with seats, under the session id that the *)
(* webhook will look for.                                                  *)
PaidIsFindable ==
  \A r \in Request :
    checkout[r] = "paid" => /\ Exists(r)
                            /\ bookings[r].session
                            /\ bookingSeats[r] # {}

(* The transaction that an early return of handleCheckoutCompleted leaves  *)
(* open holds a connection but no row: it can starve the pool, it cannot   *)
(* block a booking.                                                        *)
LeakedHoldsNoRow ==
  \A w \in leaked :
    /\ LockedBy(w) = {}
    /\ \A r \in Request : bookingLock[r] # w

(* What booking_seats promises while calls are paid for, fail, or die with *)
(* the process: each seat goes to one booking, all of its list in one step *)
(* and for good, until an administrator resets the system.                 *)
Sale ==
  INSTANCE SeatReservation WITH
    Open <- {s \in Seat : InitialStatus[s] = "AVAILABLE"},
    held <- bookingSeats

SaleSpec == Sale!Spec

(* A soft-deleted booking never changes again, although webhooks that read *)
(* it before the reset, updates that float and payment links go on.        *)
DeletedRowsFrozen ==
  [][\A r \in Request : bookings[r].deleted => bookings'[r] = bookings[r]]_vars

(* What a customer has paid is recorded in the end, through failing        *)
(* handlers, repeated calls, crashes and waits for a connection, unless    *)
(* the early returns of handleCheckoutCompleted have leaked them all.      *)
PaymentRecorded ==
  \A r \in Request : checkout[r] = "paid" ~> (bookings[r].status = "PAID" \/ Exhausted)

(* When the unlock job of a booking that waits for its payment fires, the  *)
(* LOCKED seat becomes AVAILABLE (booking.service.ts: "Schedule unlock job *)
(* for each seat", after "10 minutes").                                    *)
UnlockJobUnlocks ==
  [][\A r \in Request : \A s \in bookingSeats[r] :
       /\ UnlockJob(r, s) \in jobs \ jobs'
       /\ bookings[r].status = "PENDING_PAYMENT"
       /\ seats[s].status = "LOCKED"
       => seats'[s].status = "AVAILABLE"]_vars

(* The seats of a PAID booking are BOOKED, all of them.                    *)
PaidSeatsBooked ==
  \A r \in Request :
    bookings[r].status = "PAID" => \A s \in bookingSeats[r] : seats[s].status = "BOOKED"

(* When reset-system answers, no booking is left ("Clear all bookings and  *)
(* reset seats to AVAILABLE").                                             *)
ResetClearsAll ==
  [][reset # "done" /\ reset' = "done" => \A r \in Request : ~Live(r)']_vars

=============================================================================
