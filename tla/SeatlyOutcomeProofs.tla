------------------------- MODULE SeatlyOutcomeProofs -------------------------
(***************************************************************************)
(* What the invariant of SeatlyProofs gives: theorems about payments and   *)
(* deliveries, about what a step writes to the tables, and about the seats *)
(* that were sold, up to the refinement of SeatReservation.                *)
(***************************************************************************)
EXTENDS SeatlyProofs

(* Type correctness.                                                       *)
THEOREM SeatlyTypeCorrect == Spec => []TypeOK
  <1>1. SeatlyInv => TypeOK
    BY DEF SeatlyInv
  <1>2. QED
    BY <1>1, SeatlyInvariance, PTL

(* A Stripe session is always opened for a customer of its caller.         *)
THEOREM OwnCustomers == Spec => []SessionsHaveOwnCustomer
  <1>1. SeatlyInv => SessionsHaveOwnCustomer
    BY PaymentAssumption DEF SeatlyInv, CustomersFollow, SessionsHaveOwnCustomer
  <1>2. QED
    BY <1>1, SeatlyInvariance, PTL

(* No customer made at Stripe gets lost, but to another one of the user.   *)
THEOREM NoLostCustomer == Spec => []CustomersAccountedFor
  BY SeatlyInvariance, PTL

(* The webhook can find every booking that was paid.                       *)
THEOREM PaidCanBeFound == Spec => []PaidIsFindable
  <1>1. ASSUME SeatlyInv, NEW r \in Request, checkout[r] = "paid"
        PROVE  Exists(r) /\ bookings[r].session /\ bookingSeats[r] # {}
    <2>1. PaymentFollows(r)
      BY <1>1 DEF SeatlyInv, PaymentsFollow
    <2>2. pay[r] = "linked" /\ pc[r] = "created"
      BY <1>1, <2>1 DEF PaymentFollows
    <2>3. Exists(r)
      BY <1>1, <2>2 DEF SeatlyInv, RowsFollowCalls
    <2>4. QED
      BY <2>1, <2>2, <2>3 DEF PaymentFollows
  <1>2. SeatlyInv => PaidIsFindable
    BY <1>1 DEF PaidIsFindable
  <1>3. QED
    BY <1>2, SeatlyInvariance, PTL

(* A booking is PAID for nothing else than a paid session, but where a     *)
(* call that is not the provider's is believed.                            *)
THEOREM RecordedIsPaid == Spec => []RecordedMeansPaid
  <1>1. ASSUME SeatlyInv, NEW r \in Request, bookings[r].status = "PAID", checkout[r] # "paid"
        PROVE  \E w \in Delivery \ Genuine :
                 CheckoutOf[w] = r /\ Reports[w] = "paid" /\ hook[w] # "idle"
    <2>1. PICK w \in Delivery : CheckoutOf[w] = r /\ Reports[w] = "paid" /\ hook[w] # "idle"
      BY <1>1 DEF SeatlyInv, PaymentsFollow, PaymentFollows, SaidPaid
    <2>2. w \notin Genuine
      BY <1>1, <2>1 DEF SeatlyInv, DeliveriesFollow, DeliveryFollows
    <2>3. QED
      BY <2>1, <2>2
  <1>2. SeatlyInv => RecordedMeansPaid
    BY <1>1 DEF RecordedMeansPaid
  <1>3. QED
    BY <1>2, SeatlyInvariance, PTL

(* A transaction that nobody ends has no row locked.                       *)
THEOREM LeaksBlockNobody == Spec => []LeakedHoldsNoRow
  <1>1. ASSUME SeatlyInv, NEW w \in leaked
        PROVE  LockedBy(w) = {} /\ \A r \in Request : bookingLock[r] # w
    <2>1. DeliveryFollows(w)
      BY <1>1 DEF SeatlyInv, TypeOK, HookTypeOK, DeliveriesFollow
    <2>2. hook[w] \notin HookInTransaction
      BY <1>1, <2>1 DEF DeliveryFollows, HookInTransaction
    <2>3. QED
      BY <2>1, <2>2 DEF DeliveryFollows, LockedBy
  <1>2. SeatlyInv => LeakedHoldsNoRow
    BY <1>1 DEF LeakedHoldsNoRow
  <1>3. QED
    BY <1>2, SeatlyInvariance, PTL

-----------------------------------------------------------------------------
(* What a step writes *)

(* To a row of seats: a call takes it, a delivery sells it, or an          *)
(* administrator gives it back.                                            *)
LEMMA SeatWrites ==
  ASSUME SeatlyInv, [Next]_vars, NEW s \in Seat
  PROVE  \/ seats'[s] = seats[s]
         \/ /\ seats[s].status = "AVAILABLE" /\ seats'[s].status = "LOCKED"
            /\ \E r \in Request : CommitStep(r) /\ seatLock[s] = r
         \/ /\ seats'[s].status = "BOOKED"
            /\ \E w \in Delivery :
                 hook[w] = "committing" /\ CommitPaid(w) /\ s = hookSeat[w]
         \/ Reset /\ seats'[s].status = "AVAILABLE"
  <1>1. ASSUME NEW r \in Request, Create(r)
        PROVE  \/ seats'[s] = seats[s]
               \/ /\ seats[s].status = "AVAILABLE" /\ seats'[s].status = "LOCKED"
                  /\ CommitStep(r) /\ seatLock[s] = r
    BY <1>1, BeforeCommit, AtCommit, SeatlyCalls DEF Create
  <1>2. ASSUME NEW r \in Request, Pay(r) PROVE seats'[s] = seats[s]
    BY <1>2, PayWrites DEF Pay, PayStep
  <1>3. ASSUME NEW w \in Delivery, Webhook(w)
        PROVE  \/ seats'[s] = seats[s]
               \/ /\ seats'[s].status = "BOOKED"
                  /\ hook[w] = "committing" /\ CommitPaid(w) /\ s = hookSeat[w]
    <2>1. CASE UNCHANGED <<seats, bookings>>
      BY <2>1
    <2>2. CASE hook[w] = "committing" /\ CommitPaid(w)
      BY <2>2, PaidRows, Committing DEF LockedBy
    <2>3. QED
      BY <1>3, <2>1, <2>2, HookKinds, ReadSteps, LockSteps, EndSteps DEF Webhook
  <1>4. ASSUME NEW u \in floating, Float(u) PROVE seats'[s] = seats[s]
    BY <1>4 DEF Float, FloatingUpdate
  <1>5. ASSUME NEW j \in jobs, UnlockSeat(j) PROVE seats'[s] = seats[s]
    BY <1>5, JobsThrow DEF UnlockSeat
  <1>6. CASE Reset
    <2>1. CASE ResetSeats
      BY <1>6, <2>1 DEF ResetSeats
    <2>2. CASE DeleteBookings \/ ResetFails
      BY <2>2 DEF DeleteBookings, ResetFails, storage
    <2>3. QED
      BY <1>6, <2>1, <2>2 DEF Reset, ResetStep
  <1>7. CASE Crash \/ UnhandledRejection
    BY <1>7 DEF Crash, UnhandledRejection, ProcessDies
  <1>8. CASE UNCHANGED vars
    BY <1>8 DEF vars, storage
  <1>9. QED
    BY <1>1, <1>2, <1>3, <1>4, <1>5, <1>6, <1>7, <1>8 DEF Next

(* What a step may do to a booking and its booking_seats.                  *)
BookingWrites(q) ==
  /\ bookings[q].deleted => bookings'[q] = bookings[q]
  /\ \/ bookingSeats'[q] = bookingSeats[q]
     \/ CommitStep(q)
  /\ Unanimous /\ bookings[q].status = "PAID" => bookings'[q].status = "PAID"
  /\ bookings'[q].status = "PAID" =>
       \/ bookings[q].status = "PAID"
       \/ Method[q] # "STRIPE"
       \/ \E w \in Delivery :
            hook[w] = "committing" /\ CommitPaid(w) /\ CheckoutOf[w] = q

LEMMA CreateWrites ==
  ASSUME SeatlyInv, NEW r \in Request, Create(r), NEW q \in Request
  PROVE  BookingWrites(q)
  <1>1. CreateStep(r)
    BY DEF Create
  <1>2. CASE ~CommitStep(r)
    BY <1>1, <1>2, BeforeCommit, SeatlyCalls DEF BookingWrites
  <1>3. CASE CommitStep(r)
    <2>1. CASE q = r
      BY <1>3, <2>1, AtCommit DEF BookingWrites, NoBooking, PendingBooking
    <2>2. CASE q # r
      BY <1>3, <2>2, AtCommit DEF BookingWrites
    <2>3. QED
      BY <2>1, <2>2
  <1>4. QED
    BY <1>2, <1>3

LEMMA HookWrites ==
  ASSUME SeatlyInv, NEW w \in Delivery, Webhook(w), NEW q \in Request
  PROVE  BookingWrites(q)
  <1>1. HookStep(w) /\ bookingSeats' = bookingSeats
    BY HookLocks DEF Webhook
  <1>2. CASE UNCHANGED <<seats, bookings>>
    BY <1>1, <1>2 DEF BookingWrites
  <1>3. CASE hook[w] = "committing" /\ CommitPaid(w)
    <2>1. CASE q = CheckoutOf[w]
      BY <1>1, <1>3, <2>1, PaidRows, Committing DEF BookingWrites, Live
    <2>2. CASE q # CheckoutOf[w]
      BY <1>1, <1>3, <2>2, PaidRows DEF BookingWrites
    <2>3. QED
      BY <2>1, <2>2
  <1>4. QED
    BY <1>1, <1>2, <1>3, HookKinds, ReadSteps, LockSteps, EndSteps

LEMMA StepWrites ==
  ASSUME SeatlyInv, [Next]_vars, NEW q \in Request
  PROVE  BookingWrites(q)
  <1>1. ASSUME NEW r \in Request, Pay(r) PROVE BookingWrites(q)
    <2>1. PayStep(r)
      BY <1>1 DEF Pay, PayStep
    <2>2. bookingSeats' = bookingSeats
      BY <2>1, PayWrites
    <2>3. /\ bookings'[q].status = bookings[q].status
          /\ ~Live(q) => bookings'[q] = bookings[q]
      BY <2>1, PayRows DEF SeatlyInv, TypeOK, CreateTypeOK, StorageTypeOK
    <2>4. QED
      BY <2>2, <2>3 DEF BookingWrites, Live
  <1>2. ASSUME NEW u \in floating, Float(u) PROVE BookingWrites(q)
    <2>1. FloatingUpdate(u) /\ bookingSeats' = bookingSeats
      BY <1>2 DEF Float, FloatingUpdate
    <2>2. QED
      BY <2>1, FloatRows DEF BookingWrites, Live
  <1>3. ASSUME NEW j \in jobs, UnlockSeat(j) PROVE BookingWrites(q)
    BY <1>3, JobsThrow DEF UnlockSeat, BookingWrites
  <1>4. CASE Reset
    BY <1>4, ResetRows DEF Reset, BookingWrites
  <1>5. CASE Crash \/ UnhandledRejection
    BY <1>5 DEF Crash, UnhandledRejection, ProcessDies, BookingWrites
  <1>6. CASE UNCHANGED vars
    BY <1>6 DEF vars, storage, BookingWrites
  <1>7. QED
    BY <1>1, <1>2, <1>3, <1>4, <1>5, <1>6, CreateWrites, HookWrites DEF Next

(* No step changes a soft-deleted booking.                                 *)
THEOREM DeletedStaysAsItIs == Spec => DeletedRowsFrozen
  <1>1. SeatlyInv /\ [Next]_vars =>
          [\A r \in Request : bookings[r].deleted => bookings'[r] = bookings[r]]_vars
    BY StepWrites DEF BookingWrites
  <1>2. QED
    BY <1>1, SeatlyInvariance, PTL DEF Spec, DeletedRowsFrozen

-----------------------------------------------------------------------------
(* Seats and payments *)

(* A BOOKED seat has a PAID booking.                                       *)
LEMMA BookedStep ==
  ASSUME Unanimous, SeatlyInv, BookedMeansPaid, [Next]_vars
  PROVE  BookedMeansPaid'
  <1> SUFFICES ASSUME NEW s \in Seat, seats'[s].status = "BOOKED"
               PROVE  \/ InitialStatus[s] = "BOOKED"
                      \/ \E r \in Request : s \in bookingSeats'[r] /\ bookings'[r].status = "PAID"
    BY DEF BookedMeansPaid
  <1>1. CASE seats'[s] = seats[s] /\ InitialStatus[s] # "BOOKED"
    <2>1. PICK r \in Request : s \in bookingSeats[r] /\ bookings[r].status = "PAID"
      BY <1>1 DEF BookedMeansPaid
    <2>2. ~CommitStep(r)
      BY <2>1, AtCommit
    <2>3. QED
      BY <2>1, <2>2, StepWrites DEF BookingWrites
  <1>2. ASSUME NEW w \in Delivery, hook[w] = "committing", CommitPaid(w), s = hookSeat[w]
        PROVE  \E r \in Request : s \in bookingSeats'[r] /\ bookings'[r].status = "PAID"
    <2>1. bookingSeats' = bookingSeats
      BY <1>2 DEF CommitPaid
    <2>2. QED
      BY <1>2, <2>1, Committing, PaidRows
  <1>3. QED
    BY <1>1, <1>2, SeatWrites

(* A Stripe call that contradicts another of the same session could write  *)
(* EXPIRED over PAID, and leave the seat BOOKED: hence the hypothesis.     *)
THEOREM BookedIsPaid ==
  ASSUME Unanimous
  PROVE  Spec => []BookedMeansPaid
  <1>1. Init => BookedMeansPaid
    BY DEF Init, CreateInit, StorageInit, BookedMeansPaid
  <1>2. SeatlyInv /\ BookedMeansPaid /\ [Next]_vars => BookedMeansPaid'
    BY BookedStep
  <1>3. QED
    BY <1>1, <1>2, SeatlyInvariance, PTL DEF Spec

-----------------------------------------------------------------------------
(* Answers to the providers *)

(* What the handler of a delivery reads is no older than the booking.      *)
ReadsPrimary(w) == Method[CheckoutOf[w]] = "STRIPE" \/ ~Replicas

(* AckedMeansRecorded of one delivery.                                     *)
Recorded(w) ==
  LET r == CheckoutOf[w] IN
    Reports[w] = "paid" /\ hook[w] = "acked" /\ ~bookings[r].deleted =>
      bookings[r].status = "PAID"

RecordedInv == \A w \in Genuine : ReadsPrimary(w) => Recorded(w)

(* Only these two answer with 2xx.                                         *)
LEMMA AckSteps ==
  ASSUME SeatlyInv, [Next]_vars, NEW w \in Delivery, hook[w] # "acked", hook'[w] = "acked"
  PROVE  Ignore(w) \/ HookCommit(w)
  <1> USE DEF SeatlyInv, TypeOK, HookTypeOK
  <1>1. ASSUME NEW r \in Request, Create(r) \/ Pay(r) PROVE FALSE
    BY <1>1 DEF Create, Pay, hookVars
  <1>2. ASSUME NEW v \in Delivery, Webhook(v) PROVE Ignore(w) \/ HookCommit(w)
    <2>1. v = w /\ HookStep(w)
      BY <1>2, HookLocks DEF Webhook
    <2>2. CASE Deliver(w) \/ AcquireTimeout(w) \/ UpdateAndThrow(w)
      BY <2>2 DEF Deliver, AcquireTimeout, UpdateAndThrow, HookGoto
    <2>3. CASE FindBooking(w) \/ UpdateBooking(w) \/ BookSeat(w)
      BY <2>3 DEF FindBooking, UpdateBooking, BookSeat, Statement, HookGoto, Sent
    <2>4. CASE HookCommitUnanswered(w) \/ BookingGone(w) \/ HookAbort(w)
      BY <2>4 DEF HookCommitUnanswered, BookingGone, HookAbort, HookRollback, HookGoto
    <2>5. QED
      BY <2>1, <2>2, <2>3, <2>4 DEF HookStep, HookProceed
  <1>3. ASSUME NEW u \in floating, Float(u) PROVE FALSE
    BY <1>3 DEF Float, FloatingUpdate
  <1>4. ASSUME NEW j \in jobs, UnlockSeat(j) PROVE FALSE
    BY <1>4 DEF UnlockSeat, hookVars
  <1>5. CASE Reset
    BY <1>5 DEF Reset, hookVars
  <1>6. CASE Crash \/ UnhandledRejection
    BY <1>6 DEF Crash, UnhandledRejection, ProcessDies
  <1>7. CASE UNCHANGED vars
    BY <1>7 DEF vars, hookVars
  <1>8. QED
    BY <1>1, <1>2, <1>3, <1>4, <1>5, <1>6, <1>7 DEF Next

(* An answer without a commit: the booking says already what the provider  *)
(* reports, or was deleted.                                                *)
LEMMA IgnoredIsRecorded ==
  ASSUME SeatlyInv, NEW w \in Genuine, ReadsPrimary(w), Ignore(w)
  PROVE  Recorded(w)'
  <1> DEFINE r == CheckoutOf[w]
  <1> SUFFICES ASSUME Reports[w] = "paid", ~bookings[r].deleted
               PROVE  bookings[r].status = "PAID"
    BY DEF Ignore, Recorded, storage
  <1>1. w \in Delivery /\ r \in Request /\ PaymentFollows(r) /\ DeliveryFollows(w)
    BY DeliveryAssumption DEF SeatlyInv, PaymentsFollow, DeliveriesFollow
  <1>2. RowsRead(w) = {bookings[r]}
    BY <1>1 DEF ReadsPrimary, RowsRead, Transactional, SeenRows
  <1>3. ~ToDo(w, bookings[r])
    BY <1>2 DEF Ignore
  <1>4. bookings[r].session
    BY <1>1 DEF Ignore, HookGoto, DeliveryFollows, PaymentFollows
  <1>5. QED
    BY <1>3, <1>4 DEF ToDo, Found, AlreadyDone

LEMMA RecordedStep ==
  ASSUME Unanimous, SeatlyInv, [Next]_vars, NEW w \in Genuine, ReadsPrimary(w), Recorded(w)
  PROVE  Recorded(w)'
  <1> DEFINE r == CheckoutOf[w]
  <1>1. w \in Delivery /\ r \in Request
    BY DeliveryAssumption
  <1>2. CASE hook'[w] # "acked"
    BY <1>2 DEF Recorded
  <1>3. CASE hook'[w] = "acked" /\ hook[w] = "acked"
    <2>1. BookingWrites(r)
      BY <1>1, StepWrites
    <2>2. QED
      BY <1>3, <2>1 DEF Recorded, BookingWrites
  <1>4. CASE Ignore(w)
    BY <1>4, IgnoredIsRecorded
  <1>5. CASE HookCommit(w)
    BY <1>1, <1>5, PaidRows DEF HookCommit, Recorded
  <1>6. QED
    BY <1>1, <1>2, <1>3, <1>4, <1>5, AckSteps

(* A provider stops repeating the report of a payment only when the        *)
(* booking is PAID, wherever the handler reads the primary.                *)
THEOREM AnswersAreRecorded ==
  ASSUME Unanimous
  PROVE  Spec => []RecordedInv
  <1>1. Init => RecordedInv
    BY DeliveryAssumption DEF Init, HookInit, RecordedInv, Recorded
  <1>2. SeatlyInv /\ RecordedInv /\ [Next]_vars => RecordedInv'
    <2> SUFFICES ASSUME SeatlyInv, RecordedInv, [Next]_vars,
                        NEW w \in Genuine, ReadsPrimary(w)
                 PROVE  Recorded(w)'
      BY DEF RecordedInv, ReadsPrimary
    <2>1. QED
      BY RecordedStep DEF RecordedInv
  <1>3. QED
    BY <1>1, <1>2, SeatlyInvariance, PTL DEF Spec

(* So for all deliveries without replicas, and with them when every caller *)
(* pays through Stripe, whose handler reads in a transaction.              *)
THEOREM AcksAreRecorded ==
  ASSUME Unanimous, ~Replicas \/ \A r \in Request : Method[r] = "STRIPE"
  PROVE  Spec => []AckedMeansRecorded
  <1>1. \A w \in Genuine : ReadsPrimary(w)
    BY DeliveryAssumption DEF ReadsPrimary
  <1>2. RecordedInv => AckedMeansRecorded
    BY <1>1 DEF RecordedInv, Recorded, AckedMeansRecorded
  <1>3. QED
    BY <1>2, AnswersAreRecorded, PTL

-----------------------------------------------------------------------------
(* Seats, until a reset *)

(* A seat in no booking is as the seeder left it; one in a booking was free*)
(* and is no longer AVAILABLE; no seat is in two bookings; and a booking   *)
(* paid through Stripe has a BOOKED seat.                                  *)
SaleInv ==
  /\ \A s \in Seat :
       seats[s].status = "AVAILABLE" =>
         /\ InitialStatus[s] = "AVAILABLE"
         /\ \A r \in Request : s \notin bookingSeats[r]
  /\ \A r \in Request : \A s \in bookingSeats[r] : InitialStatus[s] = "AVAILABLE"
  /\ \A r1, r2 \in Request : r1 # r2 => bookingSeats[r1] \cap bookingSeats[r2] = {}
  /\ StripePaidHasSeat

UntilReset == reset = "idle" => SaleInv

LEMMA SaleInit == Init => UntilReset
  BY DEF Init, CreateInit, StorageInit, NoBooking, UntilReset, SaleInv, StripePaidHasSeat

(* No step takes the reset back.                                           *)
LEMMA ResetStays ==
  ASSUME SeatlyInv, [Next]_vars, reset' = "idle"
  PROVE  reset = "idle" /\ ~Reset
  <1>1. ~Reset
    BY DEF Reset, ResetStep, DeleteBookings, ResetSeats, ResetFails
  <1>2. CASE Crash \/ UnhandledRejection
    BY <1>1, <1>2 DEF Crash, UnhandledRejection, ProcessDies
  <1>3. QED
    BY <1>1, <1>2 DEF Next, Create, Pay, Webhook, Float, UnlockSeat, vars

(* A seat that is not AVAILABLE stays so, a BOOKED one stays BOOKED, and a *)
(* seat that leaves AVAILABLE is one that a call had locked.               *)
LEMMA SoldStays ==
  ASSUME SeatlyInv, [Next]_vars, ~Reset, NEW s \in Seat
  PROVE  /\ seats[s].status # "AVAILABLE" => seats'[s].status # "AVAILABLE"
         /\ seats[s].status = "BOOKED" => seats'[s].status = "BOOKED"
         /\ seats'[s].status = "AVAILABLE" => seats[s].status = "AVAILABLE"
  BY SeatWrites

(* Rows of booking_seats come from the commit of a call, all of its seats  *)
(* AVAILABLE until then.                                                   *)
LEMMA NewRows ==
  ASSUME SeatlyInv, [Next]_vars, NEW r \in Request, bookingSeats'[r] # bookingSeats[r]
  PROVE  /\ CommitStep(r) /\ bookingSeats[r] = {}
         /\ bookingSeats' = [bookingSeats EXCEPT ![r] = LockedBy(r)]
         /\ bookings'[r].status # "PAID"
         /\ \A s \in LockedBy(r) :
              seats[s].status = "AVAILABLE" /\ seats'[s].status # "AVAILABLE"
  <1>1. CommitStep(r)
    BY StepWrites DEF BookingWrites
  <1>2. /\ bookingSeats[r] = {} /\ bookingSeats'[r] = LockedBy(r)
        /\ bookings'[r] = PendingBooking
        /\ \A q \in Request \ {r} : bookingSeats'[q] = bookingSeats[q]
        /\ \A s \in Seat : seatLock[s] = r =>
             seats[s].status = "AVAILABLE" /\ seats'[s].status = "LOCKED"
    BY <1>1, AtCommit
  <1>3. CommitRows(r) /\ pc[r] = "committing"
    BY <1>1, CommitSteps DEF CommitStep
  <1>4. LockedBy(r) = Range(seatIds[r])
    BY <1>3 DEF SeatlyInv, LocksFollowLoop, LocksFollow, InTransaction
  <1>5. bookingSeats' = [bookingSeats EXCEPT ![r] = LockedBy(r)]
    BY <1>3, <1>4 DEF CommitRows, BookingSeatsCreated
  <1>6. QED
    BY <1>1, <1>2, <1>5 DEF LockedBy, PendingBooking

LEMMA SaleStep ==
  ASSUME SeatlyInv, UntilReset, [Next]_vars
  PROVE  UntilReset'
  <1> SUFFICES ASSUME reset' = "idle"
               PROVE  SaleInv'
    BY DEF UntilReset
  <1>1. SaleInv /\ ~Reset
    BY ResetStays DEF UntilReset
  <1>2. bookingSeats \in [Request -> SUBSET Seat]
    BY DEF SeatlyInv, TypeOK, CreateTypeOK, StorageTypeOK
  <1>3. ASSUME NEW r \in Request, NEW s \in bookingSeats'[r]
        PROVE  /\ s \in Seat /\ InitialStatus[s] = "AVAILABLE"
               /\ seats'[s].status # "AVAILABLE"
    <2>1. CASE bookingSeats'[r] = bookingSeats[r]
      <3>1. s \in Seat /\ InitialStatus[s] = "AVAILABLE" /\ seats[s].status # "AVAILABLE"
        BY <1>1, <1>2, <1>3, <2>1 DEF SaleInv
      <3>2. QED
        BY <1>1, <3>1, SoldStays
    <2>2. CASE bookingSeats'[r] # bookingSeats[r]
      <3>1. s \in LockedBy(r)
        BY <1>2, <1>3, <2>2, NewRows
      <3>2. s \in Seat /\ seats[s].status = "AVAILABLE" /\ seats'[s].status # "AVAILABLE"
        BY <2>2, <3>1, NewRows DEF LockedBy
      <3>3. QED
        BY <1>1, <3>2 DEF SaleInv
    <2>3. QED
      BY <2>1, <2>2
  <1>4. \A s \in Seat : seats'[s].status = "AVAILABLE" => InitialStatus[s] = "AVAILABLE"
    BY <1>1, SoldStays DEF SaleInv
  <1>5. ASSUME NEW r1 \in Request, NEW r2 \in Request, r1 # r2
        PROVE  bookingSeats'[r1] \cap bookingSeats'[r2] = {}
    <2>1. CASE bookingSeats' = bookingSeats
      BY <1>1, <1>5, <2>1 DEF SaleInv
    <2>2. ASSUME NEW r \in Request, NEW q \in Request \ {r}, bookingSeats'[r] # bookingSeats[r]
          PROVE  bookingSeats'[r] \cap bookingSeats'[q] = {}
      <3>1. bookingSeats'[r] = LockedBy(r) /\ bookingSeats'[q] = bookingSeats[q]
        BY <1>2, <2>2, NewRows
      <3>2. \A s \in LockedBy(r) : s \in Seat /\ s \notin bookingSeats[q]
        BY <1>1, <2>2, NewRows DEF SaleInv, LockedBy
      <3>3. QED
        BY <3>1, <3>2
    <2>3. CASE bookingSeats'[r1] = bookingSeats[r1] /\ bookingSeats'[r2] = bookingSeats[r2]
      BY <1>1, <1>5, <2>3 DEF SaleInv
    <2>4. QED
      BY <1>5, <2>2, <2>3
  <1>6. StripePaidHasSeat'
    <2> SUFFICES ASSUME NEW r \in Request, bookings'[r].status = "PAID", Method[r] = "STRIPE"
                 PROVE  \E s \in bookingSeats'[r] : seats'[s].status = "BOOKED"
      BY DEF StripePaidHasSeat
    <2>1. bookingSeats'[r] = bookingSeats[r]
      BY NewRows
    <2>2. CASE bookings[r].status = "PAID"
      <3>1. PICK s \in bookingSeats[r] : seats[s].status = "BOOKED"
        BY <1>1, <2>2 DEF SaleInv, StripePaidHasSeat
      <3>2. s \in Seat
        BY <1>2
      <3>3. QED
        BY <1>1, <2>1, <3>1, <3>2, SoldStays
    <2>3. ASSUME NEW w \in Delivery, hook[w] = "committing", CommitPaid(w), CheckoutOf[w] = r
          PROVE  \E s \in bookingSeats'[r] : seats'[s].status = "BOOKED"
      BY <2>1, <2>3, Committing, PaidRows DEF LockedBy
    <2>4. QED
      BY <2>2, <2>3, StepWrites DEF BookingWrites
  <1>7. QED
    BY <1>3, <1>4, <1>5, <1>6 DEF SaleInv

(* Until a reset, the rows of the tables agree on which seats are sold.    *)
THEOREM SoldUntilReset == Spec => []UntilReset
  <1>1. SeatlyInv /\ UntilReset /\ [Next]_vars => UntilReset'
    BY SaleStep
  <1>2. QED
    BY <1>1, SaleInit, SeatlyInvariance, PTL DEF Spec

(* Without the administrator there is no reset.                            *)
LEMMA NeverReset ==
  ASSUME ~AllowReset
  PROVE  Spec => [](reset = "idle")
  <1>1. Init => reset = "idle"
    BY DEF Init, ResetInit
  <1>2. reset = "idle" /\ [Next]_vars => (reset = "idle")'
    <2> SUFFICES ASSUME reset = "idle", [Next]_vars
                 PROVE  reset' = "idle"
      OBVIOUS
    <2>1. CASE Crash \/ UnhandledRejection
      BY <2>1 DEF Crash, UnhandledRejection, ProcessDies
    <2>2. QED
      BY <2>1 DEF Next, Create, Pay, Webhook, Float, UnlockSeat, Reset, vars
  <1>3. QED
    BY <1>1, <1>2, PTL DEF Spec

(* A booking paid through Stripe has a BOOKED seat.                        *)
THEOREM StripePaidIsBooked ==
  ASSUME ~AllowReset
  PROVE  Spec => []StripePaidHasSeat
  <1>1. UntilReset /\ reset = "idle" => StripePaidHasSeat
    BY DEF UntilReset, SaleInv
  <1>2. QED
    BY <1>1, SoldUntilReset, NeverReset, PTL

(* No two customers have a claim to one seat, through payments, webhooks   *)
(* and crashes.                                                            *)
THEOREM ClaimedOnce ==
  ASSUME ~AllowReset
  PROVE  Spec => []NoDoubleClaim
  <1>1. UntilReset /\ reset = "idle" => NoDoubleClaim
    BY DEF UntilReset, SaleInv, NoDoubleClaim, Claims
  <1>2. QED
    BY <1>1, SoldUntilReset, NeverReset, PTL

(* The whole backend implements SeatReservation: a seat is sold once, with *)
(* all the others of its list in one step.                                 *)
THEOREM SaleRefinement ==
  ASSUME ~AllowReset
  PROVE  Spec => SaleSpec
  <1> DEFINE Open == {s \in Seat : InitialStatus[s] = "AVAILABLE"}
  <1>1. Init => Sale!Init
    BY DEF Init, CreateInit, StorageInit, Sale!Init
  <1>2. SeatlyInv /\ CustomersAccountedFor /\ UntilReset /\ reset = "idle" /\ [Next]_vars =>
          [Sale!Next]_bookingSeats
    <2> SUFFICES ASSUME SeatlyInv, CustomersAccountedFor, SaleInv, [Next]_vars,
                        bookingSeats' # bookingSeats
                 PROVE  Sale!Next
      BY DEF UntilReset
    <2>1. bookingSeats \in [Request -> SUBSET Seat]
      BY DEF SeatlyInv, TypeOK, CreateTypeOK, StorageTypeOK
    <2>2. bookingSeats' \in [Request -> SUBSET Seat]
      <3>1. SeatlyInv'
        BY SeatlyStep
      <3>2. QED
        BY <3>1 DEF SeatlyInv, TypeOK, CreateTypeOK, StorageTypeOK
    <2>3. PICK r \in Request : bookingSeats'[r] # bookingSeats[r]
      BY <2>1, <2>2
    <2>4. /\ bookingSeats[r] = {}
          /\ bookingSeats' = [bookingSeats EXCEPT ![r] = LockedBy(r)]
          /\ \A s \in LockedBy(r) : seats[s].status = "AVAILABLE"
      BY <2>3, NewRows
    <2>5. LockedBy(r) \subseteq Open \ UNION {bookingSeats[q] : q \in Request}
      BY <2>4 DEF SaleInv, LockedBy
    <2>6. QED
      BY <2>4, <2>5 DEF Sale!Next, Sale!Reserve, Sale!Taken
  <1>3. QED
    BY <1>1, <1>2, SoldUntilReset, NeverReset, SeatlyInvariance, PTL DEF Spec, SaleSpec, Sale!Spec

-----------------------------------------------------------------------------
(* What the handlers never do *)

(* An unlock job fires and writes no seat: the reason why UnlockJobUnlocks *)
(* is violated, for whatever seats, bookings and jobs there are.           *)
THEOREM JobsUnlockNothing == Spec => [][\A j \in jobs : UnlockSeat(j) => seats' = seats]_vars
  <1>1. SeatlyInv /\ [Next]_vars => [\A j \in jobs : UnlockSeat(j) => seats' = seats]_vars
    BY JobsThrow DEF UnlockSeat
  <1>2. QED
    BY <1>1, SeatlyInvariance, PTL DEF Spec

(* The seats of a booking that is paid through MoMo are never BOOKED: they *)
(* stay LOCKED until a reset.  PaidSeatsBooked fails for all of them.      *)
MomoSeatsLocked ==
  reset = "idle" =>
    \A r \in Request :
      Method[r] = "MOMO" => \A s \in bookingSeats[r] : seats[s].status = "LOCKED"

LEMMA MomoStep ==
  ASSUME SeatlyInv, UntilReset, MomoSeatsLocked, [Next]_vars
  PROVE  MomoSeatsLocked'
  <1> SUFFICES ASSUME reset' = "idle", NEW r \in Request, Method[r] = "MOMO",
                      NEW s \in bookingSeats'[r]
               PROVE  seats'[s].status = "LOCKED"
    BY DEF MomoSeatsLocked
  <1>1. SaleInv /\ reset = "idle" /\ ~Reset
    BY ResetStays DEF UntilReset
  <1>2. bookingSeats \in [Request -> SUBSET Seat]
    BY DEF SeatlyInv, TypeOK, CreateTypeOK, StorageTypeOK
  <1>3. CASE bookingSeats'[r] # bookingSeats[r]
    <2>1. CommitStep(r) /\ s \in LockedBy(r)
      BY <1>2, <1>3, NewRows
    <2>2. QED
      BY <2>1, AtCommit DEF LockedBy
  <1>4. CASE bookingSeats'[r] = bookingSeats[r]
    <2>1. s \in Seat /\ seats[s].status = "LOCKED"
      BY <1>1, <1>2, <1>4 DEF MomoSeatsLocked
    <2>2. ASSUME NEW w \in Delivery, hook[w] = "committing", s = hookSeat[w] PROVE FALSE
      <3>1. CheckoutOf[w] \in Request /\ Method[CheckoutOf[w]] = "STRIPE"
            /\ s \in bookingSeats[CheckoutOf[w]]
        BY <2>2, Committing
      <3>2. QED
        BY <1>1, <1>4, <3>1 DEF SaleInv
    <2>3. QED
      BY <1>1, <2>1, <2>2, SeatWrites
  <1>5. QED
    BY <1>3, <1>4

THEOREM MomoSeatsNeverBooked == Spec => []MomoSeatsLocked
  <1>1. Init => MomoSeatsLocked
    BY DEF Init, CreateInit, StorageInit, MomoSeatsLocked
  <1>2. SeatlyInv /\ UntilReset /\ MomoSeatsLocked /\ [Next]_vars => MomoSeatsLocked'
    BY MomoStep
  <1>3. QED
    BY <1>1, <1>2, SoldUntilReset, SeatlyInvariance, PTL DEF Spec

=============================================================================
