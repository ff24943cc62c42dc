---------------------------- MODULE SeatlyProofs ----------------------------
(***************************************************************************)
(* Theorems about the whole backend, for every set of seats, calls, users  *)
(* and deliveries, every lag of the replicas and every crash.  SeatlyInv   *)
(* is inductive.  It has one part per component, and each part speaks of   *)
(* few variables: a lemma ...Stay says under which conditions a step of    *)
(* another component keeps a part, and one lemma per step shows that the   *)
(* conditions hold or how the part changes.                                *)
(***************************************************************************)
EXTENDS Seatly, BookingServiceProofs, PaymentServiceProofs

(* What the lemmas of BookingService ask for.                              *)
LEMMA SeatlyCalls ==
  ASSUME SeatlyInv
  PROVE  CallsInv
  BY DEF SeatlyInv, TypeOK, CallsInv

(* No delivery is a call, and neither is nobody.                           *)
LEMMA Txns ==
  /\ \A w \in Delivery : w \notin Request /\ w # NoTxn
  /\ \A r \in Request : r \notin Delivery /\ r # NoTxn
  BY StorageAssumption DEF Txn

(* Storing the session id changes one field of one row, and so does        *)
(* storing a status.                                                       *)
LEMMA SessionRow ==
  ASSUME NEW table \in [Request -> BookingModel], NEW r \in Request
  PROVE  LET new == [table EXCEPT ![r].session = TRUE] IN
         /\ new \in [Request -> BookingModel]
         /\ new[r].session
         /\ new[r].status = table[r].status /\ new[r].deleted = table[r].deleted
         /\ \A q \in Request \ {r} : new[q] = table[q]
  <1> DEFINE row == [table[r] EXCEPT !.session = TRUE]
             new == [table EXCEPT ![r] = row]
  <1>1. row \in BookingModel
    BY DEF BookingModel
  <1>2. row.session /\ row.status = table[r].status /\ row.deleted = table[r].deleted
    BY DEF BookingModel
  <1>3. [table EXCEPT ![r].session = TRUE] = new
    OBVIOUS
  <1> HIDE DEF row
  <1>4. /\ new \in [Request -> BookingModel]
        /\ new[r] = row
        /\ \A q \in Request \ {r} : new[q] = table[q]
    BY <1>1
  <1>5. QED
    BY <1>2, <1>3, <1>4

LEMMA StatusRow ==
  ASSUME NEW table \in [Request -> BookingModel], NEW r \in Request,
         NEW status \in BookingStatusEnum
  PROVE  LET new == [table EXCEPT ![r].status = status] IN
         /\ new \in [Request -> BookingModel]
         /\ new[r].status = status
         /\ new[r].session = table[r].session /\ new[r].deleted = table[r].deleted
         /\ \A q \in Request \ {r} : new[q] = table[q]
  <1> DEFINE row == [table[r] EXCEPT !.status = status]
             new == [table EXCEPT ![r] = row]
  <1>1. row \in BookingModel
    BY DEF BookingModel
  <1>2. row.status = status /\ row.session = table[r].session /\ row.deleted = table[r].deleted
    BY DEF BookingModel
  <1>3. [table EXCEPT ![r].status = status] = new
    OBVIOUS
  <1> HIDE DEF row
  <1>4. /\ new \in [Request -> BookingModel]
        /\ new[r] = row
        /\ \A q \in Request \ {r} : new[q] = table[q]
    BY <1>1
  <1>5. QED
    BY <1>2, <1>3, <1>4

-----------------------------------------------------------------------------
(* The seeded system *)

LEMMA SeatlyInit == Init => SeatlyInv /\ CustomersAccountedFor
  <1> SUFFICES ASSUME Init PROVE SeatlyInv /\ CustomersAccountedFor
    OBVIOUS
  <1> USE DEF Init, CreateInit, StorageInit, HookInit, ResetInit
  <1>1. CreateInv
    BY InitInv
  <1>2. PayTypeOK /\ CustomersFollow /\ CustomersAccountedFor
    BY CustomersInit
  <1>3. HookTypeOK /\ ResetTypeOK
    BY DeliveryAssumption DEF HookTypeOK, ResetTypeOK
  <1>4. RowsFollowCalls
    BY Txns DEF RowsFollowCalls, Exists, NoBooking
  <1>5. PaymentsFollow
    BY DEF PayInit, PaymentsFollow, PaymentFollows, Paying, NoBooking
  <1>6. DeliveriesFollow
    BY Txns, DeliveryAssumption DEF DeliveriesFollow, DeliveryFollows, HookInTransaction
  <1>7. FloatsFollow
    BY DEF FloatsFollow
  <1>8. QED
    BY <1>1, <1>2, <1>3, <1>4, <1>5, <1>6, <1>7 DEF SeatlyInv, TypeOK, CreateInv

-----------------------------------------------------------------------------
(* When a part of the invariant stays *)

(* A delivery that was made stays made.                                    *)
MadeStays == \A w \in Delivery : hook[w] # "idle" => hook'[w] # "idle"

LEMMA SaidStays ==
  ASSUME MadeStays, NEW r \in Request, SaidPaid(r)
  PROVE  SaidPaid(r)'
  BY DEF MadeStays, SaidPaid

(* The locks of the calls, when no call moves.                             *)
LEMMA LocksStay ==
  ASSUME LocksFollowLoop, UNCHANGED bookingVars,
         \A s \in Seat, r \in Request : seatLock'[s] = r <=> seatLock[s] = r
  PROVE  LocksFollowLoop'
  <1>1. \A r \in Request : LockedBy(r)' = LockedBy(r)
    BY DEF LockedBy
  <1>2. QED
    BY <1>1 DEF LocksFollowLoop, LocksFollow, bookingVars

LEMMA RowsStay ==
  ASSUME RowsFollowCalls, UNCHANGED <<pc, bookingSeats>>,
         \A r \in Request : IF Exists(r) THEN Exists(r)' ELSE bookings'[r] = bookings[r],
         \A s \in Seat : seatLock'[s] \in Request =>
           seatLock[s] = seatLock'[s] /\ seats'[s] = seats[s]
  PROVE  RowsFollowCalls'
  <1>1. \A r \in Request : Exists(r)' <=> Exists(r)
    BY DEF Exists
  <1>2. QED
    BY <1>1 DEF RowsFollowCalls

(* Of the payments, when none of them moves.                               *)
LEMMA PaymentsStay ==
  ASSUME PaymentsFollow, UNCHANGED <<pay, checkout>>, MadeStays,
         \A r \in Request :
           /\ pc[r] = "created" => pc'[r] = "created"
           /\ bookingSeats[r] \subseteq bookingSeats'[r]
           /\ pc[r] = "created" /\ bookings[r].session => bookings'[r].session
           /\ bookings'[r].status = "PAID" => bookings[r].status = "PAID" \/ SaidPaid(r)
  PROVE  PaymentsFollow'
  BY SaidStays DEF PaymentsFollow, PaymentFollows, Paying

LEMMA DeliveriesStay ==
  ASSUME DeliveriesFollow, UNCHANGED <<hook, hookSeat, bookingLock>>, leaked' \subseteq leaked,
         \A r \in Request :
           /\ checkout[r] \in {"paid", "closed"} => checkout'[r] = checkout[r]
           /\ bookingSeats[r] \subseteq bookingSeats'[r]
           /\ bookingLock[r] # NoTxn /\ Live(r) => Live(r)',
         \A s \in Seat, w \in Delivery : seatLock'[s] = w <=> seatLock[s] = w,
         bookingSeats \in [Request -> SUBSET Seat]
  PROVE  DeliveriesFollow'
  <1>1. ASSUME NEW w \in Delivery
        PROVE  DeliveryFollows(w)'
    <2> DEFINE r == CheckoutOf[w]
    <2>1. r \in Request /\ DeliveryFollows(w)
      BY DeliveryAssumption DEF DeliveriesFollow
    <2>2. hook[w] \in HookInTransaction => hookSeat[w] \in Seat
      BY <2>1 DEF DeliveryFollows
    <2>3. hook[w] # "idle" /\ w \in Genuine => checkout'[r] = Reports[w]
      BY <2>1, DeliveryAssumption DEF DeliveryFollows
    <2>4. QED
      BY <2>1, <2>2, <2>3 DEF DeliveryFollows, HookInTransaction
  <1>2. \A r \in Request : bookingLock'[r] # NoTxn => Live(r)'
    BY DEF DeliveriesFollow
  <1>3. QED
    BY <1>1, <1>2 DEF DeliveriesFollow

LEMMA FloatsStay ==
  ASSUME FloatsFollow, floating' \subseteq floating, MadeStays
  PROVE  FloatsFollow'
  BY DEF FloatsFollow, MadeStays

(* Of the customers, when no payment moves.                                *)
LEMMA CustomersKept ==
  ASSUME CustomersFollow, UNCHANGED payVars
  PROVE  CustomersFollow'
  BY DEF CustomersFollow, payVars, stripe

-----------------------------------------------------------------------------
(* createBookingForUser *)

CommitStep(r) == Commit(r) \/ CommitUnanswered(r)

(* What a call does before its commit: it moves, takes a free lock or      *)
(* gives its own back.                                                     *)
LEMMA BeforeCommit ==
  ASSUME CallsInv, NEW r \in Request, CreateStep(r), ~CommitStep(r)
  PROVE  /\ UNCHANGED <<seats, bookings, bookingSeats, bookingLock>>
         /\ pc[r] \notin {"created", "failed"} /\ pc'[r] # "created"
         /\ \A q \in Request \ {r} : pc'[q] = pc[q]
         /\ \A s \in Seat :
              \/ seatLock'[s] = seatLock[s]
              \/ seatLock[s] = r /\ seatLock'[s] = NoTxn
              \/ seatLock[s] = NoTxn /\ seatLock'[s] = r /\ seats[s].status = "AVAILABLE"
  <1> USE DEF CallsInv, CreateTypeOK, StorageTypeOK
  <1>1. CASE Quiet(r)
    <2>1. PICK p \in InTransaction : pc' = [pc EXCEPT ![r] = p]
      BY <1>1, QuietFacts
    <2>2. QED
      BY <1>1, <2>1, QuietFacts DEF Ended, Rejected, InTransaction
  <1>2. CASE LockSeat(r)
    BY <1>2, LockFacts
  <1>3. CASE SeatTaken(r) \/ SeatUnknown(r) \/ Abort(r) \/ Deadlock(r)
    <2>1. PICK p \in Rejected : Rollback(r, p)
      BY <1>3, RollbackSteps
    <2>2. /\ pc' = [pc EXCEPT ![r] = p]
          /\ UNCHANGED <<seats, bookings, bookingSeats, bookingLock>>
          /\ seatLock' = [s \in Seat |-> IF seatLock[s] = r THEN NoTxn ELSE seatLock[s]]
      BY <2>1 DEF Rollback, Release
    <2>3. pc[r] \in InTransaction
      BY <1>3, RollbackSteps
    <2>4. QED
      BY <2>2, <2>3 DEF Rejected, InTransaction
  <1>4. QED
    BY <1>1, <1>2, <1>3 DEF CreateStep, Proceed, Quiet, CommitStep

(* What a commit writes: one new booking, and only rows that the call has  *)
(* locked, which were all AVAILABLE.                                       *)
LEMMA AtCommit ==
  ASSUME SeatlyInv, NEW r \in Request, CommitStep(r)
  PROVE  /\ ~Exists(r) /\ bookings[r] = NoBooking /\ bookingSeats[r] = {}
         /\ pc[r] = "committing" /\ pc'[r] \in {"created", "failed"}
         /\ bookings'[r] = PendingBooking /\ bookingSeats'[r] = LockedBy(r)
         /\ \A q \in Request \ {r} :
              /\ bookings'[q] = bookings[q] /\ bookingSeats'[q] = bookingSeats[q]
              /\ pc'[q] = pc[q]
         /\ \A s \in Seat :
              IF seatLock[s] = r
                THEN /\ seatLock'[s] = NoTxn
                     /\ seats[s].status = "AVAILABLE" /\ seats'[s].status = "LOCKED"
                ELSE /\ seatLock'[s] = seatLock[s]
                     /\ seats'[s] = seats[s]
         /\ bookingLock' = bookingLock
  <1> USE DEF SeatlyInv, TypeOK, CreateTypeOK, StorageTypeOK
  <1>1. CommitRows(r) /\ Release(r) /\ pc[r] = "committing" /\ bookingLock' = bookingLock
    BY CommitSteps DEF CommitStep
  <1>2. PICK p \in {"created", "failed"} : pc' = [pc EXCEPT ![r] = p]
    BY CommitSteps DEF CommitStep
  <1>3. ~Exists(r) /\ bookings[r] = NoBooking /\ bookingSeats[r] = {}
    BY <1>1 DEF RowsFollowCalls
  <1>4. LockedBy(r) = Range(seatIds[r])
    BY <1>1 DEF LocksFollowLoop, LocksFollow, InTransaction
  <1>5. /\ bookings' = [bookings EXCEPT ![r] = PendingBooking]
        /\ bookingSeats' = [bookingSeats EXCEPT ![r] = LockedBy(r)]
    BY <1>1, <1>4 DEF CommitRows, BookingCreated, BookingSeatsCreated
  <1>6. ASSUME NEW s \in Seat
        PROVE  IF seatLock[s] = r
                 THEN /\ seatLock'[s] = NoTxn
                      /\ seats[s].status = "AVAILABLE" /\ seats'[s].status = "LOCKED"
                 ELSE /\ seatLock'[s] = seatLock[s]
                      /\ seats'[s] = seats[s]
    <2>1. seats'[s] = IF seatLock[s] = r THEN Save(seats[s], "LOCKED") ELSE seats[s]
      BY <1>1 DEF CommitRows, CommitSeats
    <2>2. seatLock'[s] = IF seatLock[s] = r THEN NoTxn ELSE seatLock[s]
      BY <1>1 DEF Release
    <2>3. seatLock[s] = r => seats[s].status = "AVAILABLE"
      BY DEF RowsFollowCalls
    <2>4. QED
      BY <2>1, <2>2, <2>3 DEF Save
  <1>7. QED
    BY <1>1, <1>2, <1>3, <1>5, <1>6

LEMMA CreateInvariant ==
  ASSUME SeatlyInv, NEW r \in Request, Create(r)
  PROVE  SeatlyInv'
  <1> USE DEF SeatlyInv, TypeOK
  <1>1. CreateStep(r) /\ UNCHANGED <<payVars, hookVars, reset>>
    BY DEF Create
  <1>2. CallsInv'
    BY <1>1, SeatlyCalls, CallStep
  <1>3. /\ UNCHANGED <<pay, checkout, stripeCustomer, customers, customerId>>
        /\ UNCHANGED <<hook, hookSeat, floating, leaked, faults, reset>>
    BY <1>1 DEF payVars, stripe, hookVars
  <1>4. TypeOK' /\ MadeStays
    BY <1>2, <1>3 DEF CallsInv, PayTypeOK, HookTypeOK, ResetTypeOK, MadeStays
  <1>5. CustomersFollow' /\ FloatsFollow'
    BY <1>1, <1>3, <1>4, CustomersKept, FloatsStay
  <1>6. \A s \in Seat, w \in Delivery : seatLock'[s] = w <=> seatLock[s] = w
    <2>1. CASE ~CommitStep(r)
      BY <1>1, <2>1, SeatlyCalls, BeforeCommit, Txns
    <2>2. CASE CommitStep(r)
      BY <2>2, AtCommit, Txns
    <2>3. QED
      BY <2>1, <2>2
  <1>7. bookingLock' = bookingLock
    BY <1>1, SeatlyCalls, BeforeCommit, AtCommit
  <1>8. \A q \in Request :
          /\ pc[q] = "created" => pc'[q] = "created"
          /\ pc[q] = "created" => bookings'[q] = bookings[q]
          /\ bookingSeats[q] \subseteq bookingSeats'[q]
          /\ bookings'[q].status = "PAID" => bookings[q].status = "PAID"
          /\ Live(q) => Live(q)'
    <2>1. CASE ~CommitStep(r)
      BY <1>1, <2>1, SeatlyCalls, BeforeCommit DEF Live, Exists
    <2>2. CASE CommitStep(r)
      <3>1. ~Live(r) /\ bookingSeats[r] = {} /\ pc[r] # "created"
            /\ bookings'[r].status # "PAID"
        BY <2>2, AtCommit DEF Live, PendingBooking
      <3>2. \A q \in Request \ {r} :
              bookings'[q] = bookings[q] /\ bookingSeats'[q] = bookingSeats[q] /\ pc'[q] = pc[q]
        BY <2>2, AtCommit
      <3>3. QED
        BY <3>1, <3>2 DEF Live, Exists
    <2>3. QED
      BY <2>1, <2>2
  <1>9. PaymentsFollow'
    BY <1>3, <1>4, <1>8, PaymentsStay
  <1>10. DeliveriesFollow'
    BY <1>3, <1>6, <1>7, <1>8, DeliveriesStay DEF CreateTypeOK, StorageTypeOK, HookTypeOK
  <1>11. RowsFollowCalls'
    <2>1. CASE ~CommitStep(r)
      <3>1. ~Exists(r) /\ pc'[r] # "created"
        BY <1>1, <2>1, SeatlyCalls, BeforeCommit DEF RowsFollowCalls
      <3>2. UNCHANGED <<seats, bookings, bookingSeats>>
            /\ \A q \in Request \ {r} : pc'[q] = pc[q]
        BY <1>1, <2>1, SeatlyCalls, BeforeCommit
      <3>3. \A s \in Seat : seatLock'[s] \in Request => seats[s].status = "AVAILABLE"
        BY <1>1, <2>1, SeatlyCalls, BeforeCommit, Txns DEF RowsFollowCalls
      <3>4. QED
        BY <3>1, <3>2, <3>3 DEF RowsFollowCalls, Exists
    <2>2. CASE CommitStep(r)
      <3>1. ASSUME NEW q \in Request
            PROVE  /\ Exists(q)' => pc'[q] \in {"created", "failed"}
                   /\ ~Exists(q)' => bookings'[q] = NoBooking /\ bookingSeats'[q] = {}
                   /\ pc'[q] = "created" => Exists(q)'
        <4>1. CASE q = r
          BY <2>2, <4>1, AtCommit DEF Exists, PendingBooking
        <4>2. CASE q # r
          <5>1. bookings'[q] = bookings[q] /\ bookingSeats'[q] = bookingSeats[q] /\ pc'[q] = pc[q]
            BY <2>2, <4>2, AtCommit
          <5>2. QED
            BY <5>1 DEF RowsFollowCalls, Exists
        <4>3. QED
          BY <4>1, <4>2
      <3>2. ASSUME NEW s \in Seat, seatLock'[s] \in Request
            PROVE  seats'[s].status = "AVAILABLE"
        <4>1. seatLock[s] # r /\ seatLock'[s] = seatLock[s] /\ seats'[s] = seats[s]
          BY <2>2, <3>2, AtCommit, Txns
        <4>2. QED
          BY <3>2, <4>1 DEF RowsFollowCalls
      <3>3. QED
        BY <3>1, <3>2 DEF RowsFollowCalls
    <2>3. QED
      BY <2>1, <2>2
  <1>12. QED
    BY <1>2, <1>4, <1>5, <1>9, <1>10, <1>11 DEF CallsInv

-----------------------------------------------------------------------------
(* createPaymentLink and the provider *)

(* What a step of a payment can change outside its own variables: that its *)
(* live booking gets a session id.                                         *)
LEMMA PayWrites ==
  ASSUME NEW r \in Request, PayStep(r)
  PROVE  /\ UNCHANGED <<seats, bookingSeats, seatLock, bookingLock, jobs, pc, seatIds, pos>>
         /\ \/ bookings' = bookings
            \/ (bookings' = [bookings EXCEPT ![r].session = TRUE] /\ Live(r))
  BY DEF PayStep, PayQuery, PayUpdate, PayCall, ReadBooking, FindCustomer, CreateCustomer, StoreCustomer,
         StripeCreatePaymentLink, MomoCreatePaymentLink, SaveSession, PayFails,
         PayUnanswered, CustomerPays, CheckoutCloses, SessionSaved, storage, bookingVars

(* The same, booking by booking.                                           *)
LEMMA PayRows ==
  ASSUME bookings \in [Request -> BookingModel], NEW r \in Request, PayStep(r)
  PROVE  /\ bookings' \in [Request -> BookingModel]
         /\ \A q \in Request :
              /\ bookings'[q].status = bookings[q].status
              /\ bookings'[q].deleted = bookings[q].deleted
              /\ bookings[q].session => bookings'[q].session
              /\ ~Live(q) => bookings'[q] = bookings[q]
  <1>1. CASE bookings' = bookings
    BY <1>1
  <1>2. CASE bookings' = [bookings EXCEPT ![r].session = TRUE] /\ Live(r)
    <2>1. /\ bookings' \in [Request -> BookingModel]
          /\ bookings'[r].session
          /\ bookings'[r].status = bookings[r].status
          /\ bookings'[r].deleted = bookings[r].deleted
          /\ \A q \in Request \ {r} : bookings'[q] = bookings[q]
      BY <1>2, SessionRow
    <2>2. QED
      BY <1>2, <2>1
  <1>3. QED
    BY <1>1, <1>2, PayWrites

LEMMA PayTypes ==
  ASSUME PayTypeOK, NEW r \in Request, PayStep(r)
  PROVE  PayTypeOK'
  <1> USE DEF PayTypeOK, PayGoto, Paying, CustomerMade, CustomerStored, SessionOpened, stripe
  <1>1. CASE ReadBooking(r)
    BY <1>1 DEF ReadBooking, GetAdapter
  <1>2. CASE FindCustomer(r)
    <2>1. SeenCustomers(UserOf[r]) \subseteq Request \cup User \cup {NoCustomer}
      BY PaymentAssumption DEF SeenCustomers, FirstCustomer
    <2>2. QED
      BY <1>2, <2>1 DEF FindCustomer
  <1>3. CASE CreateCustomer(r) \/ StoreCustomer(r)
    BY <1>3, PaymentAssumption DEF CreateCustomer, StoreCustomer
  <1>4. CASE StripeCreatePaymentLink(r) \/ MomoCreatePaymentLink(r) \/ SaveSession(r)
    BY <1>4 DEF StripeCreatePaymentLink, MomoCreatePaymentLink, SaveSession
  <1>5. CASE PayFails(r) \/ PayUnanswered(r) \/ CustomerPays(r) \/ CheckoutCloses(r)
    BY <1>5 DEF PayFails, PayUnanswered, CustomerPays, CheckoutCloses
  <1>6. QED
    BY <1>1, <1>2, <1>3, <1>4, <1>5 DEF PayStep, PayQuery, PayUpdate, PayCall

(* A payment touches only its own session, and an ended one is over.       *)
LEMMA PayOthers ==
  ASSUME PayTypeOK, PaymentsFollow, NEW r \in Request, PayStep(r)
  PROVE  /\ \A q \in Request \ {r} : pay'[q] = pay[q] /\ checkout'[q] = checkout[q]
         /\ checkout[r] \in {"paid", "closed"} => checkout'[r] = checkout[r]
  <1> USE DEF PayTypeOK, PayGoto, SessionOpened
  <1>1. \A q \in Request \ {r} : pay'[q] = pay[q] /\ checkout'[q] = checkout[q]
    BY DEF PayStep, PayQuery, PayUpdate, PayCall, ReadBooking, FindCustomer, CreateCustomer, StoreCustomer,
           StripeCreatePaymentLink, MomoCreatePaymentLink, SaveSession, PayFails,
           PayUnanswered, CustomerPays, CheckoutCloses
  <1>2. pay[r] = "linking" => checkout[r] = "none"
    BY DEF PaymentsFollow, PaymentFollows
  <1>3. checkout[r] \in {"paid", "closed"} => checkout'[r] = checkout[r]
    BY <1>2
    DEF PayStep, PayQuery, PayUpdate, PayCall, ReadBooking, FindCustomer, CreateCustomer, StoreCustomer,
        StripeCreatePaymentLink, MomoCreatePaymentLink, SaveSession, PayFails,
        PayUnanswered, CustomerPays, CheckoutCloses
  <1>4. QED
    BY <1>1, <1>3

LEMMA PayPayments ==
  ASSUME SeatlyInv, NEW r \in Request, PayStep(r), MadeStays
  PROVE  PaymentsFollow'
  <1> USE DEF SeatlyInv, TypeOK, PayTypeOK, CreateTypeOK, StorageTypeOK
  <1>1. UNCHANGED <<bookingSeats, pc>>
    BY PayWrites
  <1>2. \A q \in Request : /\ bookings'[q].status = bookings[q].status
                           /\ bookings[q].session => bookings'[q].session
                           /\ SaidPaid(q) => SaidPaid(q)'
    BY PayRows, SaidStays
  <1>3. PaymentFollows(r)
    BY DEF PaymentsFollow
  <1>4. PaymentFollows(r)'
    <2> USE DEF PayGoto, Paying, PaymentFollows
    <2>1. CASE ReadBooking(r)
      <3>1. PICK row \in SeenRows(r) :
              pay' = [pay EXCEPT ![r] = IF Payable(r, row) THEN GetAdapter(r) ELSE "refused"]
        BY <2>1 DEF ReadBooking
      <3>2. pc[r] = "created" /\ pay[r] = "idle" /\ checkout' = checkout
        BY <2>1 DEF ReadBooking
      <3>3. Payable(r, row) => bookingSeats[r] # {}
        BY DEF Payable
      <3>4. QED
        BY <1>1, <1>2, <1>3, <3>1, <3>2, <3>3 DEF GetAdapter
    <2>2. CASE FindCustomer(r) \/ CreateCustomer(r) \/ StoreCustomer(r)
      BY <1>1, <1>2, <1>3, <2>2 DEF FindCustomer, CreateCustomer, StoreCustomer
    <2>3. CASE StripeCreatePaymentLink(r) \/ MomoCreatePaymentLink(r)
      BY <1>1, <1>2, <1>3, <2>3
      DEF StripeCreatePaymentLink, MomoCreatePaymentLink, SessionOpened
    <2>4. CASE SaveSession(r)
      <3>1. /\ pay[r] = "saving" /\ checkout' = checkout
            /\ pay'[r] = IF Live(r) THEN "linked" ELSE "failed"
            /\ Live(r) => bookings'[r].session
        BY <2>4, SessionRow DEF SaveSession, SessionSaved
      <3>2. QED
        BY <1>1, <1>2, <1>3, <3>1
    <2>5. CASE PayFails(r) \/ PayUnanswered(r)
      BY <1>1, <1>2, <1>3, <2>5 DEF PayFails, PayUnanswered, SessionOpened
    <2>6. CASE CustomerPays(r) \/ CheckoutCloses(r)
      BY <1>1, <1>2, <1>3, <2>6 DEF CustomerPays, CheckoutCloses
    <2>7. QED
      BY <2>1, <2>2, <2>3, <2>4, <2>5, <2>6 DEF PayStep, PayQuery, PayUpdate, PayCall
  <1>5. ASSUME NEW q \in Request \ {r}
        PROVE  PaymentFollows(q)'
    <2>1. pay'[q] = pay[q] /\ checkout'[q] = checkout[q]
      BY PayOthers
    <2>2. PaymentFollows(q)
      BY DEF PaymentsFollow
    <2>3. QED
      BY <1>1, <1>2, <2>1, <2>2 DEF PaymentFollows
  <1>6. QED
    BY <1>4, <1>5 DEF PaymentsFollow

LEMMA PayInvariant ==
  ASSUME SeatlyInv, CustomersAccountedFor, NEW r \in Request, Pay(r)
  PROVE  SeatlyInv' /\ CustomersAccountedFor'
  <1> USE DEF SeatlyInv, TypeOK
  <1>1. /\ PayStep(r) /\ MadeStays
        /\ UNCHANGED <<hook, hookSeat, floating, leaked, faults, reset>>
    BY DEF Pay, PayStep, hookVars, MadeStays
  <1>2. UNCHANGED <<seats, bookingSeats, seatLock, bookingLock, jobs, pc, seatIds, pos>>
    BY <1>1, PayWrites
  <1>3. /\ bookings' \in [Request -> BookingModel]
        /\ \A q \in Request :
             /\ bookings'[q].status = bookings[q].status
             /\ bookings'[q].deleted = bookings[q].deleted
             /\ ~Live(q) => bookings'[q] = bookings[q]
    BY <1>1, PayRows DEF CreateTypeOK, StorageTypeOK
  <1>4. TypeOK'
    <2>1. CreateTypeOK'
      BY <1>2, <1>3 DEF CreateTypeOK, StorageTypeOK
    <2>2. HookTypeOK' /\ ResetTypeOK'
      BY <1>1 DEF HookTypeOK, ResetTypeOK
    <2>3. QED
      BY <1>1, <2>1, <2>2, PayTypes
  <1>5. CustomersFollow' /\ CustomersAccountedFor'
    BY <1>1, PayStepFollows DEF PaymentsFollow, PaymentFollows
  <1>6. LocksFollowLoop'
    BY <1>2, LocksStay DEF bookingVars
  <1>7. \A q \in Request :
          /\ IF Exists(q) THEN Exists(q)' ELSE bookings'[q] = bookings[q]
          /\ Live(q) => Live(q)'
    BY <1>3 DEF Exists, Live
  <1>8. RowsFollowCalls'
    BY <1>2, <1>7, RowsStay
  <1>9. \A q \in Request : checkout[q] \in {"paid", "closed"} => checkout'[q] = checkout[q]
    BY <1>1, PayOthers
  <1>10. DeliveriesFollow'
    BY <1>1, <1>2, <1>7, <1>9, DeliveriesStay DEF CreateTypeOK, StorageTypeOK, HookTypeOK
  <1>11. FloatsFollow'
    BY <1>1, FloatsStay
  <1>12. QED
    BY <1>1, <1>4, <1>5, <1>6, <1>8, <1>10, <1>11, PayPayments

-----------------------------------------------------------------------------
(* The webhook *)

(* The steps before the first statement of a transaction, or without one.  *)
Reads(w) ==
  Deliver(w) \/ AcquireTimeout(w) \/ Ignore(w) \/ UpdateAndThrow(w) \/ FindBooking(w)

(* The steps that take a row lock.                                         *)
Locks(w) == UpdateBooking(w) \/ BookSeat(w)

(* The steps that end the transaction.                                     *)
Ends(w) == HookCommit(w) \/ HookCommitUnanswered(w) \/ BookingGone(w) \/ HookAbort(w)

LEMMA HookKinds ==
  ASSUME NEW w \in Delivery, HookStep(w)
  PROVE  Reads(w) \/ Locks(w) \/ Ends(w)
  BY DEF HookStep, HookProceed, Reads, Locks, Ends

LEMMA ReadSteps ==
  ASSUME NEW w \in Delivery, Reads(w)
  PROVE  /\ UNCHANGED <<seats, bookings, bookingSeats, seatLock, bookingLock>>
         /\ UNCHANGED <<bookingVars, payVars, faults>>
         /\ jobs' \subseteq jobs
         /\ hook[w] \in {"idle", "received", "error"}
         /\ \E p \in {"received", "acked", "error", "seat", "booking"} :
              hook' = [hook EXCEPT ![w] = p]
         /\ \/ hookSeat' = hookSeat
            \/ \E s \in bookingSeats[CheckoutOf[w]] : hookSeat' = [hookSeat EXCEPT ![w] = s]
         /\ leaked \subseteq leaked' /\ leaked' \subseteq leaked \cup {w}
  BY DEF Reads, Deliver, AcquireTimeout, Ignore, UpdateAndThrow, FindBooking, HookGoto, RemoveJob,
         Sent, storage

LEMMA LockSteps ==
  ASSUME NEW w \in Delivery, Locks(w)
  PROVE  /\ UNCHANGED <<seats, bookings, bookingSeats, jobs, hookSeat, floating, leaked, faults>>
         /\ UNCHANGED <<bookingVars, payVars>>
         /\ hook[w] \in HookInTransaction
         /\ \E p \in {"seat", "booking", "committing"} : hook' = [hook EXCEPT ![w] = p]
         /\ \/ /\ bookingLock' = bookingLock /\ seatLock[hookSeat[w]] = NoTxn
               /\ seatLock' = [seatLock EXCEPT ![hookSeat[w]] = w]
            \/ /\ seatLock' = seatLock /\ bookingLock[CheckoutOf[w]] = NoTxn
               /\ bookingLock' = [bookingLock EXCEPT ![CheckoutOf[w]] = w]
               /\ Live(CheckoutOf[w])
  BY DEF Locks, UpdateBooking, BookSeat, Statement, HookGoto, Sent, HookInTransaction

LEMMA EndSteps ==
  ASSUME NEW w \in Delivery, Ends(w)
  PROVE  /\ UNCHANGED <<bookingSeats, jobs, floating, leaked>>
         /\ UNCHANGED <<bookingVars, payVars>>
         /\ faults' = faults \/ Fault
         /\ hook[w] \in HookInTransaction
         /\ \E p \in {"acked", "error"} : hook' = [hook EXCEPT ![w] = p]
         /\ ReleaseAll(w)
         /\ \/ hook[w] = "committing" /\ CommitPaid(w)
            \/ UNCHANGED <<seats, bookings>>
  BY DEF Ends, HookCommit, HookCommitUnanswered, BookingGone, HookAbort, HookGoto,
         HookRollback, CommitPaid, HookInTransaction

(* A delivery moves nobody else, and the locks it takes were free.         *)
LEMMA HookLocks ==
  ASSUME SeatlyInv, NEW w \in Delivery, HookStep(w)
  PROVE  /\ UNCHANGED <<bookingSeats, bookingVars, payVars>>
         /\ \A v \in Delivery \ {w} :
              hook'[v] = hook[v] /\ hookSeat'[v] = hookSeat[v] /\ (v \in leaked' => v \in leaked)
         /\ \A s \in Seat :
              \/ seatLock'[s] = seatLock[s]
              \/ seatLock[s] = w /\ seatLock'[s] = NoTxn
              \/ seatLock[s] = NoTxn /\ seatLock'[s] = w
         /\ \A q \in Request :
              \/ bookingLock'[q] = bookingLock[q]
              \/ bookingLock[q] = w /\ bookingLock'[q] = NoTxn
              \/ bookingLock[q] = NoTxn /\ bookingLock'[q] = w /\ Live(q)
  <1> USE DEF SeatlyInv, TypeOK, HookTypeOK, CreateTypeOK, StorageTypeOK
  <1> DEFINE r == CheckoutOf[w]
  <1>1. CASE Reads(w)
    <2>1. PICK p : hook' = [hook EXCEPT ![w] = p]
      BY <1>1, ReadSteps
    <2>2. \A v \in Delivery \ {w} : hookSeat'[v] = hookSeat[v]
      <3>1. hookSeat' = hookSeat \/ \E s : hookSeat' = [hookSeat EXCEPT ![w] = s]
        BY <1>1, ReadSteps
      <3>2. QED
        BY <3>1
    <2>3. QED
      BY <1>1, <2>1, <2>2, ReadSteps
  <1>2. CASE Locks(w)
    <2>1. PICK p : hook' = [hook EXCEPT ![w] = p]
      BY <1>2, LockSteps
    <2>2. QED
      BY <1>2, <2>1, LockSteps
  <1>3. CASE Ends(w)
    <2>1. PICK p : hook' = [hook EXCEPT ![w] = p]
      BY <1>3, EndSteps
    <2>2. ReleaseAll(w)
      BY <1>3, EndSteps
    <2>3. QED
      BY <1>3, <2>1, <2>2, EndSteps DEF ReleaseAll, Release
  <1>4. QED
    BY <1>1, <1>2, <1>3, HookKinds

(* What a delivery commits: its own booking becomes PAID, and the rows it  *)
(* has locked BOOKED.                                                      *)
LEMMA PaidRows ==
  ASSUME SeatlyInv, NEW w \in Delivery, CommitPaid(w)
  PROVE  LET r == CheckoutOf[w] IN
         /\ r \in Request
         /\ bookings' \in [Request -> BookingModel]
         /\ bookings'[r].status = "PAID"
         /\ bookings'[r].session = bookings[r].session
         /\ bookings'[r].deleted = bookings[r].deleted
         /\ \A q \in Request \ {r} : bookings'[q] = bookings[q]
         /\ seats' \in [Seat -> SeatModel]
         /\ \A s \in Seat : IF seatLock[s] = w THEN seats'[s].status = "BOOKED"
                                               ELSE seats'[s] = seats[s]
  <1> USE DEF SeatlyInv, TypeOK, CreateTypeOK, StorageTypeOK
  <1> DEFINE r == CheckoutOf[w]
  <1>1. r \in Request /\ "PAID" \in BookingStatusEnum
    BY DeliveryAssumption DEF BookingStatusEnum
  <1>2. bookings' = [bookings EXCEPT ![r].status = "PAID"]
    BY DEF CommitPaid
  <1>3. seats' = [s \in Seat |-> IF seatLock[s] = w THEN Save(seats[s], "BOOKED") ELSE seats[s]]
    BY DEF CommitPaid, CommitSeats
  <1>4. \A s \in Seat :
          Save(seats[s], "BOOKED") \in SeatModel /\ Save(seats[s], "BOOKED").status = "BOOKED"
    BY DEF Save, SeatModel, SeatStatusEnum
  <1>5. /\ bookings' \in [Request -> BookingModel]
        /\ bookings'[r].status = "PAID"
        /\ bookings'[r].session = bookings[r].session
        /\ bookings'[r].deleted = bookings[r].deleted
        /\ \A q \in Request \ {r} : bookings'[q] = bookings[q]
    <2> HIDE DEF r
    <2>1. bookings \in [Request -> BookingModel]
      OBVIOUS
    <2> HIDE DEF SeatlyInv
    <2>2. QED
      BY <1>1, <1>2, <2>1, StatusRow
  <1>6. /\ seats' \in [Seat -> SeatModel]
        /\ \A s \in Seat : IF seatLock[s] = w THEN seats'[s].status = "BOOKED"
                                              ELSE seats'[s] = seats[s]
    BY <1>3, <1>4
  <1>7. QED
    BY <1>1, <1>5, <1>6

(* A delivery about to commit has its booking and one of its seats locked, *)
(* and reports a payment.                                                  *)
LEMMA Committing ==
  ASSUME SeatlyInv, NEW w \in Delivery, hook[w] = "committing"
  PROVE  LET r == CheckoutOf[w] IN
         /\ r \in Request
         /\ SaidPaid(r) /\ Method[r] = "STRIPE"
         /\ hookSeat[w] \in Seat /\ hookSeat[w] \in bookingSeats[r]
         /\ LockedBy(w) = {hookSeat[w]}
         /\ bookingLock[r] = w /\ Live(r)
  <1> USE DEF SeatlyInv, TypeOK, CreateTypeOK, StorageTypeOK
  <1> DEFINE r == CheckoutOf[w]
  <1>1. r \in Request /\ DeliveryFollows(w)
    BY DeliveryAssumption DEF DeliveriesFollow
  <1>2. /\ Transactional(w) /\ hookSeat[w] \in bookingSeats[r]
        /\ seatLock[hookSeat[w]] = w /\ bookingLock[r] = w
        /\ \A s \in Seat : seatLock[s] = w => s = hookSeat[w]
    BY <1>1 DEF DeliveryFollows, HookInTransaction
  <1>3. SaidPaid(r)
    BY <1>2 DEF Transactional, SaidPaid
  <1>4. hookSeat[w] \in Seat
    BY <1>1, <1>2
  <1>5. Live(r)
    BY <1>1, <1>2, Txns DEF DeliveriesFollow
  <1>6. QED
    BY <1>1, <1>2, <1>3, <1>4, <1>5 DEF LockedBy, Transactional

(* What a delivery asks for is a status of a booking.                      *)
LEMMA NewStatusType ==
  ASSUME NEW w \in Delivery
  PROVE  /\ NewStatus(w) \in BookingStatusEnum
         /\ NewStatus(w) = "PAID" <=> Reports[w] = "paid"
  <1>1. CheckoutOf[w] \in Request /\ Reports[w] \in {"paid", "closed"}
    BY DeliveryAssumption
  <1>2. Method[CheckoutOf[w]] \in {"STRIPE", "MOMO"}
    BY <1>1, PaymentAssumption DEF PaymentProviderEnum
  <1>3. QED
    BY <1>1, <1>2 DEF NewStatus, BookingStatusEnum

LEMMA HookTypes ==
  ASSUME SeatlyInv, NEW w \in Delivery, HookStep(w)
  PROVE  CreateTypeOK' /\ PayTypeOK' /\ HookTypeOK'
  <1> USE DEF SeatlyInv, TypeOK, HookTypeOK, CreateTypeOK, StorageTypeOK
  <1> DEFINE r == CheckoutOf[w]
  <1>1. UNCHANGED <<bookingSeats, bookingVars, payVars>>
    BY HookLocks
  <1>2. r \in Request /\ DeliveryFollows(w)
    BY DeliveryAssumption DEF DeliveriesFollow
  <1>3. seats' \in [Seat -> SeatModel] /\ bookings' \in [Request -> BookingModel]
    <2>1. CASE UNCHANGED <<seats, bookings>>
      BY <2>1
    <2>2. CASE CommitPaid(w)
      BY <2>2, PaidRows
    <2>3. QED
      BY <2>1, <2>2, HookKinds, ReadSteps, LockSteps, EndSteps
  <1>4. /\ seatLock' \in [Seat -> Txn \cup {NoTxn}]
        /\ bookingLock' \in [Request -> Delivery \cup {NoTxn}]
    <2>1. CASE Reads(w)
      BY <2>1, ReadSteps
    <2>2. CASE Locks(w)
      <3>1. \/ seatLock' = [seatLock EXCEPT ![hookSeat[w]] = w] /\ bookingLock' = bookingLock
            \/ bookingLock' = [bookingLock EXCEPT ![r] = w] /\ seatLock' = seatLock
        BY <2>2, LockSteps
      <3>2. w \in Txn
        BY DEF Txn
      <3>3. CASE seatLock' = [seatLock EXCEPT ![hookSeat[w]] = w] /\ bookingLock' = bookingLock
        BY <3>2, <3>3
      <3>4. CASE bookingLock' = [bookingLock EXCEPT ![r] = w] /\ seatLock' = seatLock
        BY <3>4
      <3>5. QED
        BY <3>1, <3>3, <3>4
    <2>3. CASE Ends(w)
      BY <2>3, EndSteps DEF ReleaseAll, Release
    <2>4. QED
      BY <2>1, <2>2, <2>3, HookKinds
  <1>5. jobs' \subseteq UnlockJobs
    BY HookKinds, ReadSteps, LockSteps, EndSteps
  <1>6. hook' \in [Delivery -> {"idle", "received", "acked", "error"} \cup HookInTransaction]
    <2>1. \E p \in {"received", "acked", "error", "seat", "booking", "committing"} :
            hook' = [hook EXCEPT ![w] = p]
      BY HookKinds, ReadSteps, LockSteps, EndSteps
    <2>2. QED
      BY <2>1 DEF HookInTransaction
  <1>7. hookSeat' \in [Delivery -> Seat \cup {NoTxn}]
    <2>1. CASE Reads(w)
      <3>1. \/ hookSeat' = hookSeat
            \/ \E s \in bookingSeats[r] : hookSeat' = [hookSeat EXCEPT ![w] = s]
        BY <2>1, ReadSteps
      <3>2. QED
        BY <1>2, <3>1
    <2>2. CASE Locks(w)
      BY <2>2, LockSteps
    <2>3. CASE Ends(w)
      BY <2>3, EndSteps DEF ReleaseAll
    <2>4. QED
      BY <2>1, <2>2, <2>3, HookKinds
  <1>8. floating' \subseteq Request \X BookingStatusEnum
    <2>1. CASE UpdateAndThrow(w)
      <3>1. floating' = floating \cup {<<r, NewStatus(w)>>}
        BY <2>1 DEF UpdateAndThrow
      <3>2. QED
        BY <1>2, <3>1, NewStatusType
    <2>2. CASE floating' = floating
      BY <2>2
    <2>3. QED
      BY <2>1, <2>2, LockSteps, EndSteps, HookKinds
      DEF Reads, Deliver, AcquireTimeout, Ignore, FindBooking
  <1>9. leaked' \subseteq Delivery
    <2>1. leaked' = leaked \/ leaked' \subseteq leaked \cup {w}
      BY HookKinds, ReadSteps, LockSteps, EndSteps
    <2>2. QED
      BY <2>1
  <1>10. faults' \in 0 .. MaxFaults
    <2>1. faults' = faults \/ Fault
      BY HookKinds, ReadSteps, LockSteps, EndSteps
    <2>2. QED
      BY <2>1, DeliveryAssumption DEF Fault
  <1>11. CreateTypeOK' /\ PayTypeOK'
    BY <1>1, <1>3, <1>4, <1>5 DEF bookingVars, payVars, stripe, PayTypeOK
  <1>12. QED
    BY <1>6, <1>7, <1>8, <1>9, <1>10, <1>11

(* The delivery that moves, before its transaction ...                     *)
LEMMA ReadFollows ==
  ASSUME SeatlyInv, NEW w \in Delivery, Reads(w)
  PROVE  DeliveryFollows(w)'
  <1> USE DEF SeatlyInv, TypeOK, HookTypeOK, CreateTypeOK, StorageTypeOK, DeliveryFollows
  <1> DEFINE r == CheckoutOf[w]
  <1>1. r \in Request /\ DeliveryFollows(w)
    BY DeliveryAssumption DEF DeliveriesFollow
  <1>2. /\ UNCHANGED <<bookings, bookingSeats, seatLock, bookingLock, checkout>>
        /\ hook[w] \notin HookInTransaction
    BY ReadSteps DEF payVars, HookInTransaction
  <1>3. /\ \A s \in Seat : seatLock'[s] # w
        /\ \A q \in Request : bookingLock'[q] # w
    BY <1>1, <1>2
  <1>4. CASE Deliver(w) \/ AcquireTimeout(w)
    BY <1>1, <1>2, <1>3, <1>4 DEF Deliver, AcquireTimeout, HookGoto, HookInTransaction
  <1>5. CASE Ignore(w)
    BY <1>1, <1>2, <1>3, <1>5 DEF Ignore, HookGoto, HookInTransaction
  <1>6. CASE UpdateAndThrow(w)
    BY <1>1, <1>2, <1>3, <1>6 DEF UpdateAndThrow, HookGoto, HookInTransaction
  <1>7. CASE FindBooking(w)
    <2>1. /\ hook[w] = "received" /\ hook'[w] = Sent[1] /\ leaked' = leaked
          /\ Transactional(w) /\ hookSeat'[w] \in bookingSeats[r]
      BY <1>7 DEF FindBooking, HookGoto
    <2>2. hook'[w] = IF SeatFirst THEN "seat" ELSE "booking"
      BY <2>1 DEF Sent
    <2>3. QED
      BY <1>1, <1>2, <1>3, <2>1, <2>2 DEF HookInTransaction
  <1>8. QED
    BY <1>4, <1>5, <1>6, <1>7 DEF Reads

(* ... between its statements ...                                          *)
LEMMA LockFollows ==
  ASSUME SeatlyInv, NEW w \in Delivery, Locks(w)
  PROVE  DeliveryFollows(w)'
  <1> USE DEF SeatlyInv, TypeOK, HookTypeOK, CreateTypeOK, StorageTypeOK, DeliveryFollows
  <1> DEFINE r == CheckoutOf[w]
  <1>1. r \in Request /\ DeliveryFollows(w)
    BY DeliveryAssumption DEF DeliveriesFollow
  <1>2. UNCHANGED <<bookings, bookingSeats, hookSeat, leaked, checkout>>
    BY LockSteps DEF payVars
  <1>3. hook[w] \in HookInTransaction /\ hook'[w] \in HookInTransaction
    <2>1. \E p \in HookInTransaction : hook' = [hook EXCEPT ![w] = p]
      BY LockSteps DEF HookInTransaction
    <2>2. QED
      BY <2>1, LockSteps
  <1>4. /\ w \in Genuine => checkout[r] = Reports[w]
        /\ hook'[w] # "acked" /\ w \notin leaked
        /\ Transactional(w) /\ hookSeat[w] \in bookingSeats[r] /\ hookSeat[w] \in Seat
    BY <1>1, <1>2, <1>3 DEF HookInTransaction
  <1>5. CASE UpdateBooking(w)
    <2>1. /\ hook[w] = "booking" /\ hook'[w] = IF SeatFirst THEN "committing" ELSE "seat"
          /\ bookingLock' = [bookingLock EXCEPT ![r] = w] /\ seatLock' = seatLock
      BY <1>5 DEF UpdateBooking, Statement, HookGoto, Sent
    <2>2. QED
      BY <1>1, <1>2, <1>3, <1>4, <2>1
  <1>6. CASE BookSeat(w)
    <2>1. /\ hook[w] = "seat" /\ hook'[w] = IF SeatFirst THEN "booking" ELSE "committing"
          /\ seatLock' = [seatLock EXCEPT ![hookSeat[w]] = w] /\ bookingLock' = bookingLock
      BY <1>6 DEF BookSeat, Statement, HookGoto, Sent
    <2>2. QED
      BY <1>1, <1>2, <1>3, <1>4, <2>1
  <1>7. QED
    BY <1>5, <1>6 DEF Locks

(* ... and after it.                                                       *)
LEMMA EndFollows ==
  ASSUME SeatlyInv, NEW w \in Delivery, Ends(w)
  PROVE  DeliveryFollows(w)'
  <1> USE DEF SeatlyInv, TypeOK, HookTypeOK, CreateTypeOK, StorageTypeOK, DeliveryFollows
  <1> DEFINE r == CheckoutOf[w]
  <1>1. r \in Request /\ DeliveryFollows(w)
    BY DeliveryAssumption DEF DeliveriesFollow
  <1>2. UNCHANGED <<leaked, checkout>> /\ hook[w] \in HookInTransaction
    BY EndSteps DEF payVars
  <1>3. hook'[w] \in {"acked", "error"}
    <2>1. \E p \in {"acked", "error"} : hook' = [hook EXCEPT ![w] = p]
      BY EndSteps
    <2>2. QED
      BY <2>1
  <1>4. /\ \A s \in Seat : seatLock'[s] # w
        /\ \A q \in Request : bookingLock'[q] # w
    BY EndSteps, Txns DEF ReleaseAll, Release
  <1>5. QED
    BY <1>1, <1>2, <1>3, <1>4 DEF HookInTransaction

(* A delivery writes the rows of seats that it has locked, and the status  *)
(* of its booking when it says that it was paid.                           *)
LEMMA HookRows ==
  ASSUME SeatlyInv, NEW w \in Delivery, HookStep(w)
  PROVE  /\ \A s \in Seat : seatLock[s] # w => seats'[s] = seats[s]
         /\ \A q \in Request :
              /\ bookings'[q] = bookings[q] \/ (bookingLock[q] = w /\ SaidPaid(q))
              /\ bookings'[q].session = bookings[q].session
              /\ bookings'[q].deleted = bookings[q].deleted
              /\ Exists(q) => Exists(q)'
              /\ ~Exists(q) => bookings'[q] = bookings[q]
              /\ Live(q) => Live(q)'
  <1>1. CASE UNCHANGED <<seats, bookings>>
    BY <1>1 DEF Exists, Live
  <1>2. CASE hook[w] = "committing" /\ CommitPaid(w)
    BY <1>2, PaidRows, Committing DEF Exists, Live
  <1>3. QED
    BY <1>1, <1>2, HookKinds, ReadSteps, LockSteps, EndSteps

LEMMA HookDeliveries ==
  ASSUME SeatlyInv, NEW w \in Delivery, HookStep(w)
  PROVE  DeliveriesFollow'
  <1> USE DEF SeatlyInv, TypeOK, HookTypeOK, CreateTypeOK, StorageTypeOK
  <1>1. DeliveryFollows(w)'
    BY HookKinds, ReadFollows, LockFollows, EndFollows
  <1>2. ASSUME NEW v \in Delivery \ {w}
        PROVE  DeliveryFollows(v)'
    <2> DEFINE r == CheckoutOf[v]
    <2>1. r \in Request /\ DeliveryFollows(v) /\ v # NoTxn /\ v # w
      BY DeliveryAssumption, Txns DEF DeliveriesFollow
    <2>2. /\ UNCHANGED <<bookingSeats, checkout>>
          /\ hook'[v] = hook[v] /\ hookSeat'[v] = hookSeat[v] /\ (v \in leaked' => v \in leaked)
          /\ \A s \in Seat : seatLock'[s] = v <=> seatLock[s] = v
          /\ \A q \in Request : bookingLock'[q] = v <=> bookingLock[q] = v
      BY <2>1, HookLocks DEF payVars
    <2>3. hook[v] \in HookInTransaction => hookSeat[v] \in Seat
      BY <2>1, <2>2 DEF DeliveryFollows
    <2>4. QED
      BY <2>1, <2>2, <2>3 DEF DeliveryFollows, HookInTransaction
  <1>3. ASSUME NEW r \in Request, bookingLock'[r] # NoTxn
        PROVE  Live(r)'
    <2>1. Live(r)
      BY <1>3, HookLocks DEF DeliveriesFollow
    <2>2. QED
      BY <2>1, HookRows
  <1>4. QED
    BY <1>1, <1>2, <1>3 DEF DeliveriesFollow

LEMMA HookMade ==
  ASSUME SeatlyInv, NEW w \in Delivery, HookStep(w)
  PROVE  MadeStays
  <1>1. \E p \in {"received", "acked", "error", "seat", "booking", "committing"} :
          hook' = [hook EXCEPT ![w] = p]
    BY HookKinds, ReadSteps, LockSteps, EndSteps
  <1>2. hook \in [Delivery -> {"idle", "received", "acked", "error"} \cup HookInTransaction]
    BY DEF SeatlyInv, TypeOK, HookTypeOK
  <1>3. QED
    BY <1>1, <1>2 DEF MadeStays

LEMMA HookFloats ==
  ASSUME SeatlyInv, NEW w \in Delivery, HookStep(w)
  PROVE  FloatsFollow'
  <1> USE DEF SeatlyInv, TypeOK, HookTypeOK
  <1> DEFINE r == CheckoutOf[w]
  <1>1. CASE floating' \subseteq floating
    BY <1>1, HookMade, FloatsStay
  <1>2. CASE UpdateAndThrow(w)
    <2>1. /\ r \in Request /\ ~Transactional(w) /\ hook'[w] = "error"
          /\ floating' = floating \cup {<<r, NewStatus(w)>>}
      BY <1>2, DeliveryAssumption DEF UpdateAndThrow, HookGoto
    <2>2. ASSUME NEW u \in floating'
          PROVE  \E v \in Delivery : /\ CheckoutOf[v] = u[1] /\ hook'[v] # "idle"
                                     /\ ~Transactional(v) /\ u[2] = NewStatus(v)
      <3>1. CASE u \in floating
        BY <3>1, HookMade DEF FloatsFollow, MadeStays
      <3>2. CASE u = <<r, NewStatus(w)>>
        BY <2>1, <3>2
      <3>3. QED
        BY <2>1, <3>1, <3>2
    <2>3. QED
      BY <2>2 DEF FloatsFollow
  <1>3. QED
    BY <1>1, <1>2, HookKinds, LockSteps, EndSteps
    DEF Reads, Deliver, AcquireTimeout, Ignore, FindBooking

LEMMA HookInvariant ==
  ASSUME SeatlyInv, NEW w \in Delivery, Webhook(w)
  PROVE  SeatlyInv' /\ UNCHANGED payVars
  <1> USE DEF SeatlyInv
  <1>1. HookStep(w) /\ reset' = reset
    BY DEF Webhook
  <1>2. UNCHANGED <<bookingSeats, bookingVars, payVars, pc, pay, checkout>>
    BY <1>1, HookLocks DEF bookingVars, payVars
  <1>3. TypeOK'
    BY <1>1, HookTypes DEF TypeOK, ResetTypeOK
  <1>4. \A s \in Seat, r \in Request : seatLock'[s] = r <=> seatLock[s] = r
    BY <1>1, HookLocks, Txns
  <1>5. LocksFollowLoop'
    BY <1>2, <1>4, LocksStay
  <1>6. RowsFollowCalls'
    <2>1. \A s \in Seat : seatLock'[s] \in Request =>
            seatLock[s] = seatLock'[s] /\ seats'[s] = seats[s]
      BY <1>1, <1>4, HookRows, Txns
    <2>2. QED
      BY <1>1, <1>2, <2>1, HookRows, RowsStay
  <1>7. PaymentsFollow'
    <2>1. \A r \in Request :
            /\ bookings[r].session => bookings'[r].session
            /\ bookings'[r].status = "PAID" => bookings[r].status = "PAID" \/ SaidPaid(r)
      BY <1>1, HookRows
    <2>2. QED
      BY <1>1, <1>2, <2>1, HookMade, PaymentsStay
  <1>8. CustomersFollow'
    BY <1>2, CustomersKept
  <1>9. QED
    BY <1>1, <1>2, <1>3, <1>5, <1>6, <1>7, <1>8, HookDeliveries, HookFloats

-----------------------------------------------------------------------------
(* Updates that nobody waits for, the worker, the reset, the crash         *)

(* Two deliveries of one checkout say the same.  Of a provider's this is   *)
(* so because a session ends once.                                         *)
Unanimous ==
  \A w, v \in Delivery :
    CheckoutOf[w] = CheckoutOf[v] => Reports[w] = Reports[v] \/ {w, v} \subseteq Genuine

(* A floating update writes the status of one live booking, whose row no   *)
(* transaction has locked.                                                 *)
LEMMA FloatRows ==
  ASSUME SeatlyInv, NEW u \in floating, FloatingUpdate(u)
  PROVE  /\ bookings' \in [Request -> BookingModel]
         /\ \A q \in Request :
              /\ bookings'[q] = bookings[q] \/ (Live(q) /\ bookingLock[q] = NoTxn)
              /\ bookings'[q].session = bookings[q].session
              /\ bookings'[q].deleted = bookings[q].deleted
              /\ Exists(q) => Exists(q)'
              /\ ~Exists(q) => bookings'[q] = bookings[q]
              /\ Live(q) => Live(q)'
              /\ Unanimous /\ bookings[q].status = "PAID" => bookings'[q].status = "PAID"
              /\ bookings'[q].status = "PAID" =>
                   \/ bookings[q].status = "PAID"
                   \/ SaidPaid(q) /\ Method[q] # "STRIPE"
  <1> DEFINE r == u[1]
  <1>1. r \in Request /\ u[2] \in BookingStatusEnum
    BY DEF SeatlyInv, TypeOK, HookTypeOK
  <1>2. PICK w \in Delivery : CheckoutOf[w] = r /\ hook[w] # "idle" /\ ~Transactional(w)
                             /\ u[2] = NewStatus(w)
    BY DEF SeatlyInv, FloatsFollow
  <1>3. u[2] = "PAID" => SaidPaid(r) /\ Method[r] # "STRIPE"
    BY <1>2, NewStatusType DEF SaidPaid, Transactional
  <1>4. Unanimous /\ bookings[r].status = "PAID" => u[2] = "PAID"
    <2>1. SUFFICES ASSUME Unanimous, bookings[r].status = "PAID"
                   PROVE  Reports[w] = "paid"
      BY <1>2, NewStatusType
    <2>2. PICK v \in Delivery : CheckoutOf[v] = r /\ Reports[v] = "paid" /\ hook[v] # "idle"
      BY <1>1, <2>1 DEF SeatlyInv, PaymentsFollow, PaymentFollows, SaidPaid
    <2>3. {w, v} \subseteq Genuine => Reports[w] = Reports[v]
      BY <1>2, <2>2 DEF SeatlyInv, DeliveriesFollow, DeliveryFollows
    <2>4. QED
      BY <1>2, <2>1, <2>2, <2>3 DEF Unanimous
  <1>5. Live(r) /\ bookingLock[r] = NoTxn /\ bookings' = [bookings EXCEPT ![r].status = u[2]]
    BY DEF FloatingUpdate
  <1>6. bookings \in [Request -> BookingModel]
    BY DEF SeatlyInv, TypeOK, CreateTypeOK, StorageTypeOK
  <1> HIDE DEF r
  <1>7. /\ bookings' \in [Request -> BookingModel]
        /\ bookings'[r].status = u[2]
        /\ bookings'[r].session = bookings[r].session
        /\ bookings'[r].deleted = bookings[r].deleted
        /\ \A q \in Request \ {r} : bookings'[q] = bookings[q]
    BY <1>1, <1>5, <1>6, StatusRow
  <1>8. u[2] # "NONE"
    BY <1>1 DEF BookingStatusEnum
  <1>9. QED
    BY <1>1, <1>3, <1>4, <1>5, <1>7, <1>8 DEF Exists, Live

LEMMA FloatInvariant ==
  ASSUME SeatlyInv, NEW u \in floating, Float(u)
  PROVE  SeatlyInv' /\ UNCHANGED payVars
  <1> USE DEF SeatlyInv, TypeOK
  <1>1. FloatingUpdate(u) /\ reset' = reset
    BY DEF Float
  <1>2. /\ floating' \subseteq floating
        /\ UNCHANGED <<seats, bookingSeats, seatLock, bookingLock, jobs>>
        /\ UNCHANGED <<bookingVars, payVars, hook, hookSeat, leaked, faults>>
    BY <1>1 DEF FloatingUpdate
  <1>3. /\ UNCHANGED <<pc, seatIds, pos, pay, checkout, stripeCustomer, customers, customerId>>
        /\ MadeStays
    BY <1>2 DEF bookingVars, payVars, stripe, MadeStays
  <1>4. TypeOK'
    <2>1. CreateTypeOK'
      BY <1>1, <1>2, <1>3, FloatRows DEF CreateTypeOK, StorageTypeOK
    <2>2. PayTypeOK' /\ HookTypeOK' /\ ResetTypeOK'
      BY <1>1, <1>2, <1>3 DEF PayTypeOK, HookTypeOK, ResetTypeOK
    <2>3. QED
      BY <2>1, <2>2
  <1>5. LocksFollowLoop'
    BY <1>2, LocksStay
  <1>6. RowsFollowCalls'
    BY <1>1, <1>2, <1>3, FloatRows, RowsStay
  <1>7. PaymentsFollow'
    BY <1>1, <1>2, <1>3, FloatRows, PaymentsStay
  <1>8. CustomersFollow'
    BY <1>2, CustomersKept
  <1>9. DeliveriesFollow'
    BY <1>1, <1>2, <1>3, FloatRows, DeliveriesStay DEF CreateTypeOK, StorageTypeOK, HookTypeOK
  <1>10. FloatsFollow'
    BY <1>2, <1>3, FloatsStay
  <1>11. QED
    BY <1>2, <1>4, <1>5, <1>6, <1>7, <1>8, <1>9, <1>10

(* The data of a job has no field that the worker reads, so every job      *)
(* fails before its statement.                                             *)
LEMMA JobsThrow ==
  ASSUME SeatlyInv, NEW j \in jobs, HandleUnlockSeat(j)
  PROVE  UNCHANGED <<seats, bookings, bookingSeats, seatLock, bookingLock>> /\ jobs' \subseteq jobs
  <1> USE DEF SeatlyInv, TypeOK, CreateTypeOK, StorageTypeOK
  <1>1. PICK id \in SeatId : j.data = JobData(id)
    BY DEF UnlockJobs, UnlockJob
  <1>2. Throws(j.data)
    BY <1>1 DEF JobData, Throws
  <1>3. \A s \in Seat : seats'[s] = seats[s]
    BY <1>2 DEF HandleUnlockSeat, Unlocks
  <1>4. seats' = seats
    BY <1>3 DEF HandleUnlockSeat
  <1>5. QED
    BY <1>4 DEF HandleUnlockSeat

(* A reset soft-deletes bookings that nobody has locked, or writes seats   *)
(* that nobody has locked.                                                 *)
LEMMA ResetRows ==
  ASSUME SeatlyInv, ResetStep
  PROVE  /\ UNCHANGED <<bookingSeats, seatLock, bookingLock, jobs>>
         /\ seats' \in [Seat -> SeatModel]
         /\ bookings' \in [Request -> BookingModel]
         /\ reset' \in {"seats", "done", "failed"}
         /\ \A s \in Seat : seats'[s] = seats[s] \/ seatLock[s] = NoTxn
         /\ \A q \in Request :
              /\ bookings'[q] = bookings[q] \/ bookingLock[q] = NoTxn
              /\ bookings'[q].session = bookings[q].session
              /\ bookings'[q].status = bookings[q].status
              /\ ~Exists(q) \/ bookings[q].deleted => bookings'[q] = bookings[q]
  <1> USE DEF SeatlyInv, TypeOK, CreateTypeOK, StorageTypeOK
  <1>1. CASE DeleteBookings
    <2>1. bookings' = [r \in Request |->
            IF Exists(r) THEN [bookings[r] EXCEPT !.deleted = TRUE] ELSE bookings[r]]
      BY <1>1 DEF DeleteBookings
    <2>2. ASSUME NEW r \in Request
          PROVE  LET row == [bookings[r] EXCEPT !.deleted = TRUE] IN
                 /\ row \in BookingModel
                 /\ row.session = bookings[r].session /\ row.status = bookings[r].status
                 /\ bookings[r].deleted => row = bookings[r]
      BY DEF BookingModel
    <2>3. QED
      BY <1>1, <2>1, <2>2 DEF DeleteBookings
  <1>2. CASE ResetSeats
    BY <1>2 DEF ResetSeats, SeatModel, SeatStatusEnum
  <1>3. CASE ResetFails
    BY <1>3 DEF ResetFails, storage
  <1>4. QED
    BY <1>1, <1>2, <1>3 DEF ResetStep

(* The worker and the administrator move no call, payment or delivery.     *)
LEMMA UnlockInvariant ==
  ASSUME SeatlyInv, NEW j \in jobs, UnlockSeat(j)
  PROVE  SeatlyInv' /\ UNCHANGED payVars
  <1> USE DEF SeatlyInv, TypeOK
  <1>1. HandleUnlockSeat(j) /\ UNCHANGED <<bookingVars, payVars, hookVars, reset>>
    BY DEF UnlockSeat
  <1>2. UNCHANGED <<seats, bookings, bookingSeats, seatLock, bookingLock>> /\ jobs' \subseteq jobs
    BY <1>1, JobsThrow
  <1>3. /\ UNCHANGED <<pc, seatIds, pos, pay, checkout, stripeCustomer, customers, customerId>>
        /\ UNCHANGED <<hook, hookSeat, floating, leaked, faults, reset>> /\ MadeStays
    BY <1>1 DEF bookingVars, payVars, stripe, hookVars, MadeStays
  <1>4. TypeOK'
    BY <1>2, <1>3 DEF CreateTypeOK, StorageTypeOK, PayTypeOK, HookTypeOK, ResetTypeOK
  <1>5. LocksFollowLoop' /\ RowsFollowCalls' /\ PaymentsFollow'
    BY <1>1, <1>2, <1>3, LocksStay, RowsStay, PaymentsStay DEF Exists
  <1>6. CustomersFollow' /\ FloatsFollow'
    BY <1>1, <1>3, CustomersKept, FloatsStay
  <1>7. DeliveriesFollow'
    BY <1>2, <1>3, DeliveriesStay DEF CreateTypeOK, StorageTypeOK, HookTypeOK, Live, Exists
  <1>8. QED
    BY <1>1, <1>4, <1>5, <1>6, <1>7

LEMMA ResetInvariant ==
  ASSUME SeatlyInv, Reset
  PROVE  SeatlyInv' /\ UNCHANGED payVars
  <1> USE DEF SeatlyInv, TypeOK
  <1>1. ResetStep /\ UNCHANGED <<bookingVars, payVars, hookVars>>
    BY DEF Reset
  <1>2. /\ UNCHANGED <<bookingSeats, seatLock, bookingLock, jobs>>
        /\ seats' \in [Seat -> SeatModel] /\ bookings' \in [Request -> BookingModel]
        /\ reset' \in {"seats", "done", "failed"}
        /\ \A s \in Seat : seats'[s] = seats[s] \/ seatLock[s] = NoTxn
        /\ \A q \in Request :
             /\ bookings'[q] = bookings[q] \/ bookingLock[q] = NoTxn
             /\ bookings'[q].session = bookings[q].session
             /\ bookings'[q].status = bookings[q].status
             /\ ~Exists(q) => bookings'[q] = bookings[q]
    BY <1>1, ResetRows
  <1>3. /\ UNCHANGED <<pc, seatIds, pos, pay, checkout, stripeCustomer, customers, customerId>>
        /\ UNCHANGED <<hook, hookSeat, floating, leaked, faults>> /\ MadeStays
    BY <1>1 DEF bookingVars, payVars, stripe, hookVars, MadeStays
  <1>4. TypeOK'
    BY <1>2, <1>3 DEF CreateTypeOK, StorageTypeOK, PayTypeOK, HookTypeOK, ResetTypeOK
  <1>5. LocksFollowLoop' /\ PaymentsFollow'
    BY <1>1, <1>2, <1>3, LocksStay, PaymentsStay
  <1>6. RowsFollowCalls'
    BY <1>2, <1>3, Txns, RowsStay DEF Exists
  <1>7. CustomersFollow' /\ FloatsFollow'
    BY <1>1, <1>3, CustomersKept, FloatsStay
  <1>8. DeliveriesFollow'
    <2>1. \A q \in Request : bookingLock[q] # NoTxn /\ Live(q) => Live(q)'
      BY <1>2 DEF Live, Exists
    <2>2. QED
      BY <1>2, <1>3, <2>1, DeliveriesStay DEF CreateTypeOK, StorageTypeOK, HookTypeOK
  <1>9. QED
    BY <1>1, <1>4, <1>5, <1>6, <1>7, <1>8

(* What dies with the process: every transaction with its locks, every     *)
(* call, handler and update in flight.  The rows stay.                     *)
LEMMA DeathInvariant ==
  ASSUME SeatlyInv, CustomersAccountedFor, ProcessDies, faults' = faults \/ Fault
  PROVE  SeatlyInv' /\ CustomersAccountedFor'
  <1> USE DEF SeatlyInv, TypeOK
  <1>1. /\ UNCHANGED <<seats, bookings, bookingSeats, jobs, seatIds, pos, checkout, stripe>>
        /\ UNCHANGED <<stripeCustomer, customers, customerId>>
        /\ \A s \in Seat : seatLock'[s] = NoTxn
        /\ \A r \in Request : bookingLock'[r] = NoTxn
        /\ floating' = {} /\ leaked' = {}
    BY DEF ProcessDies, stripe
  <1>2. \A r \in Request :
          /\ pc'[r] = IF pc[r] \in InTransaction THEN "failed" ELSE pc[r]
          /\ pay'[r] = IF pay[r] \in Paying \/ (pc[r] = "created" /\ pay[r] = "idle")
                         THEN "failed" ELSE pay[r]
    BY DEF ProcessDies
  <1>3. \A w \in Delivery :
          hook'[w] = IF hook[w] \in {"received"} \cup HookInTransaction THEN "error" ELSE hook[w]
    BY DEF ProcessDies
  <1> MadeStays
    BY <1>3 DEF MadeStays
  <1>4. TypeOK'
    <2>1. seatLock' \in [Seat -> Txn \cup {NoTxn}] /\ bookingLock' \in [Request -> Delivery \cup {NoTxn}]
      BY DEF ProcessDies
    <2>2. pc' \in [Request -> {"idle"} \cup InTransaction \cup Ended]
      BY DEF ProcessDies, CreateTypeOK, Ended, Rejected
    <2>3. CreateTypeOK'
      BY <1>1, <2>1, <2>2 DEF CreateTypeOK, StorageTypeOK
    <2>4. PayTypeOK'
      BY <1>1 DEF ProcessDies, PayTypeOK
    <2>5. hook' \in [Delivery -> {"idle", "received", "acked", "error"} \cup HookInTransaction]
      BY DEF ProcessDies, HookTypeOK
    <2>6. hookSeat' \in [Delivery -> Seat \cup {NoTxn}] /\ faults' \in 0 .. MaxFaults
      BY DeliveryAssumption DEF ProcessDies, HookTypeOK, Fault
    <2>7. ResetTypeOK'
      BY DEF ProcessDies, ResetTypeOK
    <2>8. QED
      BY <1>1, <2>3, <2>4, <2>5, <2>6, <2>7 DEF HookTypeOK
  <1>5. LocksFollowLoop'
    <2>1. \A r \in Request : LockedBy(r)' = {} /\ pc'[r] \notin InTransaction
      BY <1>1, <1>2, Txns DEF LockedBy, InTransaction
    <2>2. QED
      BY <2>1 DEF LocksFollowLoop, LocksFollow, InTransaction
  <1>6. RowsFollowCalls'
    BY <1>1, <1>2, Txns DEF RowsFollowCalls, Exists, InTransaction
  <1>7. PaymentsFollow'
    <2>1. ASSUME NEW r \in Request
          PROVE  PaymentFollows(r)'
      <3>1. PaymentFollows(r)
        BY DEF PaymentsFollow
      <3>2. QED
        BY <1>1, <1>2, <3>1, SaidStays DEF PaymentFollows, Paying, InTransaction
    <2>2. QED
      BY <2>1 DEF PaymentsFollow
  <1>8. CustomersFollow' /\ CustomersAccountedFor'
    <2>1. \A r \in Request : Onward(r)
      BY <1>2 DEF Onward
    <2>2. QED
      BY <1>1, <2>1, CustomersStay, AccountsStay
  <1>9. DeliveriesFollow'
    <2>1. ASSUME NEW w \in Delivery
          PROVE  DeliveryFollows(w)'
      <3>1. hook'[w] \notin HookInTransaction /\ (hook'[w] # "idle" => hook[w] # "idle")
        BY <1>3 DEF HookInTransaction
      <3>2. hook'[w] # "idle" /\ w \in Genuine => checkout'[CheckoutOf[w]] = Reports[w]
        BY <1>1, <3>1 DEF DeliveriesFollow, DeliveryFollows
      <3>3. \A s \in Seat : seatLock'[s] # w
        BY <1>1, Txns
      <3>4. \A q \in Request : bookingLock'[q] # w
        BY <1>1, Txns
      <3>5. QED
        BY <1>1, <3>1, <3>2, <3>3, <3>4 DEF DeliveryFollows, HookInTransaction
    <2>2. QED
      BY <1>1, <2>1 DEF DeliveriesFollow
  <1>10. FloatsFollow'
    BY <1>1 DEF FloatsFollow
  <1>11. QED
    BY <1>4, <1>5, <1>6, <1>7, <1>8, <1>9, <1>10

-----------------------------------------------------------------------------
(* Every step keeps the invariant *)

(* A customer stays accounted for when no payment moves.                   *)
LEMMA AccountsKept ==
  ASSUME CustomersAccountedFor, UNCHANGED payVars
  PROVE  CustomersAccountedFor'
  BY DEF CustomersAccountedFor, payVars, stripe

LEMMA SeatlyStutter ==
  ASSUME SeatlyInv, UNCHANGED vars
  PROVE  SeatlyInv' /\ UNCHANGED payVars
  <1> USE DEF SeatlyInv, TypeOK
  <1>1. UNCHANGED <<storage, bookingVars, payVars, hookVars, reset>>
    BY DEF vars
  <1>2. /\ UNCHANGED <<seats, bookings, bookingSeats, seatLock, bookingLock, jobs>>
        /\ UNCHANGED <<pc, seatIds, pos, pay, checkout, stripeCustomer, customers, customerId>>
        /\ UNCHANGED <<hook, hookSeat, floating, leaked, faults>> /\ MadeStays
    BY <1>1 DEF storage, bookingVars, payVars, stripe, hookVars, MadeStays
  <1>3. TypeOK'
    BY <1>1, <1>2 DEF CreateTypeOK, StorageTypeOK, PayTypeOK, HookTypeOK, ResetTypeOK
  <1>4. LocksFollowLoop' /\ RowsFollowCalls' /\ PaymentsFollow'
    BY <1>1, <1>2, LocksStay, RowsStay, PaymentsStay DEF Exists
  <1>5. CustomersFollow' /\ FloatsFollow'
    BY <1>1, <1>2, CustomersKept, FloatsStay
  <1>6. DeliveriesFollow'
    BY <1>2, DeliveriesStay DEF CreateTypeOK, StorageTypeOK, HookTypeOK, Live, Exists
  <1>7. QED
    BY <1>1, <1>3, <1>4, <1>5, <1>6

LEMMA SeatlyStep ==
  SeatlyInv /\ CustomersAccountedFor /\ [Next]_vars => SeatlyInv' /\ CustomersAccountedFor'
  <1> SUFFICES ASSUME SeatlyInv, CustomersAccountedFor, [Next]_vars
               PROVE  SeatlyInv' /\ CustomersAccountedFor'
    OBVIOUS
  <1>1. ASSUME NEW r \in Request, Create(r) PROVE SeatlyInv' /\ CustomersAccountedFor'
    <2>1. UNCHANGED payVars
      BY <1>1 DEF Create
    <2>2. QED
      BY <1>1, <2>1, CreateInvariant, AccountsKept
  <1>2. ASSUME NEW r \in Request, Pay(r) PROVE SeatlyInv' /\ CustomersAccountedFor'
    BY <1>2, PayInvariant
  <1>3. ASSUME NEW w \in Delivery, Webhook(w) PROVE SeatlyInv' /\ CustomersAccountedFor'
    BY <1>3, HookInvariant, AccountsKept
  <1>4. ASSUME NEW u \in floating, Float(u) PROVE SeatlyInv' /\ CustomersAccountedFor'
    BY <1>4, FloatInvariant, AccountsKept
  <1>5. ASSUME NEW j \in jobs, UnlockSeat(j) PROVE SeatlyInv' /\ CustomersAccountedFor'
    BY <1>5, UnlockInvariant, AccountsKept
  <1>6. CASE Reset
    BY <1>6, ResetInvariant, AccountsKept
  <1>7. CASE Crash \/ UnhandledRejection
    <2>1. ProcessDies /\ (faults' = faults \/ Fault)
      BY <1>7 DEF Crash, UnhandledRejection
    <2>2. QED
      BY <2>1, DeathInvariant
  <1>8. CASE UNCHANGED vars
    BY <1>8, SeatlyStutter, AccountsKept
  <1>9. QED
    BY <1>1, <1>2, <1>3, <1>4, <1>5, <1>6, <1>7, <1>8 DEF Next

(* The whole backend keeps its invariant, and loses no customer.           *)
THEOREM SeatlyInvariance == Spec => [](SeatlyInv /\ CustomersAccountedFor)
  <1>1. Init => SeatlyInv /\ CustomersAccountedFor
    BY SeatlyInit
  <1>2. SeatlyInv /\ CustomersAccountedFor /\ [Next]_vars =>
          (SeatlyInv /\ CustomersAccountedFor)'
    BY SeatlyStep
  <1>3. QED
    BY <1>1, <1>2, PTL DEF Spec

=============================================================================
