--------------------------- MODULE PaymentService ---------------------------
(***************************************************************************)
(* PaymentService.createPaymentLink, which BookingController runs in the   *)
(* same HTTP call after createBookingForUser returned, and the provider    *)
(* side of a checkout session.  None of this is in a transaction: the      *)
(* booking is read, the provider is called, the session id is stored, each *)
(* on its own.                                                             *)
(*                                                                         *)
(*   idle -> linking -> saving -> linked                                   *)
(*                                                                         *)
(* A call that pays through Stripe first sees to the user's customer:      *)
(*                                                                         *)
(*   idle -> finding (-> creating -> storing) -> linking                   *)
(***************************************************************************)
EXTENDS BookingService

CONSTANTS
  Method,       \* the payment_method of each call
  User,         \* rows of "users"
  UserOf,       \* who makes each call
  NoCustomer,   \* stripe_customer_id is null
  OldCustomer,  \* users who have a customer at Stripe since earlier bookings
  Replicas      \* whether DB_SLAVE_HOST names read replicas

PaymentProviderEnum == {"STRIPE", "MOMO"}

ASSUME PaymentAssumption ==
  /\ Method \in [Request -> PaymentProviderEnum]
  /\ UserOf \in [Request -> User]
  /\ Request \cap User = {}
  /\ NoCustomer \notin Request \cup User
  /\ OldCustomer \subseteq User
  /\ Replicas \in BOOLEAN

VARIABLES
  pay,              \* where createPaymentLink is
  checkout,         \* the session at the provider
  stripeCustomer,   \* users.stripe_customer_id
  customers,        \* customers at Stripe
  customerId        \* the customer a call will open its session for

stripe == <<stripeCustomer, customers, customerId>>

payVars == <<pay, checkout, stripe>>

Paying == {"finding", "creating", "storing", "linking", "saving"}

(* A customer is named by the call that created it, one from earlier       *)
(* bookings by its user.                                                   *)
Owner(c) == IF c \in User THEN c ELSE UserOf[c]

FirstCustomer(u) == IF u \in OldCustomer THEN u ELSE NoCustomer

PayInit ==
  /\ pay = [r \in Request |-> "idle"]
  /\ checkout = [r \in Request |-> "none"]
  /\ stripeCustomer = [u \in User |-> FirstCustomer(u)]
  /\ customers = OldCustomer
  /\ customerId = [r \in Request |-> NoCustomer]

PayTypeOK ==
  /\ pay \in [Request -> {"idle", "linked", "refused", "failed"} \cup Paying]
  /\ checkout \in [Request -> {"none", "open", "paid", "closed"}]
  /\ stripeCustomer \in [User -> Request \cup User \cup {NoCustomer}]
  /\ customers \subseteq Request \cup User
  /\ customerId \in [Request -> Request \cup User \cup {NoCustomer}]

PayGoto(r, from, to) ==
  /\ pay[r] = from
  /\ pay' = [pay EXCEPT ![r] = to]

-----------------------------------------------------------------------------
(* Reads outside a transaction.  With replicas they go to one of them,     *)
(* which may be behind: it shows the row as it is or as it once was.       *)

(* A row is inserted as PENDING_PAYMENT, gets its session, then another    *)
(* status, and may be soft-deleted at any time.                            *)
EarlierRows(r) ==
  IF Exists(r)
    THEN {NoBooking, PendingBooking,
          [PendingBooking EXCEPT !.session = bookings[r].session],
          [bookings[r] EXCEPT !.deleted = FALSE]}
    ELSE {}

SeenRows(r) == {bookings[r]} \cup (IF Replicas THEN EarlierRows(r) ELSE {})

(* Which of two later customers a lagging replica shows makes no           *)
(* difference: both are the user's.                                        *)
SeenCustomers(u) ==
  {stripeCustomer[u]} \cup (IF Replicas THEN {FirstCustomer(u)} ELSE {})

-----------------------------------------------------------------------------
(* The handler *)

(* The booking exists, is PENDING_PAYMENT and has a positive amount: the   *)
(* sum of no prices, that of an empty list, is refused.                    *)
Payable(r, row) ==
  /\ ~row.deleted
  /\ row.status = "PENDING_PAYMENT"
  /\ bookingSeats[r] # {}

(* The provider decides which of the two adapters goes on.                 *)
GetAdapter(r) == IF Method[r] = "STRIPE" THEN "finding" ELSE "linking"

ReadBooking(r) ==
  /\ pc[r] = "created"
  /\ \E row \in SeenRows(r) :
       PayGoto(r, "idle", IF Payable(r, row) THEN GetAdapter(r) ELSE "refused")
  /\ UNCHANGED <<storage, bookingVars, checkout, stripe>>

(* userService.findById.  A user who has a customer already keeps it.      *)
FindCustomer(r) ==
  /\ \E c \in SeenCustomers(UserOf[r]) :
       /\ PayGoto(r, "finding", IF c = NoCustomer THEN "creating" ELSE "linking")
       /\ customerId' = [customerId EXCEPT ![r] = c]
  /\ UNCHANGED <<storage, bookingVars, checkout, stripeCustomer, customers>>

(* POST /v1/customers makes a new customer, whatever Stripe has already.   *)
CustomerMade(r) == customers' = customers \cup {r}

(* Variant: createOrGetCustomer is not awaited.                            *)
CreateCustomerUnawaited(r) ==
  /\ PayGoto(r, "creating", "linking")
  /\ CustomerMade(r)
  /\ UNCHANGED <<storage, bookingVars, checkout, stripeCustomer, customerId>>

CreateCustomer(r) ==
  /\ PayGoto(r, "creating", "storing")
  /\ CustomerMade(r)
  /\ customerId' = [customerId EXCEPT ![r] = r]
  /\ UNCHANGED <<storage, bookingVars, checkout, stripeCustomer>>

(* UPDATE users: overwrites what another call may have stored meanwhile.   *)
CustomerStored(r) == stripeCustomer' = [stripeCustomer EXCEPT ![UserOf[r]] = customerId[r]]

(* Variant: the customer is not stored.                                    *)
StoreNoCustomer(r) ==
  /\ PayGoto(r, "storing", "linking")
  /\ UNCHANGED <<storage, bookingVars, checkout, stripe>>

StoreCustomer(r) ==
  /\ PayGoto(r, "storing", "linking")
  /\ CustomerStored(r)
  /\ UNCHANGED <<storage, bookingVars, checkout, customers, customerId>>

SessionOpened(r) == checkout' = [checkout EXCEPT ![r] = "open"]

(* POST /v1/checkout/sessions for customerId[r].                           *)
StripeCreatePaymentLink(r) ==
  /\ Method[r] = "STRIPE"
  /\ PayGoto(r, "linking", "saving")
  /\ SessionOpened(r)
  /\ UNCHANGED <<storage, bookingVars, stripe>>

(* A signed order; only a resultCode of 0 is a session.                    *)
MomoCreatePaymentLink(r) ==
  /\ Method[r] = "MOMO"
  /\ PayGoto(r, "linking", "saving")
  /\ SessionOpened(r)
  /\ UNCHANGED <<storage, bookingVars, stripe>>

SessionSaved(r) ==
  /\ bookings' = IF Live(r) THEN [bookings EXCEPT ![r].session = TRUE] ELSE bookings
  /\ UNCHANGED <<seats, bookingSeats, seatLock, bookingLock, jobs>>

(* Variant: the link is returned without storing the session id.           *)
SaveNothing(r) ==
  /\ bookingLock[r] = NoTxn
  /\ PayGoto(r, "saving", IF Live(r) THEN "linked" ELSE "failed")
  /\ UNCHANGED <<storage, bookingVars, checkout, stripe>>

(* bookingService.update: waits for a row lock, finds the row again, and   *)
(* throws when it was soft-deleted meanwhile.                              *)
SaveSession(r) ==
  /\ bookingLock[r] = NoTxn
  /\ PayGoto(r, "saving", IF Live(r) THEN "linked" ELSE "failed")
  /\ SessionSaved(r)
  /\ UNCHANGED <<bookingVars, checkout, stripe>>

-----------------------------------------------------------------------------
(* Failures: an awaited call rejects, and nothing undoes the booking.      *)

PayFails(r) ==
  /\ \/ pc[r] = "created" /\ pay[r] = "idle"
     \/ pay[r] \in Paying
  /\ pay' = [pay EXCEPT ![r] = "failed"]
  /\ UNCHANGED <<storage, bookingVars, checkout, stripe>>

(* The call took effect and its answer was lost.                           *)
PayUnanswered(r) ==
  \/ /\ PayGoto(r, "creating", "failed")
     /\ CustomerMade(r)
     /\ UNCHANGED <<storage, bookingVars, checkout, stripeCustomer, customerId>>
  \/ /\ PayGoto(r, "storing", "failed")
     /\ CustomerStored(r)
     /\ UNCHANGED <<storage, bookingVars, checkout, customers, customerId>>
  \/ /\ PayGoto(r, "linking", "failed")
     /\ SessionOpened(r)
     /\ UNCHANGED <<storage, bookingVars, stripe>>
  \/ /\ bookingLock[r] = NoTxn
     /\ PayGoto(r, "saving", "failed")
     /\ SessionSaved(r)
     /\ UNCHANGED <<bookingVars, checkout, stripe>>

-----------------------------------------------------------------------------
(* The provider *)

(* Only a caller that got the link can pay.                                *)
CustomerPays(r) ==
  /\ pay[r] = "linked"
  /\ checkout[r] = "open"
  /\ checkout' = [checkout EXCEPT ![r] = "paid"]
  /\ UNCHANGED <<storage, bookingVars, pay, stripe>>

(* A Stripe session expires; a MoMo payment ends with an error code.       *)
CheckoutCloses(r) ==
  /\ checkout[r] = "open"
  /\ checkout' = [checkout EXCEPT ![r] = "closed"]
  /\ UNCHANGED <<storage, bookingVars, pay, stripe>>

-----------------------------------------------------------------------------
(* By what a step needs: a SELECT, a write to the database, or neither.    *)

PayQuery(r) == ReadBooking(r) \/ FindCustomer(r)

PayUpdate(r) ==
  \/ StoreCustomer(r)
  \/ SaveSession(r)
  \/ pay[r] \in {"storing", "saving"} /\ PayUnanswered(r)

PayCall(r) ==
  \/ CreateCustomer(r)
  \/ StripeCreatePaymentLink(r)
  \/ MomoCreatePaymentLink(r)
  \/ pay[r] \in {"creating", "linking"} /\ PayUnanswered(r)
  \/ PayFails(r)
  \/ CustomerPays(r)
  \/ CheckoutCloses(r)

PayStep(r) == PayQuery(r) \/ PayUpdate(r) \/ PayCall(r)

-----------------------------------------------------------------------------
(* Properties *)

(* A checkout session at Stripe is opened for a customer of the caller, of *)
(* whatever calls of one user overlap, and the user's row names one by     *)
(* then: the next booking of the user finds it.                            *)
SessionsHaveOwnCustomer ==
  \A r \in Request :
    Method[r] = "STRIPE" /\ checkout[r] # "none" =>
      /\ customerId[r] \in customers
      /\ Owner(customerId[r]) = UserOf[r]
      /\ stripeCustomer[UserOf[r]] \in customers

(* Where the customer of a call comes from: the user's row never loses one *)
(* and names none of another user, a call stores the one it created, and   *)
(* opens its session for one of its user.                                  *)
CustomersFollow ==
  /\ OldCustomer \subseteq customers
  /\ \A u \in User :
       /\ stripeCustomer[u] # NoCustomer =>
            stripeCustomer[u] \in customers /\ Owner(stripeCustomer[u]) = u
       /\ u \in OldCustomer => stripeCustomer[u] # NoCustomer
  /\ \A r \in Request :
       /\ pay[r] = "storing" => customerId[r] = r /\ r \in customers
       /\ /\ Method[r] = "STRIPE"
          /\ pay[r] \in {"linking", "saving", "linked"} \/ checkout[r] # "none"
          => /\ customerId[r] \in customers
             /\ Owner(customerId[r]) = UserOf[r]
             /\ stripeCustomer[UserOf[r]] # NoCustomer

(* Every customer made at Stripe is accounted for: the user's row names    *)
(* it, its call is about to store it or failed, or the customer of another *)
(* call of the same user has overwritten it.  Nothing else loses one.      *)
CustomersAccountedFor ==
  \A c \in customers :
    \/ stripeCustomer[Owner(c)] = c
    \/ c \in Request /\ pay[c] \in {"storing", "failed"}
    \/ \E r \in customers \cap Request :
         r # c /\ stripeCustomer[Owner(c)] = r /\ UserOf[r] = Owner(c)

=============================================================================
