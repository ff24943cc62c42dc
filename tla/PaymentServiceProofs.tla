------------------------ MODULE PaymentServiceProofs ------------------------
(***************************************************************************)
(* Lemmas about the customers at Stripe under the steps of PaymentService, *)
(* for every set of calls and users: what one step of createPaymentLink,   *)
(* of the provider, or of a crash keeps.  SeatlyProofs combines them.      *)
(***************************************************************************)
EXTENDS PaymentService, TLAPS

(* The customer that a call creates is its user's.                         *)
LEMMA OwnerOfCall ==
  ASSUME NEW r \in Request
  PROVE  Owner(r) = UserOf[r] /\ UserOf[r] \in User /\ r # NoCustomer
  BY PaymentAssumption DEF Owner

LEMMA OwnerOfUser ==
  ASSUME NEW u \in User
  PROVE  Owner(u) = u /\ u # NoCustomer
  BY PaymentAssumption DEF Owner

(* Before the first booking of the run.                                    *)
LEMMA CustomersInit ==
  ASSUME PayInit
  PROVE  PayTypeOK /\ CustomersFollow /\ CustomersAccountedFor
  <1> USE PaymentAssumption DEF PayInit, FirstCustomer
  <1>1. PayTypeOK
    BY DEF PayTypeOK, Paying
  <1>2. CustomersFollow
    BY OwnerOfUser DEF CustomersFollow
  <1>3. CustomersAccountedFor
    BY OwnerOfUser DEF CustomersAccountedFor
  <1>4. QED
    BY <1>1, <1>2, <1>3

-----------------------------------------------------------------------------
(* Steps that make no customer and store none *)

(* Where a call may go without a customer of its own being made, found or  *)
(* stored: on from linking, or to its failure.                             *)
Onward(r) ==
  \/ pay'[r] = pay[r]
  \/ pay'[r] = "failed"
  \/ pay'[r] \in {"finding", "refused"} /\ pay[r] = "idle"
  \/ pay'[r] = "linking" /\ pay[r] = "idle" /\ Method[r] # "STRIPE"
  \/ pay'[r] \in {"saving", "linked"} /\ pay[r] \in {"linking", "saving"}

LEMMA CustomersStay ==
  ASSUME CustomersFollow, UNCHANGED stripe,
         \A r \in Request : Onward(r),
         \A r \in Request : checkout'[r] # checkout[r] =>
                              pay[r] = "linking" \/ checkout[r] # "none"
  PROVE  CustomersFollow'
  <1>1. UNCHANGED <<stripeCustomer, customers, customerId>>
    BY DEF stripe
  <1>2. ASSUME NEW r \in Request
        PROVE  /\ pay'[r] = "storing" => pay[r] = "storing"
               /\ /\ Method[r] = "STRIPE"
                  /\ pay'[r] \in {"linking", "saving", "linked"} \/ checkout'[r] # "none"
                  => pay[r] \in {"linking", "saving", "linked"} \/ checkout[r] # "none"
    BY DEF Onward
  <1>3. QED
    BY <1>1, <1>2 DEF CustomersFollow

(* A failure keeps the customer of the call accounted for.                 *)
LEMMA AccountsStay ==
  ASSUME CustomersAccountedFor, UNCHANGED stripe, \A r \in Request : Onward(r)
  PROVE  CustomersAccountedFor'
  <1>1. UNCHANGED <<stripeCustomer, customers, customerId>>
    BY DEF stripe
  <1>2. \A r \in Request : pay[r] \in {"storing", "failed"} =>
          pay'[r] \in {"storing", "failed"}
    BY DEF Onward
  <1>3. QED
    BY <1>1, <1>2 DEF CustomersAccountedFor

-----------------------------------------------------------------------------
(* The steps of a call *)

(* Every step of PaymentService but those that find, make or store a       *)
(* customer.                                                               *)
OnwardStep(r) ==
  \/ ReadBooking(r)
  \/ StripeCreatePaymentLink(r) \/ MomoCreatePaymentLink(r) \/ SaveSession(r)
  \/ PayFails(r) \/ CustomerPays(r) \/ CheckoutCloses(r)
  \/ (PayUnanswered(r) /\ pay[r] \in {"linking", "saving"})

LEMMA OnwardSteps ==
  ASSUME PayTypeOK, NEW r \in Request, OnwardStep(r)
  PROVE  /\ UNCHANGED stripe
         /\ \A q \in Request : Onward(q)
         /\ \A q \in Request : checkout'[q] # checkout[q] =>
                                 pay[q] = "linking" \/ checkout[q] # "none"
  <1> USE DEF PayTypeOK, PayGoto, OnwardStep
  <1>1. UNCHANGED stripe
    BY DEF ReadBooking, StripeCreatePaymentLink, MomoCreatePaymentLink, SaveSession,
           PayFails, CustomerPays, CheckoutCloses, PayUnanswered
  <1>2. ASSUME NEW q \in Request
        PROVE  Onward(q)
    BY PaymentAssumption
    DEF ReadBooking, GetAdapter, StripeCreatePaymentLink, MomoCreatePaymentLink,
        SaveSession, PayFails, CustomerPays, CheckoutCloses, PayUnanswered, Onward
  <1>3. ASSUME NEW q \in Request, checkout'[q] # checkout[q]
        PROVE  pay[q] = "linking" \/ checkout[q] # "none"
    BY <1>3
    DEF ReadBooking, StripeCreatePaymentLink, MomoCreatePaymentLink, SaveSession,
        PayFails, CustomerPays, CheckoutCloses, PayUnanswered, SessionOpened
  <1>4. QED
    BY <1>1, <1>2, <1>3

(* A replica that lags behind shows no customer or an earlier one of the   *)
(* same user.                                                              *)
LEMMA FindCustomerFollows ==
  ASSUME PayTypeOK, CustomersFollow, CustomersAccountedFor, NEW r \in Request,
         checkout[r] # "none" => pay[r] \in {"saving", "linked", "failed"},
         FindCustomer(r)
  PROVE  CustomersFollow' /\ CustomersAccountedFor'
  <1> DEFINE u == UserOf[r]
  <1> USE DEF PayTypeOK
  <1>1. PICK c \in SeenCustomers(u) :
          /\ PayGoto(r, "finding", IF c = NoCustomer THEN "creating" ELSE "linking")
          /\ customerId' = [customerId EXCEPT ![r] = c]
    BY DEF FindCustomer
  <1>2. UNCHANGED <<checkout, stripeCustomer, customers>>
    BY DEF FindCustomer
  <1>3. u \in User
    BY OwnerOfCall
  <1>4. c # NoCustomer => c \in customers /\ Owner(c) = u /\ stripeCustomer[u] # NoCustomer
    <2>1. CASE c = stripeCustomer[u]
      BY <1>3, <2>1 DEF CustomersFollow
    <2>2. CASE c = FirstCustomer(u)
      BY <1>3, <2>2, OwnerOfUser DEF FirstCustomer, CustomersFollow
    <2>3. QED
      BY <1>1, <2>1, <2>2 DEF SeenCustomers
  <1>5. /\ pay[r] = "finding"
        /\ pay'[r] = IF c = NoCustomer THEN "creating" ELSE "linking"
        /\ customerId'[r] = c
        /\ \A q \in Request \ {r} : pay'[q] = pay[q] /\ customerId'[q] = customerId[q]
    BY <1>1 DEF PayGoto
  <1>6. CustomersFollow'
    <2>1. ASSUME NEW q \in Request
          PROVE  /\ pay'[q] = "storing" => customerId'[q] = q /\ q \in customers
                 /\ /\ Method[q] = "STRIPE"
                    /\ pay'[q] \in {"linking", "saving", "linked"} \/ checkout[q] # "none"
                    => /\ customerId'[q] \in customers
                       /\ Owner(customerId'[q]) = UserOf[q]
                       /\ stripeCustomer[UserOf[q]] # NoCustomer
      <3>1. CASE q # r
        BY <1>5, <3>1 DEF CustomersFollow
      <3>2. CASE q = r /\ c # NoCustomer
        BY <1>4, <1>5, <3>2
      <3>3. CASE q = r /\ c = NoCustomer
        <4>1. Method[r] = "STRIPE" => checkout[r] = "none"
          BY <1>5, <3>3
        <4>2. QED
          BY <1>5, <3>3, <4>1
      <3>4. QED
        BY <3>1, <3>2, <3>3
    <2>2. QED
      BY <1>2, <2>1 DEF CustomersFollow
  <1>7. CustomersAccountedFor'
    BY <1>2, <1>5 DEF CustomersAccountedFor
  <1>8. QED
    BY <1>6, <1>7

(* POST /v1/customers, answered or not.                                    *)
LEMMA CreateCustomerFollows ==
  ASSUME PayTypeOK, CustomersFollow, CustomersAccountedFor, NEW r \in Request,
         checkout[r] # "none" => pay[r] \in {"saving", "linked", "failed"},
         CreateCustomer(r) \/ (PayUnanswered(r) /\ pay[r] = "creating")
  PROVE  CustomersFollow' /\ CustomersAccountedFor'
  <1> USE DEF PayTypeOK, PayGoto
  <1>1. /\ pay[r] = "creating" /\ pay'[r] \in {"storing", "failed"}
        /\ pay'[r] = "storing" => customerId'[r] = r
        /\ customers' = customers \cup {r}
        /\ UNCHANGED <<checkout, stripeCustomer>>
        /\ \A q \in Request \ {r} : pay'[q] = pay[q] /\ customerId'[q] = customerId[q]
    BY DEF CreateCustomer, PayUnanswered, CustomerMade, stripe
  <1>2. CustomersFollow'
    <2>1. ASSUME NEW q \in Request
          PROVE  /\ pay'[q] = "storing" => customerId'[q] = q /\ q \in customers'
                 /\ /\ Method[q] = "STRIPE"
                    /\ pay'[q] \in {"linking", "saving", "linked"} \/ checkout[q] # "none"
                    => /\ customerId'[q] \in customers'
                       /\ Owner(customerId'[q]) = UserOf[q]
                       /\ stripeCustomer[UserOf[q]] # NoCustomer
      BY <1>1 DEF CustomersFollow
    <2>2. QED
      BY <1>1, <2>1 DEF CustomersFollow
  <1>3. CustomersAccountedFor'
    BY <1>1 DEF CustomersAccountedFor
  <1>4. QED
    BY <1>2, <1>3

(* UPDATE users, answered or not: what the row named before, if anything,  *)
(* is overwritten by a customer of the same user.                          *)
LEMMA StoreCustomerFollows ==
  ASSUME PayTypeOK, CustomersFollow, CustomersAccountedFor, NEW r \in Request,
         StoreCustomer(r) \/ (PayUnanswered(r) /\ pay[r] = "storing")
  PROVE  CustomersFollow' /\ CustomersAccountedFor'
  <1> DEFINE u == UserOf[r]
  <1> USE DEF PayTypeOK, PayGoto
  <1>1. /\ pay[r] = "storing" /\ pay'[r] \in {"linking", "failed"}
        /\ stripeCustomer' = [stripeCustomer EXCEPT ![u] = customerId[r]]
        /\ UNCHANGED <<checkout, customers, customerId>>
        /\ \A q \in Request \ {r} : pay'[q] = pay[q]
    BY DEF StoreCustomer, PayUnanswered, CustomerStored, stripe
  <1>2. customerId[r] = r /\ r \in customers /\ r # NoCustomer /\ Owner(r) = u /\ u \in User
    BY <1>1, OwnerOfCall DEF CustomersFollow
  <1>3. /\ stripeCustomer'[u] = r
        /\ \A v \in User \ {u} : stripeCustomer'[v] = stripeCustomer[v]
    BY <1>1, <1>2
  <1>4. CustomersFollow'
    <2>1. ASSUME NEW v \in User
          PROVE  /\ stripeCustomer'[v] # NoCustomer =>
                      stripeCustomer'[v] \in customers /\ Owner(stripeCustomer'[v]) = v
                 /\ v \in OldCustomer => stripeCustomer'[v] # NoCustomer
      BY <1>2, <1>3 DEF CustomersFollow
    <2>2. ASSUME NEW q \in Request
          PROVE  /\ pay'[q] = "storing" => customerId[q] = q /\ q \in customers
                 /\ /\ Method[q] = "STRIPE"
                    /\ pay'[q] \in {"linking", "saving", "linked"} \/ checkout[q] # "none"
                    => /\ customerId[q] \in customers
                       /\ Owner(customerId[q]) = UserOf[q]
                       /\ stripeCustomer'[UserOf[q]] # NoCustomer
      <3>1. UserOf[q] \in User
        BY OwnerOfCall
      <3>2. stripeCustomer[UserOf[q]] # NoCustomer => stripeCustomer'[UserOf[q]] # NoCustomer
        BY <1>2, <1>3, <3>1
      <3>3. CASE q = r
        BY <1>1, <1>2, <1>3, <3>3
      <3>4. CASE q # r
        BY <1>1, <3>2, <3>4 DEF CustomersFollow
      <3>5. QED
        BY <3>3, <3>4
    <2>3. QED
      BY <1>1, <2>1, <2>2 DEF CustomersFollow
  <1>5. CustomersAccountedFor'
    <2>1. ASSUME NEW c \in customers
          PROVE  \/ stripeCustomer'[Owner(c)] = c
                 \/ c \in Request /\ pay'[c] \in {"storing", "failed"}
                 \/ \E q \in customers \cap Request :
                      q # c /\ stripeCustomer'[Owner(c)] = q /\ UserOf[q] = Owner(c)
      <3>1. Owner(c) \in User
        BY OwnerOfCall, OwnerOfUser
      <3>2. CASE Owner(c) = u
        BY <1>2, <1>3, <3>2
      <3>3. CASE Owner(c) # u
        <4>1. stripeCustomer'[Owner(c)] = stripeCustomer[Owner(c)] /\ c # r
          BY <1>2, <1>3, <3>1, <3>3
        <4>2. QED
          BY <1>1, <4>1 DEF CustomersAccountedFor
      <3>4. QED
        BY <3>2, <3>3
    <2>2. QED
      BY <1>1, <2>1 DEF CustomersAccountedFor
  <1>6. QED
    BY <1>4, <1>5

(* Every step of a call and of the provider.                               *)
LEMMA PayStepFollows ==
  ASSUME PayTypeOK, CustomersFollow, CustomersAccountedFor, NEW r \in Request,
         checkout[r] # "none" => pay[r] \in {"saving", "linked", "failed"},
         PayStep(r)
  PROVE  CustomersFollow' /\ CustomersAccountedFor'
  <1>1. CASE FindCustomer(r)
    BY <1>1, FindCustomerFollows
  <1>2. CASE CreateCustomer(r) \/ (PayUnanswered(r) /\ pay[r] = "creating")
    BY <1>2, CreateCustomerFollows
  <1>3. CASE StoreCustomer(r) \/ (PayUnanswered(r) /\ pay[r] = "storing")
    BY <1>3, StoreCustomerFollows
  <1>4. CASE OnwardStep(r)
    <2>1. /\ UNCHANGED stripe
          /\ \A q \in Request : Onward(q)
          /\ \A q \in Request : checkout'[q] # checkout[q] =>
                                  pay[q] = "linking" \/ checkout[q] # "none"
      BY <1>4, OnwardSteps
    <2>2. CustomersFollow'
      BY <2>1, CustomersStay
    <2>3. CustomersAccountedFor'
      BY <2>1, AccountsStay
    <2>4. QED
      BY <2>2, <2>3
  <1>5. PayUnanswered(r) =>
          pay[r] = "creating" \/ pay[r] = "storing" \/ pay[r] \in {"linking", "saving"}
    BY DEF PayUnanswered, PayGoto
  <1>6. QED
    BY <1>1, <1>2, <1>3, <1>4, <1>5 DEF PayStep, PayQuery, PayUpdate, PayCall, OnwardStep

=============================================================================
