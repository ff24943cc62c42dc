# Seatly backend: TLA+ models, checks and proofs

Seatly sells seats. A customer sends a list of seat ids, gets one booking for all of them and a
payment link, pays at Stripe or MoMo, and the provider reports the payment through a webhook. The
backend is one NestJS process over PostgreSQL (through Sequelize) and Redis (a BullMQ queue).
The modules in this directory model that path with the concurrency and the failures it meets. TLC
checks them on small instances; TLAPS proves for every instance all the safety properties that the
runs check, of the booking transaction and of the composed backend. Two more models, with proofs of
their own, are about logins with the pool of database connections and the session that follows, and
about the one operation of the cache that relies on `WATCH`.

Paths below are relative to the repository.

## 1. Inventory

| Component | State | Operations | Talks to | Hard because |
|---|---|---|---|---|
| `modules/booking` | `bookings`, `booking_seats` | `createBookingForUser` (a transaction), `update`, `deleteByCondition`, reads | Seat, BookingSeat, the seat queue, Payment | callers compete for rows; Redis is outside the transaction; any await can fail |
| `modules/seat` | `seats` (status, version) | `updateByCondition`, `bulkUpdate`, reads | PostgreSQL | row locks inside a transaction, optimistic locking outside |
| `modules/seat/seat.processor.ts` | jobs of the seat queue | `handleUnlockSeat` | Seat, Gateway | fires minutes later, against whatever the seat has become |
| `modules/payment` | session id in `bookings`, Stripe customer in `users` | `createPaymentLink`; `createOrGetCustomer`, `createPaymentLink` of the adapters | provider over HTTP, Booking, User | nothing is transactional; answers get lost; reads may be stale; calls of one user overlap |
| `modules/webhook` | - | four handlers: completed, expired (Stripe), paid, failed (MoMo) | Booking, Seat, the seat queue | deliveries repeat and overlap, and Stripe's are taken at their word; one handler of four has a transaction |
| `modules/admin` | - | `resetSystem` | Booking, Seat | two statements, no transaction |
| `modules/auth`, `modules/user` | `users`, the cookie of a browser | `googleOAuth`, `me`, `logout`, `AuthGuard` | Google over HTTP, User | a transaction held across HTTP, two connections per login; a token that outlives what it was made from |
| `database/database.module.ts` | pool of 25 connections, replicas | acquire, release | all | leaked transactions, waiting on one another, stale reads |
| `modules/caching_factory` | Redis keys | `saddWithoutRaceCondition`, `set`, `getSet`, `zadd`, `zrem`, `srem`, `del`, `reset`, reads | Redis | `WATCH` on a connection everybody shares, and that breaks |
| `modules/gateway` | sockets | rooms of users, seat events | browsers | none for the backend's state |
| the rest of `common` | - | hashing, paging, errors, metrics, tracing | - | stateless |

What makes them correct:

- **Booking.** No seat has two owners. A call takes all the seats of its list or leaves nothing
  behind. Competing calls end, and not all of them lose. A refusal has a reason.
- **Seat queue.** Every booking has an unlock job for each seat; a refused call has none; the job
  frees the seat of a booking nobody paid.
- **Payment.** Whoever can pay has a booking that the webhook will find. A Stripe session belongs to a
  customer of its own user, and no customer made at Stripe is lost without a cause.
- **Webhook.** A provider is told 2xx for a payment only when it is recorded, and it is recorded in
  the end. A booking is PAID only when its session was paid; seats are BOOKED only with a PAID booking,
  and all of a paid booking's seats are.
- **Login.** Every login ends, also when logins have taken all connections and wait for one another;
  no connection is lost; a token names the one committed account of its email.
- **Session.** Whoever the guard lets through has a committed account, that of the cookie's email.
- **Cache.** What a call found in the set before `EXEC` is still so when it adds its value; a call that
  is told its value was added finds it there.
- **Reset.** Nothing that was deleted changes afterwards; after a reset no booking is left.

`PROJECT.json` lists the hazards of this code line by line, with the properties that watch each.

## 2. Modules

```
SeatReservation            abstract: a caller gets a list of free seats in one step
   ^ implemented by
Storage --> BookingService --> PaymentService --> WebhookService --+
   |                                                               +--> Seatly
   +------> SeatProcessor, AdminController ------------------------+
AuthService ----> AuthController
CachingFactory

BookingServiceProofs --> BookingOutcomeProofs           about BookingService
PaymentServiceProofs, BookingServiceProofs -->
  SeatlyProofs --> SeatlyOutcomeProofs                  about Seatly
AuthServiceProofs --> AuthControllerProofs              about AuthService, AuthController
CachingFactoryProofs                                    about CachingFactory
MCBookingService, MCSeatly, MCAuthController and MCCachingFactory instantiate for TLC
```

**Storage** is what the services share. `seats`, `bookings` and `bookingSeats` are *committed* rows.
`seatLock` and `bookingLock` say which open transaction has locked a row. A transaction's own
uncommitted write needs no variable: from the lock and the identity of its holder it is known what
will be written (a booking call writes LOCKED, a webhook BOOKED or PAID), and commit makes it
visible, as in READ COMMITTED. A booking is named by the call that creates it, so there is at most
one row for each element of `Request`. `jobs` is the queue in Redis: no rollback touches it.
`Save` is `seat.save()` with Sequelize's version counter.

**BookingService** is `createBookingForUser`. One call moves through
`idle -> locking -> inserting -> scheduling -> committing -> created`, one action per await:

| Action | Code (`booking.service.ts`) |
|---|---|
| `Begin` | 95, `BEGIN`; the list is any of `SeatLists` |
| `LockSeat` | 103-109, `SELECT ... FOR UPDATE` and `UPDATE` of one row (`seat.repository.ts` 52-69) |
| `SeatTaken`, `SeatUnknown` | 111-122 with the rollback of 167: 409 and 404 |
| `InsertRows` | 128-148 |
| `AddJob` | 151-162, in effect at once |
| `Commit` | 164 |
| `Abort` | 166-169 after a rejected await, or a process that dies |
| `CommitUnanswered` | 164 took effect, its answer was lost, so 167 throws |
| `Deadlock` | PostgreSQL's detector; 166-169 |

`LockSeat` joins two statements: between them the row is locked and nothing is visible, so nobody
can tell. `Waiting` is a `FOR UPDATE` on a row that another transaction holds; when the holder
ends, PostgreSQL evaluates the condition again on the new row, which here is the guard of
`LockSeat` or of `SeatTaken` read at that time.

**PaymentService** is `createPaymentLink`. One call moves through
`idle (-> finding (-> creating -> storing)) -> linking -> saving -> linked`, the part in parentheses
for Stripe only:

| Action | Code (`payment.service.ts`) |
|---|---|
| `ReadBooking` | 36-81: the booking, its checks, the adapter |
| `FindCustomer` | 83-93: `userService.findById`, and whether the user has a customer |
| `CreateCustomer` | 91-94, `stripe.adapter.ts` 19-58: Stripe makes a new one, always |
| `StoreCustomer` | 94-103: an update of `users` that overwrites what another call stored |
| `StripeCreatePaymentLink`, `MomoCreatePaymentLink` | the adapters' HTTP call |
| `SaveSession` | 122-136, `booking.repository.ts` 37-51 |
| `PayFails`, `PayUnanswered` | an await rejects, before or after it took effect |

A customer is named by the call that made it, so whose it is needs no variable. `CustomerPays` and
`CheckoutCloses` are the provider's side. A session ends once, paid or not.

With `Replicas` a read outside a transaction goes to a replica, which may lag behind by any amount:
`SeenRows` and `SeenCustomers` are the rows it may show. A row of `bookings` has only a few earlier
forms, so they are written down and the replica needs no state. `ReadBooking`, `FindCustomer` and
the webhook handlers without a transaction read through them; `handleCheckoutCompleted` passes its
transaction and reads the primary.

**WebhookService**. A delivery has a checkout that it is about (`CheckoutOf`) and says what became of it
(`Reports`). Those in `Genuine` are the provider's own, and come only when the session ended so. Of the
two signatures the code verifies MoMo's (`webhook.service.ts` 201-213) and logs Stripe's (33-41), so a
Stripe delivery outside `Genuine` may come at any time and say anything; the handler treats both alike.

`handleCheckoutCompleted` is a transaction in which two updates run on one
connection; which Sequelize sends first is the constant `SeatFirst`, and the runs use both. The
seat it books is any one of the booking's (`LIMIT 1`). `ToDo` is the condition under which a handler goes on; an
early return (`Ignore`) leaves its transaction open (`leaked`). The other three handlers find the booking without its seats, so
`booking.seats.map` throws after `bookingService.update` was called: the answer is 500 and the
update *floats* until `FloatingUpdate`, or a crash, ends it. If it finds its booking deleted, the
rejection has no handler and Node ends the process (`UnhandledRejection`).

The pool has `Connections` connections to the primary. `InUse` are the transactions that hold one: calls
and deliveries between their `BEGIN` and their end, and the leaked ones. A handler's first query needs
a free one (`Connected`) or is rejected after the acquire time (`AcquireTimeout`); a floating update
waits for one too. A transaction that early returns leave open never gives its connection back: when
they have taken all (`Exhausted`) only a restart helps.

**SeatProcessor** is the worker. A job's data is a record, written by `JobData` and read by `Throws` and
`Unlocks`, so that what the producer writes and what the consumer reads meet in the model. **AdminController** is the two statements of `resetSystem`.

**Seatly** composes them over one `Storage` and one pool, and adds the crash of the process that runs them
all. Whoever begins a transaction or sends a statement outside one needs a `Free` connection: the
booking call, the reads (unless they go to a replica) and updates of the payment link, the reset.

**AuthService** is `googleOAuth` and the pool. One call moves through
`idle -> opening -> asking -> finding -> reading -> creating -> committing -> token`:

| Action | Code (`auth.service.ts`) |
|---|---|
| `BeginLogin` | 33: a connection for the transaction, from `free` |
| `GoogleAnswers`, `GoogleFails` | 35-43, `curl.service.ts` 30-50: the connection is kept meanwhile |
| `FindUser`, `ReadUser` | 47, without the transaction: a second connection, given back with the answer |
| `CreateUser`, `DuplicateEmail` | 56, and the unique index on the email |
| `CommitLogin`, `CommitLoginUnanswered` | 66 |
| `RollbackLogin`, through which all failures go | 69-73 |
| `AcquireTimeout` | the pool rejects a caller that has waited 60 seconds |
| `LeakConnection` | `webhook.service.ts` 90-103: a webhook call returns with its transaction open |

`users` has the committed row of each email, `inserting` the open transaction with an uncommitted
one, for which a second insertion of the email waits. The module stands alone: bookings do not read
`users`, and what a booking's transaction does to the pool is what a login's does. The leak of the
webhook handler, which never ends, is an action here.

**AuthController** adds the browser: `GoogleLogin` sets the cookie to the token of a login (a token is
named by its login), over whatever cookie there was; `GetMe` and `Logout` go through `AuthGuard`
(`ValidateRequest`, `auth.guard.ts` 64-97); after 60 days `TokenExpires`. `last` remembers what `me`
was sent and what it answered, for the properties. An answer may never reach its browser.

**CachingFactory** is `saddWithoutRaceCondition` against the Redis commands it is made of. One call
moves through `idle -> watched -> checked -> added`, or through `refused` and `cleaning` to `failed`:

| Action | Code (`caching_factory.service.ts`) |
|---|---|
| `Watch` | 168-170 |
| `Check` | 172-178: `SISMEMBER`, which rejects when the key holds another type |
| `Refuse` | 174-177: `UNWATCH`, then the exception |
| `Exec`, `ExecAborted` | 179-189: `EXEC` on a clean connection, and on one whose watched key changed (null) |
| `Unwatch` | 190-193, the catch block |
| `Reject`, `ExecUnanswered` | a command rejects on a broken connection, `EXEC` after it took effect |
| `Set`, `GetSet`, `Zadd`, `Zrem`, `Srem`, `Del`, `Reset` | the other operations on the keys, one command each |

Redis keeps watches and the dirty flag for a connection, not for a call (`watching`, `dirty`). The module
provides one connection, `REDIS_CLIENT`, for a whole process (`caching_factory.module.ts` 44-62), so
calls of one process share it; `ConnOf` says in which process a call runs, and `Conn` may hold several
processes over one Redis. An `EXEC` or `UNWATCH` of any call ends all the watches of its connection
(`EndWatches`), and a reconnection forgets them (`Drop`); `lost` remembers the calls that lose their
watch by somebody else's doing. Nothing in the repository calls the operation yet. A caller would get
what the properties say: its watch guards what it read until another call of its process, or a
reconnection, ends it, and then two calls can both be told that they added one element (`double_add`).

Definitions called "Variant" in a comment are plausible bugs of the operator that follows them.
Nothing uses them; they are there to show that the properties notice.

## 3. Runs

All of them switch off TLC's deadlock check: calls end, and a system in which all have ended stops.

| Run | Shows | Bounds |
|---|---|---|
| `booking` | seven invariants of the booking transaction, with the inductive `CreateInv` | 3 callers, 3 free seats and a sold one, an unknown id; lists that overlap, cross, repeat a seat, name an unknown one, are empty |
| `booking_live` | `EveryCallEnds`, and `ReservationSpec` (the refinement) | 3 callers, lists that cross in a ring, so that all three can deadlock |
| `seatly` | eight invariants of the whole, and `SaleSpec` (the refinement) | 2 calls of one user, both through Stripe, replicas, 3 seats; each session may be reported paid or closed, by Stripe; 2 connections, one fault |
| `seatly_live` | `PaymentRecorded`, the inductive `SeatlyInv`, and four of the invariants, with MoMo and repeated deliveries | 2 users (one Stripe, one MoMo), a seat each, no replicas; the Stripe session is reported paid twice, once by a call that is not Stripe's; 2 connections, one fault |
| `seatly_reset` | `BookedMeansPaid`, `AckedMeansRecorded`, `DeletedRowsFrozen` with resets at any time | 2 users, one of them with a Stripe customer already, one list of 2 seats, any number of resets, 2 connections, one fault |
| `login` | `LoginInv`, `PoolConserved`, `TokenMeansUser`, `SessionTypeOK`, `CallersHaveUsers`; `EveryLoginEnds`, `PoolRecovers` | 3 logins, two of one customer, all in one browser; 3 connections, of which one may leak |
| `cache` | `WatchGuards`, `DoubleAddHasCause`; `AddTakesEffect` | 3 calls in 2 processes, two of one key, two in one process |
| `unlock_job` | violated: `UnlockJobUnlocks` | 2 users (one Stripe, one MoMo), 2 seats, 2 connections, one fault |
| `paid_seats_stripe`, `paid_seats_momo` | violated: `PaidSeatsBooked`, once for each provider | as `unlock_job`, all callers pay with that provider |
| `reset_clears` | violated: `ResetClearsAll` | as `unlock_job`, with resets |
| `double_add` | violated: `NoDoubleAdd` | 2 calls of one process that add one element |

Why the bounds suffice: a conflict over a row needs two callers, a deadlock through a third three,
and a list matters by its length up to two, by order, and by overlap. A seat's story after its
booking depends on one booking and its deliveries; two overlapping deliveries are the smallest case
of both reading PENDING_PAYMENT. `MaxFaults` bounds crashes and failing webhook transactions, so
that liveness is about a system that is not interrupted forever; a booking call may fail without
bound. Retries by a provider are unbounded. Three logins over three connections, or two once one has
leaked, are the smallest case in which all connections are held by logins that wait for a second one. Two
connections let two transactions overlap, make others wait, and are few enough for leaks to exhaust. Two calls of one user are what it takes to create two Stripe customers; three
calls of the cache are two rivals for a key in two processes, of which one shares its connection with
the third. `MCSymmetry` of
`MCBookingService` permutes callers, which no list tells apart; that of `MCSeatly` swaps the two calls
of one user together with their deliveries. Neither is used with a liveness property.

### What the violated runs show

1. **The unlock job unlocks nothing.** It is added with `{ seat_id }` (`booking.service.ts` 154) and
   read as `{ seatId, version }` (`seat.processor.ts` 45). Sequelize refuses the undefined values,
   the job fails in its one attempt, and the seat stays LOCKED.
2. **One seat of a paid booking is BOOKED** (Stripe): `updateByCondition` finds one row
   (`seat.repository.ts` 58), `webhook.service.ts` 115 counts on all.
3. **No seat of a paid booking is BOOKED** (MoMo): `webhook.service.ts` 250 throws before the seats
   are updated, with the update to PAID on its way.
4. **A booking survives a reset** (`admin.controller.ts` 24-28) when it commits between the two
   statements, and its seats are AVAILABLE, free to be booked by somebody else.
5. **Two calls add one element.** `saddWithoutRaceCondition` promises an error to the second
   (`caching_factory.service.ts` 186-188). In one process the `EXEC` of the first call ends the watch of
   the second, whose own `EXEC` then succeeds: both are told that they added the element.

The first hides another: a job that read the right fields would free the seats of a booking that
can still be paid. The variant `JobDataAsRead` makes the fields agree, and `NoDoubleClaim` then fails.

One disagreement needs no run. `COOKIE_AUTH_IMPLEMENTATION.md` 46 and 132 promise that the guard falls
back on the Authorization header; `auth.guard.ts` 69 looks at the cookie only, and so does the model.

### Fairness

- A started booking call that does not wait for a lock goes on (`WF` of `Proceed`): an awaited
  call of PostgreSQL or Redis answers. Not of `Begin`: nobody has to book.
- PostgreSQL finds deadlocks (`deadlock_timeout`): `WF` of one `Deadlock` for all calls, since the
  detector promises to break a cycle, not which member is the victim.
- A login goes on (`WF` of `LoginProceed`): PostgreSQL answers, a request to Google ends after 120
  seconds (`curl.service.ts` 48), a wait for a connection after 60. Google need not answer, and
  nobody is promised a connection. `SessionSpec` takes this over; a browser need not do anything.
- A provider repeats a delivery not answered with 2xx (`WF` of `Deliver`, for `Genuine` only: nobody
  else has to call). A started handler goes on (`WF` of `HookProceed`), if only by being rejected when
  the pool has no connection for it, and so does a floating update. Nobody has to pay, and no job, reset
  or fault has to happen.

No fairness gives a connection back that an early return has leaked. `PaymentRecorded` therefore says
"or `Exhausted`"; without these words TLC finds the violation, in which early returns for one
customer's session leak both connections and the payment of the other customer is never recorded.

## 4. Proofs

Each theorem holds for any sets of seats, callers, lists, deliveries, users and so on. They rest only on the
named assumptions of the modules: identifiers of different kinds are different and the seeder gives
every seat a status (`StorageAssumption`), lists are finite sequences of ids (`ListAssumption`), and
constants have the type their comment says (`PaymentAssumption`, `DeliveryAssumption`,
`ResetAssumption`, `LoginAssumption`, `CacheAssumption`). A hypothesis beyond these is named
with its theorem below.

### The booking transaction

`BookingServiceProofs`:

| Theorem | Statement |
|---|---|
| `TypeCorrect` | `CreateSpec => []CreateTypeOK` |
| `Invariance` | `CreateSpec => []CreateInv` |
| `NoDoubleBooking` | `CreateSpec => []NoDoubleClaim` |
| `SeatsAccounted` | `CreateSpec => []SeatsAccountedFor` |
| `Refinement` | `CreateSpec => ReservationSpec` |

`NoDoubleClaim` alone is not inductive: nothing in it stops a call from committing seats that
another booking already claims. The strengthening `CreateInv` says why that cannot happen:

- `LocksFollowLoop`: a call holds exactly the locks of the part of its list that it has got past,
  all of them until it commits, none afterwards;
- `LockedSeatsAvailable`: a locked row is AVAILABLE as committed;
- `RowsAfterCommit`: the seats of a booking are LOCKED as committed.

So at `Commit` the seats are those the call has locked (`ClaimsAreLocked`), these are AVAILABLE, and
the claimed ones are LOCKED: they are disjoint. Each of the other actions writes either nothing but
the position of a call (`QuietInv`), one lock (`LockInv`), or releases the locks of one call
(`RollbackInv`). `OnlyCommitWrites` says that every other step leaves rows alone, and
`CommitEffect` what a commit does to them; from the two follow `SeatsAccounted` and the refinement,
where a commit is the abstract `Reserve` and everything else a stutter. What is said of calls
alone (`CallsInv`, kept by `CallStep`) is proved without `LockedSeatsAvailable`, because it
serves the composed backend too, where deliveries take locks as well.

`BookingOutcomeProofs` is about how calls end:

| Theorem | Statement |
|---|---|
| `OutcomeInvariance` | `CreateSpec => []OutcomeInv` |
| `WholeListBooked` | `CreateSpec => []WholeListOrNothing` |
| `JobsBeforeCommit` | `CreateSpec => []BookingsHaveJobs` |
| `RefusalsLeaveNothing` | `CreateSpec => []RefusalLeavesNothing` |
| `ConflictsJustified` | `CreateSpec => []ConflictJustified` |
| `SomebodyWins` | `CreateSpec => []NotEverybodyLoses` |

`OutcomeInv` adds the history that the properties talk about. `ListDistinct`: the part of a list that
a call has got past names no seat twice, since a seat locked by the call itself does not match again.
`RowsFollowList`: rows are those of the list. `JobsFollowLoop`: a call has scheduled the jobs of the part of
its second loop behind it, and none before that loop. `NotFoundJustified` and `ConflictJustified` keep the reason of a
refusal. `DeadlockHasSurvivor`: once a call has been sacrificed, some started call has not been,
because PostgreSQL takes one member out of a cycle and its neighbour stays. `SomebodyWins`
follows: if all had bookable lists, nobody was refused with 404 or 409, and the survivor of the
deadlocks made a booking or failed.

Proving it corrected the property. An earlier form of `NotEverybodyLoses` asked for a booking when *one*
of the callers had a bookable list. That is false: a deadlock may sacrifice the only such caller
in favour of one whose list `<<b, a, a>>` ends in a 409. The code promises no more, and the lists of `booking`
now include that case.

### The composed backend

`SeatlyProofs` proves that `SeatlyInv` is inductive, one lemma per step (`CreateInvariant`,
`PayInvariant`, `HookInvariant`, `FloatInvariant`, `UnlockInvariant`, `ResetInvariant`,
`DeathInvariant`): calls, payments, deliveries, floating updates, jobs, resets and crashes in any order,
with replicas that lag by any amount. Its parts:

- `LocksFollowLoop`, as before, and `RowsFollowCalls`: rows exist once a call has committed, and what a
  call has locked is AVAILABLE;
- `PaymentsFollow`: a session is opened for the seats of a committed booking, is paid only when its
  id is stored, and the booking is PAID only when some delivery has said so (`SaidPaid`);
- `CustomersFollow`: where the customer of each position of a payment comes from;
- `DeliveriesFollow`: a provider's delivery says what became of its session; any delivery holds a lock
  on one row of booking_seats and on its booking, each from its own statement on; a locked booking is
  not deleted;
- `FloatsFollow`: a floating update writes what some delivery asked for.

Each part speaks of few variables; the lemmas `LocksStay`, `RowsStay`, `PaymentsStay`, `DeliveriesStay`,
`FloatsStay` and `CustomersKept` say once under which conditions somebody else's step keeps it.
`PaymentServiceProofs` has the lemmas about customers. `CustomersAccountedFor` is carried along, because it
needs `CustomersFollow` only. TLC has checked `SeatlyInv` too (run `seatly_live`).

`SeatlyOutcomeProofs` draws the conclusions:

| Theorem | Statement |
|---|---|
| `SeatlyTypeCorrect` | `Spec => []TypeOK` |
| `OwnCustomers` | `Spec => []SessionsHaveOwnCustomer` |
| `NoLostCustomer` | `Spec => []CustomersAccountedFor` |
| `PaidCanBeFound` | `Spec => []PaidIsFindable` |
| `RecordedIsPaid` | `Spec => []RecordedMeansPaid` |
| `LeaksBlockNobody` | `Spec => []LeakedHoldsNoRow` |
| `DeletedStaysAsItIs` | `Spec => DeletedRowsFrozen` |
| `BookedIsPaid` | `Spec => []BookedMeansPaid`, if deliveries are `Unanimous` |
| `AnswersAreRecorded` | `Spec => []RecordedInv`, if deliveries are `Unanimous` |
| `AcksAreRecorded` | `Spec => []AckedMeansRecorded`, if deliveries are `Unanimous`, and there are no replicas or all pay through Stripe |
| `SoldUntilReset` | `Spec => []UntilReset` |
| `StripePaidIsBooked` | `Spec => []StripePaidHasSeat`, if nobody resets |
| `ClaimedOnce` | `Spec => []NoDoubleClaim`, if nobody resets |
| `SaleRefinement` | `Spec => SaleSpec`, if nobody resets |
| `JobsUnlockNothing` | no unlock job ever writes a seat |
| `MomoSeatsNeverBooked` | `Spec => []MomoSeatsLocked` |

The first six follow from the invariant alone. The others rest on two lemmas about what a step of any
actor writes: to a seat (`SeatWrites`) nothing, LOCKED at the commit of a call, BOOKED at that of a delivery, or AVAILABLE in a
reset; and to a booking (`StepWrites`). At the commit of a delivery, `Committing` gives
that it has locked exactly one seat, of its own booking, and that booking, and that it reports
a payment: hence `BookedIsPaid`.

The hypotheses are not for convenience. `Unanimous` says that a delivery which is not the provider's
contradicts no other about the same session. Where one does, its update to EXPIRED, started while
the booking was PENDING_PAYMENT, may land after the booking became PAID: the seat stays BOOKED and the
provider has been told 2xx. The providers' own deliveries are unanimous, because a session ends once.
`RecordedIsPaid` and `SeatlyInvariance` need no such hypothesis: they hold whatever Stripe deliveries say.

With replicas, the MoMo handler may look for a booking in a replica that does not have it yet, and acknowledges the payment: TLC finds that behaviour, and
`RecordedInv` states per delivery whose handler is safe from it. A reset makes seats AVAILABLE whose booking
is PAID but deleted, and a booking that commits between the two statements of a reset (section 3) is claimed by
nobody else only until the second one. `UntilReset` therefore says what holds in every behaviour as
long as no reset has begun (`SaleInv`), and the three theorems without resets are its
corollaries. In `SaleInv` every row of booking_seats counts, also that of a booking whose
session expired: this makes the invariant inductive, and it is what
the code does, since nothing ever frees a seat.

The last two theorems generalise findings of section 3 from the instance of a run to all: the fields the job
carries and the worker reads never meet, and no handler that MoMo calls reaches a seat.

### Logins, sessions

`AuthServiceProofs` is about logins, for any sets of logins, emails and connections;
`AuthControllerProofs` about the browser around them:

| Theorem | Statement |
|---|---|
| `LoginInvariance` | `LoginSpec => []LoginInv` |
| `ConnectionsConserved` | `LoginSpec => []PoolConserved` |
| `TokensMeanUsers` | `LoginSpec => []TokenMeansUser` |
| `SessionInvariance` | `SessionSpec => []SessionInv` |
| `SessionTypeCorrect` | `SessionSpec => []SessionTypeOK` |
| `SessionTokensMeanUsers` | `SessionSpec => []TokenMeansUser` |
| `CallersAreUsers` | `SessionSpec => []CallersHaveUsers` |

`PoolConserved` needs `ConnectionsFollow`: without it a call could take a connection over one that
it already has. `PoolFollows` reduces it, for each step, to the one call that moves. `TokenMeansUser`
needs `RowsFollow`: a commit turns the token's user into a committed one because no other
transaction has committed that email since the insertion, which the unique index sees to.
`SessionInv` adds that a cookie is the token of a login that has answered with one, so that what the guard decodes
is an account that was committed, and no row of `users` is ever removed.

### The cache

`CachingFactoryProofs` is about any calls, keys, values, connections and any way to share them:

| Theorem | Statement |
|---|---|
| `CacheInvariance` | `CacheSpec => []CacheInv` |
| `CacheTypeCorrect` | `CacheSpec => []CacheTypeOK` |
| `WatchesGuard` | `CacheSpec => []WatchGuards` |
| `DoubleAddsHaveCause` | `CacheSpec => []DoubleAddHasCause` |
| `AddsTakeEffect` | `CacheSpec => AddTakesEffect` |

`CacheInv` is `CacheTypeOK` with the two invariants of the run: `DoubleAddHasCause` holds because the
second addition needs an `EXEC` on a clean connection, which by `WatchGuards` still sees no such
member, unless the call is in `lost`. Calls of one process are covered, not assumed away: a step is
harmless to the watch of a call when it touches the connections that watch the key it changes
(`TouchHarmless`), and a step that ends watches puts into `lost` all the others that rely on that
connection. With the finding of `double_add` the theorem says that the shared connection and the
reconnection are what can go wrong, and the only things.

### Not proved

The liveness properties (`EveryCallEnds`, `PaymentRecorded`, `EveryLoginEnds`, `PoolRecovers`) need
fairness and ENABLED, which the prover does not support; TLC checks them on the instances of the
runs. Every invariant and every action property of a run that passes is stated by a theorem; type
correctness, which is part of the inductive invariants, is also stated by itself.

## 5. Abstractions

- Prices, users, names, HTTP formatting, logging and the websocket events are left out. The amount of
  a booking is positive exactly when its list is not empty (seeded prices are positive).
- A MoMo call without MoMo's signature (`webhook.service.ts` 201-213) and a malformed payload end before
  any state is touched, and are left out. Stripe's signature is only logged (33-41), so Stripe's calls
  are taken at their word and modelled so, as deliveries outside `Genuine`. `Genuine` deliveries are
  assumed to be true: a session ends once, and Stripe and MoMo report what became of it.
- Only who was given the link can pay, so no report of a payment by the provider comes before the session
  id is stored. A report that the session closed may, and is then acknowledged and without effect.
- The pool counts transactions. A statement outside one takes a free connection for the instant it takes
  effect; that it keeps the connection while it waits for a row is left out. The worker's update is
  refused by Sequelize before it asks for a connection. Logins use the same pool in the code, and are modelled
  with a pool of their own.
- Replicas (`DB_SLAVE_HOST`) are in the payment link and the webhook handlers, in the run `seatly`.
  Logins, sessions and the other runs read the primary: with replicas reads have a pool of their own,
  so logins do not wait for one another; `me` may miss an account just made; and the MoMo handler,
  which looks the booking up outside a transaction, may acknowledge a payment it did not find.
- A Redis key is a member of a set of keys: no ttl (its end is a `Del`), no values of strings and
  sorted sets, no elements but those that the modelled calls add.
- The two statements of a reset take effect atomically each. The locks such a statement holds
  while it waits for more rows are not modelled; a deadlock it loses is `ResetFails`.
- Jobs may fire at any time after they are added, not only after ten minutes: a subset of the
  behaviours has the delay, and no safety property here may depend on it.

## 6. Plan

1. Done: storage, booking, payment link with the Stripe customer and replicas, webhooks, worker,
   reset, their composition; `AuthService` with the pool; the session; `CachingFactory`; the proofs of
   section 4, which state every invariant and action property of the runs.
2. Next, proofs: that `createBookingForUser` among the other actors keeps what it promises alone
   (`WholeListOrNothing`, `BookingsHaveJobs` up to jobs that fired); what holds between the two
   statements of a reset, and after one.

## 7. Not modelled

- **Repository methods nobody calls**: most of `booking-seat`, `create`/`delete`/`findOne` of seats, the
  bulk and delete operations of users. They change state only if something calls them.
- **The optimistic lock of two savers outside a transaction.** `Save` has the version, but the only
  saver outside a transaction is the worker, which throws before it reads; savers in a transaction
  hold the row lock, so the version decides nothing.
- **Gateway.** Sockets and rooms; no service reads them. Its unhandled rejection of an expired token
  would do to the model what `Crash` does.
- **The cluster guard**, which compares a header with a configured constant and keeps no state.
- **Helpers** (hashing, strings, paging) are stateless conversions over standard cryptography or used
  by reads only.
- **Application shell**: wiring, HTTP errors, metrics, tracing.
