------------------------------- MODULE MCSeatly -------------------------------
(* Small instance of the whole backend for TLC. *)
EXTENDS Seatly, TLC

CONSTANTS a, b, c, card, wallet, p1, p2, c1, p3, c3, u1, u2

(* A pair, one of its seats and another: callers compete or do not.        *)
MCSeatLists == {<<a, b>>, <<b>>, <<c>>}

MCInitialStatus == [s \in Seat |-> "AVAILABLE"]

(* One caller pays through Stripe, one through MoMo.                       *)
MCMethod == card :> "STRIPE" @@ wallet :> "MOMO"

(* Both callers pay through the same provider.                             *)
MCStripe == [r \in Request |-> "STRIPE"]

MCMomo == [r \in Request |-> "MOMO"]

(* Two customers, or one with two calls at once.                           *)
MCUserOf == card :> u1 @@ wallet :> u2

MCOneUser == [r \in Request |-> u1]

(* What a delivery says, p that its session was paid, c that it closed.    *)
MCCheckoutOf == [w \in Delivery |-> IF w \in {p1, p2, c1} THEN card ELSE wallet]

MCReports == [w \in Delivery |-> IF w \in {p1, p2, p3} THEN "paid" ELSE "closed"]

(* One seat each, so that both callers may get their booking.              *)
MCSingleSeats == {<<a>>, <<b>>}

(* Two seats only, or all the seats there are.                             *)
MCSmallSeatLists == {<<a, b>>, <<b>>}

MCOneSeatList == {<<a, b>>}

(* Two calls of one user, each with its deliveries, are alike.             *)
MCSwap == card :> wallet @@ wallet :> card @@ p1 :> p3 @@ p3 :> p1 @@ c1 :> c3 @@ c3 :> c1

MCSymmetry == {MCSwap, [x \in DOMAIN MCSwap |-> x]}

=============================================================================
