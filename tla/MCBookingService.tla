-------------------------- MODULE MCBookingService --------------------------
(* Small instance of BookingService for TLC. *)
EXTENDS BookingService, TLC

CONSTANTS a, b, c, sold, ghost

(* Lists that cross in every way a pair and a triple of callers can cross, *)
(* the three ways a list is refused, one of them at its third seat, and    *)
(* the empty list.                                                         *)
MCSeatLists ==
  {<<a, b>>, <<b, a>>, <<b, c>>, <<c, a>>, <<b, a, a>>, <<b, ghost>>, <<c, sold>>, <<>>}

(* For the temporal properties: a pair both ways round, and a triangle.    *)
MCCrossingSeatLists == {<<a, b>>, <<b, a>>, <<b, c>>, <<c, a>>}

MCInitialStatus == [s \in Seat |-> IF s = sold THEN "BOOKED" ELSE "AVAILABLE"]

MCSymmetry == Permutations(Request)

=============================================================================
