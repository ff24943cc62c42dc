--------------------------- MODULE SeatReservation ---------------------------
(***************************************************************************)
(* What POST /bookings promises, without transactions, locks or jobs: a    *)
(* caller gets all the seats of a list in one step, out of those nobody    *)
(* has, or none of them.  An empty list gets nothing and shows nothing.    *)
(***************************************************************************)
CONSTANTS
  Seat,
  Request,
  Open       \* the seats that were free when the system was seeded

VARIABLE held   \* the seats each caller has

Init == held = [r \in Request |-> {}]

Taken == UNION {held[r] : r \in Request}

Reserve(r) ==
  /\ held[r] = {}
  /\ \E S \in SUBSET (Open \ Taken) : held' = [held EXCEPT ![r] = S]

Next == \E r \in Request : Reserve(r)

Spec == Init /\ [][Next]_held

(* Nobody shares a seat, and nobody has a seat that was not free.          *)
Exclusive ==
  /\ held \in [Request -> SUBSET Seat]
  /\ \A r1, r2 \in Request : r1 # r2 => held[r1] \cap held[r2] = {}
  /\ Taken \subseteq Open

=============================================================================
