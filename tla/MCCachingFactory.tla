--------------------------- MODULE MCCachingFactory ---------------------------
(* Small instance of CachingFactory for TLC. *)
EXTENDS CachingFactory, TLC

CONSTANTS x, y, z, k1, k2

Payload(prefix, module, suffix) ==
  [prefix |-> prefix, module |-> module, uniqueKey |-> <<"1">>, suffix |-> suffix, value |-> "v"]

(* The keys of x and y are user:1 both, that of z is 1:experience.         *)
MCPayloadOf ==
  x :> Payload("user", Absent, Absent) @@
  y :> Payload(Absent, "user", Absent) @@
  z :> Payload(Absent, Absent, "experience")

(* Two processes of the backend, of which one runs two of the calls.       *)
MCConnOf == x :> k1 @@ y :> k2 @@ z :> k2

(* One process.                                                            *)
MCOneProcess == [c \in Call |-> k1]

=============================================================================
