--------------------------- MODULE MCAuthController ---------------------------
(* Small instance of AuthController, and with it AuthService, for TLC. *)
EXTENDS AuthController, TLC

CONSTANTS first, again, other, shared, own, b

(* Two calls of one customer and one of another.                           *)
MCEmailOf == first :> shared @@ again :> shared @@ other :> own

(* They share a browser.                                                   *)
MCBrowserOf == [l \in Login |-> b]

=============================================================================
