------------------------- MODULE MCTrafficPayment -------------------------
(* Small instances of TrafficPayment for TLC. *)
EXTENDS TrafficPayment, TLC

CONSTANTS a, b

TwoPrices == (a :> [up |-> 1, down |-> 2]) @@ (b :> [up |-> 3, down |-> 1])
OneNode == a :> [up |-> 1, down |-> 1]
===========================================================================
