---------------------------- MODULE MCForwardUdp ----------------------------
(* Two entries with a client on the same port each, and one more client. *)
EXTENDS ForwardUdp, TLC

CONSTANTS e1, e2, r1, r2, r3, p1, p2, dns, game

TwoEntries == (r1 :> <<e1, p1>>) @@ (r2 :> <<e2, p1>>) @@ (r3 :> <<e1, p2>>)
TwoServices == (r1 :> dns) @@ (r2 :> game) @@ (r3 :> game)
=============================================================================
