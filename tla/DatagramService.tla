-------------------------- MODULE DatagramService --------------------------
(***************************************************************************)
(* What the UDP relay promises to the clients of its entries: an answer    *)
(* reaches only clients that use the port of the client which asked, and   *)
(* only after it asked.  Requests and answers may be lost, delayed,        *)
(* reordered or repeated, as UDP allows.  A port is all that tells clients *)
(* apart, so two entries must not have clients on the same port if each    *)
(* client is to get its own answers only.                                  *)
(***************************************************************************)
CONSTANTS
    Clients,     \* client sockets of all entries
    Requests,    \* what clients may ask
    PortOf,      \* PortOf[c]: the local port of client c
    Asker        \* Asker[r]: the client that asks r

VARIABLES
    asked,       \* requests made
    got          \* got[c]: requests whose answers client c was given

Init == asked = {} /\ got = [c \in Clients |-> {}]

Ask(r) == asked' = asked \cup {r} /\ UNCHANGED got

Answer(c, r) ==
    /\ r \in asked /\ PortOf[Asker[r]] = PortOf[c]
    /\ \E s \in asked : Asker[s] = c
    /\ got' = [got EXCEPT ![c] = @ \cup {r}]
    /\ UNCHANGED asked

Next ==
    \/ \E r \in Requests : Ask(r)
    \/ \E c \in Clients, r \in Requests : Answer(c, r)

Spec == Init /\ [][Next]_<<asked, got>>
=============================================================================
