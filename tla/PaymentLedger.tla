--------------------------- MODULE PaymentLedger ---------------------------
(***************************************************************************)
(* What the micro-payment promises, without streams that fail, timers,     *)
(* transactions on their way and bytes: the payer runs up a bill and signs *)
(* for what it owes, never for more, on a cheque made out to one node at a *)
(* time (not always the one that serves by now: a payment may come too     *)
(* late).  The node that serves may take as credit what a cheque to it is  *)
(* worth, and no part of it twice while it serves.                         *)
(*                                                                         *)
(* What it does not promise: a node that begins to serve begins without    *)
(* credit, even if it served before.  The cheque it may still hold is then *)
(* good for credit once more, from the first unit on.                      *)
(***************************************************************************)
EXTENDS Naturals

CONSTANT Nodes

VARIABLES
    bill,        \* what was used, in money
    payee,       \* the node that serves
    cheque,      \* the last cheque: to whom, and all that was signed on it
    spent,       \* what was signed on the cheques before it
    credit       \* what the payee has taken since it last began to serve

Init ==
    /\ bill = 0 /\ payee \in Nodes
    /\ cheque = [to |-> payee, amount |-> 0] /\ spent = 0 /\ credit = 0

Owed == bill - (spent + cheque.amount)

Use ==
    /\ bill' \in Nat /\ bill' >= bill
    /\ UNCHANGED <<payee, cheque, spent, credit>>

Sign(n, more) ==
    /\ cheque.to = n
    /\ cheque' = [to |-> n, amount |-> cheque.amount + more]
    /\ UNCHANGED <<bill, payee, spent, credit>>

SignNew(n, more) ==
    /\ cheque.to # n
    /\ cheque' = [to |-> n, amount |-> more]
    /\ spent' = spent + cheque.amount
    /\ UNCHANGED <<bill, payee, credit>>

Take ==
    /\ cheque.to = payee
    /\ credit' \in credit + 1 .. cheque.amount
    /\ UNCHANGED <<bill, payee, cheque, spent>>

\* A session begins, with the same node or another.
Serve(n) ==
    /\ payee' = n /\ credit' = 0
    /\ UNCHANGED <<bill, cheque, spent>>

Next ==
    \/ Use
    \/ \E n \in Nodes, more \in 1 .. Owed : Sign(n, more) \/ SignNew(n, more)
    \/ Take
    \/ \E n \in Nodes : Serve(n)

Spec == Init /\ [][Next]_<<bill, payee, cheque, spent, credit>>
============================================================================
