-------------------------- MODULE TrafficPayment --------------------------
(***************************************************************************)
(* Micro-payment for tunnelled traffic.  The payer (the entry of a forward *)
(* tunnel, the exit of a reverse one) runs startPayment; the payee, one    *)
(* process per session, runs handlePaymentStream, checkPayment and         *)
(* checkNanoPayClaim.  They share a payment stream of the smux session.    *)
(*                                                                         *)
(* Bytes are counted in units whose size the configuration chooses; time   *)
(* passes in ticks of trafficDelay (10 s), so defaultNanoPayUpdateInterval *)
(* is 6 ticks and maxNanoPayDelay 3.                                       *)
(***************************************************************************)
EXTENDS Integers, Sequences

CONSTANTS
    Nodes,           \* nodes that may serve the payer
    Price,           \* Price[n][d]: what node n asks per TrafficUnit of direction d
    TrafficUnit,     \* units of bytes a price is for (1 MiB)
    Threshold,       \* trafficPaymentThreshold * TrafficUnit, in units
    MaxUnpaid,       \* maxTrafficUnpaid * TrafficUnit, in units
    UpdateInterval,  \* defaultNanoPayUpdateInterval, in ticks
    NanoPayDelay,    \* maxNanoPayDelay, in ticks
    SigningFails,    \* may IncrementAmount fail (its RPC node is unreachable)?
    MaxUsed,         \* bound: units transferred per direction
    MaxSessions      \* bound: sessions the payer opens

Dir == {"up", "down"}                  \* entry to exit, exit to entry

ASSUME NodesAssumption == Price \in [Nodes -> [Dir -> Nat]]
ASSUME UnitAssumption == TrafficUnit \in Nat \ {0}
ASSUME LimitAssumption ==
    /\ Threshold \in Nat /\ MaxUnpaid \in Nat
    /\ UpdateInterval \in Nat /\ NanoPayDelay \in Nat
    /\ SigningFails \in BOOLEAN
    /\ MaxUsed \in Nat /\ MaxSessions \in Nat \ {0}

VARIABLES
    \* payer
    used,        \* bytes counted per direction, over all sessions
    paid,        \* bytes covered by the payments sent
    price,       \* the price startPayment read when it began
    lastCost,    \* the last increment
    sincePay,    \* ticks since lastPaymentTime
    paying,      \* the payment goroutine runs
    pick,        \* the increment between its computation and its sending
    nanoPay,     \* current nano pay: id (one per recipient change), recipient, amount
    signed,      \* history: sum of all increments ever signed
    \* session
    sid,         \* number of the current session
    node,        \* the node that serves it
    session,     \* "open", or why it is closed
    stream,      \* nano pay transactions on the payment stream
    \* payee, for the current session
    served,      \* bytes counted per direction
    fresh,       \* the totals snapshot that becomes visible next tick
    visible,     \* totalCostDelayed, totalBytesDelayed
    claimer,     \* NanoPayClaimer: current id, its amount, amount of earlier ids
    lastAmount,  \* *lastPaymentAmount
    bytesPaid,   \* *bytesPaid
    sinceClaim,  \* ticks since *lastPaymentTime
    asleep,      \* checkPayment is in its second half, sleeping maxNanoPayDelay
    left,        \* ticks of that sleep left
    captured,    \* totalCost, totalBytes: what it will judge
    skipped      \* history: at the last tick of that sleep startPayment was skipping

payerVars == <<used, paid, price, lastCost, sincePay, paying, pick, nanoPay, signed>>
sessionVars == <<sid, node, session, stream>>
payeeVars == <<served, fresh, visible, claimer, lastAmount, bytesPaid, sinceClaim,
              asleep, left, captured, skipped>>
vars == <<payerVars, sessionVars, payeeVars>>

---------------------------------------------------------------------------
\* The cost of b units at price p, in whole Fixed64 units (integer division).
DirCost(p, b) == (p * b) \div TrafficUnit
Cost(p, b) == DirCost(p["up"], b["up"]) + DirCost(p["down"], b["down"])
Bytes(b) == b["up"] + b["down"]

Unpaid == [d \in Dir |-> used[d] - paid[d]]
Increment == Cost(price, Unpaid)
Totals == [cost |-> Cost(Price[node], served), bytes |-> Bytes(served)]

NoBytes == [d \in Dir |-> 0]
NoTotals == [cost |-> 0, bytes |-> 0]
NoPick == [sid |-> 0, to |-> "nobody", cost |-> 0, upto |-> NoBytes]
NewClaimer == [id |-> 0, amount |-> 0, before |-> 0]

Init ==
    /\ node \in Nodes /\ price = Price[node]
    /\ used = NoBytes /\ paid = NoBytes
    /\ lastCost = 0 /\ sincePay = 0 /\ paying = TRUE /\ pick = NoPick
    /\ nanoPay = [id |-> 0, to |-> node, amount |-> 0] /\ signed = 0
    /\ sid = 1 /\ session = "open" /\ stream = <<>>
    /\ served = NoBytes /\ fresh = NoTotals /\ visible = NoTotals
    /\ claimer = NewClaimer /\ lastAmount = 0 /\ bytesPaid = 0
    /\ sinceClaim = 0 /\ asleep = FALSE /\ left = 0 /\ captured = NoTotals
    /\ skipped = FALSE

---------------------------------------------------------------------------
\* A unit crosses the tunnel and both ends count it.
Traffic(d) ==
    /\ session = "open" /\ used[d] < MaxUsed
    /\ used' = [used EXCEPT ![d] = @ + 1]
    /\ served' = [served EXCEPT ![d] = @ + 1]
    /\ UNCHANGED <<paid, price, lastCost, sincePay, paying, pick, nanoPay, signed,
                   sessionVars, fresh, visible, claimer, lastAmount, bytesPaid,
                   sinceClaim, asleep, left, captured, skipped>>

\* The transport dies: what is in flight is lost.
Drop ==
    /\ session = "open"
    /\ session' = "lost" /\ stream' = <<>>
    /\ UNCHANGED <<payerVars, sid, node, payeeVars>>

\* getSession replaces a closed session, maybe with one to another node, whose
\* handler starts from zero.  The payer's state is not touched.
Reconnect(n) ==
    /\ session # "open" /\ sid < MaxSessions
    /\ sid' = sid + 1 /\ node' = n /\ session' = "open" /\ stream' = <<>>
    /\ served' = NoBytes /\ fresh' = NoTotals /\ visible' = NoTotals
    /\ claimer' = NewClaimer /\ lastAmount' = 0 /\ bytesPaid' = 0
    /\ sinceClaim' = 0 /\ asleep' = FALSE /\ left' = 0 /\ captured' = NoTotals
    /\ skipped' = FALSE
    /\ UNCHANGED payerVars

---------------------------------------------------------------------------
\* startPayment: the polling loop finds a payment due; it skips an increment that is
\* zero or equal to the last one.  Otherwise it takes the payment stream and the
\* recipient of the session.  getSession may hand out one whose transport is already
\* gone and not yet noticed to be.
PayDueByVolume == Bytes(used) - Bytes(paid) > Threshold          \* mutant
PayDue ==
    \/ Bytes(used) - Bytes(paid) > Threshold
    \/ sincePay > UpdateInterval

Payable == PayDue /\ Increment > 0 /\ Increment # lastCost
Skipping == paying /\ PayDue /\ Increment > 0 /\ Increment = lastCost

Pick ==
    /\ paying /\ pick = NoPick
    /\ Payable
    /\ pick' = [sid |-> sid, to |-> node, cost |-> Increment, upto |-> used]
    /\ UNCHANGED <<used, paid, price, lastCost, sincePay, paying, nanoPay, signed,
                   sessionVars, payeeVars>>

\* NewNanoPay when the recipient taken with the stream is a new one, then
\* IncrementAmount.
SignedIncrementOnly ==                                           \* mutant
    [id |-> IF nanoPay.to # pick.to THEN nanoPay.id + 1 ELSE nanoPay.id,
     to |-> pick.to, amount |-> pick.cost]
Signed ==
    IF nanoPay.id = 0 \/ nanoPay.to # pick.to
    THEN [id |-> nanoPay.id + 1, to |-> pick.to, amount |-> pick.cost]
    ELSE [id |-> nanoPay.id, to |-> pick.to, amount |-> nanoPay.amount + pick.cost]

PickAlive == pick.sid = sid /\ session = "open"

Send ==
    /\ paying /\ pick # NoPick /\ PickAlive
    /\ nanoPay' = Signed /\ signed' = signed + pick.cost
    /\ stream' = Append(stream, [id |-> Signed.id, amount |-> Signed.amount])
    /\ paid' = pick.upto /\ lastCost' = pick.cost /\ sincePay' = 0
    /\ pick' = NoPick
    /\ UNCHANGED <<used, price, paying, sid, node, session, payeeVars>>

\* The write fails because that session is gone: the increment stays signed, for the
\* node of that session, and the payment goroutine returns.
SendFailsAndGoesOn ==                                            \* mutant
    /\ paying /\ pick # NoPick /\ ~PickAlive
    /\ nanoPay' = Signed /\ signed' = signed + pick.cost
    /\ pick' = NoPick
    /\ UNCHANGED <<used, paid, price, paying, lastCost, sincePay, sessionVars, payeeVars>>
SendFails ==
    /\ paying /\ pick # NoPick /\ ~PickAlive
    /\ nanoPay' = Signed /\ signed' = signed + pick.cost
    /\ paying' = FALSE /\ pick' = NoPick
    /\ UNCHANGED <<used, paid, price, lastCost, sincePay, sessionVars, payeeVars>>

\* IncrementAmount fails three times: nothing is signed, the goroutine returns.
SignFails ==
    /\ SigningFails
    /\ paying /\ pick # NoPick
    /\ paying' = FALSE /\ pick' = NoPick
    /\ UNCHANGED <<used, paid, price, lastCost, sincePay, nanoPay, signed,
                   sessionVars, payeeVars>>

---------------------------------------------------------------------------
\* NanoPayClaimer.Claim: a new id adds up with the ids before it, the same id
\* must carry a larger amount.
Accepts(c, tx) == tx.id # c.id \/ tx.amount > c.amount
ClaimedTwice(c, tx) ==                                           \* mutant
    [id |-> tx.id, amount |-> tx.amount, before |-> c.before + c.amount]
Claimed(c, tx) ==
    [id |-> tx.id, amount |-> tx.amount,
     before |-> IF tx.id = c.id THEN c.before ELSE c.before + c.amount]
Claim(c) == c.before + c.amount

\* handlePaymentStream: a transaction is claimed.
ClaimPayment ==
    LET c == Claimed(claimer, Head(stream)) IN
    /\ session = "open" /\ stream # <<>>
    /\ Totals.cost # 0 /\ Accepts(claimer, Head(stream))
    /\ stream' = Tail(stream)
    /\ claimer' = c
    /\ lastAmount' = Claim(c) /\ sinceClaim' = 0
    /\ bytesPaid' = Totals.bytes * (Claim(c) \div Totals.cost)
    /\ UNCHANGED <<payerVars, sid, node, session, served, fresh, visible,
                   asleep, left, captured, skipped>>

\* The claimer refuses it and closes: checkNanoPayClaim closes the session.
RejectPayment ==
    /\ session = "open" /\ stream # <<>>
    /\ Totals.cost # 0 /\ ~Accepts(claimer, Head(stream))
    /\ session' = "rejected" /\ stream' = <<>>
    /\ UNCHANGED <<payerVars, sid, node, payeeVars>>

\* What handlePaymentStream does with the next transaction.
ReceivePayment ==
    IF stream # <<>> /\ Accepts(claimer, Head(stream)) THEN ClaimPayment ELSE RejectPayment

\* It is dropped: nothing was served yet, or the claim failed three times.
DropPayment ==
    /\ session = "open" /\ stream # <<>>
    /\ Totals.cost = 0 \/ Accepts(claimer, Head(stream))
    /\ stream' = Tail(stream)
    /\ UNCHANGED <<payerVars, sid, node, session, payeeVars>>

\* checkPayment, the inner loop: unpaid traffic is visible, and a minute has gone
\* by or more than the threshold is not paid for; sleep maxNanoPayDelay.
WatchFiresByVolume ==                                            \* mutant
    /\ session = "open" /\ ~asleep
    /\ visible.cost > lastAmount
    /\ visible.bytes - bytesPaid > Threshold
WatchFires ==
    /\ session = "open" /\ ~asleep
    /\ visible.cost > lastAmount
    /\ sinceClaim > UpdateInterval \/ visible.bytes - bytesPaid > Threshold

Watch ==
    /\ WatchFires
    /\ asleep' = TRUE /\ left' = NanoPayDelay /\ captured' = visible
    /\ skipped' = FALSE
    /\ UNCHANGED <<payerVars, sessionVars, served, fresh, visible, claimer,
                   lastAmount, bytesPaid, sinceClaim>>

\* Less than 0.9 (minTrafficCoverage) of the cost is paid and the rest is worth
\* more than maxTrafficUnpaid, both rounded down to whole Fixed64 units.
Underpaid(t) ==
    /\ lastAmount < (9 * t.cost) \div 10
    /\ t.cost - lastAmount > (MaxUnpaid * t.cost) \div t.bytes

\* checkPayment, after the sleep.
Judge ==
    /\ session = "open" /\ asleep /\ left = 0
    /\ IF Underpaid(captured)
       THEN session' = "unpaid" /\ stream' = <<>>
       ELSE UNCHANGED <<session, stream>>
    /\ asleep' = FALSE
    /\ UNCHANGED <<payerVars, sid, node, served, fresh, visible, claimer,
                   lastAmount, bytesPaid, sinceClaim, left, captured, skipped>>

\* trafficDelay passes.  Timers are capped just above what they are compared to.
CountdownPastZero(t) == t - 1                                    \* mutant
Countdown(t) == IF t > 0 THEN t - 1 ELSE t
Older(t) == IF t > UpdateInterval THEN t ELSE t + 1

Tick ==
    /\ ~(asleep /\ left = 0 /\ session = "open")
    /\ sincePay' = Older(sincePay) /\ sinceClaim' = Older(sinceClaim)
    /\ visible' = fresh /\ fresh' = Totals
    /\ left' = Countdown(left)
    /\ skipped' = IF asleep /\ session = "open" THEN Skipping ELSE skipped
    /\ UNCHANGED <<used, paid, price, lastCost, paying, pick, nanoPay, signed,
                   sessionVars, served, claimer, lastAmount, bytesPaid,
                   asleep, captured>>

---------------------------------------------------------------------------
Payer == Pick \/ Send \/ SendFails \/ SignFails
Payee == ReceivePayment \/ DropPayment \/ Watch \/ Judge

Next ==
    \/ \E d \in Dir : Traffic(d)
    \/ Drop
    \/ \E n \in Nodes : Reconnect(n)
    \/ Payer
    \/ Payee
    \/ Tick

Spec == Init /\ [][Next]_vars

\* Every loop of the two programs keeps polling, and time passes.  A dead session
\* need not be found out by paying on it.
FairSpec ==
    /\ Spec
    /\ WF_vars(session = "open" /\ Pick) /\ WF_vars(Send \/ SendFails)
    /\ WF_vars(ReceivePayment \/ DropPayment)
    /\ WF_vars(Watch) /\ WF_vars(Judge) /\ WF_vars(Tick)

\* Both loops poll a hundred times per tick, and a payment is delivered and
\* claimed well within one: nobody lets a tick pass with work to do, and nothing fails.
Idle ==
    /\ stream = <<>> /\ pick = NoPick
    /\ ~Payable /\ ~WatchFires
PromptNext ==
    \/ \E d \in Dir : Traffic(d)
    \/ (session = "open" /\ Pick) \/ Send
    \/ ClaimPayment \/ Watch \/ Judge
    \/ ((session = "open" => Idle) /\ Tick)
PromptSpec == Init /\ [][PromptNext]_vars

---------------------------------------------------------------------------
Transactions == [id : Nat, amount : Nat]

PayerType ==
    /\ used \in [Dir -> Nat] /\ paid \in [Dir -> Nat] /\ price \in [Dir -> Nat]
    /\ lastCost \in Nat /\ sincePay \in Nat /\ paying \in BOOLEAN
    /\ pick \in {NoPick} \cup [sid : Nat, to : Nodes, cost : Nat, upto : [Dir -> Nat]]
    /\ nanoPay \in [id : Nat, to : Nodes, amount : Nat] /\ signed \in Nat
SessionType ==
    /\ sid \in Nat /\ node \in Nodes
    /\ session \in {"open", "lost", "unpaid", "rejected"}
    /\ stream \in Seq(Transactions)
PayeeType ==
    /\ served \in [Dir -> Nat]
    /\ fresh \in [cost : Nat, bytes : Nat] /\ visible \in [cost : Nat, bytes : Nat]
    /\ claimer \in [id : Nat, amount : Nat, before : Nat]
    /\ lastAmount \in Nat /\ bytesPaid \in Nat /\ sinceClaim \in Nat
    /\ asleep \in BOOLEAN /\ left \in Nat /\ captured \in [cost : Nat, bytes : Nat]
    /\ skipped \in BOOLEAN
TypeOK == PayerType /\ SessionType /\ PayeeType

\* The payer never signs for more than the cost of what it used, at the price it
\* read: neither rounding, nor a failed payment, nor a reconnect charges twice.
NeverOverpays == signed <= Cost(price, used)

\* An honest payer's transactions are never refused by a claimer: through lost
\* payments, reconnects and changes of recipient, what arrives on a session has
\* a larger amount than what was claimed there before.
NeverRejected == session # "rejected"

\* Seen without streams, timers and bytes, payer and payee keep a ledger: what is signed
\* is owed, on a cheque to the node the payment was meant for, and a session's credit grows
\* up to what a cheque made out to its node is worth.  Each session of the exit begins with
\* a claimer at zero, so a cheque may be credited anew, in full, after a reconnect to the
\* same node; within a session no part of it is credited twice, and another node's never.
Ledger == INSTANCE PaymentLedger WITH
    bill <- Cost(price, used), payee <- node,
    cheque <- [to |-> nanoPay.to, amount |-> nanoPay.amount],
    spent <- signed - nanoPay.amount, credit <- lastAmount
ImplementsLedger == Ledger!Spec

\* A payer that no longer pays is cut off by checkPayment, once what it owes is
\* more than a tenth and more than the allowance (or the session ends otherwise).
Freeloading ==
    IF session = "open" /\ ~paying /\ stream = <<>>
    THEN Underpaid(Totals)
    ELSE FALSE
FreeloaderCutOff == Freeloading ~> session # "open"

\* A payer that runs on time is cut off for two reasons only: at the last tick before,
\* startPayment was skipping a due increment for being equal to the one it last paid; or
\* by *bytesPaid more than the threshold was not paid for.  (A shortfall that is no more
\* than what rounding has spared the payer is left aside; there is none if prices are
\* multiples of the unit.)
RoundedOff == Cost(price, paid) - signed
Rounding == IF \A d \in Dir : price[d] % TrafficUnit = 0 THEN 0 ELSE 2
CutoffOnlyWhenSkipped ==
    session = "unpaid" =>
        \/ skipped
        \/ captured.bytes - bytesPaid > Threshold
        \/ captured.cost - lastAmount <= RoundedOff + Rounding

\* checkPayment cuts nobody off who pays whatever is due ("Not enough payment").
HonestPayerKept == session # "unpaid"

\* After a reconnect, traffic that costs more than the last payment is paid for.
PaidAfterReconnect ==
    (sid > 1 /\ session = "open" /\ Increment > lastCost)
        ~> (Increment <= lastCost \/ session # "open")
===========================================================================
