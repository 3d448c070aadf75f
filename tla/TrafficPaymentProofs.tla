----------------------- MODULE TrafficPaymentProofs -----------------------
(***************************************************************************)
(* Safety of the payment protocol for all nodes, prices, units and limits. *)
(***************************************************************************)
EXTENDS TrafficPayment, TLAPS

\* Integer division by the traffic unit loses less when it is done once.
LEMMA DivSplit ==
    ASSUME NEW x \in Nat, NEW y \in Nat, NEW t \in Nat \ {0}
    PROVE  /\ (x \div t) + (y \div t) <= (x + y) \div t
           /\ x \div t \in Nat
  OBVIOUS

\* The cost of one direction is a natural number, and two parts of a transfer
\* never cost more than the whole.
LEMMA DirCostSplit ==
    ASSUME NEW p \in Nat, NEW x \in Nat, NEW y \in Nat
    PROVE  /\ DirCost(p, x) \in Nat
           /\ DirCost(p, x) + DirCost(p, y) <= DirCost(p, x + y)
<1>1. p * x \in Nat /\ p * y \in Nat /\ p * (x + y) = p * x + p * y
  OBVIOUS
<1> QED BY <1>1, DivSplit, UnitAssumption DEF DirCost

\* The same of both directions.
LEMMA CostSplit ==
    ASSUME NEW p \in [Dir -> Nat], NEW x \in [Dir -> Nat], NEW y \in [Dir -> Nat],
           \A d \in Dir : x[d] <= y[d]
    PROVE  /\ Cost(p, x) \in Nat
           /\ Cost(p, x) + Cost(p, [d \in Dir |-> y[d] - x[d]]) <= Cost(p, y)
           /\ Cost(p, x) <= Cost(p, y)
           /\ Cost(p, [d \in Dir |-> y[d] - x[d]]) \in Nat
<1> DEFINE z == [d \in Dir |-> y[d] - x[d]]
<1>1. \A d \in Dir : p[d] \in Nat /\ x[d] \in Nat /\ z[d] \in Nat /\ y[d] = x[d] + z[d]
  OBVIOUS
<1>2. \A d \in Dir : /\ DirCost(p[d], x[d]) \in Nat /\ DirCost(p[d], z[d]) \in Nat
                     /\ DirCost(p[d], x[d]) + DirCost(p[d], z[d]) <= DirCost(p[d], y[d])
  BY <1>1, DirCostSplit
<1>3. \A d \in Dir : DirCost(p[d], y[d]) \in Nat
  BY DirCostSplit
<1> QED BY <1>2, <1>3 DEF Cost, Dir

---------------------------------------------------------------------------
(* Types.  What a step needs to know of the data, stated once.             *)

\* Costs and totals are natural numbers.
LEMMA CostType ==
    ASSUME NEW p \in [Dir -> Nat], NEW x \in [Dir -> Nat]
    PROVE  Cost(p, x) \in Nat /\ Bytes(x) \in Nat
<1>1. \A d \in Dir : DirCost(p[d], x[d]) \in Nat
  BY DirCostSplit
<1> QED BY <1>1 DEF Cost, Bytes, Dir

\* Nothing costs nothing.
LEMMA CostZero ==
    ASSUME NEW p \in [Dir -> Nat]
    PROVE  Cost(p, NoBytes) = 0 /\ Bytes(NoBytes) = 0
<1>1. \A d \in Dir : DirCost(p[d], NoBytes[d]) = 0
  <2> SUFFICES ASSUME NEW d \in Dir PROVE (p[d] * 0) \div TrafficUnit = 0
    BY DEF DirCost, NoBytes
  <2>1. p[d] * 0 = 0
    OBVIOUS
  <2> QED BY <2>1, UnitAssumption
<1>2. \A d \in Dir : NoBytes[d] = 0
  BY DEF NoBytes
<1> QED BY <1>1, <1>2 DEF Cost, Bytes, Dir

LEMMA TotalsType ==
    ASSUME node \in Nodes, served \in [Dir -> Nat]
    PROVE  Totals \in [cost : Nat, bytes : Nat]
<1>1. Price[node] \in [Dir -> Nat]
  BY NodesAssumption
<1>2. Cost(Price[node], served) \in Nat /\ Bytes(served) \in Nat
  BY <1>1, CostType
<1> QED BY <1>2 DEF Totals

\* The fields of an increment in the making.
LEMMA PickType ==
    ASSUME PayerType
    PROVE  /\ pick.sid \in Nat /\ pick.cost \in Nat /\ pick.upto \in [Dir -> Nat]
           /\ pick # NoPick => pick.to \in Nodes
<1>1. CASE pick = NoPick
  BY <1>1 DEF NoPick, NoBytes
<1>2. CASE pick \in [sid : Nat, to : Nodes, cost : Nat, upto : [Dir -> Nat]]
  BY <1>2
<1> QED BY <1>1, <1>2 DEF PayerType

\* Signing keeps a nano pay a nano pay.
LEMMA SignedType ==
    ASSUME PayerType, pick # NoPick
    PROVE  /\ Signed \in [id : Nat, to : Nodes, amount : Nat]
           /\ [id |-> Signed.id, amount |-> Signed.amount] \in Transactions
BY PickType DEF PayerType, Signed, Transactions

\* Claiming keeps a claimer a claimer.
LEMMA ClaimedType ==
    ASSUME NEW c \in [id : Nat, amount : Nat, before : Nat], NEW tx \in Transactions
    PROVE  /\ Claimed(c, tx) \in [id : Nat, amount : Nat, before : Nat]
           /\ Claim(Claimed(c, tx)) \in Nat
<1>1. tx.id \in Nat /\ tx.amount \in Nat /\ c.before \in Nat /\ c.before + c.amount \in Nat
  BY DEF Transactions
<1>2. Claimed(c, tx) \in [id : Nat, amount : Nat, before : Nat]
  BY <1>1 DEF Claimed
<1> QED BY <1>2 DEF Claim

\* A division by the traffic unit is an integer.
LEMMA IncrementType ==
    ASSUME PayerType
    PROVE  Increment \in Int
<1>1. \A d \in Dir : price[d] * Unpaid[d] \in Int
  <2>1. \A d \in Dir : price[d] \in Int /\ used[d] - paid[d] \in Int
    BY DEF PayerType
  <2> QED BY <2>1 DEF Unpaid
<1>2. \A d \in Dir : DirCost(price[d], Unpaid[d]) \in Int
  BY <1>1, UnitAssumption DEF DirCost
<1> QED BY <1>2 DEF Increment, Cost, Dir

LEMMA TypeInit == Init => TypeOK
<1> SUFFICES ASSUME Init PROVE TypeOK
  OBVIOUS
<1>1. node \in Nodes /\ price \in [Dir -> Nat]
  BY NodesAssumption DEF Init
<1>2. PayerType
  BY <1>1 DEF Init, PayerType, NoBytes, NoPick
<1>3. SessionType
  BY <1>1 DEF Init, SessionType
<1>4. PayeeType
  BY DEF Init, PayeeType, NoBytes, NoTotals, NewClaimer
<1> QED BY <1>2, <1>3, <1>4 DEF TypeOK

LEMMA TypeStep == TypeOK /\ [Next]_vars => TypeOK'
<1> SUFFICES ASSUME TypeOK, [Next]_vars PROVE TypeOK'
  OBVIOUS
<1>0. PayerType /\ SessionType /\ PayeeType /\ node \in Nodes
  BY DEF TypeOK, SessionType
<1>a. UNCHANGED payerVars => PayerType'
  BY <1>0 DEF PayerType, payerVars
<1>b. UNCHANGED sessionVars => SessionType'
  BY <1>0 DEF SessionType, sessionVars
<1>c. UNCHANGED payeeVars => PayeeType'
  BY <1>0 DEF PayeeType, payeeVars
<1>1. ASSUME NEW d \in Dir, Traffic(d) PROVE TypeOK'
  <2>1. PayerType'
    BY <1>0, <1>1 DEF Traffic, PayerType
  <2>2. PayeeType'
    BY <1>0, <1>1 DEF Traffic, PayeeType
  <2> QED BY <1>1, <1>b, <2>1, <2>2 DEF Traffic, TypeOK
<1>2. CASE Drop
  <2>1. SessionType'
    BY <1>0, <1>2 DEF Drop, SessionType
  <2> QED BY <1>2, <1>a, <1>c, <2>1 DEF Drop, TypeOK
<1>3. ASSUME NEW n \in Nodes, Reconnect(n) PROVE TypeOK'
  <2>1. SessionType'
    BY <1>0, <1>3 DEF Reconnect, SessionType
  <2>2. PayeeType'
    BY <1>3 DEF Reconnect, PayeeType, NoBytes, NoTotals, NewClaimer
  <2> QED BY <1>3, <1>a, <2>1, <2>2 DEF Reconnect, TypeOK
<1>4. CASE Pick
  <2>1. Increment \in Nat
    BY <1>0, <1>4, IncrementType DEF Pick, Payable
  <2>2. PayerType'
    BY <1>0, <1>4, <2>1 DEF Pick, PayerType, SessionType
  <2> QED BY <1>4, <1>b, <1>c, <2>2 DEF Pick, TypeOK
<1>5. CASE Send
  <2>0. pick # NoPick /\ nanoPay' = Signed /\ signed' = signed + pick.cost /\ paid' = pick.upto
        /\ pick' = NoPick /\ lastCost' = pick.cost /\ sincePay' = 0
        /\ UNCHANGED <<used, price, paying>>
    BY <1>5 DEF Send
  <2>1. PayerType'
    BY <1>0, <2>0, SignedType, PickType DEF PayerType
  <2>2. SessionType'
    BY <1>0, <1>5, SignedType DEF Send, SessionType
  <2> QED BY <1>5, <1>c, <2>1, <2>2 DEF Send, TypeOK
<1>6. CASE SendFails
  <2>0. pick # NoPick /\ nanoPay' = Signed /\ signed' = signed + pick.cost
        /\ pick' = NoPick /\ paying' \in BOOLEAN
        /\ UNCHANGED <<used, paid, price, lastCost, sincePay>>
    BY <1>6 DEF SendFails
  <2>1. PayerType'
    BY <1>0, <2>0, SignedType, PickType DEF PayerType
  <2> QED BY <1>6, <1>b, <1>c, <2>1 DEF SendFails, TypeOK
<1>7. CASE SignFails
  <2>1. PayerType'
    BY <1>0, <1>7 DEF SignFails, PayerType
  <2> QED BY <1>7, <1>b, <1>c, <2>1 DEF SignFails, TypeOK
<1>8. CASE ClaimPayment
  <2> DEFINE c == Claimed(claimer, Head(stream))
  <2>1. stream \in Seq(Transactions) /\ stream # <<>>
    BY <1>0, <1>8 DEF ClaimPayment, SessionType
  <2>2. Head(stream) \in Transactions /\ Tail(stream) \in Seq(Transactions)
    BY <2>1
  <2>3. c \in [id : Nat, amount : Nat, before : Nat] /\ Claim(c) \in Nat
    BY <1>0, <2>2, ClaimedType DEF PayeeType
  <2>4. Totals.cost \in Nat \ {0} /\ Totals.bytes \in Nat
    BY <1>0, <1>8, TotalsType DEF ClaimPayment, PayeeType
  <2>5. Claim(c) \div Totals.cost \in Nat
    BY <2>3, <2>4, DivSplit
  <2>6. Totals.bytes * (Claim(c) \div Totals.cost) \in Nat
    BY <2>4, <2>5
  <2>7. PayeeType'
    BY <1>0, <1>8, <2>3, <2>6 DEF ClaimPayment, PayeeType
  <2>8. SessionType'
    BY <1>0, <1>8, <2>2 DEF ClaimPayment, SessionType
  <2> QED BY <1>8, <1>a, <2>7, <2>8 DEF ClaimPayment, TypeOK
<1>9. CASE DropPayment
  <2>1. SessionType'
    BY <1>0, <1>9 DEF DropPayment, SessionType
  <2> QED BY <1>9, <1>a, <1>c, <2>1 DEF DropPayment, TypeOK
<1>10. CASE RejectPayment
  <2>1. SessionType'
    BY <1>0, <1>10 DEF RejectPayment, SessionType
  <2> QED BY <1>10, <1>a, <1>c, <2>1 DEF RejectPayment, TypeOK
<1>11. CASE Watch
  <2>1. PayeeType'
    BY <1>0, <1>11, LimitAssumption DEF Watch, PayeeType
  <2> QED BY <1>11, <1>a, <1>b, <2>1 DEF Watch, TypeOK
<1>12. CASE Judge
  <2>1. SessionType'
    <3>1. CASE Underpaid(captured)
      BY <1>0, <1>12, <3>1 DEF Judge, SessionType
    <3>2. CASE ~Underpaid(captured)
      BY <1>0, <1>12, <3>2 DEF Judge, SessionType
    <3> QED BY <3>1, <3>2
  <2>2. PayeeType'
    BY <1>0, <1>12 DEF Judge, PayeeType
  <2> QED BY <1>12, <1>a, <2>1, <2>2 DEF Judge, TypeOK
<1>13. CASE Tick
  <2>1. Totals \in [cost : Nat, bytes : Nat]
    BY <1>0, TotalsType DEF PayeeType
  <2>2. PayerType'
    BY <1>0, <1>13, LimitAssumption DEF Tick, PayerType, Older
  <2>3. skipped' \in BOOLEAN
    BY <1>0, <1>13, Zenon DEF Tick, PayerType, PayeeType, Skipping
  <2>4. PayeeType'
    BY <1>0, <1>13, <2>1, <2>3, LimitAssumption DEF Tick, PayeeType, Older, Countdown
  <2> QED BY <1>13, <1>b, <2>2, <2>4 DEF Tick, TypeOK
<1>14. CASE UNCHANGED vars
  BY <1>14, <1>a, <1>b, <1>c DEF vars, TypeOK
<1> QED
  BY <1>1, <1>2, <1>3, <1>4, <1>5, <1>6, <1>7, <1>8, <1>9, <1>10, <1>11,
     <1>12, <1>13, <1>14 DEF Next, Payer, Payee, ReceivePayment

\* The values every variable takes, whatever the nodes, prices and limits.
THEOREM TypeCorrect == Spec => []TypeOK
BY TypeInit, TypeStep, PTL DEF Spec

---------------------------------------------------------------------------
(* What the payer signs.  The increment in the making was computed from     *)
(* counters that only grow, and the payments already sent cost at most what *)
(* the bytes they cover cost.  After a failed write the increment is signed *)
(* and its bytes are not marked paid: only the end of the goroutine keeps   *)
(* them from being charged again.                                           *)

Between == \A d \in Dir : paid[d] <= pick.upto[d] /\ pick.upto[d] <= used[d]
PickInv ==
    pick # NoPick =>
        Between /\ pick.cost = Cost(price, [d \in Dir |-> pick.upto[d] - paid[d]])
PaidInv == \A d \in Dir : paid[d] <= used[d]
SignedInv == (paying => signed <= Cost(price, paid)) /\ signed <= Cost(price, used)
PayerInv == PaidInv /\ PickInv /\ SignedInv

\* A picked increment, once signed, stays within the cost of its bytes.
LEMMA PickBacked ==
    ASSUME TypeOK, PayerInv, paying, pick # NoPick
    PROVE  /\ signed + pick.cost <= Cost(price, pick.upto)
           /\ signed + pick.cost <= Cost(price, used)
           /\ \A d \in Dir : pick.upto[d] <= used[d]
<1>1. /\ price \in [Dir -> Nat] /\ paid \in [Dir -> Nat] /\ used \in [Dir -> Nat]
      /\ pick.upto \in [Dir -> Nat] /\ signed \in Nat
  BY PickType DEF TypeOK, PayerType
<1>2. /\ \A d \in Dir : paid[d] <= pick.upto[d] /\ pick.upto[d] <= used[d]
      /\ pick.cost = Cost(price, [d \in Dir |-> pick.upto[d] - paid[d]])
      /\ signed <= Cost(price, paid)
  BY DEF PayerInv, PickInv, Between, SignedInv
<1>3. /\ Cost(price, paid) \in Nat /\ pick.cost \in Nat
      /\ Cost(price, paid) + pick.cost <= Cost(price, pick.upto)
  BY <1>1, <1>2, CostSplit
<1>4. Cost(price, pick.upto) \in Nat /\ Cost(price, used) \in Nat
      /\ Cost(price, pick.upto) <= Cost(price, used)
  BY <1>1, <1>2, CostSplit, CostType
<1> QED BY <1>1, <1>2, <1>3, <1>4

\* The invariant above holds initially and is kept by every step.
LEMMA PayerInvInit == Init => PayerInv
<1> SUFFICES ASSUME Init PROVE PayerInv
  OBVIOUS
<1>1. price \in [Dir -> Nat] /\ NoBytes \in [Dir -> Nat]
  BY NodesAssumption DEF Init, NoBytes
<1>2. Cost(price, NoBytes) \in Nat
  BY <1>1, CostType
<1>3. PaidInv /\ PickInv
  BY DEF Init, PaidInv, PickInv, NoBytes
<1>4. SignedInv
  BY <1>2 DEF Init, SignedInv
<1> QED BY <1>3, <1>4 DEF PayerInv

LEMMA PayerInvStep ==
    ASSUME TypeOK, PayerInv, [Next]_vars
    PROVE  PayerInv'
<1>0. /\ price \in [Dir -> Nat] /\ paid \in [Dir -> Nat] /\ used \in [Dir -> Nat]
      /\ pick.upto \in [Dir -> Nat] /\ signed \in Nat
  BY PickType DEF TypeOK, PayerType
<1>1. ASSUME NEW d \in Dir, Traffic(d) PROVE PayerInv'
  <2>1. /\ used' = [used EXCEPT ![d] = @ + 1] /\ used' \in [Dir -> Nat]
        /\ UNCHANGED <<paid, price, paying, pick, signed>>
    BY <1>0, <1>1 DEF Traffic
  <2>2. \A e \in Dir : used[e] <= used'[e]
    BY <1>0, <2>1
  <2>3. Cost(price, used) <= Cost(price, used') /\ Cost(price, used) \in Nat
        /\ Cost(price, used') \in Nat
    BY <1>0, <2>1, <2>2, CostSplit, CostType
  <2>4. PaidInv'
    BY <1>0, <2>1, <2>2 DEF PayerInv, PaidInv
  <2>5. PickInv'
    <3> SUFFICES ASSUME pick # NoPick
                 PROVE  /\ \A e \in Dir : paid[e] <= pick.upto[e] /\ pick.upto[e] <= used'[e]
                        /\ pick.cost = Cost(price, [e \in Dir |-> pick.upto[e] - paid[e]])
      BY <2>1 DEF PickInv, Between, Cost, DirCost
    <3>1. /\ \A e \in Dir : paid[e] <= pick.upto[e] /\ pick.upto[e] <= used[e]
          /\ pick.cost = Cost(price, [e \in Dir |-> pick.upto[e] - paid[e]])
      BY DEF PayerInv, PickInv, Between
    <3> QED BY <1>0, <2>1, <2>2, <3>1
  <2>6. SignedInv'
    <3>1. signed <= Cost(price, used') /\ (paying => signed <= Cost(price, paid))
      BY <1>0, <2>3 DEF PayerInv, SignedInv
    <3> QED BY <2>1, <3>1 DEF SignedInv, Cost, DirCost
  <2> QED BY <2>4, <2>5, <2>6 DEF PayerInv
<1>2. ASSUME UNCHANGED payerVars PROVE PayerInv'
  BY <1>2 DEF payerVars, PayerInv, PaidInv, PickInv, Between, SignedInv, Cost, DirCost
<1>3. CASE Pick
  <2>1. /\ pick' = [sid |-> sid, to |-> node, cost |-> Increment, upto |-> used]
        /\ UNCHANGED <<used, paid, price, paying, signed>>
    BY <1>3 DEF Pick
  <2>2. PaidInv' /\ SignedInv'
    BY <2>1 DEF PayerInv, PaidInv, SignedInv, Cost, DirCost
  <2>3. PickInv'
    <3>1. \A d \in Dir : paid[d] <= used[d] /\ used[d] <= used[d]
      BY <1>0 DEF PayerInv, PaidInv
    <3>2. pick'.cost = Cost(price, [d \in Dir |-> used[d] - paid[d]]) /\ pick'.upto = used
      BY <2>1 DEF Increment, Unpaid
    <3> QED BY <2>1, <3>1, <3>2 DEF PickInv, Between, Cost, DirCost
  <2> QED BY <2>2, <2>3 DEF PayerInv
<1>4. CASE Send
  <2>1. /\ pick # NoPick /\ paying /\ signed' = signed + pick.cost /\ paid' = pick.upto
        /\ pick' = NoPick /\ UNCHANGED <<used, price, paying>>
    BY <1>4 DEF Send
  <2>2. PickInv'
    BY <2>1 DEF PickInv, NoPick, NoBytes
  <2>3. PaidInv'
    BY <2>1, PickBacked DEF PaidInv
  <2>4. SignedInv'
    BY <2>1, PickBacked DEF SignedInv, Cost, DirCost
  <2> QED BY <2>2, <2>3, <2>4 DEF PayerInv
<1>5. CASE SendFails
  <2>1. /\ pick # NoPick /\ paying /\ signed' = signed + pick.cost /\ ~paying'
        /\ pick' = NoPick /\ UNCHANGED <<used, paid, price>>
    BY <1>5 DEF SendFails
  <2>2. PickInv' /\ PaidInv'
    BY <2>1 DEF PayerInv, PaidInv, PickInv, NoPick, NoBytes
  <2>3. SignedInv'
    BY <2>1, PickBacked DEF SignedInv, Cost, DirCost
  <2> QED BY <2>2, <2>3 DEF PayerInv
<1>6. CASE SignFails
  <2>1. /\ ~paying' /\ pick' = NoPick /\ UNCHANGED <<used, paid, price, signed>>
    BY <1>6 DEF SignFails
  <2>2. PickInv' /\ PaidInv'
    BY <2>1 DEF PayerInv, PaidInv, PickInv, NoPick, NoBytes
  <2>3. SignedInv'
    BY <2>1 DEF PayerInv, SignedInv, Cost, DirCost
  <2> QED BY <2>2, <2>3 DEF PayerInv
<1>7. CASE Tick
  BY <1>7 DEF Tick, PayerInv, PaidInv, PickInv, Between, SignedInv, Cost, DirCost
<1>8. CASE UNCHANGED vars
  BY <1>2, <1>8 DEF vars
<1> QED
  BY <1>1, <1>2, <1>3, <1>4, <1>5, <1>6, <1>7, <1>8
  DEF Next, Payer, Payee, Drop, Reconnect, ReceivePayment, ClaimPayment, RejectPayment,
      DropPayment, Watch, Judge

\* The payer never signs for more than it used, whatever fails on the way.
THEOREM NeverOverpaysHolds == Spec => []NeverOverpays
<1>1. PayerInv => NeverOverpays
  BY DEF PayerInv, SignedInv, NeverOverpays
<1> QED BY <1>1, TypeCorrect, PayerInvInit, PayerInvStep, PTL DEF Spec

---------------------------------------------------------------------------
(* What the payee claims.  Within a session the recipient, hence the nano   *)
(* pay, does not change once a transaction was sent; its amount only grows; *)
(* so the transactions on the stream are those of one nano pay, each larger *)
(* than the one before it and than what was claimed.                        *)

PickPositive == pick # NoPick => pick.cost > 0
\* An increment is signed for the node of the session it was meant for; if that is over,
\* nothing was sent on the one that replaced it.
PickNode ==
    pick # NoPick =>
        IF pick.sid = sid THEN pick.to = node
        ELSE pick.sid < sid /\ stream = <<>> /\ claimer.id = 0
OneNanoPay ==
    /\ nanoPay.amount <= signed
    /\ stream # <<>> \/ claimer.id # 0 => nanoPay.to = node /\ nanoPay.id # 0
ClaimerInv ==
    /\ claimer.before = 0 /\ lastAmount = claimer.amount
    /\ IF claimer.id = 0 THEN claimer.amount = 0
       ELSE claimer.id = nanoPay.id /\ claimer.amount <= nanoPay.amount
StreamInv ==
    /\ \A i \in 1..Len(stream) :
          /\ stream[i].id = nanoPay.id
          /\ claimer.amount < stream[i].amount /\ stream[i].amount <= nanoPay.amount
    /\ \A i, j \in 1..Len(stream) : i < j => stream[i].amount < stream[j].amount
ClaimInv == PickPositive /\ PickNode /\ OneNanoPay /\ ClaimerInv /\ StreamInv /\ session # "rejected"

\* Taking the head off the stream keeps its order.
LEMMA TailStream ==
    ASSUME TypeOK, ClaimInv, stream # <<>>
    PROVE  /\ Head(stream).id = nanoPay.id /\ Head(stream).amount <= nanoPay.amount
           /\ claimer.amount < Head(stream).amount
           /\ \A i \in 1..Len(Tail(stream)) :
                 /\ Tail(stream)[i].id = nanoPay.id
                 /\ Head(stream).amount < Tail(stream)[i].amount
                 /\ Tail(stream)[i].amount <= nanoPay.amount
           /\ \A i, j \in 1..Len(Tail(stream)) :
                 i < j => Tail(stream)[i].amount < Tail(stream)[j].amount
<1>1. stream \in Seq(Transactions) /\ Len(stream) \in Nat \ {0} /\ Head(stream) = stream[1]
  BY DEF TypeOK, SessionType
<1>2. /\ Len(Tail(stream)) = Len(stream) - 1
      /\ \A i \in 1..Len(Tail(stream)) :
            Tail(stream)[i] = stream[i + 1] /\ i + 1 \in 1..Len(stream)
  BY <1>1
<1> QED BY <1>1, <1>2 DEF ClaimInv, StreamInv

\* A transaction is signed on a new nano pay or, if the session already uses one, on
\* that one; and it is for the node of the session, unless nothing was sent there.
LEMMA SignedNext ==
    ASSUME TypeOK, ClaimInv, pick # NoPick
    PROVE  /\ Signed.id \in Nat \ {0}
           /\ Signed.amount \in Nat /\ Signed.amount <= signed + pick.cost
           /\ stream # <<>> \/ claimer.id # 0 =>
                Signed.to = node /\ Signed.id = nanoPay.id /\ nanoPay.amount < Signed.amount
           /\ pick.sid = sid => Signed.to = node
           /\ Signed.amount > 0
<1>1. /\ pick.cost \in Nat /\ pick.cost > 0 /\ signed \in Nat /\ nanoPay.amount <= signed
      /\ nanoPay.amount \in Nat /\ nanoPay.id \in Nat
  BY PickType DEF TypeOK, PayerType, ClaimInv, PickPositive, OneNanoPay
<1>2. stream # <<>> \/ claimer.id # 0 => nanoPay.to = pick.to /\ pick.to = node /\ nanoPay.id # 0
  BY DEF ClaimInv, OneNanoPay, PickNode
<1>3. pick.sid = sid => pick.to = node
  BY DEF ClaimInv, PickNode
<1>4. CASE nanoPay.id = 0 \/ nanoPay.to # pick.to
  BY <1>1, <1>2, <1>3, <1>4 DEF Signed
<1>5. CASE ~(nanoPay.id = 0 \/ nanoPay.to # pick.to)
  BY <1>1, <1>2, <1>3, <1>5 DEF Signed
<1> QED BY <1>4, <1>5

\* The invariant is kept by every step.
LEMMA ClaimInvStep ==
    ASSUME TypeOK, ClaimInv, [Next]_vars
    PROVE  ClaimInv'
<1>0. /\ signed \in Nat /\ claimer \in [id : Nat, amount : Nat, before : Nat]
      /\ nanoPay \in [id : Nat, to : Nodes, amount : Nat] /\ pick.cost \in Nat
      /\ stream \in Seq(Transactions) /\ sid \in Nat /\ pick.sid \in Nat
  BY PickType DEF TypeOK, PayerType, SessionType, PayeeType
<1>1. ASSUME UNCHANGED <<pick, nanoPay, signed, sid, node, session, stream, claimer, lastAmount>>
      PROVE  ClaimInv'
  BY <1>1 DEF ClaimInv, PickPositive, PickNode, OneNanoPay, ClaimerInv, StreamInv
<1>2. ASSUME UNCHANGED <<pick, nanoPay, signed, sid, node, claimer, lastAmount>>,
             stream' = <<>>, session' # "rejected"
      PROVE  ClaimInv'
  BY <1>2 DEF ClaimInv, PickPositive, PickNode, OneNanoPay, ClaimerInv, StreamInv
<1>3. ASSUME NEW n \in Nodes, Reconnect(n) PROVE ClaimInv'
  <2>1. /\ sid' = sid + 1 /\ stream' = <<>> /\ claimer' = NewClaimer /\ lastAmount' = 0
        /\ session' = "open" /\ UNCHANGED <<pick, nanoPay, signed>>
    BY <1>3 DEF Reconnect, payerVars
  <2>2. PickNode'
    BY <1>0, <2>1 DEF PickNode, ClaimInv, NewClaimer
  <2> QED
    BY <2>1, <2>2 DEF NewClaimer, ClaimInv, PickPositive, OneNanoPay, ClaimerInv, StreamInv
<1>4. CASE Pick
  <2>1. Increment > 0 /\ pick'.cost = Increment /\ pick'.sid = sid /\ pick'.to = node
        /\ UNCHANGED <<nanoPay, signed, sid, node, session, stream, claimer, lastAmount>>
    BY <1>4 DEF Pick, Payable, sessionVars, payeeVars
  <2> QED BY <2>1 DEF ClaimInv, PickPositive, PickNode, OneNanoPay, ClaimerInv, StreamInv
<1>5. CASE Send
  <2> DEFINE tx == [id |-> Signed.id, amount |-> Signed.amount]
  <2>1. /\ pick # NoPick /\ pick' = NoPick /\ nanoPay' = Signed /\ signed' = signed + pick.cost
        /\ pick.sid = sid
        /\ stream' = Append(stream, tx) /\ UNCHANGED <<node, session, claimer, lastAmount>>
    BY <1>5 DEF Send, PickAlive, payeeVars
  <2>2. /\ stream' \in Seq(Transactions) /\ Len(stream') = Len(stream) + 1
        /\ stream'[Len(stream) + 1] = tx /\ stream' # <<>>
        /\ \A i \in 1..Len(stream) : stream'[i] = stream[i]
    <3>1. tx \in Transactions
      BY <2>1, SignedNext DEF Transactions
    <3> QED BY <1>0, <2>1, <3>1
  <2>3. \A i \in 1..Len(stream) :
          /\ stream'[i].id = Signed.id /\ claimer.amount < stream'[i].amount
          /\ stream'[i].amount < Signed.amount
    <3> SUFFICES ASSUME NEW i \in 1..Len(stream)
                 PROVE  /\ stream[i].id = Signed.id /\ claimer.amount < stream[i].amount
                        /\ stream[i].amount < Signed.amount
      BY <2>2
    <3>1. stream # <<>> /\ stream[i] \in Transactions
      BY <1>0
    <3>2. /\ stream[i].id = nanoPay.id /\ claimer.amount < stream[i].amount
          /\ stream[i].amount <= nanoPay.amount
      BY DEF ClaimInv, StreamInv
    <3>3. stream[i].amount \in Nat /\ nanoPay.amount \in Nat
      BY <1>0, <3>1 DEF Transactions
    <3>4. /\ Signed.id = nanoPay.id /\ nanoPay.amount < Signed.amount
          /\ Signed.amount \in Nat
      BY <2>1, <3>1, SignedNext
    <3> QED BY <3>2, <3>3, <3>4
  <2>4. claimer.amount < Signed.amount
    <3>1. CASE claimer.id = 0
      BY <2>1, <3>1, SignedNext DEF ClaimInv, ClaimerInv
    <3>2. CASE claimer.id # 0
      BY <1>0, <2>1, <3>2, SignedNext DEF ClaimInv, ClaimerInv
    <3> QED BY <3>1, <3>2
  <2>5. PickPositive' /\ PickNode' /\ OneNanoPay'
    BY <2>1, <2>2, SignedNext DEF PickPositive, PickNode, OneNanoPay
  <2>6. ClaimerInv'
    BY <1>0, <2>1, <2>4, SignedNext DEF ClaimInv, ClaimerInv
  <2>7. StreamInv'
    <3>1. \A i \in 1..Len(stream') :
            /\ stream'[i].id = Signed.id /\ claimer.amount < stream'[i].amount
            /\ stream'[i].amount <= Signed.amount
      <4> TAKE i \in 1..Len(stream')
      <4>1. CASE i = Len(stream) + 1
        BY <2>1, <2>2, <2>4, <4>1, SignedNext
      <4>2. CASE i # Len(stream) + 1
        <5>1. i \in 1..Len(stream) /\ stream[i] \in Transactions
          BY <1>0, <2>2, <4>2
        <5> QED BY <2>1, <2>2, <2>3, <5>1, SignedNext DEF Transactions
      <4> QED BY <4>1, <4>2
    <3>2. \A i, j \in 1..Len(stream') : i < j => stream'[i].amount < stream'[j].amount
      <4> SUFFICES ASSUME NEW i \in 1..Len(stream'), NEW j \in 1..Len(stream'), i < j
                   PROVE  stream'[i].amount < stream'[j].amount
        OBVIOUS
      <4>1. i \in 1..Len(stream)
        BY <1>0, <2>2
      <4>2. CASE j = Len(stream) + 1
        BY <2>2, <2>3, <4>1, <4>2
      <4>3. CASE j # Len(stream) + 1
        <5>0. Len(stream) \in Nat /\ j \in 1..(Len(stream) + 1)
          BY <1>0, <2>2
        <5>1. j \in 1..Len(stream)
          BY <4>3, <5>0
        <5> QED BY <2>2, <4>1, <5>1 DEF ClaimInv, StreamInv
      <4> QED BY <4>2, <4>3
    <3> QED BY <2>1, <3>1, <3>2 DEF StreamInv
  <2> QED BY <2>1, <2>5, <2>6, <2>7 DEF ClaimInv
<1>6. CASE SendFails
  <2>1. /\ pick # NoPick /\ pick' = NoPick /\ nanoPay' = Signed /\ signed' = signed + pick.cost
        /\ UNCHANGED <<node, session, stream, claimer, lastAmount>>
    BY <1>6 DEF SendFails, sessionVars, payeeVars
  <2>2. PickPositive' /\ PickNode' /\ OneNanoPay' /\ ClaimerInv'
    BY <1>0, <2>1, SignedNext DEF ClaimInv, PickPositive, PickNode, OneNanoPay, ClaimerInv
  <2>3. StreamInv'
    <3>1. \A i \in 1..Len(stream) :
            /\ stream[i].id = Signed.id /\ claimer.amount < stream[i].amount
            /\ stream[i].amount <= Signed.amount
      <4> TAKE i \in 1..Len(stream)
      <4>1. stream # <<>> /\ stream[i] \in Transactions
        BY <1>0
      <4>2. /\ stream[i].id = nanoPay.id /\ claimer.amount < stream[i].amount
            /\ stream[i].amount <= nanoPay.amount
        BY DEF ClaimInv, StreamInv
      <4>3. Signed.id = nanoPay.id /\ nanoPay.amount < Signed.amount /\ Signed.amount \in Nat
        BY <2>1, <4>1, SignedNext
      <4> QED BY <1>0, <4>1, <4>2, <4>3 DEF Transactions
    <3> QED BY <2>1, <3>1 DEF ClaimInv, StreamInv
  <2> QED BY <2>1, <2>2, <2>3 DEF ClaimInv
<1>7. CASE SignFails
  BY <1>7 DEF SignFails, sessionVars, payeeVars, ClaimInv, PickPositive, PickNode, OneNanoPay,
              ClaimerInv, StreamInv
<1>8. CASE ClaimPayment
  <2> DEFINE tx == Head(stream)
             c == Claimed(claimer, tx)
  <2>1. /\ stream # <<>> /\ stream' = Tail(stream) /\ claimer' = c /\ lastAmount' = Claim(c)
        /\ UNCHANGED <<pick, nanoPay, signed, sid, node, session>>
    BY <1>8 DEF ClaimPayment, payerVars
  <2>2. /\ tx.id = nanoPay.id /\ tx.amount <= nanoPay.amount
        /\ nanoPay.to = node /\ nanoPay.id # 0 /\ tx \in Transactions
    BY <1>0, <2>1, TailStream DEF ClaimInv, OneNanoPay
  <2>3. c.id = nanoPay.id /\ c.amount = tx.amount /\ c.before = 0
    BY <1>0, <2>2 DEF Claimed, ClaimInv, ClaimerInv, Transactions
  <2>4. Claim(c) = c.amount
    BY <2>2, <2>3 DEF Claim, Transactions
  <2>5. PickPositive' /\ PickNode' /\ OneNanoPay' /\ ClaimerInv'
    BY <2>1, <2>2, <2>3, <2>4 DEF ClaimInv, PickPositive, PickNode, OneNanoPay, ClaimerInv
  <2>6. StreamInv'
    BY <2>1, <2>3, TailStream DEF StreamInv
  <2> QED BY <2>1, <2>5, <2>6 DEF ClaimInv
<1>9. CASE DropPayment
  <2>1. /\ stream # <<>> /\ stream' = Tail(stream)
        /\ UNCHANGED <<pick, nanoPay, signed, sid, node, session, claimer, lastAmount>>
    BY <1>9 DEF DropPayment, payerVars, payeeVars
  <2>2. PickPositive' /\ PickNode' /\ OneNanoPay' /\ ClaimerInv'
    BY <2>1 DEF ClaimInv, PickPositive, PickNode, OneNanoPay, ClaimerInv
  <2>3. StreamInv'
    <3>1. \A i \in 1..Len(Tail(stream)) : claimer.amount < Tail(stream)[i].amount
      <4> TAKE i \in 1..Len(Tail(stream))
      <4>1. Tail(stream)[i] \in Transactions /\ Head(stream) \in Transactions
        BY <1>0, <2>1
      <4>2. /\ claimer.amount < Head(stream).amount
            /\ Head(stream).amount < Tail(stream)[i].amount
        BY <2>1, TailStream
      <4> QED BY <1>0, <4>1, <4>2 DEF Transactions
    <3> QED BY <2>1, <3>1, TailStream DEF StreamInv
  <2> QED BY <2>1, <2>2, <2>3 DEF ClaimInv
<1>10. ~RejectPayment
  <2> SUFFICES ASSUME RejectPayment PROVE FALSE
    OBVIOUS
  <2>1. stream # <<>> /\ ~Accepts(claimer, Head(stream))
    BY DEF RejectPayment
  <2> QED BY <2>1, TailStream DEF Accepts
<1>11. CASE Drop
  BY <1>2, <1>11 DEF Drop, payerVars, payeeVars
<1>12. CASE Judge
  <2>1. UNCHANGED <<pick, nanoPay, signed, sid, node, claimer, lastAmount>>
    BY <1>12 DEF Judge, payerVars
  <2>2. CASE Underpaid(captured)
    BY <1>2, <1>12, <2>1, <2>2 DEF Judge
  <2>3. CASE ~Underpaid(captured)
    BY <1>1, <1>12, <2>1, <2>3 DEF Judge
  <2> QED BY <2>2, <2>3
<1>13. CASE UNCHANGED vars
  BY <1>1, <1>13 DEF vars, payerVars, sessionVars, payeeVars
<1>14. CASE Watch
  BY <1>1, <1>14 DEF Watch, payerVars, sessionVars
<1>15. CASE Tick
  BY <1>1, <1>15 DEF Tick, sessionVars
<1>16. ASSUME NEW d \in Dir, Traffic(d) PROVE ClaimInv'
  BY <1>1, <1>16 DEF Traffic, sessionVars
<1> QED
  BY <1>3, <1>4, <1>5, <1>6, <1>7, <1>8, <1>9, <1>10, <1>11, <1>12, <1>13, <1>14,
     <1>15, <1>16 DEF Next, Payer, Payee, ReceivePayment

LEMMA ClaimInvInit == Init => ClaimInv
BY DEF Init, NewClaimer, ClaimInv, PickPositive, PickNode, OneNanoPay, ClaimerInv, StreamInv

\* No transaction of an honest payer is refused.
THEOREM NeverRejectedHolds == Spec => []NeverRejected
<1>1. ClaimInv => NeverRejected
  BY DEF ClaimInv, NeverRejected
<1> QED BY <1>1, TypeCorrect, ClaimInvInit, ClaimInvStep, PTL DEF Spec

\* The payee never credits a session with more than was ever signed, though the
\* amounts are cumulative over sessions and nano pays.
CreditBacked == lastAmount <= signed

THEOREM CreditBackedHolds == Spec => []CreditBacked
<1>1. TypeOK /\ ClaimInv => CreditBacked
  <2> SUFFICES ASSUME TypeOK, ClaimInv PROVE CreditBacked
    OBVIOUS
  <2>1. /\ claimer.amount \in Nat /\ nanoPay.amount \in Nat /\ signed \in Nat
        /\ lastAmount = claimer.amount /\ nanoPay.amount <= signed
    BY DEF TypeOK, PayerType, PayeeType, ClaimInv, OneNanoPay, ClaimerInv
  <2>2. claimer.amount = 0 \/ claimer.amount <= nanoPay.amount
    BY DEF ClaimInv, ClaimerInv
  <2> QED BY <2>1, <2>2 DEF CreditBacked
<1> QED BY <1>1, TypeCorrect, ClaimInvInit, ClaimInvStep, PTL DEF Spec

---------------------------------------------------------------------------
(* The ledger.  A step that signs is a Sign if the nano pay is made out to  *)
(* the node that was picked and a SignNew if not; ClaimPayment is a Take.   *)

\* Before the first nano pay there is nothing on it.
NanoPayInv == nanoPay.id = 0 => nanoPay.amount = 0

LEMMA NanoPayInvInit == Init => NanoPayInv
BY DEF Init, NanoPayInv

LEMMA NanoPayInvStep ==
    ASSUME TypeOK, NanoPayInv, [Next]_vars
    PROVE  NanoPayInv'
<1>1. CASE nanoPay' = Signed
  <2>1. nanoPay.id \in Nat
    BY DEF TypeOK, PayerType
  <2>2. Signed.id # 0
    BY <2>1 DEF Signed
  <2> QED BY <1>1, <2>2 DEF NanoPayInv
<1>2. CASE UNCHANGED nanoPay
  BY <1>2 DEF NanoPayInv
<1>3. nanoPay' = Signed \/ UNCHANGED nanoPay
  BY DEF Next, Payer, Payee, Traffic, Drop, Reconnect, Pick, Send, SendFails, SignFails,
     ReceivePayment, ClaimPayment, RejectPayment, DropPayment, Watch, Judge, Tick, vars, payerVars
<1> QED BY <1>1, <1>2, <1>3

\* What signing does to the ledger.
LEMMA LedgerSign ==
    ASSUME TypeOK, PayerInv, ClaimInv, NanoPayInv, paying, pick # NoPick,
           nanoPay' = Signed, signed' = signed + pick.cost,
           UNCHANGED <<used, price, node, lastAmount>>
    PROVE  Ledger!Next
<1>1. /\ nanoPay \in [id : Nat, to : Nodes, amount : Nat] /\ signed \in Nat
      /\ pick.cost \in Nat /\ pick.cost > 0 /\ nanoPay.amount <= signed
      /\ Cost(price, used) \in Nat /\ pick.to \in Nodes
  BY CostType, PickType DEF TypeOK, PayerType, ClaimInv, PickPositive, OneNanoPay
<1>2. signed + pick.cost <= Cost(price, used)
  BY PickBacked
<1>3. Ledger!Owed = Cost(price, used) - signed
  BY <1>1 DEF Ledger!Owed
<1>4. pick.cost \in 1 .. Ledger!Owed
  BY <1>1, <1>2, <1>3
<1>5. Cost(price, used)' = Cost(price, used)
  BY DEF Cost, DirCost
<1>6. CASE nanoPay.to = pick.to
  <2>1. Signed.to = pick.to /\ Signed.amount = nanoPay.amount + pick.cost
    BY <1>1, <1>6 DEF Signed, NanoPayInv
  <2>2. signed' - nanoPay'.amount = signed - nanoPay.amount
    BY <1>1, <2>1
  <2>3. Ledger!Sign(pick.to, pick.cost)
    BY <1>5, <1>6, <2>1, <2>2 DEF Ledger!Sign
  <2> QED BY <1>1, <1>4, <2>3 DEF Ledger!Next
<1>7. CASE nanoPay.to # pick.to
  <2>1. Signed.to = pick.to /\ Signed.amount = pick.cost
    BY <1>7 DEF Signed
  <2>2. signed' - nanoPay'.amount = (signed - nanoPay.amount) + nanoPay.amount
    BY <1>1, <2>1
  <2>3. Ledger!SignNew(pick.to, pick.cost)
    BY <1>5, <1>7, <2>1, <2>2 DEF Ledger!SignNew
  <2> QED BY <1>1, <1>4, <2>3 DEF Ledger!Next
<1> QED BY <1>6, <1>7

LedgerVars == <<Cost(price, used), node, [to |-> nanoPay.to, amount |-> nanoPay.amount],
                signed - nanoPay.amount, lastAmount>>

\* Every step is a step of the ledger or none.
LEMMA LedgerStep ==
    ASSUME TypeOK, PayerInv, ClaimInv, NanoPayInv, [Next]_vars
    PROVE  Ledger!Next \/ UNCHANGED LedgerVars
<1>0. /\ price \in [Dir -> Nat] /\ used \in [Dir -> Nat]
      /\ nanoPay \in [id : Nat, to : Nodes, amount : Nat] /\ stream \in Seq(Transactions)
      /\ claimer \in [id : Nat, amount : Nat, before : Nat]
  BY DEF TypeOK, PayerType, SessionType, PayeeType
<1>1. ASSUME UNCHANGED <<used, price, node, nanoPay, signed, lastAmount>>
      PROVE  UNCHANGED LedgerVars
  BY <1>1 DEF LedgerVars, Cost, DirCost
<1>2. ASSUME NEW d \in Dir, Traffic(d) PROVE Ledger!Next
  <2>1. /\ used' = [used EXCEPT ![d] = @ + 1]
        /\ UNCHANGED <<price, node, nanoPay, signed, lastAmount>>
    BY <1>2 DEF Traffic, sessionVars
  <2>2. used' \in [Dir -> Nat] /\ \A e \in Dir : used[e] <= used'[e]
    BY <1>0, <2>1
  <2>3. Cost(price, used) <= Cost(price, used') /\ Cost(price, used') \in Nat
        /\ Cost(price, used) \in Nat
    BY <1>0, <2>2, CostSplit, CostType
  <2>4. Cost(price, used)' = Cost(price, used')
    BY <2>1 DEF Cost, DirCost
  <2>5. Ledger!Use
    BY <2>1, <2>3, <2>4 DEF Ledger!Use
  <2> QED BY <2>5 DEF Ledger!Next
<1>3. ASSUME NEW n \in Nodes, Reconnect(n) PROVE Ledger!Next
  <2>1. node' = n /\ lastAmount' = 0 /\ UNCHANGED <<used, price, nanoPay, signed>>
    BY <1>3 DEF Reconnect, payerVars
  <2>2. Cost(price, used)' = Cost(price, used)
    BY <2>1 DEF Cost, DirCost
  <2>3. Ledger!Serve(n)
    BY <2>1, <2>2 DEF Ledger!Serve
  <2> QED BY <2>3 DEF Ledger!Next
<1>4. CASE Send
  BY <1>4, LedgerSign DEF Send, payeeVars
<1>5. CASE SendFails
  BY <1>5, LedgerSign DEF SendFails, sessionVars, payeeVars
<1>6. CASE ClaimPayment
  <2> DEFINE tx == Head(stream)
             c == Claimed(claimer, tx)
  <2>1. /\ stream # <<>> /\ lastAmount' = Claim(c)
        /\ UNCHANGED <<used, price, node, nanoPay, signed>>
    BY <1>6 DEF ClaimPayment, payerVars
  <2>2. /\ tx.id = nanoPay.id /\ tx.amount <= nanoPay.amount /\ claimer.amount < tx.amount
        /\ nanoPay.to = node /\ tx \in Transactions
    BY <1>0, <2>1, TailStream DEF ClaimInv, OneNanoPay
  <2>3. claimer.before = 0 /\ lastAmount = claimer.amount
        /\ (claimer.id # tx.id => claimer.amount = 0)
    BY <2>2 DEF ClaimInv, ClaimerInv
  <2>4. c.amount = tx.amount /\ c.before = 0
    BY <1>0, <2>3 DEF Claimed
  <2>5. lastAmount' = tx.amount
    BY <2>1, <2>2, <2>4 DEF Claim, Transactions
  <2>6. lastAmount' \in lastAmount + 1 .. nanoPay.amount
    BY <1>0, <2>2, <2>3, <2>5 DEF Transactions
  <2>7. Cost(price, used)' = Cost(price, used)
    BY <2>1 DEF Cost, DirCost
  <2>8. Ledger!Take
    BY <2>1, <2>2, <2>6, <2>7 DEF Ledger!Take
  <2> QED BY <2>8 DEF Ledger!Next
<1> QED
  BY <1>1, <1>2, <1>3, <1>4, <1>5, <1>6
  DEF Next, Payer, Payee, Drop, Pick, SignFails, ReceivePayment, RejectPayment, DropPayment,
      Watch, Judge, Tick, vars, payerVars, sessionVars, payeeVars

\* Payer and payee implement the ledger, for any nodes, prices, units and limits: nothing is
\* signed that is not owed, no session credits what is not on a cheque to its node, nor any
\* part of it twice.  (A later session with the same node may: that is the ledger's Serve.)
THEOREM ImplementsLedgerHolds == Spec => ImplementsLedger
<1>1. Init => Ledger!Init
  <2> SUFFICES ASSUME Init PROVE Ledger!Init
    OBVIOUS
  <2>1. Cost(price, used) = 0
    BY NodesAssumption, CostZero DEF Init
  <2> QED BY <2>1 DEF Init, Ledger!Init
<1>2. TypeOK /\ PayerInv /\ ClaimInv /\ NanoPayInv /\ [Next]_vars
        => [Ledger!Next]_LedgerVars
  BY LedgerStep
<1> QED
  BY <1>1, <1>2, TypeCorrect, PayerInvInit, PayerInvStep, ClaimInvInit, ClaimInvStep,
     NanoPayInvInit, NanoPayInvStep, PTL DEF Spec, ImplementsLedger, Ledger!Spec, LedgerVars

---------------------------------------------------------------------------
(* Rounding.  A cost is rounded down once per direction, so two parts cost *)
(* together at most two units less than the whole, and not less at all if  *)
(* the prices are multiples of the unit.                                   *)

LEMMA DivGap ==
    ASSUME NEW x \in Nat, NEW y \in Nat, NEW t \in Nat \ {0}
    PROVE  (x + y) \div t <= (x \div t) + (y \div t) + 1
  OBVIOUS

LEMMA DivExact ==
    ASSUME NEW p \in Nat, NEW x \in Nat, NEW t \in Nat \ {0}, p % t = 0
    PROVE  (p * x) \div t = (p \div t) * x
<1> DEFINE q == p \div t
<1>1. q \in Nat /\ p = t * q
  OBVIOUS
<1>2. p * x = t * (q * x) /\ q * x \in Nat
  BY <1>1
<1> HIDE DEF q
<1>3. (t * (q * x)) \div t = q * x
  BY <1>2
<1>4. (p * x) \div t = q * x
  BY <1>2, <1>3
<1> QED BY <1>4 DEF q

\* The gap of one direction, and of both.
LEMMA DirCostGap ==
    ASSUME NEW p \in Nat, NEW x \in Nat, NEW y \in Nat
    PROVE  /\ DirCost(p, x + y) <= DirCost(p, x) + DirCost(p, y) + 1
           /\ p % TrafficUnit = 0 => DirCost(p, x + y) = DirCost(p, x) + DirCost(p, y)
<1>1. p * x \in Nat /\ p * y \in Nat /\ p * (x + y) = p * x + p * y
  OBVIOUS
<1>2. DirCost(p, x + y) <= DirCost(p, x) + DirCost(p, y) + 1
  BY <1>1, DivGap, UnitAssumption DEF DirCost
<1>3. ASSUME p % TrafficUnit = 0
      PROVE  DirCost(p, x + y) = DirCost(p, x) + DirCost(p, y)
  <2> DEFINE q == p \div TrafficUnit
  <2>1. q \in Nat /\ x + y \in Nat
    BY DivSplit, UnitAssumption
  <2>2. DirCost(p, x) = q * x /\ DirCost(p, y) = q * y /\ DirCost(p, x + y) = q * (x + y)
    BY <1>3, <2>1, DivExact, UnitAssumption DEF DirCost
  <2> HIDE DEF q
  <2>3. q * (x + y) = q * x + q * y
    BY <2>1
  <2> QED BY <2>2, <2>3
<1> QED BY <1>2, <1>3

LEMMA CostGap ==
    ASSUME price \in [Dir -> Nat], NEW x \in [Dir -> Nat], NEW y \in [Dir -> Nat],
           \A d \in Dir : x[d] <= y[d]
    PROVE  Cost(price, y) <= Cost(price, x) + Cost(price, [d \in Dir |-> y[d] - x[d]]) + Rounding
<1> DEFINE z == [d \in Dir |-> y[d] - x[d]]
<1>1. \A d \in Dir : price[d] \in Nat /\ x[d] \in Nat /\ z[d] \in Nat /\ y[d] = x[d] + z[d]
  OBVIOUS
<1>2. \A d \in Dir : /\ DirCost(price[d], x[d]) \in Nat /\ DirCost(price[d], z[d]) \in Nat
                     /\ DirCost(price[d], y[d]) \in Nat
  BY <1>1, DirCostSplit
<1>3. \A d \in Dir :
        DirCost(price[d], y[d]) <= DirCost(price[d], x[d]) + DirCost(price[d], z[d]) + 1
  BY <1>1, DirCostGap
<1>4. CASE \A d \in Dir : price[d] % TrafficUnit = 0
  <2>1. \A d \in Dir : DirCost(price[d], y[d]) = DirCost(price[d], x[d]) + DirCost(price[d], z[d])
    BY <1>1, <1>4, DirCostGap
  <2>2. Rounding = 0
    BY <1>4 DEF Rounding
  <2> QED BY <1>2, <2>1, <2>2 DEF Cost, Dir
<1>5. CASE ~(\A d \in Dir : price[d] % TrafficUnit = 0)
  <2>1. Rounding = 2
    BY <1>5 DEF Rounding
  <2> QED BY <1>2, <1>3, <2>1 DEF Cost, Dir
<1> QED BY <1>4, <1>5

\* No step of startPayment moves what is covered and what is signed further apart than two
\* roundings down: a payer that pays each increment is never far behind its debts.
THEOREM RoundingBounded == Spec => [][RoundedOff' <= RoundedOff + Rounding]_vars
<1>1. TypeOK /\ PayerInv /\ [Next]_vars => [RoundedOff' <= RoundedOff + Rounding]_vars
  <2> SUFFICES ASSUME TypeOK, PayerInv, Next PROVE RoundedOff' <= RoundedOff + Rounding
    OBVIOUS
  <2>0. /\ price \in [Dir -> Nat] /\ paid \in [Dir -> Nat] /\ used \in [Dir -> Nat]
        /\ pick.upto \in [Dir -> Nat] /\ pick.cost \in Nat /\ signed \in Nat
        /\ Cost(price, paid) \in Nat /\ Rounding \in {0, 2}
    BY CostType, PickType DEF TypeOK, PayerType, Rounding
  <2>1. ASSUME UNCHANGED <<price, paid, signed>> PROVE RoundedOff' <= RoundedOff + Rounding
    BY <2>0, <2>1 DEF RoundedOff, Cost, DirCost
  <2>2. CASE Send
    <3>1. /\ \A d \in Dir : paid[d] <= pick.upto[d]
          /\ pick.cost = Cost(price, [d \in Dir |-> pick.upto[d] - paid[d]])
      BY <2>2 DEF Send, PayerInv, PickInv, Between
    <3>2. Cost(price, pick.upto) <= Cost(price, paid) + pick.cost + Rounding
          /\ Cost(price, pick.upto) \in Nat
      BY <2>0, <3>1, CostGap, CostType
    <3>3. RoundedOff' = Cost(price, pick.upto) - (signed + pick.cost)
      BY <2>2 DEF Send, RoundedOff, Cost, DirCost
    <3> QED BY <2>0, <3>2, <3>3 DEF RoundedOff
  <2>3. CASE SendFails
    <3>1. RoundedOff' = Cost(price, paid) - (signed + pick.cost)
      BY <2>3 DEF SendFails, RoundedOff, Cost, DirCost
    <3> QED BY <2>0, <3>1 DEF RoundedOff
  <2> QED
    BY <2>1, <2>2, <2>3 DEF Next, Payer, Payee, Traffic, Drop, Reconnect, payerVars, Pick,
       SignFails, ReceivePayment, ClaimPayment, RejectPayment, DropPayment, Watch, Judge, Tick
<1> QED BY <1>1, TypeCorrect, PayerInvInit, PayerInvStep, PTL DEF Spec

---------------------------------------------------------------------------
(* A payer that runs on time.  Between two ticks what is due is sent and    *)
(* claimed; so at a tick both ends have waited equally long.  While the     *)
(* payee waits for it to sleep out, either the payer has paid for all the   *)
(* payee saw, or has to by now, or it is the payee's count of unpaid bytes  *)
(* that woke it.                                                            *)

\* One session, whose payer signs for that node only.
CoreInv ==
    /\ price = Price[node] /\ used = served /\ paying /\ session \in {"open", "unpaid"}
    /\ nanoPay.to = node /\ nanoPay.amount = signed /\ (nanoPay.id = 0 => signed = 0)

\* What the payee sees is some ticks old.
ViewInv ==
    visible.cost <= fresh.cost /\ fresh.cost <= Cost(price, used) /\ captured.cost <= visible.cost

\* Payments are on their way until the next tick only, the last one being for all that is
\* signed.  Each is worth what the payee can see, but for rounding.
StreamPrompt ==
    IF stream = <<>> THEN lastAmount = signed /\ sinceClaim = sincePay
    ELSE /\ stream[Len(stream)].amount = signed /\ sincePay = 0
         /\ lastAmount <= signed
         /\ \A i \in 1..Len(stream) : fresh.cost <= stream[i].amount + RoundedOff
PickPrompt == pick # NoPick => pick.sid = sid /\ fresh.cost <= Cost(price, pick.upto)

\* While the payee waits: why it did, and, after the first tick, what it will find.
Volume == captured.bytes - bytesPaid > Threshold
Excused == skipped \/ Volume \/ captured.cost - lastAmount <= RoundedOff + Rounding
SleepPrompt ==
    asleep =>
        /\ left <= NanoPayDelay
        /\ sincePay > UpdateInterval \/ Volume \/ captured.cost <= Cost(price, paid)
        /\ left < NanoPayDelay => Excused

OpenPrompt == session = "open" => StreamPrompt /\ PickPrompt /\ SleepPrompt
CutoffInv == session = "unpaid" => Excused
PromptInv == CoreInv /\ ViewInv /\ OpenPrompt /\ CutoffInv
AllInv == TypeOK /\ PayerInv /\ ClaimInv /\ PromptInv

LEMMA PromptIsNext == PromptNext => Next
BY DEF PromptNext, Next, Payer, Payee, ReceivePayment, ClaimPayment

LEMMA PromptTypes ==
    ASSUME TypeOK, PayerInv
    PROVE  /\ price \in [Dir -> Nat] /\ paid \in [Dir -> Nat] /\ used \in [Dir -> Nat]
           /\ served \in [Dir -> Nat] /\ pick.upto \in [Dir -> Nat] /\ pick.cost \in Nat
           /\ signed \in Nat /\ lastAmount \in Nat /\ lastCost \in Nat
           /\ sincePay \in Nat /\ sinceClaim \in Nat /\ left \in Nat
           /\ fresh.cost \in Nat /\ visible.cost \in Nat /\ captured.cost \in Nat
           /\ Cost(price, paid) \in Nat /\ Cost(price, used) \in Nat
           /\ Cost(price, pick.upto) \in Nat /\ Rounding \in {0, 2}
           /\ RoundedOff = Cost(price, paid) - signed /\ RoundedOff \in Int
           /\ \A d \in Dir : paid[d] <= used[d]
<1>1. /\ price \in [Dir -> Nat] /\ paid \in [Dir -> Nat] /\ used \in [Dir -> Nat]
      /\ pick.upto \in [Dir -> Nat] /\ pick.cost \in Nat
      /\ signed \in Nat /\ lastCost \in Nat /\ sincePay \in Nat
  BY PickType DEF TypeOK, PayerType
<1>2. /\ served \in [Dir -> Nat] /\ lastAmount \in Nat /\ sinceClaim \in Nat /\ left \in Nat
      /\ fresh.cost \in Nat /\ visible.cost \in Nat /\ captured.cost \in Nat
  BY DEF TypeOK, PayeeType
<1>3. /\ Cost(price, paid) \in Nat /\ Cost(price, used) \in Nat /\ Cost(price, pick.upto) \in Nat
  BY <1>1, CostType
<1>4. RoundedOff = Cost(price, paid) - signed /\ RoundedOff \in Int
  BY <1>1, <1>3 DEF RoundedOff
<1> QED BY <1>1, <1>2, <1>3, <1>4 DEF Rounding, PayerInv, PaidInv

LEMMA PromptInit == Init => PromptInv
<1> SUFFICES ASSUME Init PROVE PromptInv
  OBVIOUS
<1>1. price \in [Dir -> Nat] /\ NoBytes \in [Dir -> Nat]
  BY NodesAssumption DEF Init, NoBytes
<1>2. Cost(price, NoBytes) = 0
  BY <1>1, CostZero
<1>3. CoreInv /\ ViewInv
  BY <1>2 DEF Init, CoreInv, ViewInv, NoTotals
<1> QED
  BY <1>3 DEF Init, PromptInv, OpenPrompt, CutoffInv, StreamPrompt, PickPrompt, SleepPrompt

---------------------------------------------------------------------------
\* Traffic only adds to what was used.
LEMMA PromptTraffic ==
    ASSUME AllInv, NEW d \in Dir, Traffic(d)
    PROVE  PromptInv'
<1> USE DEF AllInv, PromptInv
<1>1. /\ used' = [used EXCEPT ![d] = @ + 1] /\ served' = [served EXCEPT ![d] = @ + 1]
      /\ session = "open"
      /\ UNCHANGED <<paid, price, lastCost, sincePay, paying, pick, nanoPay, signed, sid, node,
                     session, stream, fresh, visible, claimer, lastAmount, bytesPaid,
                     sinceClaim, asleep, left, captured, skipped>>
  BY DEF Traffic, sessionVars
<1>2. used' \in [Dir -> Nat] /\ \A e \in Dir : used[e] <= used'[e]
  BY <1>1, PromptTypes
<1>3. Cost(price, used) <= Cost(price, used') /\ Cost(price, used') \in Nat
  BY <1>2, PromptTypes, CostSplit, CostType
<1>4. CoreInv'
  BY <1>1 DEF CoreInv
<1>5. ViewInv'
  <2>1. fresh.cost <= Cost(price, used')
    BY <1>3, PromptTypes DEF ViewInv
  <2>2. Cost(price, used)' = Cost(price, used')
    BY <1>1 DEF Cost, DirCost
  <2> QED BY <1>1, <2>1, <2>2 DEF ViewInv
<1>6. OpenPrompt' /\ CutoffInv'
  BY <1>1 DEF OpenPrompt, CutoffInv, StreamPrompt, PickPrompt, SleepPrompt, Excused, Volume,
     Rounding, RoundedOff, Cost, DirCost
<1> QED BY <1>4, <1>5, <1>6

\* What is picked is for all that was used.
LEMMA PromptPick ==
    ASSUME AllInv, session = "open", Pick
    PROVE  PromptInv'
<1> USE DEF AllInv, PromptInv
<1>1. /\ pick' = [sid |-> sid, to |-> node, cost |-> Increment, upto |-> used]
      /\ UNCHANGED <<used, paid, price, lastCost, sincePay, paying, nanoPay, signed, sid, node,
                     session, stream, served, fresh, visible, claimer, lastAmount, bytesPaid,
                     sinceClaim, asleep, left, captured, skipped>>
  BY DEF Pick, sessionVars, payeeVars
<1>2. fresh.cost <= Cost(price, pick'.upto)
  BY <1>1 DEF ViewInv
<1>3. PickPrompt'
  BY <1>1, <1>2 DEF PickPrompt, Cost, DirCost
<1>4. CoreInv' /\ ViewInv' /\ CutoffInv' /\ StreamPrompt' /\ SleepPrompt'
  BY <1>1 DEF CoreInv, ViewInv, CutoffInv, OpenPrompt, StreamPrompt, SleepPrompt, Excused,
     Volume, Rounding, RoundedOff, Cost, DirCost
<1> QED BY <1>3, <1>4 DEF OpenPrompt

\* What is sent covers all the payee may judge, but for rounding.
LEMMA PromptSend ==
    ASSUME AllInv, Send
    PROVE  PromptInv'
<1> USE DEF AllInv, PromptInv
<1>0. /\ signed \in Nat /\ lastAmount \in Nat /\ fresh.cost \in Nat /\ captured.cost \in Nat
      /\ visible.cost \in Nat /\ RoundedOff \in Int /\ Rounding \in {0, 2} /\ pick.cost \in Nat
      /\ Cost(price, pick.upto) \in Nat
  BY PromptTypes
<1>1. /\ pick # NoPick /\ pick.sid = sid /\ session = "open" /\ paying
      /\ nanoPay' = Signed /\ signed' = signed + pick.cost /\ paid' = pick.upto
      /\ stream' = Append(stream, [id |-> Signed.id, amount |-> Signed.amount])
      /\ lastCost' = pick.cost /\ sincePay' = 0 /\ pick' = NoPick
      /\ UNCHANGED <<used, price, paying, sid, node, session, served, fresh, visible, claimer,
                     lastAmount, bytesPaid, sinceClaim, asleep, left, captured, skipped>>
  BY DEF Send, PickAlive, payeeVars
<1>2. fresh.cost <= Cost(price, pick.upto)
  BY <1>1 DEF OpenPrompt, PickPrompt
<1>3. Signed.to = node /\ Signed.amount = signed + pick.cost /\ Signed.id # 0
  <2>1. /\ nanoPay.to = node /\ nanoPay.amount = signed /\ (nanoPay.id = 0 => signed = 0)
        /\ nanoPay.id \in Nat /\ pick.to = node
    BY <1>1 DEF CoreInv, TypeOK, PayerType, ClaimInv, PickNode
  <2> QED BY <2>1, PromptTypes DEF Signed
<1>4. /\ \A d \in Dir : paid[d] <= pick.upto[d]
      /\ pick.cost = Cost(price, [d \in Dir |-> pick.upto[d] - paid[d]])
  BY <1>1 DEF PayerInv, PickInv, Between
<1>5. Cost(price, paid) + pick.cost <= Cost(price, pick.upto)
  BY <1>4, PromptTypes, CostSplit
<1>6. RoundedOff' = Cost(price, pick.upto) - (signed + pick.cost) /\ Rounding' = Rounding
      /\ Cost(price, paid)' = Cost(price, pick.upto)
  BY <1>1 DEF RoundedOff, Rounding, Cost, DirCost
<1>7. RoundedOff <= RoundedOff' /\ RoundedOff' \in Int
  BY <1>5, <1>6, PromptTypes
<1>8. CoreInv'
  BY <1>1, <1>3 DEF CoreInv
<1>9. ViewInv'
  BY <1>1 DEF ViewInv, Cost, DirCost
<1>10. StreamPrompt'
  <2>1. stream \in Seq(Transactions) /\ lastAmount <= signed
    BY <1>0, <1>1 DEF OpenPrompt, StreamPrompt, TypeOK, SessionType
  <2>2. [id |-> Signed.id, amount |-> Signed.amount] \in Transactions
    BY <1>1, SignedType DEF TypeOK
  <2>3. /\ stream' # <<>> /\ Len(stream') = Len(stream) + 1 /\ Len(stream) \in Nat
        /\ stream'[Len(stream')].amount = signed'
        /\ \A i \in 1..Len(stream) : stream'[i] = stream[i]
    BY <1>1, <1>3, <2>1, <2>2
  <2>4. \A i \in 1..Len(stream') : fresh'.cost <= stream'[i].amount + RoundedOff'
    <3> TAKE i \in 1..Len(stream')
    <3>1. CASE i = Len(stream')
      <4>1. fresh.cost <= signed' + RoundedOff'
        BY <1>1, <1>2, <1>6, PromptTypes
      <4> QED BY <1>1, <2>3, <3>1, <4>1
    <3>2. CASE i # Len(stream')
      <4>0. i \in 1..(Len(stream) + 1) /\ i # Len(stream) + 1
        BY <2>3, <3>2
      <4>1. i \in 1..Len(stream) /\ stream[i] \in Transactions
        BY <2>1, <2>3, <4>0
      <4>2. stream # <<>> /\ stream[i].amount \in Nat
        BY <2>1, <4>1 DEF Transactions
      <4>3. fresh.cost <= stream[i].amount + RoundedOff
        BY <1>1, <4>1, <4>2 DEF OpenPrompt, StreamPrompt
      <4>4. fresh.cost <= stream[i].amount + RoundedOff'
        BY <1>0, <1>7, <4>2, <4>3
      <4> QED BY <1>1, <2>3, <4>1, <4>4
    <3> QED BY <3>1, <3>2
  <2>5. lastAmount' <= signed'
    BY <1>1, <2>1, PromptTypes
  <2> QED BY <1>1, <2>3, <2>4, <2>5 DEF StreamPrompt
<1>11. SleepPrompt'
  <2>0. captured.cost <= Cost(price, pick.upto)
    BY <1>0, <1>2 DEF ViewInv
  <2>1. captured'.cost <= Cost(price, paid)'
    BY <1>1, <1>6, <2>0
  <2>2. Excused => Excused'
    <3>0. captured.cost - lastAmount <= RoundedOff + Rounding
            => captured.cost - lastAmount <= RoundedOff' + Rounding
      BY <1>0, <1>7
    <3>1. captured.cost - lastAmount <= RoundedOff + Rounding
            => captured'.cost - lastAmount' <= RoundedOff' + Rounding'
      BY <1>1, <1>6, <3>0
    <3> QED BY <1>1, <3>1 DEF Excused, Volume
  <2> QED BY <1>1, <2>1, <2>2 DEF OpenPrompt, SleepPrompt
<1>12. PickPrompt'
  BY <1>1 DEF PickPrompt
<1> QED BY <1>1, <1>8, <1>9, <1>10, <1>11, <1>12 DEF OpenPrompt, CutoffInv

\* A claim gives credit for all that the payee could see when the payment was made.
LEMMA PromptClaim ==
    ASSUME AllInv, ClaimPayment
    PROVE  PromptInv'
<1> USE DEF AllInv, PromptInv
<1> DEFINE c == Claimed(claimer, Head(stream))
<1>1. /\ session = "open" /\ stream # <<>> /\ stream' = Tail(stream) /\ claimer' = c
      /\ lastAmount' = Claim(c) /\ sinceClaim' = 0
      /\ UNCHANGED <<used, paid, price, lastCost, sincePay, paying, pick, nanoPay, signed, sid,
                     node, session, served, fresh, visible, asleep, left, captured, skipped>>
  BY DEF ClaimPayment, payerVars
<1>2. /\ stream[Len(stream)].amount = signed /\ sincePay = 0
      /\ \A i \in 1..Len(stream) : fresh.cost <= stream[i].amount + RoundedOff
  BY <1>1 DEF OpenPrompt, StreamPrompt
<1>3. /\ stream \in Seq(Transactions) /\ Len(stream) \in Nat \ {0} /\ Head(stream) = stream[1]
      /\ Head(stream) \in Transactions /\ Len(Tail(stream)) = Len(stream) - 1
      /\ \A i \in 1..Len(Tail(stream)) :
            Tail(stream)[i] = stream[i + 1] /\ i + 1 \in 1..Len(stream)
  BY <1>1 DEF TypeOK, SessionType
<1>4. lastAmount' = Head(stream).amount /\ Head(stream).amount <= signed
  <2>1. /\ claimer.before = 0 /\ claimer.amount \in Nat /\ Head(stream).amount \in Nat
        /\ (claimer.id # Head(stream).id => claimer.amount = 0)
        /\ Head(stream).amount <= nanoPay.amount /\ nanoPay.amount = signed
    BY <1>1, <1>3, TailStream DEF ClaimInv, ClaimerInv, TypeOK, PayeeType, Transactions, CoreInv
  <2>2. c.amount = Head(stream).amount /\ c.before = 0
    BY <2>1 DEF Claimed
  <2> QED BY <1>1, <2>1, <2>2 DEF Claim
<1>5. RoundedOff' = RoundedOff /\ Rounding' = Rounding /\ Cost(price, paid)' = Cost(price, paid)
  BY <1>1 DEF RoundedOff, Rounding, Cost, DirCost
<1>6. CoreInv' /\ ViewInv' /\ PickPrompt'
  BY <1>1 DEF CoreInv, ViewInv, OpenPrompt, PickPrompt, Cost, DirCost
<1>7. StreamPrompt'
  <2>1. CASE Len(stream) = 1
    <3>1. stream' = <<>>
      BY <1>1, <1>3, <2>1
    <3>2. lastAmount' = signed'
      BY <1>1, <1>2, <1>3, <1>4, <2>1
    <3> QED BY <1>1, <1>2, <3>1, <3>2 DEF StreamPrompt
  <2>2. CASE Len(stream) # 1
    <3>1. /\ Len(stream') \in Nat \ {0} /\ Len(stream') = Len(stream) - 1
          /\ stream' # <<>> /\ stream'[Len(stream')] = stream[Len(stream)]
      <4>1. Len(stream') = Len(stream) - 1 /\ Len(stream') \in 1..Len(stream')
        BY <1>1, <1>3, <2>2
      <4>2. stream'[Len(stream')] = stream[Len(stream') + 1]
        BY <1>1, <1>3, <4>1
      <4>3. Len(stream') + 1 = Len(stream) /\ Len(stream') \in Nat \ {0}
        BY <1>3, <2>2, <4>1
      <4>4. stream' # <<>>
        BY <4>3
      <4> QED BY <4>1, <4>2, <4>3, <4>4
    <3>2. \A i \in 1..Len(stream') : fresh'.cost <= stream'[i].amount + RoundedOff'
      BY <1>1, <1>2, <1>3, <1>5
    <3>3. lastAmount' <= signed'
      BY <1>1, <1>4
    <3> QED BY <1>1, <1>2, <3>1, <3>2, <3>3 DEF StreamPrompt
  <2> QED BY <2>1, <2>2
<1>8. SleepPrompt'
  <2>1. Head(stream).amount \in Nat /\ fresh.cost <= Head(stream).amount + RoundedOff
    BY <1>2, <1>3 DEF Transactions
  <2>0. /\ signed \in Nat /\ fresh.cost \in Nat /\ captured.cost \in Nat /\ visible.cost \in Nat
        /\ RoundedOff \in Int /\ Rounding \in {0, 2} /\ RoundedOff = Cost(price, paid) - signed
        /\ Cost(price, paid) \in Nat
    BY PromptTypes
  <2>a. captured.cost <= fresh.cost
    BY <2>0 DEF ViewInv
  <2>b. /\ captured.cost - Head(stream).amount <= RoundedOff + Rounding
        /\ captured.cost <= Cost(price, paid)
    BY <1>4, <2>0, <2>1, <2>a
  <2>2. captured'.cost - lastAmount' <= RoundedOff' + Rounding'
    BY <1>1, <1>4, <1>5, <2>b
  <2>3. captured'.cost <= Cost(price, paid)'
    BY <1>1, <1>5, <2>b
  <2> QED BY <1>1, <2>2, <2>3 DEF OpenPrompt, SleepPrompt, Excused
<1> QED BY <1>1, <1>6, <1>7, <1>8 DEF OpenPrompt, CutoffInv

\* The payee waits only when the payer has to pay as well, or just did, or over bytes that
\* it counts as unpaid.
LEMMA PromptWatch ==
    ASSUME AllInv, Watch
    PROVE  PromptInv'
<1> USE DEF AllInv, PromptInv
<1>1. /\ session = "open"
      /\ sinceClaim > UpdateInterval \/ visible.bytes - bytesPaid > Threshold
      /\ asleep' = TRUE /\ left' = NanoPayDelay /\ captured' = visible
      /\ UNCHANGED <<used, paid, price, lastCost, sincePay, paying, pick, nanoPay, signed, sid,
                     node, session, stream, served, fresh, visible, claimer, lastAmount,
                     bytesPaid, sinceClaim>>
  BY DEF Watch, WatchFires, payerVars, sessionVars
<1>2. sincePay > UpdateInterval \/ visible.bytes - bytesPaid > Threshold
        \/ visible.cost <= Cost(price, paid)
  <2>1. CASE stream = <<>>
    BY <1>1, <2>1 DEF OpenPrompt, StreamPrompt
  <2>2. CASE stream # <<>>
    <3>1. Len(stream) \in 1..Len(stream)
      BY <2>2 DEF TypeOK, SessionType
    <3>2. fresh.cost <= signed + RoundedOff
      BY <1>1, <2>2, <3>1 DEF OpenPrompt, StreamPrompt
    <3> QED BY <3>2, PromptTypes DEF ViewInv
  <2> QED BY <2>1, <2>2
<1>3. SleepPrompt'
  BY <1>1, <1>2, LimitAssumption DEF SleepPrompt, Volume, Cost, DirCost
<1>4. CoreInv' /\ StreamPrompt' /\ PickPrompt'
  BY <1>1 DEF CoreInv, OpenPrompt, StreamPrompt, PickPrompt, Rounding, RoundedOff, Cost, DirCost
<1>5. ViewInv'
  BY <1>1, PromptTypes DEF ViewInv, Cost, DirCost
<1> QED BY <1>1, <1>3, <1>4, <1>5 DEF OpenPrompt, CutoffInv

\* It judges after a tick at least.
LEMMA PromptJudge ==
    ASSUME AllInv, NanoPayDelay > 0, Judge
    PROVE  PromptInv'
<1> USE DEF AllInv, PromptInv
<1>1. /\ session = "open" /\ asleep /\ left = 0 /\ asleep' = FALSE
      /\ UNCHANGED <<used, paid, price, lastCost, sincePay, paying, pick, nanoPay, signed, sid,
                     node, served, fresh, visible, claimer, lastAmount, bytesPaid, sinceClaim,
                     left, captured, skipped>>
      /\ (session' = "unpaid" \/ UNCHANGED <<session, stream>>)
  BY DEF Judge, payerVars
<1>2. Excused
  BY <1>1 DEF OpenPrompt, SleepPrompt
<1>3. CoreInv' /\ ViewInv'
  BY <1>1 DEF CoreInv, ViewInv, Cost, DirCost
<1>4. Excused'
  BY <1>1, <1>2 DEF Excused, Volume, Rounding, RoundedOff, Cost, DirCost
<1>5. OpenPrompt'
  BY <1>1 DEF OpenPrompt, StreamPrompt, PickPrompt, SleepPrompt, Rounding, RoundedOff, Cost,
     DirCost
<1> QED BY <1>3, <1>4, <1>5 DEF CutoffInv

\* In a tick with nothing left to do, what is missing is the increment skipped.
LEMMA PromptTick ==
    ASSUME AllInv, session = "open" => Idle, Tick
    PROVE  PromptInv'
<1> USE DEF AllInv, PromptInv
<1>1. /\ sincePay' = Older(sincePay) /\ sinceClaim' = Older(sinceClaim)
      /\ visible' = fresh /\ fresh' = Totals /\ left' = Countdown(left)
      /\ skipped' = IF asleep /\ session = "open" THEN Skipping ELSE skipped
      /\ ~(asleep /\ left = 0 /\ session = "open")
      /\ UNCHANGED <<used, paid, price, lastCost, paying, pick, nanoPay, signed, sid, node,
                     session, stream, served, claimer, lastAmount, bytesPaid, asleep, captured>>
  BY DEF Tick, sessionVars
<1>2. RoundedOff' = RoundedOff /\ Rounding' = Rounding /\ Cost(price, paid)' = Cost(price, paid)
  BY <1>1 DEF RoundedOff, Rounding, Cost, DirCost
<1>3. CoreInv'
  BY <1>1 DEF CoreInv
<1>4. ViewInv'
  <2>1. fresh'.cost = Cost(price, used)
    BY <1>1 DEF Totals, CoreInv
  <2>2. Cost(price, used)' = Cost(price, used)
    BY <1>1 DEF Cost, DirCost
  <2> QED BY <1>1, <2>1, <2>2, PromptTypes DEF ViewInv
<1>5. CutoffInv'
  BY <1>1, <1>2 DEF CutoffInv, Excused, Volume
<1>6. ASSUME session = "open" PROVE StreamPrompt' /\ PickPrompt' /\ SleepPrompt'
  <2>1. stream = <<>> /\ pick = NoPick /\ ~Payable /\ lastAmount = signed /\ sinceClaim = sincePay
    BY <1>6 DEF Idle, OpenPrompt, StreamPrompt
  <2>2. StreamPrompt' /\ PickPrompt'
    BY <1>1, <2>1 DEF StreamPrompt, PickPrompt
  <2>3. ASSUME asleep PROVE left' < NanoPayDelay
    BY <1>1, <1>6, <2>3, PromptTypes, LimitAssumption DEF OpenPrompt, SleepPrompt, Countdown
  <2>4. ASSUME asleep
        PROVE  (sincePay > UpdateInterval \/ Volume \/ captured.cost <= Cost(price, paid))'
    <3>1. sincePay > UpdateInterval \/ Volume \/ captured.cost <= Cost(price, paid)
      BY <1>6, <2>4 DEF OpenPrompt, SleepPrompt
    <3>2. sincePay > UpdateInterval => sincePay' > UpdateInterval
      BY <1>1 DEF Older
    <3> QED BY <1>1, <1>2, <3>1, <3>2 DEF Volume
  <2>5. ASSUME asleep PROVE Excused'
    <3>1. skipped' = Skipping
      BY <1>1, <1>6, <2>5
    <3>2. CASE Volume
      BY <1>1, <3>2 DEF Volume, Excused
    <3>3. CASE captured.cost <= Cost(price, paid)
      <4>1. captured.cost - lastAmount <= RoundedOff + Rounding
        BY <2>1, <3>3, PromptTypes
      <4> QED BY <1>1, <1>2, <4>1 DEF Excused
    <3>4. CASE sincePay > UpdateInterval
      <4>1. Increment \in Nat /\ Cost(price, used) <= Cost(price, paid) + Increment + Rounding
        BY PromptTypes, CostGap, CostSplit DEF Increment, Unpaid
      <4>2. CASE Increment = 0
        <5>1. captured.cost - lastAmount <= RoundedOff + Rounding
          BY <2>1, <4>1, <4>2, PromptTypes DEF ViewInv
        <5> QED BY <1>1, <1>2, <5>1 DEF Excused
      <4>3. CASE Increment # 0
        <5>1. Increment > 0
          BY <4>1, <4>3
        <5>2. Skipping
          BY <2>1, <3>4, <5>1 DEF Skipping, Payable, PayDue, CoreInv
        <5> QED BY <3>1, <5>2 DEF Excused
      <4> QED BY <4>2, <4>3
    <3> QED BY <1>6, <2>5, <3>2, <3>3, <3>4 DEF OpenPrompt, SleepPrompt
  <2>6. SleepPrompt'
    BY <1>1, <2>3, <2>4, <2>5, PromptTypes, LimitAssumption DEF SleepPrompt, Countdown
  <2> QED BY <2>2, <2>6
<1> QED BY <1>1, <1>3, <1>4, <1>5, <1>6 DEF OpenPrompt

LEMMA PromptStep ==
    ASSUME AllInv, NanoPayDelay > 0, [PromptNext]_vars
    PROVE  PromptInv'
<1>1. CASE UNCHANGED vars
  BY <1>1 DEF AllInv, vars, payerVars, sessionVars, payeeVars, PromptInv, CoreInv, ViewInv,
     OpenPrompt, CutoffInv, StreamPrompt, PickPrompt, SleepPrompt, Excused, Volume, Rounding,
     RoundedOff, Cost, DirCost
<1>2. CASE PromptNext
  BY <1>2, PromptTraffic, PromptPick, PromptSend, PromptClaim, PromptWatch, PromptJudge, PromptTick
     DEF PromptNext
<1> QED BY <1>1, <1>2

\* For any nodes, prices, units and limits, a payer on time is cut off only if at the last
\* tick it was skipping an increment equal to the one it last paid, or if the payee counted
\* more bytes than the threshold as unpaid, give or take what rounding takes.  All that is
\* assumed is that checkPayment does sleep.
THEOREM CutoffOnlyWhenSkippedHolds ==
    ASSUME NanoPayDelay > 0
    PROVE  PromptSpec => []CutoffOnlyWhenSkipped
<1>1. Init => AllInv
  <2>1. Init => TypeOK
    BY TypeInit
  <2> QED BY <2>1, PayerInvInit, ClaimInvInit, PromptInit DEF AllInv
<1>2. AllInv /\ [PromptNext]_vars => AllInv'
  <2> SUFFICES ASSUME AllInv, [PromptNext]_vars PROVE AllInv'
    OBVIOUS
  <2>1. [Next]_vars
    BY PromptIsNext
  <2>2. TypeOK' /\ PayerInv' /\ ClaimInv'
    BY <2>1, TypeStep, PayerInvStep, ClaimInvStep DEF AllInv
  <2> QED BY <2>2, PromptStep DEF AllInv
<1>3. AllInv => CutoffOnlyWhenSkipped
  BY DEF AllInv, PromptInv, CutoffInv, Excused, Volume, CutoffOnlyWhenSkipped
<1> QED BY <1>1, <1>2, <1>3, PTL DEF PromptSpec
===========================================================================
