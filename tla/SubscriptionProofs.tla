------------------------- MODULE SubscriptionProofs -------------------------
(***************************************************************************)
(* For any services, durations and limits: the queue stays bounded; and if *)
(* the chain is prompt, all transactions in the pool are retries for one   *)
(* service and none takes the place of another service's, because the      *)
(* worker does not wake before the pool is empty.                          *)
(***************************************************************************)
EXTENDS Subscription, SequenceTheorems, TLAPS

\* Transactions of s, at most n, and no others.
Only(s, n) == Len(txPool) <= n /\ \A i \in 1 .. Len(txPool) : txPool[i] = s

\* The worker finds the pool empty when it takes a request; while it tries there is at
\* most a transaction of each call that seemed to fail.
Confirmed ==
    Prompt =>
        /\ worker.at = "idle" \/ (worker.at = "sleep" /\ sleep = 0) => txPool = <<>>
        /\ worker.at = "try" => Only(worker.service, worker.tries)

\* Whatever nonce the transactions are given and whatever calls fail, those in the pool
\* at a time are of one service, one per try at most; and a node that replaces
\* transactions never has more than one there, be the chain prompt or not.
OneServiceInPool ==
    /\ replace => Len(txPool) <= 1
    /\ Prompt => \/ txPool = <<>>
                 \/ \E s \in Services : Only(s, MaxRetry)

SubInv == TypeOK /\ NeverReplaced /\ Confirmed /\ OneServiceInPool

Attempts == [at : {"try"}, service : Services, tries : 0 .. MaxRetry - 1]

\* What a worker can be, told by its field at.
LEMMA WorkerFacts ==
    ASSUME TypeOK
    PROVE  /\ worker.at \in {"idle", "try", "sleep"}
           /\ worker.at = "idle" => worker = Idle
           /\ worker.at = "sleep" => worker = Sleeping
           /\ worker.at = "try" => worker \in Attempts
  BY DEF TypeOK, Idle, Sleeping, Attempts

LEMMA InitInv == Init => SubInv
  <1>. SUFFICES ASSUME Init PROVE SubInv
    OBVIOUS
  <1>1. /\ duration \in Durations /\ replace \in BOOLEAN /\ replaced \in BOOLEAN
        /\ chain \in [Services -> Subscriptions] /\ txPool = <<>> /\ queue = <<>>
        /\ worker \in {Idle, Sleeping} /\ closed \in BOOLEAN /\ ~replaced
    BY DEF Init
  <1>2. /\ pc \in [Services -> {"check", "wait", "rest", "done"}]
        /\ timer \in [Services -> Nat]
    BY DEF Init
  <1>3. sleep \in 0 .. ConfirmTime
    BY LimitsAssumption DEF Init
  <1>4. <<>> \in Seq(Services) /\ Len(<<>>) = 0 /\ 0 <= QueueLen
    BY LimitsAssumption
  <1>5. TypeOK
    BY <1>1, <1>2, <1>3, <1>4 DEF TypeOK
  <1>6. worker.at = "idle"
    BY DEF Init, Idle
  <1>. QED
    BY <1>1, <1>5, <1>6 DEF SubInv, NeverReplaced, Confirmed, OneServiceInPool

---------------------------------------------------------------------------
\* Time can be counted in numbers.
LEMMA TimerFacts ==
    ASSUME TypeOK
    PROVE  /\ Interval \in Nat
           /\ \A s \in Services : Good(s) => Shortened(chain[s].left) \subseteq Nat
           /\ \A n \in Shortened(Interval) : AtMost(n, CheckInterval) \in Nat
  <1>1. duration \in Nat \ {0}
    BY DurationsAssumption DEF TypeOK
  <1>2. Interval \in Nat
    BY <1>1 DEF Interval
  <1>3. \A n \in Nat : Shortened(n) \subseteq Nat
    BY DEF Shortened
  <1>4. ASSUME NEW s \in Services, Good(s) PROVE chain[s].left \in Nat
    <2>1. chain[s] \in Subscriptions
      BY DEF TypeOK
    <2>. QED
      BY <2>1, <1>1 DEF Subscriptions, None
  <1>. QED
    BY <1>2, <1>3, <1>4, LimitsAssumption DEF AtMost

\* A goroutine of a service changes its own state and the queue.
LEMMA RenewInv ==
    ASSUME SubInv, NEW s \in Services, Renew(s)
    PROVE  SubInv'
  <1>. USE DEF SubInv
  <1>1. UNCHANGED <<world, chain, txPool, replaced, worker, sleep, closed>>
    BY DEF Renew, Look, SeeNothing, Request, Wake, Leave
  <1>2. pc' \in [Services -> {"check", "wait", "rest", "done"}]
    BY DEF Renew, Look, SeeNothing, Request, Wake, Leave, TypeOK
  <1>3. timer' \in [Services -> Nat]
    <2>1. CASE Look(s)
      BY <2>1, TimerFacts DEF Look, TypeOK
    <2>2. CASE SeeNothing(s)
      BY <2>2 DEF SeeNothing, TypeOK
    <2>3. CASE Request(s)
      BY <2>3, TimerFacts DEF Request, TypeOK
    <2>. QED
      BY <2>1, <2>2, <2>3 DEF Renew, Wake, Leave, TypeOK
  <1>4. queue' \in Seq(Services) /\ Len(queue') <= QueueLen
    <2>1. queue' = queue \/ (Len(queue) < QueueLen /\ queue' = Append(queue, s))
      BY DEF Renew, Look, SeeNothing, Request, Wake, Leave
    <2>2. queue \in Seq(Services) /\ Len(queue) \in Nat /\ Len(queue) <= QueueLen
      BY DEF TypeOK
    <2>3. Append(queue, s) \in Seq(Services) /\ Len(Append(queue, s)) = Len(queue) + 1
      BY <2>2, AppendProperties
    <2>. QED
      BY <2>1, <2>2, <2>3, LimitsAssumption
  <1>5. TypeOK'
    BY <1>1, <1>2, <1>3, <1>4 DEF TypeOK, world, Subscriptions
  <1>. QED
    BY <1>1, <1>5 DEF NeverReplaced, Confirmed, OneServiceInPool, Only, world

\* A transaction that enters the pool adds at most one to those of its service.
LEMMA EnterFacts ==
    ASSUME TypeOK, replace => Len(txPool) <= 1, NEW s \in Services, Enter(s)
    PROVE  /\ txPool' \in Seq(Services) /\ replaced' \in BOOLEAN
           /\ replace => Len(txPool') <= 1
           /\ \A n \in Nat : Only(s, n) =>
                 /\ Len(txPool') <= n + 1 /\ \A i \in 1 .. Len(txPool') : txPool'[i] = s
                 /\ replaced' = replaced
  <1>. txPool \in Seq(Services) /\ Len(txPool) \in Nat /\ replaced \in BOOLEAN
    BY DEF TypeOK
  <1>1. CASE replace /\ txPool # <<>>
    <2>1. /\ txPool' = <<s>> \o Tail(txPool)
          /\ replaced' = (replaced \/ Head(txPool) # s)
      BY <1>1 DEF Enter
    <2>2. Len(txPool) = 1 /\ Head(txPool) = txPool[1]
      BY <1>1, EmptySeq
    <2>3. Tail(txPool) \in Seq(Services) /\ Len(Tail(txPool)) = 0
      BY <1>1, <2>2, HeadTailProperties
    <2>4. <<s>> \in Seq(Services) /\ Len(<<s>>) = 1 /\ <<s>>[1] = s
      OBVIOUS
    <2>5. /\ txPool' \in Seq(Services) /\ Len(txPool') = 1
          /\ \A i \in 1 .. Len(txPool') : txPool'[i] = s
      <3>1. Len(txPool') = 1 + 0 /\ txPool' \in Seq(Services)
        BY <2>1, <2>3, <2>4, ConcatProperties
      <3>2. \A i \in 1 .. 1 : txPool'[i] = <<s>>[i]
        BY <2>1, <2>3, <2>4, ConcatProperties
      <3>. QED
        BY <2>4, <3>1, <3>2
    <2>6. replaced' \in BOOLEAN
      BY <2>1
    <2>7. ASSUME NEW n \in Nat, Only(s, n)
          PROVE  Len(txPool') <= n + 1 /\ replaced' = replaced
      <3>1. txPool[1] = s
        BY <2>2, <2>7 DEF Only
      <3>2. ~(Head(txPool) # s)
        BY <2>2, <3>1
      <3>3. replaced' = replaced
        BY <2>1, <3>2
      <3>. QED
        BY <2>5, <3>3
    <2>. QED
      BY <2>5, <2>6, <2>7
  <1>2. CASE ~(replace /\ txPool # <<>>)
    <2>1. txPool' = Append(txPool, s) /\ replaced' = replaced
      BY <1>2 DEF Enter
    <2>2. /\ Append(txPool, s) \in Seq(Services) /\ Len(txPool') = Len(txPool) + 1
          /\ \A i \in 1 .. Len(txPool) : txPool'[i] = txPool[i]
          /\ txPool'[Len(txPool) + 1] = s
      BY <2>1, AppendProperties
    <2>3. \A i \in 1 .. Len(txPool') : i \in 1 .. Len(txPool) \/ i = Len(txPool) + 1
      BY <2>2
    <2>4. replace => Len(txPool') <= 1
      BY <1>2, <2>2, EmptySeq
    <2>. QED
      BY <2>1, <2>2, <2>3, <2>4 DEF Only
  <1>. QED
    BY <1>1, <1>2

\* The worker's next try, or its sleep after the last one.
LEMMA TryFacts ==
    ASSUME TypeOK, worker.at = "try", TryAgain
    PROVE  /\ worker.service \in Services /\ worker.tries \in 0 .. MaxRetry - 1
           /\ sleep' \in 0 .. ConfirmTime
           /\ \/ /\ worker' = Trying(worker.service, worker.tries + 1)
                 /\ worker' \in Attempts /\ worker'.at = "try"
                 /\ worker'.service = worker.service /\ worker'.tries = worker.tries + 1
              \/ worker' = Sleeping /\ worker'.at = "sleep" /\ sleep' = ConfirmTime
  <1>1. worker.service \in Services /\ worker.tries \in 0 .. MaxRetry - 1
    BY WorkerFacts DEF Attempts
  <1>2. CASE worker.tries + 1 < MaxRetry
    <2>1. worker.tries + 1 \in 0 .. MaxRetry - 1
      BY <1>1, <1>2, LimitsAssumption
    <2>2. worker' = Trying(worker.service, worker.tries + 1) /\ sleep' = sleep
      BY <1>2 DEF TryAgain
    <2>. QED
      BY <1>1, <2>1, <2>2 DEF Trying, Attempts, TypeOK
  <1>3. CASE ~(worker.tries + 1 < MaxRetry)
    BY <1>1, <1>3, LimitsAssumption DEF TryAgain, Sleeping
  <1>. QED
    BY <1>2, <1>3

\* The worker asks the chain: with every try at most one more of its own transactions is
\* in the pool.
LEMMA TryInv ==
    ASSUME SubInv, TryFails \/ ReplyLost \/ \E s \in Services : TrySucceeds(s)
    PROVE  SubInv'
  <1>. USE DEF SubInv
  <1>1. /\ UNCHANGED <<world, chain, pc, timer, queue, closed>>
        /\ worker.at = "try" /\ worker.service \in Services
        /\ worker.tries \in 0 .. MaxRetry - 1
    BY WorkerFacts DEF TryFails, ReplyLost, TrySucceeds, Attempts
  <1>2. UNCHANGED <<txPool, replaced>> \/ Enter(worker.service)
    BY DEF TryFails, ReplyLost, TrySucceeds
  <1>3. /\ worker' \in {Idle, Sleeping} \cup Attempts
        /\ sleep' \in 0 .. ConfirmTime
        /\ \/ worker'.at = "sleep" /\ sleep' = ConfirmTime
           \/ /\ worker'.at = "try" /\ worker'.service = worker.service
              /\ worker'.tries = worker.tries + 1
    <2>1. CASE \E s \in Services : TrySucceeds(s)
      BY <2>1, LimitsAssumption DEF TrySucceeds, Sleeping
    <2>2. CASE TryFails \/ ReplyLost
      BY <1>1, <2>2, TryFacts DEF TryFails, ReplyLost
    <2>. QED
      BY <2>1, <2>2
  <1>4. /\ txPool' \in Seq(Services) /\ replaced' \in BOOLEAN
        /\ replace => Len(txPool') <= 1
    BY <1>1, <1>2, EnterFacts DEF TypeOK, OneServiceInPool
  <1>5. Prompt => /\ replaced' = replaced /\ Len(txPool') <= worker.tries + 1
                  /\ \A i \in 1 .. Len(txPool') : txPool'[i] = worker.service
    <2>1. Prompt => Only(worker.service, worker.tries)
      BY <1>1 DEF Confirmed
    <2>2. worker.tries \in Nat /\ Len(txPool) \in Nat
      BY <1>1 DEF TypeOK
    <2>3. CASE Enter(worker.service)
      BY <1>1, <2>1, <2>2, <2>3, EnterFacts DEF OneServiceInPool
    <2>4. CASE UNCHANGED <<txPool, replaced>>
      BY <2>1, <2>2, <2>4 DEF Only
    <2>. QED
      BY <1>2, <2>3, <2>4
  <1>6. TypeOK'
    BY <1>1, <1>3, <1>4 DEF TypeOK, world, Subscriptions, Attempts
  <1>7. Confirmed'
    <2>1. worker'.at \in {"sleep", "try"} /\ (worker'.at = "sleep" => sleep' # 0)
      BY <1>3, LimitsAssumption
    <2>. QED
      BY <1>3, <1>5, <2>1 DEF Confirmed, Only
  <1>8. OneServiceInPool'
    <2>1. worker.tries + 1 <= MaxRetry /\ worker.tries + 1 \in Nat /\ MaxRetry \in Nat
      BY <1>1, LimitsAssumption
    <2>2. Len(txPool') \in Nat
      BY <1>4
    <2>3. Prompt => \E s \in Services : Only(s, MaxRetry)'
      BY <1>1, <1>5, <2>1, <2>2 DEF Only
    <2>. QED
      BY <1>1, <1>4, <2>3 DEF OneServiceInPool, world
  <1>. QED
    BY <1>5, <1>6, <1>7, <1>8 DEF NeverReplaced

\* The worker takes a request, or wakes: it finds the pool empty.
LEMMA WorkInv ==
    ASSUME SubInv, Take \/ WakeWorker
    PROVE  SubInv'
  <1>. USE DEF SubInv
  <1>1. UNCHANGED <<world, chain, txPool, replaced, pc, timer, sleep, closed>>
    BY DEF Take, WakeWorker
  <1>2. queue' \in Seq(Services) /\ Len(queue') <= QueueLen
    <2>1. CASE Take
      BY <2>1, HeadTailProperties, LimitsAssumption DEF Take, TypeOK
    <2>. QED
      BY <2>1 DEF WakeWorker, TypeOK
  <1>3. /\ worker' \in {Idle} \cup Attempts
        /\ worker'.at = "idle" \/ (worker'.at = "try" /\ worker'.tries = 0)
    <2>1. CASE Take
      <3>1. Head(queue) \in Services
        BY <2>1, HeadTailProperties DEF Take, TypeOK
      <3>. QED
        BY <2>1, <3>1, LimitsAssumption DEF Take, Trying, Attempts, TypeOK
    <2>2. CASE WakeWorker
      BY <2>2 DEF WakeWorker, Idle
    <2>. QED
      BY <2>1, <2>2
  <1>4. Prompt => txPool = <<>>
    BY DEF Confirmed, Take, WakeWorker, Idle
  <1>5. TypeOK'
    BY <1>1, <1>2, <1>3 DEF TypeOK, world, Subscriptions, Attempts
  <1>6. Confirmed'
    BY <1>1, <1>3, <1>4 DEF Confirmed, Only
  <1>7. OneServiceInPool' /\ NeverReplaced'
    BY <1>1 DEF OneServiceInPool, NeverReplaced, Only, world
  <1>. QED
    BY <1>5, <1>6, <1>7

\* A block: the last one before the worker wakes empties the pool.
LEMMA BlockInv ==
    ASSUME SubInv, NEW n \in 0 .. Len(txPool), Block(n)
    PROVE  SubInv'
  <1>. USE DEF SubInv
  <1>1. UNCHANGED <<world, replaced, pc, queue, worker, closed>>
    BY DEF Block
  <1>2. Len(txPool) \in Nat /\ txPool' = SubSeq(txPool, n + 1, Len(txPool))
    BY DEF Block, TypeOK
  <1>3. txPool' \in Seq(Services)
    <2>1. \A i \in n + 1 .. Len(txPool) : txPool[i] \in Services
      BY <1>2, ElementOfSeq DEF TypeOK
    <2>. QED
      BY <1>2, <2>1, SubSeqProperties
  <1>4. chain' \in [Services -> Subscriptions]
    <2>1. duration \in Nat \ {0}
      BY DurationsAssumption DEF TypeOK
    <2>2. [meta |-> "own", left |-> duration] \in Subscriptions
      BY <2>1 DEF Subscriptions
    <2>3. ASSUME NEW s \in Services PROVE Aged(chain[s]) \in Subscriptions
      <3>1. chain[s] \in Subscriptions
        BY DEF TypeOK
      <3>2. CASE chain[s] = None
        BY <3>2 DEF Aged, None, Subscriptions
      <3>3. CASE chain[s] \in [meta : {"old", "own"}, left : 1 .. duration]
        BY <3>3, <2>1 DEF Aged, Subscriptions
      <3>. QED
        BY <3>1, <3>2, <3>3 DEF Subscriptions
    <2>. QED
      BY <2>2, <2>3 DEF Block
  <1>5. timer' \in [Services -> Nat] /\ sleep' \in 0 .. ConfirmTime
    BY LimitsAssumption DEF Block, Countdown, TypeOK
  <1>6. TypeOK'
    BY <1>1, <1>3, <1>4, <1>5 DEF TypeOK, world, Subscriptions
  <1>7. Confirmed'
    <2>1. Prompt /\ sleep <= 1 => txPool' = <<>>
      BY <1>2, SubSeqEmpty DEF Block
    <2>2. txPool = <<>> => txPool' = <<>>
      BY <1>2, SubSeqEmpty
    <2>3. sleep > 1 => sleep' # 0
      BY DEF Block, Countdown, TypeOK
    <2>4. worker.at # "try"
      BY DEF Block, Quiet, Idle
    <2>. QED
      BY <1>1, <2>1, <2>2, <2>3, <2>4 DEF Confirmed, TypeOK
  <1>8. OneServiceInPool'
    <2>1. /\ Len(txPool') \in Nat /\ Len(txPool') <= Len(txPool)
          /\ \A i \in 1 .. Len(txPool') : n + i \in 1 .. Len(txPool)
          /\ \A i \in 1 .. Len(txPool') : txPool'[i] = txPool[n + i]
      BY <1>2, <1>3 DEF TypeOK
    <2>2. ASSUME NEW s \in Services, Only(s, MaxRetry) PROVE Only(s, MaxRetry)'
      BY <1>2, <2>1, <2>2, LimitsAssumption DEF Only
    <2>3. txPool = <<>> => txPool' = <<>>
      BY <1>2, SubSeqEmpty
    <2>. QED
      BY <1>1, <1>2, <2>1, <2>2, <2>3 DEF OneServiceInPool, world
  <1>. QED
    BY <1>1, <1>6, <1>7, <1>8 DEF NeverReplaced

LEMMA StepInv == SubInv /\ [Next]_vars => SubInv'
  <1>. SUFFICES ASSUME SubInv, [Next]_vars PROVE SubInv'
    OBVIOUS
  <1>1. CASE Close
    BY <1>1 DEF Close, SubInv, TypeOK, NeverReplaced, Confirmed, OneServiceInPool, Only,
                world, Subscriptions
  <1>2. CASE UNCHANGED vars
    BY <1>2 DEF vars, SubInv, TypeOK, NeverReplaced, Confirmed, OneServiceInPool, Only,
                world, Subscriptions
  <1>. QED
    BY <1>1, <1>2, RenewInv, TryInv, WorkInv, BlockInv DEF Next, Work

LEMMA AlwaysInv == Spec => []SubInv
  BY InitInv, StepInv, PTL DEF Spec

---------------------------------------------------------------------------
\* Types, and that the queue never holds more than QueueLen requests.
THEOREM TypeCorrect == Spec => []TypeOK
  BY AlwaysInv, PTL DEF SubInv

\* No service's transaction takes the place of another's in the pool of a prompt chain.
THEOREM NeverReplacedHolds == Spec => []NeverReplaced
  BY AlwaysInv, PTL DEF SubInv

\* One service at a time waits for a prompt chain, with a transaction per try at most; and
\* with subscriptionReplaceTxPool there is never more than one in the pool at all.
THEOREM OneServiceHolds == Spec => []OneServiceInPool
  BY AlwaysInv, PTL DEF SubInv
=============================================================================
