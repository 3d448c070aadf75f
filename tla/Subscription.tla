---------------------------- MODULE Subscription ----------------------------
(***************************************************************************)
(* How a node keeps its services advertised.  UpdateMetadata runs a        *)
(* goroutine per service, which looks at the subscription on the chain     *)
(* and asks for a new one when it is missing, differs or runs out; the     *)
(* requests go through one bounded queue to one worker (subqueue.go),      *)
(* which tries a few times and then lets the chain take in the             *)
(* transaction before it goes on.                                          *)
(*                                                                         *)
(* Time is counted in blocks: expiry, timers and the worker's sleep are    *)
(* numbers of blocks still to come.                                        *)
(***************************************************************************)
EXTENDS Integers, Sequences

CONSTANTS
    Services,
    Durations,         \* values of subscriptionDuration to choose from
    QueueLen,          \* subQueueLen (1024)
    MaxRetry,          \* maxRetry (3)
    CheckInterval,     \* maxCheckSubscribeInterval (1 h, 180 blocks)
    ConfirmTime,       \* config.ConsensusTimeout (1 min, 3 blocks)
    Prompt             \* the chain takes transactions in within ConfirmTime

ASSUME DurationsAssumption == Durations \subseteq Nat \ {0}
ASSUME LimitsAssumption ==
    /\ QueueLen \in Nat /\ MaxRetry \in Nat \ {0}
    /\ CheckInterval \in Nat \ {0} /\ ConfirmTime \in Nat \ {0}
ASSUME PromptAssumption == Prompt \in BOOLEAN

VARIABLES
    duration,   \* subscriptionDuration of this run
    replace,    \* subscriptionReplaceTxPool: a transaction takes the next nonce of the chain
    chain,      \* chain[s]: metadata and blocks left of s's subscription
    txPool,     \* services with a transaction in the pool, in order of nonces
    replaced,   \* history: a transaction was replaced in the pool by another service's
    pc,         \* pc[s]: where s's goroutine is
    timer,      \* timer[s]: blocks until nextSub fires
    queue,      \* subQueue
    worker,     \* what the worker is doing, for which service
    sleep,      \* blocks until it wakes
    closed      \* closeChan is closed

world == <<duration, replace>>
vars == <<world, chain, txPool, replaced, pc, timer, queue, worker, sleep, closed>>

\* subInterval, in blocks.
Interval == IF duration > 3 THEN duration - 3 ELSE 1
AtMost(n, m) == IF n < m THEN n ELSE m
\* (1 - rand * subscribeDurationRandomFactor) * n, for n > 0: the blocks after which a
\* timer fires.
Shortened(n) == (IF n = 1 THEN 1 ELSE (9 * n) \div 10) .. n

None == [meta |-> "none", left |-> 0]
Subscriptions == {None} \cup [meta : {"old", "own"}, left : 1 .. duration]
Idle == [at |-> "idle"]
Trying(s, tries) == [at |-> "try", service |-> s, tries |-> tries]
Sleeping == [at |-> "sleep"]

\* The node starts with no subscription, its own, or one from before its
\* configuration changed.
Init ==
    /\ duration \in Durations /\ replace \in BOOLEAN
    /\ chain \in [Services -> Subscriptions]
    /\ txPool = <<>> /\ replaced = FALSE
    /\ pc = [s \in Services |-> "check"] /\ timer = [s \in Services |-> 0]
    /\ queue = <<>> /\ worker = Idle /\ sleep = 0 /\ closed = FALSE

---------------------------------------------------------------------------
\* The subscription is there, with the right metadata, for at least 3 more blocks.
Good(s) == chain[s].meta = "own" /\ chain[s].left >= 3

\* The goroutine of s looks at the chain.  If it sees nothing to wait for, or does not
\* see anything because a call fails, it asks for a subscription at once.
Look(s) ==
    /\ pc[s] = "check" /\ Good(s)
    /\ pc' = [pc EXCEPT ![s] = "wait"]
    /\ \E n \in Shortened(chain[s].left) : timer' = [timer EXCEPT ![s] = n]
    /\ UNCHANGED <<world, chain, txPool, replaced, queue, worker, sleep, closed>>

SeeNothing(s) ==
    /\ pc[s] = "check"
    /\ pc' = [pc EXCEPT ![s] = "wait"] /\ timer' = [timer EXCEPT ![s] = 0]
    /\ UNCHANGED <<world, chain, txPool, replaced, queue, worker, sleep, closed>>

\* nextSub fires: addToSubscribeQueue, which discards the request if the queue is
\* full.  The goroutine rests for about the interval, an hour at most.
RequestIfEmpty(s) ==                                             \* mutant
    /\ pc[s] = "wait" /\ timer[s] = 0
    /\ queue' = IF queue = <<>> THEN Append(queue, s) ELSE queue
    /\ pc' = [pc EXCEPT ![s] = "rest"]
    /\ \E n \in Shortened(Interval) :
          timer' = [timer EXCEPT ![s] = AtMost(n, CheckInterval)]
    /\ UNCHANGED <<world, chain, txPool, replaced, worker, sleep, closed>>
Request(s) ==
    /\ pc[s] = "wait" /\ timer[s] = 0
    /\ queue' = IF Len(queue) < QueueLen THEN Append(queue, s) ELSE queue
    /\ pc' = [pc EXCEPT ![s] = "rest"]
    /\ \E n \in Shortened(Interval) :
          timer' = [timer EXCEPT ![s] = AtMost(n, CheckInterval)]
    /\ UNCHANGED <<world, chain, txPool, replaced, worker, sleep, closed>>

Wake(s) ==
    /\ pc[s] = "rest" /\ timer[s] = 0
    /\ pc' = [pc EXCEPT ![s] = "check"]
    /\ UNCHANGED <<world, chain, txPool, replaced, timer, queue, worker, sleep, closed>>

\* closeChan is looked at wherever a timer is awaited.
Close ==
    /\ ~closed /\ closed' = TRUE
    /\ UNCHANGED <<world, chain, txPool, replaced, pc, timer, queue, worker, sleep>>
LeaveTheSelect(s) ==                                             \* mutant
    /\ closed /\ pc[s] \in {"wait", "rest"}
    /\ pc' = [pc EXCEPT ![s] = "check"]
    /\ UNCHANGED <<world, chain, txPool, replaced, timer, queue, worker, sleep, closed>>
Leave(s) ==
    /\ closed /\ pc[s] \in {"wait", "rest"}
    /\ pc' = [pc EXCEPT ![s] = "done"]
    /\ UNCHANGED <<world, chain, txPool, replaced, timer, queue, worker, sleep, closed>>

Renew(s) == Look(s) \/ SeeNothing(s) \/ Request(s) \/ Wake(s) \/ Leave(s)

---------------------------------------------------------------------------
\* The worker takes a request and tries up to maxRetry times; it sleeps after that,
\* whether or not one succeeded.
Take ==
    /\ worker = Idle /\ queue # <<>>
    /\ worker' = Trying(Head(queue), 0)
    /\ queue' = Tail(queue)
    /\ UNCHANGED <<world, chain, txPool, replaced, pc, timer, sleep, closed>>

TryOnceMore ==                                                   \* mutant
    IF worker.tries < MaxRetry
    THEN worker' = Trying(worker.service, worker.tries + 1) /\ UNCHANGED sleep
    ELSE worker' = Sleeping /\ sleep' = ConfirmTime
TryAgain ==
    IF worker.tries + 1 < MaxRetry
    THEN worker' = Trying(worker.service, worker.tries + 1) /\ UNCHANGED sleep
    ELSE worker' = Sleeping /\ sleep' = ConfirmTime
TryFails ==
    /\ worker.at = "try" /\ TryAgain
    /\ UNCHANGED <<world, chain, txPool, replaced, pc, timer, queue, closed>>

\* A transaction with the nonce the chain expects next takes the place of the first
\* one in the pool; any other is put behind those.
Enter(s) ==
    IF replace /\ txPool # <<>>
    THEN /\ txPool' = <<s>> \o Tail(txPool)
         /\ replaced' = (replaced \/ Head(txPool) # s)
    ELSE txPool' = Append(txPool, s) /\ UNCHANGED replaced
\* The transaction is accepted, but the answer is an error: the worker tries again.
ReplyLost ==
    /\ worker.at = "try" /\ TryAgain
    /\ Enter(worker.service)
    /\ UNCHANGED <<world, chain, pc, timer, queue, closed>>
TrySucceeds(s) ==
    /\ worker.at = "try" /\ worker.service = s
    /\ Enter(s)
    /\ worker' = Sleeping /\ sleep' = ConfirmTime
    /\ UNCHANGED <<world, chain, pc, timer, queue, closed>>

WakeAtOnce ==                                                    \* mutant
    /\ worker.at = "sleep"
    /\ worker' = Idle
    /\ UNCHANGED <<world, chain, txPool, replaced, pc, timer, queue, sleep, closed>>
WakeWorker ==
    /\ worker.at = "sleep" /\ sleep = 0
    /\ worker' = Idle
    /\ UNCHANGED <<world, chain, txPool, replaced, pc, timer, queue, sleep, closed>>

Work ==
    \/ Take \/ TryFails \/ ReplyLost \/ WakeWorker
    \/ \E s \in Services : TrySucceeds(s)

---------------------------------------------------------------------------
Countdown(n) == IF n > 0 THEN n - 1 ELSE 0
Aged(sub) == IF sub.left > 1 THEN [meta |-> sub.meta, left |-> sub.left - 1] ELSE None

\* All goroutines wait for their timers: a block takes much longer than their steps.
Quiet ==
    /\ \A s \in Services :
        \/ pc[s] = "done"
        \/ pc[s] \in {"wait", "rest"} /\ timer[s] > 0 /\ ~closed
    /\ \/ worker = Idle /\ queue = <<>>
       \/ worker.at = "sleep" /\ sleep > 0

\* The chain adds a block with the first n transactions of the pool.  A prompt chain
\* leaves none over when the worker wakes.
Block(n) ==
    /\ Quiet
    /\ Prompt /\ sleep <= 1 => n = Len(txPool)
    /\ chain' = [s \in Services |->
                    IF \E i \in 1 .. n : txPool[i] = s
                    THEN [meta |-> "own", left |-> duration] ELSE Aged(chain[s])]
    /\ txPool' = SubSeq(txPool, n + 1, Len(txPool))
    /\ timer' = [s \in Services |-> Countdown(timer[s])]
    /\ sleep' = Countdown(sleep)
    /\ UNCHANGED <<world, replaced, pc, queue, worker, closed>>

---------------------------------------------------------------------------
Next ==
    \/ \E s \in Services : Renew(s)
    \/ Work
    \/ Close
    \/ \E n \in 0 .. Len(txPool) : Block(n)

Spec == Init /\ [][Next]_vars

\* Goroutines go on, blocks are made, calls to the chain succeed now and then.
FairSpec ==
    /\ Spec
    /\ \A s \in Services :
        WF_vars(Renew(s)) /\ SF_vars(TrySucceeds(s))
    /\ WF_vars(Work)
    /\ WF_vars(\E n \in 0 .. Len(txPool) : Block(n))

---------------------------------------------------------------------------
\* Types, and that the queue is bounded.
TypeOK ==
    /\ duration \in Durations /\ replace \in BOOLEAN
    /\ chain \in [Services -> Subscriptions]
    /\ txPool \in Seq(Services) /\ replaced \in BOOLEAN
    /\ pc \in [Services -> {"check", "wait", "rest", "done"}]
    /\ timer \in [Services -> Nat]
    /\ queue \in Seq(Services) /\ Len(queue) <= QueueLen
    /\ worker \in {Idle, Sleeping}
                  \cup [at : {"try"}, service : Services, tries : 0 .. MaxRetry - 1]
    /\ sleep \in 0 .. ConfirmTime /\ closed \in BOOLEAN

\* If ConsensusTimeout is long enough for the chain, no service's transaction takes the
\* place of another's in the pool, though all of them are given the nonce the chain
\* expects and a call that seemed to fail may have left one there: the worker goes on to
\* the next service only after sleeping that long.
NeverReplaced == Prompt => ~replaced

\* As long as the node runs, no service stays without
\* a subscription of its current metadata for ever, whatever calls fail: the goroutine
\* looks again after every request, and so makes up for those the worker gave up.
Renewed == \A s \in Services : []<>(closed \/ chain[s].meta = "own")

\* All renewing goroutines of a node that closes end, wherever they wait.
EndsOnClose == closed ~> \A s \in Services : pc[s] = "done"
===========================================================================
