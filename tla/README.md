# A TLA+ model of TUNA

TUNA sells bandwidth. A *client* tunnels TCP and UDP traffic through a *node* and
pays the node for it with NKN nano pays; nodes advertise themselves by subscribing
to a topic on the NKN chain. A tunnel runs either way:

* **forward**: the client runs a `TunaEntry` (`Start`), which listens locally; the
  node runs a `TunaExit` (`Start`), which dials the services. The entry pays.
* **reverse**: the client, behind a NAT, runs a `TunaExit` (`StartReverse`); the node
  runs the function `StartReverse` of `entry.go`, which listens for the public. The
  exit pays.

In both, the client selects the node and connects to it, the two shake hands, TCP
traffic is carried by streams of one smux session, UDP by encrypted datagrams, and
one more stream of the session carries payments.

## 1. Inventory

| Component | Code | State | Operations | What makes it hard |
|---|---|---|---|---|
| Traffic payment | `tuna.go` 1230-1312, 1612-1779; `exit.go` 146-268; `entry.go` 190-297 | byte counters at both ends, bytes paid, last cost, nano pay, claimer, totals with a delay | pay when due; claim; watch and cut off | two programs with loops and timers of their own; sessions lost in between; cumulative amounts; integer division |
| Node selection | `tuna.go` 728-1099 | metadata, price, receiver, remote address | collect, filter, measure, try | metadata changes between the check and the use; candidates fail half way |
| Access filters | `filter/`, `geo/geo.go` | allow and disallow lists | decide | precedence, empty entries |
| Favorite and avoided nodes | `storage/`, `tuna.go` 1101-1228 | two maps, two files | load, expire, add, save | concurrent jobs, each method with its own lock; crashes while writing |
| Entry session and lifecycle | `entry.go` 101-473, `tuna.go` 1314-1380 | session, session lock, closed flag, connections, pipes, wait group | get a session, serve a connection, close | many goroutines find the session dead; closing while connecting; lingering |
| Reverse entry UDP | `entry.go` 475-880, `udp.go` | seven `sync.Map`s, ready channels, bounded queues | hello, handshake, relay, close | one reader for all clients, rendezvous over maps and channels |
| Forward UDP relay | `tuna.go` 402-506, `exit.go` 339-441 | codecs, last address, service sockets with expiry, counters | hello, relay, answer, expire | one reader for all entries, an address shared by two goroutines, port numbers as keys |
| Reverse exit loop | `exit.go` 489-727, `tuna.go` 666-726 | connections, where the service is found, goroutines per connection | connect, agree, serve, reconnect, close | fails half way at every point; Close while connecting; goroutines of old connections |
| Forward exit | `exit.go` 146-330 | services, per session counters | accept, dial, pipe | unlocked maps |
| Subscription | `tuna.go` 1426-1523, `subqueue.go` | timers, bounded queue | look, request, subscribe, renew | calls to the chain fail, the queue is full, transactions replace each other |
| Handshake and ciphers | `tuna.go` 508-664, `encryption.go` | shared keys | agree on a key | cryptography of libraries |
| Measurement, seed lookup, geo providers, configuration, commands, messages | `util/`, `util.go`, `geo/`, `config.go`, `cmd/`, `pb/`, `types/` | files, timers | I/O | not modelled: third-party formats, clocks, generated code |

How they interact: the entry's `getSession` calls node selection, which fills the
metadata, price and payment receiver; payment gets its stream from `getSession` and
its receiver from the selection; pipes fill the counters that payment reads; node
selection loads and feeds the favorite nodes; the reverse entry makes a `TunaEntry`
per client, whose TCP side is the entry session and whose UDP side is the shared
reader. `PROJECT.json` lists the hazards of the code, each at its line, with the
properties that are about it.

## 2. Plan

Ordered by what matters most to the two parties: money, then whom one connects to,
then what is left open or stuck.

| Step | Module | Status |
|---|---|---|
| A | `TrafficPayment`, which implements `PaymentLedger`, with `TrafficPaymentProofs` | done, safety and refinement proved |
| B | `NodeSelection` over `AccessFilter`, with `NodeSelectionProofs` | done, safety proved |
| C | `FavoriteStore`, which implements `SavedCopy` twice, with `FavoriteStoreProofs` | done, safety and refinement proved |
| D | `EntrySession`, with `EntrySessionProofs` | done, safety proved |
| E | `ReverseUdp`, with `ReverseUdpProofs` | done, safety proved |
| F | `ForwardUdp`, which implements `DatagramService`, with `ForwardUdpProofs` | done, safety and refinement proved |
| G | `Subscription`, with `SubscriptionProofs` | done, safety proved |
| H | `ReverseExit`, with `ReverseExitProofs` | done, safety proved |
| I | bandwidth measurement: cancellation after enough results | later |
| J | payment composed with the session lifecycle | later |

## 3. Modules

Conventions: a goroutine is a process with a label (`pc`) or a state of its own; a
step is what happens between two points where others can be seen to act: a lock
taken or released, a channel operation, a map access, a network call. Definitions
marked `\* mutant` are deliberately broken variants of the definition after them,
used to see that a property can fail; no specification uses them. Counters that
only grow are bounded by constants in the guards, which the configurations set.

### PaymentLedger and TrafficPayment (and MCTrafficPayment, TrafficPaymentProofs)

One payer over a sequence of sessions, with one payee process per session.
`PaymentLedger` is what is left when sessions, streams, timers and bytes are taken away:
a bill, cheques for no more than is owed, each made out to one node, and credit that the
node which serves takes from a cheque to it, no part twice while it serves. It does not
promise more than that: a session starts with a claimer at zero (`exit.go` 152-188), so
after a reconnect to the same node the cumulative cheque is credited in full again
(`Serve` takes the credit away, the cheque stays). `TrafficPayment` implements it
(`ImplementsLedger`): the bill is the cost of `used`, the cheque the `nanoPay`, the credit
`lastAmount`; a signature is a `Sign` or, to a new recipient, a `SignNew`, a claim that
succeeds a `Take`, a new session a `Serve`, and all else a stutter.

| Model | Code |
|---|---|
| `used`, `served` | the byte counters of payer and payee, incremented by `copyBuffer` |
| `paid`, `lastCost`, `sincePay` | `bytes...Paid`, `lastCost`, `lastPaymentTime` of `startPayment` |
| `pick` | the increment between its computation and its being sent, with the session and the recipient it was picked for |
| `nanoPay`, `signed` | the `NanoPay` object; a history of all that was ever signed |
| `fresh`, `visible` | the totals that `checkPayment` sees `trafficDelay` late |
| `claimer` | `nkn.NanoPayClaimer` (external): current id, its amount, amount of ids before |
| `lastAmount`, `bytesPaid`, `sinceClaim` | `lastPaymentAmount`, `bytesPaid`, `lastPaymentTime` of the payee |
| `asleep`, `left`, `captured` | `checkPayment` sleeping `maxNanoPayDelay` with the totals it will judge |
| `skipped` | a history: at the last tick of that sleep `startPayment` was skipping a due increment for being equal to `lastCost` |

`Pick`, `Send`, `SendFails`, `SignFails` are `startPayment`; `ClaimPayment`,
`RejectPayment` (together `ReceivePayment`) and `DropPayment` are `handlePaymentStream`
with `checkNanoPayClaim`;
`Watch`, `Judge` are the halves of `checkPayment`; `Tick` is `trafficDelay`. Bytes are
in units whose size the configuration chooses (`TrafficUnit` is 1 or 2 of them), and
integer division is that of the code. The payee knows the price its node asks; the
payer uses the one it read when it began, also after it reconnects elsewhere.
Abstracted: the fee (not part of the amount), the minimum flush, the direction of
the tunnel (the code is the same with the roles exchanged).

### AccessFilter and NodeSelection (and MCNodeSelection, NodeSelectionProofs)

`AccessFilter` is the decision of `NknFilter.IsAllow` and `IPFilter.AllowLocation`,
an entry being the set it matches and whether it has any field set: one that has and
matches nothing makes an allow list admit nobody. In `NodeSelection` the chain (`chain`) and the
nodes (`up`) change at any time; `Fetch`, `Filter` and `Try` are `nknFilterContext`,
`filterSubscribers` with measurement, and the body of the loop over candidates. The
two prices are one, delays and bandwidths are any order, and the random sample of a
large topic is any non-empty subset. The client's configuration (`conf`: NKN filter
with the metadata given in it, IP filter, sampling, bandwidth measurement) is chosen in
`Init`, so that one run covers several. A candidate is skipped, its metadata adopted
already, when its price does not parse or its receiver cannot be paid (`Adoptable`: a
beneficiary that is no wallet address, or a white-listed address that is mistyped).

### SavedCopy and FavoriteStore (and FavoriteStoreProofs)

Concurrent jobs of one measurement, run by the goroutines in `pool` (a non-empty
subset of `Workers` chosen in `Init`), and the goroutine that calls `Load` (`Main`). `AddFavoriteNode` takes a step per critical section of `Storage`: length,
comparison, choice, deletion, addition; a save truncates, then writes, and fails at
either (`SaveFails`, `SaveAvoidFails`; the histories `result` and `avoidResult` say how
the last one went), which a worker only logs and `Load` gives up on. `Crash` loses
memory and leaves the files, perhaps torn; `Load` takes a torn file for an empty one
as `loadFavoriteData` does. The data of a node is its speed and its expiry.

`SavedCopy` is a map with a copy on disk: whoever changes and saves it while it is open,
the copy is all that the map was at one moment, or torn by a crash or a failed save, and
the map is closed only when the copy is up to date or its last save failed. `FavoriteStore` implements it for the favorites and for
the avoided nodes (`ImplementsCopies`): a map is open while a measurement goes on, and a
save counts from when its data is taken under the lock of the file.

### EntrySession (and MCEntrySession, EntrySessionProofs)

The accept loop, the payment goroutine and one goroutine per local connection get
the session; `Enter`, `Reuse`, `Search`, `Connect` are `getSession` under
`sessionLock`; `OpenStream`, `PipeStart`, `PipeEnd` serve a connection; `Call`,
`WaitSessions`, `Close` are a user's or the accept loop's `Close`. `Lose` is the
transport breaking, `HangUp` an application or service closing. The `mode` of the
entry, chosen in `Init`, gives `Reverse`, `ShouldReconnect` and `Linger`.

### DatagramService and ForwardUdp (and MCForwardUdp, ForwardUdpProofs)

`DatagramService` is what clients may rely on: an answer reaches only clients that use
the port of the client which asked, and that asked something themselves; requests and
answers may be lost, repeated or reordered. `ForwardUdp` is shown to implement it: the
refinement maps `asked` and `got` to themselves, a client to its port, a request to
the client it is from, and everything between the sockets to stuttering steps.

| Model | Code |
|---|---|
| `conn`, `Connect`, `hellos` | `UpdateServerConn` and `wrapUDPConn` of an entry; the reader and writer of an entry are those of its first connection (`entry.go` 119) |
| `shake`, `ready`: `StoreKey`, `SignalReady`, `StartSession`, `WrapFails` | `wrapConn` and `handleSession` in the exit's goroutine for a TCP connection; `connReadyChan` |
| `reader`: `ReceiveHello`, `AddCodec`, `CodecFails`, `Track`, `ReceiveRequest`, `Push`, `CountRequest`, `Ping` | the first goroutine of `startUDPReaderWriter`, with `ReadFromUDPEncrypted` |
| `writer`: `Write`, `CountAnswer` | the second one, with `WriteMsgUDPEncrypted` |
| `from` | the variable that both use, the address last read from |
| `codec`, `tracked`, `counted`, `panicked` | encoders and decoders; `addrToKey`; the counters, and the index into counters that are not there yet |
| `inQueue`, `outQueue` | `udpReadChan`, `udpWriteChan` |
| `sockets`, `cache`: `Dispatch` (`Dial`, `Forward`, `DialFails`), `Expire`, `Collect`, `SocketFails`, `Unlist` | `readUDP`, `getServiceConn` with its goroutine per socket, `serviceConn` with its expiry |
| `Ask`, `Deliver` | `listenUDP` of an entry, both directions |

A request is a datagram with its sender and the service it is for; what is in it is not
looked at. Losing a datagram is never receiving it.

### ReverseUdp (and ReverseUdpProofs)

The UDP goroutine of `StartReverse` (`reader`), the handler of each exit's TCP
connection (`handler`), the writer and the consumer of each entry, and the maps
between them: `known` is `tcpEntrys` with `encKeys`; `tcpReady`, `udpReady` the
channels; `codec` the encoders and decoders; `bound` is `udpEntrys`, `addrToKey` and
`keyToAddr`. Each connection has its own address and uses an encryption; three
copies of the hello are sent, of which `Copies` arrive, at any time. A codec that cannot
be made ends the reader, for all exits (`entry.go` 639). `taken`, a history of
what `listenUDP` took from each queue, is there for `AllCounted`: what is taken or queued
is what is counted, give or take the one datagram between its `Push` and its `Count`.

### ReverseExit (and MCReverseExit, ReverseExitProofs)

The loop of the exit's `StartReverse` (`pc`), `Close` at any time, and the goroutines
started for each UDP connection. `Found`, `Dial`, `DialUdp` and their failures are
`CreateServerConn` with `UpdateServerConn`, in the order in which old connections are
closed and new ones set; a failed `wrapUDPConn` (`WrapUdpFails`) leaves its new socket
open, in no field (`leaked`); `Tend` starts the reader, the pinger and the writer; `Agree`
stands for the exchange of metadata, the test of the port and the payment stream, any
of which `AgreeFails`; `Report` is what happens under the lock that `Close` needs;
`NextRound` is the end of the session. Names of connections are used again when
nothing has to do with them any more, so that the exit may reconnect for ever. The
goroutines of `readUDP`, one more per round, are not modelled: after `Close` they wait
for a datagram (`exit.go` 423), and `EndsOnClose` says nothing about them.

### Subscription (and SubscriptionProofs)

`UpdateMetadata`'s goroutine per service (`Look`, `SeeNothing`, `Request`, `Wake`,
`Leave`), the queue and its worker (`Take`, `TryFails`, `ReplyLost`, `TrySucceeds`, `WakeWorker`),
and the chain (`Block`), which counts down subscriptions and timers. Time is counted in
blocks, and passes when all goroutines wait (`Quiet`): their steps take much less
than the 20 s of a block. `Enter` is the pool of a chain that lets a transaction with
the same nonce replace another; a call that reports an error may have entered its
transaction (`ReplyLost`) and is repeated all the same. That the chain confirms within
`ConsensusTimeout`, which the worker sleeps, is the constant `Prompt`. The fee, and the balance that bounds it, are left out.

## 4. Runs

Runs that pass:

| Run | Shows | Instance |
|---|---|---|
| `payment` | `TypeOK`, `NeverOverpays`, `NeverRejected`, `ImplementsLedger` (the refinement), `FreeloaderCutOff` | 2 nodes with different prices, 2 sessions, 2 units of bytes per direction, prices that do not divide, failing signatures, fairness |
| `payment_ontime` | `CutoffOnlyWhenSkipped` | timers as in the code (6 and 3 ticks), a threshold of 2 units and 3 per direction, so that both causes of a cut-off occur, a prompt payer |
| `select` | `TypeOK`, `ConnectedConsistent`, `ConnectedAllowed`, `ConnectedEligible`, `FindsNode` | 3 nodes and a mistyped address, metadata with a broken price, with a bad beneficiary and at an address filtered out, a favorite, one publication; a sampled topic with measurement, a whole topic, a white list with an entry pinned to given metadata, an IP filter that admits nobody |
| `favorites` | `TypeOK`, `FilesMatchMemory`, `BoundedWhenAlone`, `ImplementsCopies` (the refinement), `MeasurementEnds` | 1 or 2 workers, 2 nodes, room for one favorite, entries that expire with the next tick, 2 measurements, failing saves, crashes, fairness |
| `session` | `TypeOK`, `OneSession`, `CloseReturns`, `PipesEnd`, `LossCloses`, `TornDown` | 1 connection with the accept loop, payment and a user, 2 sessions; forward entries that reconnect or not and linger for a time or without limit, a reverse entry; fairness |
| `udp` | `TypeOK`, `WriterEncrypts`, `AllCounted`, `CountsKept`, `ReaderReturns` | 2 exits, 2 hellos, queue of 1, failing handshakes and codecs, closing entries, fairness |
| `relay` | `TypeOK`, `AllCounted`, `OwnService`, `ImplementsService` (the refinement), `ReaderReturns` | 2 entries, 3 clients of which two have the same port, 2 services, 2 hellos, failing codecs, queues of 1, 2 service sockets, fairness |
| `subscribe` | `TypeOK`, `NeverReplaced`, `Renewed`, `EndsOnClose` | 2 services, subscriptions of 6 blocks, a queue of 2, 2 tries, lost replies, 1 block to confirm, fairness |
| `revexit` | `TypeOK`, `OneConnection`, `EndsOnClose`, `ServedAgain` | 3 names of connections, one leaked socket, exits that reconnect or not, with UDP or without, fairness |

Runs that TLC refutes, each a disagreement between the code and what it says of
itself (`findings` in `PROJECT.json` quotes it):

| Run | Property | What happens |
|---|---|---|
| `payment_honest` | `HonestPayerKept` | `bytesPaid` is a multiple of the integer quotient of claim and cost, so 0 until everything is paid; the check starts for a payer on time and may find too little |
| `payment_reconnect` | `PaidAfterReconnect` | a failed payment ends the paying goroutine, sessions after it are free |
| `session_leak` | `AllClosed` | a session is installed after `Close` has looked |

The models contain more that no run is spent on, named at the hazard in
`PROJECT.json` or in the comment of the property that makes room for it: an increment
equal to the last one is skipped, and for ever if traffic stops there (the first cause in
`CutoffOnlyWhenSkipped`); a nano pay is credited anew by each session of its node
(`Serve` of `PaymentLedger`); metadata read again before connecting is not compared with
the maximum price (the premise of `ConnectedEligible`); two workers exceed the bound
of the favorites (the premise of `BoundedWhenAlone`), and so does one once expiry
times pass `math.MaxInt32`; `Close` with an unlimited linger may end under a pipe that
has not joined the wait group. The `continue` in the loop over avoided networks
(`tuna.go` 1044) goes on to the next network, so they exclude nobody (`Eligible`). A
handshake that fails at one side after the other side's hello was sent blocks the UDP
reader of a reverse entry or of a forward exit, and with it everybody's UDP; so does, in
a forward exit, the next copy of a hello whose codec could not be made, and in a reverse
entry the reader returns at that for all exits; the queue
of a closed reverse entry does so when it is full (the exceptions in both
`ReaderReturns`); a reader that looks for a channel before the handler stored it
(`entry.go` 654) leaves that entry's writer waiting. The exit sends answers to
whoever it last read from (`Write`), so they may go to another entry, and clients of
different entries with the same port share a service socket (the premises of
`DatagramService` and `OwnService`). A counter that is not there yet ends the process
(`panicked` in `AllCounted`). A request that finds the cached socket closed is lost. A
subscription may lapse before it is renewed, since the timer takes up to all of the time
that is left (`Shortened`), and with a shorter queue, or a worker that does not keep up
with the requests, `Renewed` fails: a service's requests may be discarded each time. A
reverse exit that is closed while it connects leaves that connection open (the exception
in its `EndsOnClose`), a failed `wrapUDPConn` leaves a socket that nothing closes
(`leaked`), and old writers live on until `Close`.

**Bounds.** Two of everything that competes (sessions, workers, connections, exits)
is what the races need, or one of each of three kinds (`session`: the accept loop,
payment and a connection); a third node is there where one is skipped for another. Two units of traffic per direction with a unit price of 2
give every rounding of the two divisions; two sessions on two nodes give every order
of lost payments and new recipients. A queue of 1 is full after one datagram. Time
is capped just above what it is compared to. In `relay` one client of each entry shares
a port, two share an entry, and two a service: every way of being mistaken for each
other; two requests at a time overtake each other in every queue and socket. In
`subscribe` two services compete for the worker and the queue, and a subscription
lasts longer than both requests take. In `revexit` a connection, its successor and a
third, of a leaked socket or of a predecessor's last goroutine, are three names; one leaked
socket is enough to be confused with the stored one. In `favorites` entries live for no
tick, so that each of them expires before or after any step. The theorems remove the bounds of the
properties they prove.

**Deadlock** is checked in the payment runs. The others stop where the program does:
connected or stopped, all connections handled and closed, the bounds reached.

**Fairness.** A goroutine that can go on does so (weak fairness); one that waits for
a mutex or for its turn in the shared reader gets it in the end (strong fairness:
Go's mutexes do not starve, and each datagram is read; in `favorites` weak fairness does,
since the jobs are finite and the lock is free for good in the end). Nothing is assumed of the
world: traffic, losses, hangups, searches that succeed, payments that become due.
`FindsNode` needs an acceptable node in the end and a configuration that leaves
nothing to chance, and says so. Two runs need the world to be kind now and then
(strong fairness): in `revexit` dialling and agreeing succeed at times if tried
again and again, in `subscribe` the calls of the worker to the chain do, and blocks are
made. `PromptSpec` of
`TrafficPayment` assumes in addition that nobody lets 10 s pass with work at hand
and that nothing fails: it is used to see whom `checkPayment` cuts off by itself.

## 5. Proofs

`tlapm` checks these for all values of the constants that satisfy the assumptions
named in the modules:

* `TrafficPaymentProofs`. `TypeCorrect`; `NeverOverpaysHolds`: the invariant is that
  `signed` is at most the cost of what is paid, and with an increment picked, the cost
  of what that covers; its heart is that costs of parts, each rounded down, add up to
  at most the cost of the whole (`DirCostSplit`, `CostSplit`); by how much less is the
  action property `RoundingBounded`. `NeverRejectedHolds` and `CreditBackedHolds`: the
  transactions on the stream and the claimer's state are ordered by id and amount, below
  the payer's nano pay, and the amounts of ids still to come are disjoint from those
  claimed. `ImplementsLedgerHolds` puts these together, step by step (`LedgerSign`,
  `LedgerStep`): a signed increment is positive and owed, a claim finds its amount on the
  cheque and above what was credited, and before the first signature there is nothing on
  the cheque (`NanoPayInv`).
  `CutoffOnlyWhenSkippedHolds` is about `PromptSpec`, for any threshold; it names the two
  causes of a cut-off, a skipped increment and traffic beyond the threshold that
  `bytesPaid` does not show as paid, and leaves aside a shortfall within what rounding
  spared the payer. Its invariant (`PromptInv`) relates the
  clocks of the two ends: between two ticks a payment that is due is sent and claimed, so
  both have waited equally long; when the payee starts its wait for what it sees, the
  payer pays for at least that in time, or nothing is due, or the increment equals the
  last one, and stays unpaid; the rest is what rounding took, bounded as above.
* `NodeSelectionProofs`. The invariant carries what the filter found of each candidate
  to the connection and says that a node is adopted as a whole or not at all: from it
  `TypeCorrect`, `ConnectedConsistentHolds`, `ConnectedAllowedHolds` and
  `ConnectedEligibleHolds`.
* `FavoriteStoreProofs`. `TypeCorrect`; `FilesMatchMemoryHolds`: unless somebody has yet
  to save, the file, or the snapshot being written under its lock, is what memory
  holds; nobody adds avoided nodes while they are written; workers work only while the
  measurement waits for them. `BoundedWhenAloneHolds` rests on lemmas about the number of
  entries of a map (`SizeRemoved`, `SizeAdded`): the only worker adds with room to spare
  or after it deleted, and it finds a victim because, of finitely many expiry times, one
  is the earliest (`Earliest`) and none reaches the horizon (`ExpiryInv`). Finitely many
  nodes and workers, and a clock that stays below the horizon, are its hypotheses.
  `ImplementsCopiesHolds`: while a file is written, its lock keeps the adders of avoided
  nodes out, and the favorites are written from a snapshot, which stands for the file that
  is torn meanwhile (`CopyInv`); a measurement ends when every job has saved
  (`MeasuredSaved`).
* `EntrySessionProofs`. `TypeCorrect` includes that `sessionLock` is held by exactly
  the goroutine that searches, and that the mode stays; nobody searches while the
  session is open, so only the last session can be open (`OneSessionHolds`).
  `PipesTogetherHolds`: stream and local connection of a handler are open together until
  one of its pipes ends, and closed together from then on. Two theorems bound what the
  run `session_leak` finds: a closed reverse entry has no session open
  (`ReverseClosedHolds`), and in any entry at most one session is made after Close, the
  one somebody was making (`OneLateSessionHolds`, an action property over a budget that
  no step exceeds).
* `ReverseUdpProofs`. One invariant says in which order handler and reader fill the
  maps; from it follow `TypeCorrect`, `WriterEncryptsHolds`, `KeyFoundHolds` and, as an
  action property, `CountsKeptHolds`. `AllCountedHolds` follows a datagram from the exit
  to `listenUDP`: what was sent is at least what is on its way, in the reader's hands,
  and counted (`SentOrder`), and each datagram taken or queued is counted once.
* `ForwardUdpProofs`. The invariant has two halves: in which order handshake and reader
  fill the maps (`OrderInv`, with `KeyFound`: the reader finds the key of each
  connection it is woken for, and `AllCounted`), and what travels through queues,
  sockets and network (`PipeInv`: a request in a socket has that socket's port, an
  answer the port of a request that was made, an entry gets only answers to clients that
  asked). From the second half follow `OwnServiceHolds` and, step by step,
  `ImplementsServiceHolds`: each `Deliver` is an `Answer` of `DatagramService`, each
  `Ask` an `Ask`, every other action a stutter. `CountedOnceHolds`: what is counted was
  received, and is not counted again.
* `ReverseExitProofs`. `OneConnectionHolds`: between closing the old TCP connection and
  setting the new one, none is open, and the UDP socket being dialled is one that no field
  and no goroutine knows yet (`NewSocket`), so that what a failed `wrapUDPConn` leaves
  open stays out of everybody's reach. `ServeHolds`: while the exit serves, what it
  reported is what it serves and Close leaves nothing else open (it misses a connection
  only while one is made), and the loop returns only when the exit is closed, which its
  writers wait for.
* `SubscriptionProofs`. `NeverReplacedHolds`: on a prompt chain the worker finds the pool
  empty when it takes a request, for the last block before it wakes takes all that is in
  it; while it tries, the pool holds at most a transaction of each try that seemed to fail
  (`Confirmed`). `OneServiceHolds` adds that all transactions in the pool are of one
  service then, and that with `subscriptionReplaceTxPool` there is never more than one,
  on any chain.

The constants are assumed to be of their types, prices natural numbers and the unit
positive; the names of processes are distinct.

Every invariant and every refinement that a run checks is proved. Only model-checked are
the liveness properties, since fairness and `ENABLED` are beyond the prover:
`FreeloaderCutOff`, `FindsNode`, `MeasurementEnds`, `CloseReturns`, `PipesEnd`,
`LossCloses`, `TornDown`, both `ReaderReturns`, `Renewed`, both `EndsOnClose` and
`ServedAgain`. Some theorems are about properties that no run checks, defined beside
their proofs: `CreditBacked`, `RoundingBounded`, both `KeyFound`, `CountedOnce`,
`PipesTogether`, `ReverseClosed`, `OneLateSession`, `ServeInv` and `OneServiceInPool`.

## 6. Not modelled

See the table of components. Ciphers, key agreement, nano pay signatures and smux are
libraries; their behaviour enters as success or failure. Geolocation and bandwidth
measurement are I/O whose results enter as choices; the cancellation of a measurement
after enough results only saves time. The exit's dialling of a service for a stream
shares no state with anything else. The query of seed servers collects answers of
independent calls. Data races on the per session counter maps (`exit.go` 160) end the
process, which no model here includes, and the same holds for an address reused
by another connection while the exit still has a codec for it (`udp.go` 86).
