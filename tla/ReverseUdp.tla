----------------------------- MODULE ReverseUdp -----------------------------
(***************************************************************************)
(* The UDP side of a reverse entry.  One goroutine reads the datagrams of  *)
(* all exits; each exit's TCP connection has a handler; the two meet in    *)
(* sync.Maps and ready channels keyed by the connection (public key and    *)
(* nonce).  The exit announces its UDP address with three copies of a      *)
(* plain datagram, the hello, and encrypts what follows.  Every connection *)
(* has a UDP address of its own.                                           *)
(***************************************************************************)
EXTENDS Naturals, FiniteSets

CONSTANTS
    Exits,           \* connections of exits
    Copies,          \* hellos that arrive, of the three sent
    Capacity,        \* capacity of udpReadChan (64)
    None,            \* no exit
    MaxData          \* bound: datagrams each exit sends

ASSUME ParameterAssumption ==
    /\ None \notin Exits
    /\ Copies \in 1..3 /\ Capacity \in Nat \ {0} /\ MaxData \in Nat

VARIABLES
    handler,    \* how far the goroutine of each TCP connection is
    known,      \* exits in tcpEntrys and encKeys
    tcpReady,   \* closed channels of tcpReady
    udpReady,   \* channels of udpReady: "none", "made", "closed"
    closed,     \* entries whose isClosed is set
    reader,     \* what the UDP goroutine does next
    current,    \* with the datagram of whom
    codec,      \* addresses with an encoder and a decoder
    bound,      \* addresses in udpEntrys, addrToKey, keyToAddr
    counted,    \* reverseBytesEntryToExit, in datagrams
    queue,      \* length of each entry's udpReadChan
    taken,      \* history: datagrams listenUDP took from it
    consumer,   \* the goroutine of listenUDP that empties it
    writer,     \* the goroutine that empties udpWriteChan
    hellos,     \* hellos on their way
    data,       \* encrypted datagrams on their way
    sent        \* datagrams each exit sent

maps == <<known, tcpReady, udpReady, closed>>
binding == <<codec, bound, counted>>
network == <<hellos, data, sent>>
vars == <<handler, maps, reader, current, binding, queue, taken, consumer, writer, network>>

Init ==
    /\ handler = [k \in Exits |-> "none"]
    /\ known = {} /\ tcpReady = {} /\ closed = {}
    /\ udpReady = [k \in Exits |-> "none"]
    /\ reader = "read" /\ current = None
    /\ codec = {} /\ bound = {} /\ counted = [k \in Exits |-> 0]
    /\ queue = [k \in Exits |-> 0] /\ taken = [k \in Exits |-> 0]
    /\ consumer = [k \in Exits |-> "none"] /\ writer = [k \in Exits |-> "none"]
    /\ hellos = [k \in Exits |-> 0] /\ data = [k \in Exits |-> 0]
    /\ sent = [k \in Exits |-> 0]

Step(k, from, to) == handler[k] = from /\ handler' = [handler EXCEPT ![k] = to]

---------------------------------------------------------------------------
(* The exit. *)

\* It has read the entry's metadata: its handshake is done, and it says hello.
Connect(k) ==
    /\ Step(k, "none", "wrapping")
    /\ hellos' = [hellos EXCEPT ![k] = Copies]
    /\ UNCHANGED <<maps, reader, current, binding, queue, taken, consumer, writer, data, sent>>

\* It passes on what its service answers to a datagram it was sent.
SendData(k) ==
    /\ writer[k] # "none" /\ writer[k] # "wait" /\ sent[k] < MaxData
    /\ data' = [data EXCEPT ![k] = @ + 1] /\ sent' = [sent EXCEPT ![k] = @ + 1]
    /\ UNCHANGED <<handler, maps, reader, current, binding, queue, taken, consumer, writer, hellos>>

---------------------------------------------------------------------------
(* The handler of its TCP connection. *)

\* wrapConn may fail at the entry while the exit is done with its side.
WrapFails(k) ==
    /\ Step(k, "wrapping", "ended")
    /\ UNCHANGED <<maps, reader, current, binding, queue, taken, consumer, writer, network>>

Store(k) ==
    /\ Step(k, "wrapping", "stored")
    /\ known' = known \cup {k}
    /\ UNCHANGED <<tcpReady, udpReady, closed, reader, current, binding, queue, taken, consumer,
                   writer, network>>

SignalTcp(k) ==
    /\ Step(k, "stored", "signalled")
    /\ tcpReady' = tcpReady \cup {k}
    /\ UNCHANGED <<known, udpReady, closed, reader, current, binding, queue, taken, consumer,
                   writer, network>>

MakeUdpReady(k) ==
    /\ Step(k, "signalled", "waiting")
    /\ udpReady' = [udpReady EXCEPT ![k] = "made"]
    /\ UNCHANGED <<known, tcpReady, closed, reader, current, binding, queue, taken, consumer,
                   writer, network>>

\* The service metadata is read: the writer starts, and StartReverse listens.
Serve(k) ==
    /\ Step(k, "waiting", "serving")
    /\ writer' = [writer EXCEPT ![k] = "wait"]
    /\ consumer' = [consumer EXCEPT ![k] = "check"]
    /\ UNCHANGED <<maps, reader, current, binding, queue, taken, network>>

\* The connection breaks before that; the deferred function does not find the entry
\* (it looks under another key), which stays open.
Abandon(k) ==
    /\ Step(k, "waiting", "ended")
    /\ known' = known \ {k}
    /\ UNCHANGED <<tcpReady, udpReady, closed, reader, current, binding, queue, taken, consumer,
                   writer, network>>

\* StartReverse returns, by then it has closed the entry.
Close(k) ==
    /\ Step(k, "serving", "closed")
    /\ closed' = closed \cup {k}
    /\ UNCHANGED <<known, tcpReady, udpReady, reader, current, binding, queue, taken, consumer,
                   writer, network>>

Forget(k) ==
    /\ Step(k, "closed", "ended")
    /\ known' = known \ {k}
    /\ UNCHANGED <<tcpReady, udpReady, closed, reader, current, binding, queue, taken, consumer,
                   writer, network>>

---------------------------------------------------------------------------
(* The goroutine that reads all datagrams. *)

Go(l, k) == reader' = l /\ current' = k
AtReader(l) == reader = l

\* A hello from an address that has a decoder does not decode, and is dropped.
ReceiveAnyHello(k) ==                                            \* mutant
    /\ AtReader("read") /\ hellos[k] > 0
    /\ hellos' = [hellos EXCEPT ![k] = @ - 1]
    /\ Go("ready", k)
    /\ UNCHANGED <<handler, maps, binding, queue, taken, consumer, writer, data, sent>>
ReceiveHello(k) ==
    /\ AtReader("read") /\ hellos[k] > 0
    /\ hellos' = [hellos EXCEPT ![k] = @ - 1]
    /\ IF k \in codec THEN UNCHANGED <<reader, current>> ELSE Go("ready", k)
    /\ UNCHANGED <<handler, maps, binding, queue, taken, consumer, writer, data, sent>>

\* It waits, with all the datagrams behind it, for the handler of the connection.
AwaitTcp ==
    /\ AtReader("ready") /\ current \in tcpReady
    /\ Go("key", current)
    /\ UNCHANGED <<handler, maps, binding, queue, taken, consumer, writer, network>>

\* An error, as over an algorithm in the hello that AddCodec does not support, ends the
\* goroutine, for all exits.
AddCodec ==
    /\ AtReader("key")
    /\ IF current \in known
       THEN \/ Go("entry", current) /\ codec' = codec \cup {current}
            \/ Go("returned", current) /\ UNCHANGED codec
       ELSE Go("read", None) /\ UNCHANGED codec
    /\ UNCHANGED <<handler, maps, bound, counted, queue, taken, consumer, writer, network>>

\* The counters of the connection are made, the maps of its address filled.
Bind ==
    /\ AtReader("entry")
    /\ IF current \in known
       THEN /\ Go("signal", current) /\ bound' = bound \cup {current}
            /\ counted' = [counted EXCEPT ![current] = 0]
       ELSE Go("read", None) /\ UNCHANGED <<bound, counted>>
    /\ UNCHANGED <<handler, maps, codec, queue, taken, consumer, writer, network>>

\* The channel in udpReady is closed if it is there by now.
SignalUdp ==
    /\ AtReader("signal") /\ Go("read", None)
    /\ udpReady' = IF udpReady[current] = "none" THEN udpReady
                   ELSE [udpReady EXCEPT ![current] = "closed"]
    /\ UNCHANGED <<handler, known, tcpReady, closed, binding, queue, taken, consumer, writer, network>>

ReceiveData(k) ==
    /\ AtReader("read") /\ data[k] > 0
    /\ data' = [data EXCEPT ![k] = @ - 1]
    /\ IF k \in bound THEN Go("push", k) ELSE UNCHANGED <<reader, current>>
    /\ UNCHANGED <<handler, maps, binding, queue, taken, consumer, writer, hellos, sent>>

\* It waits for room in udpReadChan, open entry or not.
PushAnyway ==                                                    \* mutant
    /\ AtReader("push")
    /\ queue' = [queue EXCEPT ![current] = @ + 1]
    /\ Go("count", current)
    /\ UNCHANGED <<handler, maps, binding, taken, consumer, writer, network>>
Push ==
    /\ AtReader("push") /\ queue[current] < Capacity
    /\ queue' = [queue EXCEPT ![current] = @ + 1]
    /\ Go("count", current)
    /\ UNCHANGED <<handler, maps, binding, taken, consumer, writer, network>>

CountNothing ==                                                  \* mutant
    /\ AtReader("count") /\ Go("read", None)
    /\ UNCHANGED <<handler, maps, binding, queue, taken, consumer, writer, network>>
Count ==
    /\ AtReader("count") /\ Go("read", None)
    /\ counted' = [counted EXCEPT ![current] = @ + 1]
    /\ UNCHANGED <<handler, maps, codec, bound, queue, taken, consumer, writer, network>>

---------------------------------------------------------------------------
(* The goroutines of an entry. *)

ConsumerStopsWhenIdle(k) ==                                      \* mutant
    /\ consumer[k] = "check"
    /\ consumer' = [consumer EXCEPT ![k] =
                       IF k \in closed \/ queue[k] = 0 THEN "done" ELSE "receive"]
    /\ UNCHANGED <<handler, maps, reader, current, binding, queue, taken, writer, network>>
ConsumerChecks(k) ==
    /\ consumer[k] = "check"
    /\ consumer' = [consumer EXCEPT ![k] = IF k \in closed THEN "done" ELSE "receive"]
    /\ UNCHANGED <<handler, maps, reader, current, binding, queue, taken, writer, network>>

Consume(k) ==
    /\ consumer[k] = "receive" /\ queue[k] > 0
    /\ queue' = [queue EXCEPT ![k] = @ - 1] /\ taken' = [taken EXCEPT ![k] = @ + 1]
    /\ consumer' = [consumer EXCEPT ![k] = "check"]
    /\ UNCHANGED <<handler, maps, reader, current, binding, writer, network>>

\* The writer waits for the address of the exit, then sends until the entry closes.
WriterStartsAtOnce(k) ==                                         \* mutant
    /\ writer[k] = "wait"
    /\ writer' = [writer EXCEPT ![k] = "run"]
    /\ UNCHANGED <<handler, maps, reader, current, binding, queue, taken, consumer, network>>
WriterStarts(k) ==
    /\ writer[k] = "wait" /\ k \in tcpReady /\ udpReady[k] = "closed"
    /\ writer' = [writer EXCEPT ![k] = "run"]
    /\ UNCHANGED <<handler, maps, reader, current, binding, queue, taken, consumer, network>>

WriterStops(k) ==
    /\ writer[k] = "run" /\ k \in closed
    /\ writer' = [writer EXCEPT ![k] = "done"]
    /\ UNCHANGED <<handler, maps, reader, current, binding, queue, taken, consumer, network>>

---------------------------------------------------------------------------
Setup(k) == Store(k) \/ SignalTcp(k) \/ MakeUdpReady(k) \/ Serve(k) \/ Forget(k)
ReaderStep == AwaitTcp \/ AddCodec \/ Bind \/ SignalUdp \/ Push \/ Count
Receive(k) == ReceiveHello(k) \/ ReceiveData(k)
Consumer(k) == ConsumerChecks(k) \/ Consume(k)
Writer(k) == WriterStarts(k) \/ WriterStops(k)

Next ==
    \/ \E k \in Exits : \/ Connect(k) \/ SendData(k)
                        \/ Setup(k) \/ WrapFails(k) \/ Abandon(k) \/ Close(k)
                        \/ Receive(k) \/ Consumer(k) \/ Writer(k)
    \/ ReaderStep

Spec == Init /\ [][Next]_vars

\* Goroutines run.  The reader takes what arrives in any order, but everything in
\* the end, and no handshake, message or session has to happen.
FairSpec ==
    /\ Spec
    /\ WF_vars(ReaderStep)
    /\ \A k \in Exits : /\ SF_vars(ReceiveHello(k)) /\ SF_vars(ReceiveData(k))
                        /\ WF_vars(Setup(k)) /\ WF_vars(Consumer(k)) /\ WF_vars(Writer(k))

---------------------------------------------------------------------------
HandlerType ==
    /\ handler \in [Exits -> {"none", "wrapping", "stored", "signalled", "waiting", "serving",
                              "closed", "ended"}]
    /\ known \subseteq Exits /\ tcpReady \subseteq Exits /\ closed \subseteq Exits
    /\ udpReady \in [Exits -> {"none", "made", "closed"}]
    /\ consumer \in [Exits -> {"none", "check", "receive", "done"}]
    /\ writer \in [Exits -> {"none", "wait", "run", "done"}]
ReaderType ==
    /\ reader \in {"read", "ready", "key", "entry", "signal", "push", "count", "returned"}
    /\ current \in Exits \cup {None} /\ (current = None <=> reader = "read")
    /\ codec \subseteq Exits /\ bound \subseteq Exits /\ counted \in [Exits -> Nat]
    /\ queue \in [Exits -> 0..Capacity] /\ taken \in [Exits -> Nat]
NetworkType ==
    /\ hellos \in [Exits -> Nat] /\ data \in [Exits -> Nat] /\ sent \in [Exits -> Nat]
TypeOK == HandlerType /\ ReaderType /\ NetworkType

\* The writer never sends before the address of the exit is known and has a codec:
\* WriteMsgUDP would send in the clear to an address without one.
WriterEncrypts == \A k \in Exits : writer[k] = "run" => k \in codec /\ k \in bound

\* What was counted for a connection is never taken back, though a hello makes its
\* counters and three are sent.
CountsKept == [][\A k \in Exits : counted'[k] >= counted[k]]_vars

\* Everything handed to an entry is counted for it, once, as soon as the reader gets to
\* it; and nothing is counted for an exit that it did not send.
Behind(k) == IF AtReader("count") /\ current = k THEN 1 ELSE 0
AllCounted ==
    \A k \in Exits : /\ queue[k] + taken[k] = counted[k] + Behind(k)
                    /\ counted[k] + Behind(k) <= sent[k]

\* The reader waits for ever, for a handler or for room in a channel, at most on behalf
\* of a connection that failed or ended itself: no live one holds up the others, unless
\* an error of AddCodec ends the reader.
Stranded == IF current \in Exits THEN handler[current] \in {"closed", "ended"} ELSE FALSE
ReaderReturns == reader # "read" ~> (reader \in {"read", "returned"} \/ Stranded)
=============================================================================
