----------------------------- MODULE ForwardUdp -----------------------------
(***************************************************************************)
(* UDP through forward tunnels: clients of several entries, one exit.      *)
(* The exit has one UDP socket, whose reader and writer                    *)
(* (startUDPReaderWriter) serve all entries; a dispatcher (readUDP) that   *)
(* passes requests to sockets of the services, one per client port         *)
(* (getServiceConn); a goroutine per such socket that collects answers;    *)
(* and a goroutine per TCP connection, which shakes hands (wrapConn) and   *)
(* then serves the session (handleSession).                                *)
(*                                                                         *)
(* A connection is the pair of an entry and a number; it has an address    *)
(* and a key of its own.  Datagrams are lost by never being received.      *)
(***************************************************************************)
EXTENDS Integers, Sequences, FiniteSets

CONSTANTS
    Entries,
    Requests,     \* requests of the entries' clients, each made once
    From,         \* From[r]: the client socket: its entry and port
    To,           \* To[r]: the service it is for
    Ports, Services,
    NoConn,       \* no address was read yet
    Copies,       \* copies of a hello that wrapUDPConn sends (3)
    QueueLen,     \* capacity of udpReadChan and udpWriteChan (64)
    MaxConns,     \* bound: connections per entry
    MaxAsked,     \* bound: requests made
    MaxSockets    \* bound: sockets of services

Clients == Entries \X Ports
Conns == Entries \X (1 .. MaxConns)

ASSUME RequestsAssumption == From \in [Requests -> Clients] /\ To \in [Requests -> Services]
ASSUME BoundsAssumption ==
    /\ Copies \in Nat /\ QueueLen \in Nat
    /\ MaxConns \in Nat \ {0} /\ MaxAsked \in Nat /\ MaxSockets \in Nat
ASSUME NoConnAssumption == NoConn \notin Conns

VARIABLES
    \* entries and their clients
    conn,        \* conn[e]: number of entry e's connection, 0 before the first
    asked,       \* requests made
    got,         \* got[c]: requests whose answers client c was given
    \* network
    hellos,      \* hellos[c]: copies of c's hello under way
    up,          \* requests under way from an entry to the exit
    back,        \* answers under way from the exit to an entry
    \* exit, TCP side
    shake,       \* shake[c]: progress of the exit's goroutine for c
    ready,       \* connections with a token in their channel in connReadyChan
    \* exit, reader and writer
    from,        \* the variable they share: the address last read from
    codec,       \* addresses with an encoder and a decoder
    tracked,     \* addresses in addrToKey
    reader,      \* where the reader is, with which connection and request
    writer,      \* the answer written and not yet counted, if any
    counted,     \* requests counted for the connection they came from
    panicked,    \* a counter was missing, the process ends
    \* exit, services
    inQueue,     \* udpReadChan
    outQueue,    \* udpWriteChan
    sockets,     \* service sockets dialled so far
    cache,       \* serviceConn: index of the socket for a port, 0 if none
    dispatching, \* readUDP has not ended
    closed       \* isClosed

entryVars == <<conn, asked, got>>
netVars == <<hellos, up, back>>
tcpVars == <<shake, ready>>
udpVars == <<from, codec, tracked, reader, writer, counted, panicked>>
serviceVars == <<inQueue, outQueue, sockets, cache, dispatching, closed>>
vars == <<entryVars, netVars, tcpVars, udpVars, serviceVars>>

Entry(r) == From[r][1]
Port(r) == From[r][2]
AddressOf(r) == <<Entry(r), 1>>        \* UDP goes through an entry's first connection
AtRest == [at |-> "read"]
Idle == [at |-> "idle"]
Items(s) == {s[i] : i \in DOMAIN s}

Init ==
    /\ conn = [e \in Entries |-> 0] /\ asked = {}
    /\ got = [c \in Clients |-> {}]
    /\ hellos = [c \in Conns |-> 0] /\ up = {} /\ back = {}
    /\ shake = [c \in Conns |-> "none"] /\ ready = {}
    /\ from = NoConn /\ codec = {} /\ tracked = {}
    /\ reader = AtRest /\ writer = Idle /\ counted = {} /\ panicked = FALSE
    /\ inQueue = <<>> /\ outQueue = <<>> /\ sockets = <<>>
    /\ cache = [p \in Ports |-> 0] /\ dispatching = TRUE /\ closed = FALSE

----------------------------------------------------------------------------
\* UpdateServerConn of an entry: its side of the handshake is done, the exit's may
\* not be; then wrapUDPConn sends the hellos.  The old UDP connection is closed.
ConnectOnceMore(e) ==                                            \* mutant
    LET c == <<e, conn[e] + 1>> IN
    /\ conn[e] < MaxConns /\ ~closed
    /\ conn' = [conn EXCEPT ![e] = @ + 1]
    /\ hellos' = [hellos EXCEPT ![c] = Copies + 1]
    /\ shake' = [shake EXCEPT ![c] = "shaking"]
    /\ UNCHANGED <<asked, got, up, back, ready, udpVars, serviceVars>>
Connect(e) ==
    LET c == <<e, conn[e] + 1>> IN
    /\ conn[e] < MaxConns /\ ~closed
    /\ conn' = [conn EXCEPT ![e] = @ + 1]
    /\ hellos' = [hellos EXCEPT ![c] = Copies]
    /\ shake' = [shake EXCEPT ![c] = "shaking"]
    /\ UNCHANGED <<asked, got, up, back, ready, udpVars, serviceVars>>

\* wrapConn at the exit: the key is stored, then the reader is told.
StoreKey(c) ==
    /\ shake[c] = "shaking"
    /\ shake' = [shake EXCEPT ![c] = "stored"]
    /\ UNCHANGED <<entryVars, netVars, ready, udpVars, serviceVars>>
SignalReady(c) ==
    /\ shake[c] = "stored"
    /\ ready' = ready \cup {c}
    /\ shake' = [shake EXCEPT ![c] = "signalled"]
    /\ UNCHANGED <<entryVars, netVars, udpVars, serviceVars>>

\* The entry's half of the handshake does not arrive.
WrapFails(c) ==
    /\ shake[c] = "shaking"
    /\ shake' = [shake EXCEPT ![c] = "failed"]
    /\ UNCHANGED <<entryVars, netVars, ready, udpVars, serviceVars>>

\* handleSession makes the counters of the connection.
StartSession(c) ==
    /\ shake[c] = "signalled"
    /\ shake' = [shake EXCEPT ![c] = "session"]
    /\ UNCHANGED <<entryVars, netVars, ready, udpVars, serviceVars>>

Handshake(c) == StoreKey(c) \/ SignalReady(c) \/ StartSession(c)

----------------------------------------------------------------------------
\* listenUDP and the writer of an entry: the request is sent on the connection
\* that reader and writer were started with, which fails once that is closed.
Ask(r) ==
    /\ conn[Entry(r)] > 0 /\ r \notin asked /\ Cardinality(asked) < MaxAsked
    /\ asked' = asked \cup {r}
    /\ up' = IF conn[Entry(r)] = 1 THEN up \cup {r} ELSE up
    /\ UNCHANGED <<conn, got, hellos, back, tcpVars, udpVars, serviceVars>>

\* The reader of the exit.  Whatever is read, its address is the last one.
Reading == reader = AtRest /\ ~closed /\ ~panicked

\* A ping: of no consequence but for the address.
Ping(e) ==
    /\ Reading /\ conn[e] = 1
    /\ from' = <<e, 1>>
    /\ UNCHANGED <<entryVars, netVars, tcpVars, codec, tracked, reader, writer, counted,
                   panicked, serviceVars>>

\* A hello starts the wait for the connection's handshake; one that has a codec
\* already is taken for cipher text and does not decode.
ReceiveAnyHello(c) ==                                            \* mutant
    /\ Reading /\ hellos[c] > 0
    /\ hellos' = [hellos EXCEPT ![c] = @ - 1]
    /\ from' = c
    /\ reader' = [at |-> "await", conn |-> c]
    /\ UNCHANGED <<entryVars, up, back, tcpVars, codec, tracked, writer, counted,
                   panicked, serviceVars>>
ReceiveHello(c) ==
    /\ Reading /\ hellos[c] > 0
    /\ hellos' = [hellos EXCEPT ![c] = @ - 1]
    /\ from' = c
    /\ reader' = IF c \in codec THEN reader ELSE [at |-> "await", conn |-> c]
    /\ UNCHANGED <<entryVars, up, back, tcpVars, codec, tracked, writer, counted,
                   panicked, serviceVars>>

\* It takes the token, finds the key, which is never deleted, and adds the codec,
AddCodec(c) ==
    /\ reader = [at |-> "await", conn |-> c] /\ c \in ready /\ ~panicked
    /\ ready' = ready \ {c}
    /\ codec' = codec \cup {c}
    /\ reader' = [at |-> "codec", conn |-> c]
    /\ UNCHANGED <<entryVars, netVars, shake, from, tracked, writer, counted,
                   panicked, serviceVars>>

\* unless it cannot make one, as for an algorithm in the hello that is not supported.
\* The token is gone then, and the next copy of the hello waits for another.
CodecFails(c) ==
    /\ reader = [at |-> "await", conn |-> c] /\ c \in ready /\ ~panicked
    /\ ready' = ready \ {c}
    /\ reader' = AtRest
    /\ UNCHANGED <<entryVars, netVars, shake, from, codec, tracked, writer, counted,
                   panicked, serviceVars>>

\* It remembers whose address the codec is for.
TrackNothing(c) ==                                               \* mutant
    /\ reader = [at |-> "codec", conn |-> c] /\ ~panicked
    /\ reader' = AtRest
    /\ UNCHANGED <<entryVars, netVars, tcpVars, from, codec, tracked, writer, counted,
                   panicked, serviceVars>>
Track(c) ==
    /\ reader = [at |-> "codec", conn |-> c] /\ ~panicked
    /\ tracked' = tracked \cup {c}
    /\ reader' = AtRest
    /\ UNCHANGED <<entryVars, netVars, tcpVars, from, codec, writer, counted,
                   panicked, serviceVars>>

\* A request is passed on if it could be decrypted.
ReceiveRequest(r) ==
    /\ Reading /\ r \in up
    /\ up' = up \ {r}
    /\ from' = AddressOf(r)
    /\ reader' = IF AddressOf(r) \in codec THEN [at |-> "push", request |-> r] ELSE reader
    /\ UNCHANGED <<entryVars, hellos, back, tcpVars, codec, tracked, writer, counted,
                   panicked, serviceVars>>

Push(r) ==
    /\ reader = [at |-> "push", request |-> r] /\ ~panicked
    /\ Len(inQueue) < QueueLen
    /\ inQueue' = Append(inQueue, r)
    /\ reader' = [at |-> "count", request |-> r]
    /\ UNCHANGED <<entryVars, netVars, tcpVars, from, codec, tracked, writer, counted,
                   panicked, outQueue, sockets, cache, dispatching, closed>>

\* Counting indexes a slice that is there once handleSession has made it.
Countable(c) == shake[c] = "session"

CountRequest(r) ==
    LET c == AddressOf(r) IN
    /\ reader = [at |-> "count", request |-> r] /\ ~panicked
    /\ IF c \in tracked /\ Countable(c)
       THEN counted' = counted \cup {r} /\ UNCHANGED panicked
       ELSE panicked' = (c \in tracked) /\ UNCHANGED counted
    /\ reader' = AtRest
    /\ UNCHANGED <<entryVars, netVars, tcpVars, from, codec, tracked, writer, serviceVars>>

----------------------------------------------------------------------------
\* A socket with other requests to answer, or in another state.
Waiting(socket, requests) ==
    [port |-> socket.port, service |-> socket.service, state |-> socket.state,
     asked |-> requests]
Becomes(socket, state) ==
    [port |-> socket.port, service |-> socket.service, state |-> state,
     asked |-> socket.asked]

\* getServiceConn: a port without a socket gets one to the service asked for.
KeyOfAll(r) == CHOOSE p \in Ports : TRUE                         \* mutant
Key(r) == Port(r)
Dial(r) ==
    /\ cache[Key(r)] = 0 /\ Len(sockets) < MaxSockets
    /\ sockets' = Append(sockets, [port |-> Port(r), service |-> To[r], state |-> "open",
                                   asked |-> {r}])
    /\ cache' = [cache EXCEPT ![Key(r)] = Len(sockets) + 1]

Forward(r) ==
    LET i == cache[Key(r)] IN
    /\ i > 0
    /\ sockets' = IF sockets[i].state = "open"
                  THEN [sockets EXCEPT ![i] = Waiting(@, @.asked \cup {r})]
                  ELSE sockets
    /\ UNCHANGED cache

DialFails(r) == cache[Key(r)] = 0 /\ UNCHANGED <<sockets, cache>>

\* readUDP takes a request, then looks whether the exit is closed.
Dispatch ==
    /\ dispatching /\ inQueue # <<>> /\ ~panicked
    /\ \/ Dial(Head(inQueue))
       \/ Forward(Head(inQueue))
       \/ DialFails(Head(inQueue))
    /\ inQueue' = Tail(inQueue) /\ dispatching' = ~closed
    /\ UNCHANGED <<entryVars, netVars, tcpVars, udpVars, outQueue, closed>>

\* The cache forgets a socket UDPTimeout after it was dialled; it stays open.
Expire(p) ==
    /\ cache[p] > 0 /\ ~panicked
    /\ cache' = [cache EXCEPT ![p] = 0]
    /\ UNCHANGED <<entryVars, netVars, tcpVars, udpVars, inQueue, outQueue, sockets,
                   dispatching, closed>>

\* A service answers; its socket's goroutine sends that to the writer, with the
\* prefix of the request the socket was dialled for.
Answered(i, r) == [request |-> r, port |-> sockets[i].port, service |-> sockets[i].service]
Collect(i, r) ==
    /\ sockets[i].state = "open" /\ r \in sockets[i].asked /\ ~panicked
    /\ Len(outQueue) < QueueLen
    /\ sockets' = [sockets EXCEPT ![i] = Waiting(@, @.asked \ {r})]
    /\ outQueue' = Append(outQueue, Answered(i, r))
    /\ UNCHANGED <<entryVars, netVars, tcpVars, udpVars, inQueue, cache, dispatching, closed>>

\* Reading from a service fails: the socket is closed, then the cache forgets
\* whatever it has for that port.
SocketFails(i) ==
    /\ sockets[i].state = "open" /\ ~panicked
    /\ sockets' = [sockets EXCEPT ![i] = Becomes(@, "failed")]
    /\ UNCHANGED <<entryVars, netVars, tcpVars, udpVars, inQueue, outQueue, cache,
                   dispatching, closed>>
Unlist(i) ==
    /\ sockets[i].state = "failed" /\ ~panicked
    /\ sockets' = [sockets EXCEPT ![i] = Becomes(@, "gone")]
    /\ cache' = [cache EXCEPT ![sockets[i].port] = 0]
    /\ UNCHANGED <<entryVars, netVars, tcpVars, udpVars, inQueue, outQueue, dispatching, closed>>

----------------------------------------------------------------------------
\* The writer sends an answer to the address last read from, encrypted if that has
\* a codec, and then counts it for the address last read from by then.
NextOnAnyPort == [Head(outQueue) EXCEPT !.port = CHOOSE p \in Ports : TRUE]  \* mutant
WriteNext == Head(outQueue)
Write ==
    /\ writer = Idle /\ outQueue # <<>> /\ ~closed /\ ~panicked
    /\ back' = back \cup {[to |-> from, encrypted |-> from \in codec, answer |-> WriteNext]}
    /\ writer' = [at |-> "count"]
    /\ outQueue' = Tail(outQueue)
    /\ UNCHANGED <<entryVars, hellos, up, tcpVars, from, codec, tracked, reader, counted,
                   panicked, inQueue, sockets, cache, dispatching, closed>>

CountAnswer ==
    /\ writer = [at |-> "count"] /\ ~panicked
    /\ panicked' = (from \in tracked /\ ~Countable(from))
    /\ writer' = Idle
    /\ UNCHANGED <<entryVars, netVars, tcpVars, from, codec, tracked, reader, counted,
                   serviceVars>>

\* An entry gets an answer: it drops what is not encrypted, comes to a connection it
\* has left, or is for a port none of its clients used (or not lately).
Deliver(d) ==
    LET e == d.to[1] client == <<d.to[1], d.answer.port>> IN
    /\ d \in back /\ d.encrypted
    /\ d.to = <<e, 1>> /\ conn[e] = 1
    /\ \E r \in asked : From[r] = client
    /\ back' = back \ {d}
    /\ got' = [got EXCEPT ![client] = @ \cup {d.answer.request}]
    /\ UNCHANGED <<conn, asked, hellos, up, tcpVars, udpVars, serviceVars>>

\* Close: the loops end, the sockets still in the cache are closed.
Close ==
    /\ ~closed /\ ~panicked
    /\ closed' = TRUE
    /\ sockets' = [i \in DOMAIN sockets |->
                      IF \E p \in Ports : cache[p] = i /\ sockets[i].state = "open"
                      THEN Becomes(sockets[i], "failed") ELSE sockets[i]]
    /\ cache' = [p \in Ports |-> 0]
    /\ UNCHANGED <<entryVars, netVars, tcpVars, udpVars, inQueue, outQueue, dispatching>>

----------------------------------------------------------------------------
Next ==
    \/ \E e \in Entries : Connect(e) \/ Ping(e)
    \/ \E c \in Conns :
        \/ Handshake(c) \/ WrapFails(c)
        \/ ReceiveHello(c) \/ AddCodec(c) \/ CodecFails(c) \/ Track(c)
    \/ \E r \in Requests : Ask(r) \/ ReceiveRequest(r) \/ Push(r) \/ CountRequest(r)
    \/ Dispatch
    \/ \E p \in Ports : Expire(p)
    \/ \E i \in DOMAIN sockets :
        SocketFails(i) \/ Unlist(i) \/ (\E r \in Requests : Collect(i, r))
    \/ Write \/ CountAnswer
    \/ \E d \in back : Deliver(d)
    \/ Close

Spec == Init /\ [][Next]_vars

\* The reader is one goroutine, the dispatcher another; each that can go on does so.
ReaderGoesOn ==
    \/ \E c \in Conns : AddCodec(c) \/ CodecFails(c) \/ Track(c)
    \/ \E r \in Requests : Push(r) \/ CountRequest(r)
FairSpec ==
    /\ Spec
    /\ \A c \in Conns : WF_vars(Handshake(c))
    /\ WF_vars(ReaderGoesOn) /\ WF_vars(Dispatch)

----------------------------------------------------------------------------
Answers == [request : Requests, port : Ports, service : Services]
Sockets ==
    [port : Ports, service : Services, state : {"open", "failed", "gone"},
     asked : SUBSET Requests]

EntryType ==
    /\ conn \in [Entries -> 0 .. MaxConns] /\ asked \subseteq Requests
    /\ got \in [Clients -> SUBSET Requests]
NetType ==
    /\ hellos \in [Conns -> 0 .. Copies] /\ up \subseteq Requests
    /\ back \subseteq [to : Conns, encrypted : BOOLEAN, answer : Answers]
ExitType ==
    /\ shake \in [Conns -> {"none", "shaking", "stored", "signalled", "session", "failed"}]
    /\ ready \subseteq Conns
    /\ from \in Conns \cup {NoConn} /\ codec \subseteq Conns /\ tracked \subseteq Conns
    /\ reader \in {AtRest} \cup [at : {"await", "codec"}, conn : Conns]
                  \cup [at : {"push", "count"}, request : Requests]
    /\ writer \in {Idle, [at |-> "count"]}
    /\ counted \subseteq Requests /\ panicked \in BOOLEAN
ServiceType ==
    /\ inQueue \in Seq(Requests) /\ outQueue \in Seq(Answers)
    /\ sockets \in Seq(Sockets) /\ cache \in [Ports -> 0 .. MaxSockets]
    /\ dispatching \in BOOLEAN /\ closed \in BOOLEAN
\* Types, and that no answer is written before anything was read.
TypeOK == EntryType /\ NetType /\ ExitType /\ ServiceType

\* Whatever reaches a service was decrypted and is counted for the connection it
\* came from, unless the process panics, which it does if the session has no
\* counters yet.
PassedOn == Items(inQueue) \cup UNION {sockets[i].asked : i \in DOMAIN sockets}
AllCounted ==
    \A r \in PassedOn :
        panicked \/ r \in counted \/ reader = [at |-> "count", request |-> r]

\* Clients share a service socket if they have the same port; if all of these talk
\* to one service, none of their requests gets to another.
OwnService ==
    \A i \in DOMAIN sockets :
        (\A r, s \in Requests : (Port(r) = sockets[i].port /\ Port(s) = Port(r)) => To[r] = To[s])
            => \A r \in sockets[i].asked : To[r] = sockets[i].service

\* The relay is a datagram service for the entries' clients, as far as they can be
\* told apart by their ports.
Relay == INSTANCE DatagramService WITH
    PortOf <- [c \in Clients |-> c[2]], Asker <- From
ImplementsService == Relay!Spec

\* The reader, which serves all entries, always gets back to its socket: neither the
\* handshake of one of them nor a full channel holds it up for good, unless that
\* handshake failed, or its codec did and another copy of the hello came, or the exit is
\* closed.
TokenWasted(c) == shake[c] \in {"signalled", "session"} /\ c \notin ready \cup codec
Stranded ==
    IF reader.at = "await"
    THEN shake[reader.conn] = "failed" \/ TokenWasted(reader.conn) ELSE FALSE
ReaderReturns == reader # AtRest ~> (reader = AtRest \/ Stranded \/ panicked \/ closed)
=============================================================================
