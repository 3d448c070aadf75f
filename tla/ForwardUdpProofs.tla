-------------------------- MODULE ForwardUdpProofs --------------------------
(***************************************************************************)
(* For any entries, clients, services and queue lengths: the relay is a    *)
(* datagram service whose clients are told apart by their ports, no        *)
(* request gets to a service its port did not ask for, what is passed on   *)
(* was counted, and the key of a connection is there when it is looked for. *)
(*                                                                         *)
(* The invariant follows a request through the pipeline: at each stage it  *)
(* was asked, and goes by the port of its client.                          *)
(***************************************************************************)
EXTENDS ForwardUdp, SequenceTheorems, TLAPS

\* Connections after the current one do not exist, for entry and exit.
ConnInv ==
    \A e \in Entries : \A n \in 1 .. MaxConns : conn[e] < n => shake[<<e, n>>] = "none"

\* A codec is known in addrToKey, but for the moment between the two.
TrackedInv ==
    /\ \A c \in codec : c \in tracked \/ reader = [at |-> "codec", conn |-> c]
    /\ \A r \in Requests :
        reader \in {[at |-> "push", request |-> r], [at |-> "count", request |-> r]}
            => AddressOf(r) \in tracked

\* Who has something to do for the exit has been read from.
Busy == reader # AtRest \/ inQueue # <<>> \/ sockets # <<>> \/ outQueue # <<>>
FromInv == Busy => from # NoConn

\* What is under way was asked.
UpInv ==
    /\ up \subseteq asked
    /\ \A r \in Requests :
        reader \in {[at |-> "push", request |-> r], [at |-> "count", request |-> r]}
            => r \in asked
    /\ \A i \in 1 .. Len(inQueue) : inQueue[i] \in asked

\* A socket is for the requests of one port, to the service that one of them named.
SocketFor(s) ==
    /\ s.asked \subseteq asked
    /\ \A r \in s.asked : Port(r) = s.port
    /\ \E r \in Requests : Port(r) = s.port /\ To[r] = s.service
SocketInv == \A i \in 1 .. Len(sockets) : SocketFor(sockets[i])
CacheInv ==
    /\ Len(sockets) <= MaxSockets
    /\ \A p \in Ports :
        cache[p] > 0 => cache[p] \in 1 .. Len(sockets) /\ sockets[cache[p]].port = p

\* An answer is for the port of the request.
AnswerFor(a) == a.request \in asked /\ a.port = Port(a.request)
AnswerInv ==
    /\ \A i \in 1 .. Len(outQueue) : AnswerFor(outQueue[i])
    /\ \A d \in back : AnswerFor(d.answer)

\* The reader never finds the key missing of a connection it was woken for ("no
\* encrypt key found"), whatever the order of hello, handshake and token.
KeyFound == \A c \in ready \cup codec : shake[c] \in {"stored", "signalled", "session"}

PipeInv == UpInv /\ SocketInv /\ CacheInv /\ AnswerInv
OrderInv == ConnInv /\ TrackedInv /\ FromInv /\ KeyFound /\ AllCounted
RelayInv == TypeOK /\ OrderInv /\ PipeInv

LEMMA ConstantFacts ==
    /\ \A r \in Requests : AddressOf(r) \in Conns /\ Port(r) \in Ports /\ Entry(r) \in Entries
    /\ \A r \in Requests : To[r] \in Services /\ From[r] = <<Entry(r), Port(r)>>
    /\ \A e \in Entries, n \in 1 .. MaxConns : <<e, n>> \in Conns
    /\ NoConn \notin Conns
  BY RequestsAssumption, BoundsAssumption, NoConnAssumption
     DEF AddressOf, Port, Entry, Conns, Clients

LEMMA InitInv == Init => RelayInv
  <1>. SUFFICES ASSUME Init PROVE RelayInv
    OBVIOUS
  <1>1. EntryType /\ NetType
    BY BoundsAssumption DEF Init, EntryType, NetType
  <1>2. ExitType
    BY DEF Init, ExitType
  <1>7. ServiceType
    <2>1. <<>> \in Seq(Requests) /\ <<>> \in Seq(Answers) /\ <<>> \in Seq(Sockets)
      OBVIOUS
    <2>2. cache \in [Ports -> 0 .. MaxSockets]
      BY BoundsAssumption DEF Init
    <2>. QED
      BY <2>1, <2>2 DEF Init, ServiceType
  <1>3. ConnInv
    BY ConstantFacts, BoundsAssumption DEF Init, ConnInv
  <1>4. TrackedInv /\ FromInv /\ KeyFound
    BY DEF Init, TrackedInv, FromInv, Busy, KeyFound, AtRest
  <1>5. AllCounted
    BY DEF Init, AllCounted, PassedOn, Items
  <1>6. PipeInv
    BY BoundsAssumption
       DEF Init, PipeInv, UpInv, SocketInv, CacheInv, AnswerInv, AtRest
  <1>. QED
    BY <1>1, <1>2, <1>3, <1>4, <1>5, <1>6, <1>7 DEF RelayInv, OrderInv, TypeOK

---------------------------------------------------------------------------
\* Steps that leave the pipeline and its types alone.
LEMMA PipeFrame ==
    ASSUME PipeInv, ServiceType,
           UNCHANGED <<asked, up, back, reader, inQueue, outQueue, sockets, cache>>,
           UNCHANGED <<dispatching, closed>>
    PROVE  PipeInv' /\ ServiceType'
  BY DEF PipeInv, ServiceType, UpInv, SocketInv, SocketFor, CacheInv, AnswerInv, AnswerFor

\* An entry connects: its new connection is nowhere known yet.
LEMMA ConnectInv ==
    ASSUME NEW e \in Entries, RelayInv, Connect(e)
    PROVE  RelayInv'
  <1>. DEFINE c == <<e, conn[e] + 1>>
  <1>1. PICK n \in 1 .. MaxConns : n = conn[e] + 1 /\ c = <<e, n>> /\ c \in Conns
    BY ConstantFacts, BoundsAssumption DEF Connect, RelayInv, TypeOK, EntryType
  <1>2. shake[c] = "none"
    BY <1>1, BoundsAssumption DEF RelayInv, OrderInv, ConnInv, TypeOK, EntryType
  <1>3. PipeInv' /\ ServiceType'
    BY PipeFrame DEF Connect, RelayInv, TypeOK, serviceVars, udpVars
  <1>4. EntryType' /\ NetType'
    BY <1>1, BoundsAssumption DEF Connect, RelayInv, TypeOK, EntryType, NetType
  <1>5. ExitType'
    BY <1>1 DEF Connect, RelayInv, TypeOK, ExitType, udpVars
  <1>6. ConnInv'
    <2>. SUFFICES ASSUME NEW f \in Entries, NEW m \in 1 .. MaxConns, conn'[f] < m
                  PROVE  shake'[<<f, m>>] = "none"
      BY DEF ConnInv
    <2>1. conn \in [Entries -> Int] /\ conn[f] < m /\ shake[<<f, m>>] = "none"
      BY BoundsAssumption
         DEF Connect, RelayInv, TypeOK, EntryType, OrderInv, ConnInv
    <2>2. <<f, m>> # c
      BY <2>1 DEF Connect, RelayInv, TypeOK, EntryType
    <2>. QED
      BY <2>1, <2>2, <1>1, ConstantFacts DEF Connect, RelayInv, TypeOK, ExitType
  <1>7. KeyFound'
    BY <1>1, <1>2 DEF Connect, RelayInv, TypeOK, ExitType, OrderInv, KeyFound, udpVars
  <1>8. TrackedInv' /\ FromInv' /\ AllCounted'
    BY DEF Connect, RelayInv, OrderInv, TrackedInv, FromInv, Busy, AllCounted, PassedOn,
           Items, udpVars, serviceVars
  <1>. QED
    BY <1>3, <1>4, <1>5, <1>6, <1>7, <1>8 DEF RelayInv, OrderInv, TypeOK

\* The exit's goroutine for a connection: the key is stored before the token is there.
LEMMA HandshakeInv ==
    ASSUME NEW c \in Conns, RelayInv, Handshake(c) \/ WrapFails(c)
    PROVE  RelayInv'
  <1>. USE DEF Handshake, StoreKey, SignalReady, StartSession, WrapFails
  <1>1. UNCHANGED <<conn, asked, got, hellos, up, back, from, codec, tracked, reader,
                    writer, counted, panicked, inQueue, outQueue, sockets, cache,
                    dispatching, closed>>
    BY DEF entryVars, netVars, udpVars, serviceVars
  <1>2. PipeInv' /\ ServiceType' /\ EntryType' /\ NetType'
    BY <1>1, PipeFrame DEF RelayInv, TypeOK, EntryType, NetType
  <1>3. ExitType'
    BY <1>1 DEF RelayInv, TypeOK, ExitType
  <1>4. ConnInv'
    BY <1>1, ConstantFacts DEF RelayInv, TypeOK, ExitType, OrderInv, ConnInv
  <1>5. KeyFound'
    BY <1>1 DEF RelayInv, TypeOK, ExitType, OrderInv, KeyFound
  <1>6. TrackedInv' /\ FromInv' /\ AllCounted'
    BY <1>1 DEF RelayInv, OrderInv, TrackedInv, FromInv, Busy, AllCounted, PassedOn, Items
  <1>. QED
    BY <1>2, <1>3, <1>4, <1>5, <1>6 DEF RelayInv, OrderInv, TypeOK

---------------------------------------------------------------------------
\* A client asks; the exit does not know yet.
LEMMA AskInv ==
    ASSUME NEW r \in Requests, RelayInv, Ask(r)
    PROVE  RelayInv'
  <1>1. /\ UNCHANGED <<conn, got, hellos, back, shake, ready, from, codec, tracked, reader,
                       writer, counted, panicked>>
        /\ UNCHANGED <<inQueue, outQueue, sockets, cache, dispatching, closed>>
        /\ asked' = asked \cup {r} /\ up' \subseteq up \cup {r}
    BY DEF Ask, tcpVars, udpVars, serviceVars
  <1>2. EntryType' /\ NetType' /\ ExitType' /\ ServiceType'
    BY <1>1 DEF RelayInv, TypeOK, EntryType, NetType, ExitType, ServiceType
  <1>3. OrderInv'
    BY <1>1 DEF RelayInv, OrderInv, ConnInv, TrackedInv, FromInv, Busy, KeyFound,
                AllCounted, PassedOn, Items
  <1>4. UpInv' /\ SocketInv' /\ CacheInv'
    BY <1>1 DEF RelayInv, PipeInv, UpInv, SocketInv, SocketFor, CacheInv
  <1>5. AnswerInv'
    BY <1>1 DEF RelayInv, PipeInv, AnswerInv, AnswerFor
  <1>. QED
    BY <1>2, <1>3, <1>4, <1>5 DEF RelayInv, TypeOK, PipeInv

\* The reader reads a ping or a hello.
LEMMA PingInv ==
    ASSUME NEW e \in Entries, RelayInv, Ping(e)
    PROVE  RelayInv'
  <1>1. from' = <<e, 1>> /\ <<e, 1>> \in Conns
    BY ConstantFacts, BoundsAssumption DEF Ping
  <1>2. PipeInv' /\ ServiceType'
    BY PipeFrame DEF Ping, RelayInv, TypeOK, entryVars, netVars, serviceVars
  <1>3. EntryType' /\ NetType' /\ ExitType'
    BY <1>1 DEF Ping, RelayInv, TypeOK, EntryType, NetType, ExitType, entryVars, netVars,
                tcpVars
  <1>4. OrderInv'
    BY <1>1, ConstantFacts
       DEF Ping, RelayInv, OrderInv, ConnInv, TrackedInv, FromInv, KeyFound, AllCounted,
           PassedOn, Items, entryVars, netVars, tcpVars, serviceVars
  <1>. QED
    BY <1>2, <1>3, <1>4 DEF RelayInv, TypeOK

LEMMA HelloInv ==
    ASSUME NEW c \in Conns, RelayInv, ReceiveHello(c)
    PROVE  RelayInv'
  <1>1. /\ UNCHANGED <<conn, asked, got, up, back, shake, ready, codec, tracked, writer,
                       counted, panicked>>
        /\ UNCHANGED <<inQueue, outQueue, sockets, cache, dispatching, closed>>
        /\ from' = c /\ hellos' = [hellos EXCEPT ![c] = @ - 1] /\ hellos[c] > 0
        /\ reader = AtRest /\ reader' \in {AtRest, [at |-> "await", conn |-> c]}
    BY DEF ReceiveHello, Reading, entryVars, tcpVars, serviceVars
  <1>2. NetType' /\ EntryType' /\ ServiceType'
    BY <1>1, BoundsAssumption DEF RelayInv, TypeOK, EntryType, NetType, ServiceType
  <1>3. ExitType'
    BY <1>1 DEF RelayInv, TypeOK, ExitType
  <1>4. ConnInv' /\ KeyFound' /\ FromInv'
    BY <1>1, ConstantFacts DEF RelayInv, OrderInv, ConnInv, KeyFound, FromInv
  <1>7. reader.at = "read" /\ reader'.at \in {"read", "await"}
    BY <1>1 DEF AtRest
  <1>8. TrackedInv'
    BY <1>1, <1>7 DEF RelayInv, OrderInv, TrackedInv
  <1>5. AllCounted'
    <2>1. PassedOn' = PassedOn
      BY <1>1 DEF PassedOn, Items
    <2>. QED
      BY <1>1, <1>7, <2>1 DEF RelayInv, OrderInv, AllCounted
  <1>6. PipeInv'
    BY <1>1 DEF RelayInv, PipeInv, UpInv, SocketInv, SocketFor, CacheInv, AnswerInv,
                AnswerFor, AtRest
  <1>. QED
    BY <1>2, <1>3, <1>4, <1>5, <1>6, <1>8 DEF RelayInv, OrderInv, TypeOK

\* It has waited for the handshake of a connection, and makes its codec known.
LEMMA CodecInv ==
    ASSUME NEW c \in Conns, RelayInv, AddCodec(c) \/ CodecFails(c) \/ Track(c)
    PROVE  RelayInv'
  <1>1. /\ UNCHANGED <<conn, asked, got, hellos, up, back, shake, from, writer, counted,
                       panicked>>
        /\ UNCHANGED <<inQueue, outQueue, sockets, cache, dispatching, closed>>
        /\ reader \in {[at |-> "await", conn |-> c], [at |-> "codec", conn |-> c]}
        /\ reader' \in {AtRest, [at |-> "codec", conn |-> c]}
    BY DEF AddCodec, CodecFails, Track, entryVars, netVars, tcpVars, serviceVars
  <1>2. NetType' /\ EntryType' /\ ServiceType'
    BY <1>1 DEF RelayInv, TypeOK, EntryType, NetType, ServiceType
  <1>3. ExitType'
    BY <1>1 DEF AddCodec, CodecFails, Track, tcpVars, RelayInv, TypeOK, ExitType
  <1>4. ConnInv' /\ KeyFound'
    BY <1>1 DEF AddCodec, CodecFails, Track, tcpVars, RelayInv, OrderInv, ConnInv, KeyFound
  <1>5. FromInv'
    BY <1>1 DEF RelayInv, OrderInv, FromInv, Busy, AtRest
  <1>6. TrackedInv'
    <2>1. CASE AddCodec(c)
      BY <2>1 DEF AddCodec, RelayInv, OrderInv, TrackedInv
    <2>2. CASE Track(c)
      BY <2>2 DEF Track, RelayInv, OrderInv, TrackedInv, AtRest
    <2>3. CASE CodecFails(c)
      BY <2>3 DEF CodecFails, RelayInv, OrderInv, TrackedInv, AtRest
    <2>. QED
      BY <2>1, <2>2, <2>3
  <1>7. AllCounted'
    BY <1>1 DEF RelayInv, OrderInv, AllCounted, PassedOn, Items, AtRest
  <1>8. PipeInv'
    BY <1>1 DEF RelayInv, PipeInv, UpInv, SocketInv, SocketFor, CacheInv, AnswerInv,
                AnswerFor, AtRest
  <1>. QED
    BY <1>2, <1>3, <1>4, <1>5, <1>6, <1>7, <1>8 DEF RelayInv, OrderInv, TypeOK

---------------------------------------------------------------------------
\* What is in a queue after an item was put in or taken out.
LEMMA AppendItems ==
    ASSUME NEW S, NEW s \in Seq(S), NEW x \in S
    PROVE  /\ Append(s, x) \in Seq(S)
           /\ \A i \in 1 .. Len(Append(s, x)) : Append(s, x)[i] = x
                \/ (i \in 1 .. Len(s) /\ Append(s, x)[i] = s[i])
           /\ Append(s, x) # <<>>
  OBVIOUS

LEMMA TailItems ==
    ASSUME NEW S, NEW s \in Seq(S), s # <<>>
    PROVE  /\ Tail(s) \in Seq(S) /\ Head(s) = s[1] /\ 1 \in 1 .. Len(s) /\ Head(s) \in S
           /\ \A i \in 1 .. Len(Tail(s)) : i + 1 \in 1 .. Len(s) /\ Tail(s)[i] = s[i + 1]
  BY HeadTailProperties, LenProperties, EmptySeq

\* PassedOn by index, now and next.
LEMMA PassedOnByIndex ==
    /\ ServiceType => \A r : r \in PassedOn <=>
            \/ \E i \in 1 .. Len(inQueue) : inQueue[i] = r
            \/ \E i \in 1 .. Len(sockets) : r \in sockets[i].asked
    /\ ServiceType' => \A r : r \in PassedOn' <=>
            \/ \E i \in 1 .. Len(inQueue') : inQueue'[i] = r
            \/ \E i \in 1 .. Len(sockets') : r \in sockets'[i].asked
  <1>1. ServiceType =>
            DOMAIN inQueue = 1 .. Len(inQueue) /\ DOMAIN sockets = 1 .. Len(sockets)
    BY DEF ServiceType
  <1>2. ServiceType' =>
            DOMAIN inQueue' = 1 .. Len(inQueue') /\ DOMAIN sockets' = 1 .. Len(sockets')
    BY DEF ServiceType
  <1>. QED
    BY <1>1, <1>2 DEF PassedOn, Items

\* It reads a request, which is passed on if the connection has a codec,
LEMMA RequestInv ==
    ASSUME NEW r \in Requests, RelayInv, ReceiveRequest(r)
    PROVE  RelayInv'
  <1>1. /\ UNCHANGED <<conn, asked, got, hellos, back, shake, ready, codec, tracked,
                       writer, counted, panicked>>
        /\ UNCHANGED <<inQueue, outQueue, sockets, cache, dispatching, closed>>
        /\ from' = AddressOf(r) /\ AddressOf(r) \in Conns
        /\ r \in up /\ up' = up \ {r}
        /\ reader = AtRest /\ reader' \in {AtRest, [at |-> "push", request |-> r]}
        /\ reader' # AtRest => AddressOf(r) \in codec
    BY ConstantFacts DEF ReceiveRequest, Reading, entryVars, tcpVars, serviceVars
  <1>2. reader.at = "read" /\ reader'.at \in {"read", "push"}
    BY <1>1 DEF AtRest
  <1>3. NetType' /\ EntryType' /\ ServiceType'
    BY <1>1 DEF RelayInv, TypeOK, EntryType, NetType, ServiceType
  <1>4. ExitType'
    BY <1>1 DEF RelayInv, TypeOK, ExitType
  <1>5. ConnInv' /\ KeyFound' /\ FromInv'
    BY <1>1, ConstantFacts DEF RelayInv, OrderInv, ConnInv, KeyFound, FromInv
  <1>6. TrackedInv'
    <2>1. codec \subseteq tracked
      BY <1>2 DEF RelayInv, OrderInv, TrackedInv
    <2>2. \A s \in Requests : reader' = [at |-> "push", request |-> s] => s = r
      BY <1>1 DEF AtRest
    <2>. QED
      BY <1>1, <1>2, <2>1, <2>2 DEF TrackedInv, AtRest
  <1>7. AllCounted'
    <2>1. PassedOn' = PassedOn
      BY <1>1 DEF PassedOn, Items
    <2>. QED
      BY <1>1, <1>2, <2>1 DEF RelayInv, OrderInv, AllCounted
  <1>8. UpInv'
    <2>1. \A s \in Requests : reader' = [at |-> "push", request |-> s] => s = r
      BY <1>1 DEF AtRest
    <2>. QED
      BY <1>1, <1>2, <2>1 DEF RelayInv, PipeInv, UpInv
  <1>9. SocketInv' /\ CacheInv' /\ AnswerInv'
    BY <1>1 DEF RelayInv, PipeInv, SocketInv, SocketFor, CacheInv, AnswerInv, AnswerFor
  <1>. QED
    BY <1>3, <1>4, <1>5, <1>6, <1>7, <1>8, <1>9 DEF RelayInv, OrderInv, TypeOK, PipeInv

\* put into the queue
LEMMA PushInv ==
    ASSUME NEW r \in Requests, RelayInv, Push(r)
    PROVE  RelayInv'
  <1>1. /\ UNCHANGED <<conn, asked, got, hellos, up, back, shake, ready, from, codec,
                       tracked, writer, counted, panicked>>
        /\ UNCHANGED <<outQueue, sockets, cache, dispatching, closed>>
        /\ reader = [at |-> "push", request |-> r]
        /\ reader' = [at |-> "count", request |-> r]
        /\ inQueue' = Append(inQueue, r)
    BY DEF Push, entryVars, netVars, tcpVars
  <1>2. /\ inQueue' \in Seq(Requests)
        /\ \A i \in 1 .. Len(inQueue') :
              inQueue'[i] = r \/ (i \in 1 .. Len(inQueue) /\ inQueue'[i] = inQueue[i])
    BY <1>1, AppendItems DEF RelayInv, TypeOK, ServiceType
  <1>3. NetType' /\ EntryType' /\ ServiceType'
    BY <1>1, <1>2 DEF RelayInv, TypeOK, EntryType, NetType, ServiceType
  <1>4. ExitType'
    BY <1>1 DEF RelayInv, TypeOK, ExitType
  <1>5. ConnInv' /\ KeyFound' /\ FromInv'
    BY <1>1 DEF RelayInv, OrderInv, ConnInv, KeyFound, FromInv, Busy, AtRest
  <1>6. \A s \in Requests :
            reader' \in {[at |-> "push", request |-> s], [at |-> "count", request |-> s]}
                => s = r
    BY <1>1
  <1>7. AddressOf(r) \in tracked /\ r \in asked
    BY <1>1 DEF RelayInv, OrderInv, TrackedInv, PipeInv, UpInv
  <1>8. TrackedInv'
    BY <1>1, <1>6, <1>7 DEF RelayInv, OrderInv, TrackedInv
  <1>9. AllCounted'
    <2>. SUFFICES ASSUME NEW s \in PassedOn', ~panicked', s \notin counted', s # r PROVE FALSE
      BY <1>1 DEF AllCounted
    <2>1. s \in PassedOn
      BY <1>1, <1>2, <1>3, PassedOnByIndex DEF RelayInv, TypeOK
    <2>. QED
      BY <1>1, <2>1 DEF RelayInv, OrderInv, AllCounted
  <1>10. UpInv'
    BY <1>1, <1>2, <1>6, <1>7 DEF RelayInv, PipeInv, UpInv
  <1>11. SocketInv' /\ CacheInv' /\ AnswerInv'
    BY <1>1 DEF RelayInv, PipeInv, SocketInv, SocketFor, CacheInv, AnswerInv, AnswerFor
  <1>. QED
    BY <1>3, <1>4, <1>5, <1>8, <1>9, <1>10, <1>11 DEF RelayInv, OrderInv, TypeOK, PipeInv

\* and counted.
LEMMA CountInv ==
    ASSUME NEW r \in Requests, RelayInv, CountRequest(r)
    PROVE  RelayInv'
  <1>1. /\ UNCHANGED <<conn, asked, got, hellos, up, back, shake, ready, from, codec,
                       tracked, writer>>
        /\ UNCHANGED <<inQueue, outQueue, sockets, cache, dispatching, closed>>
        /\ reader = [at |-> "count", request |-> r] /\ reader' = AtRest /\ ~panicked
    BY DEF CountRequest, entryVars, netVars, tcpVars, serviceVars
  <1>2. AddressOf(r) \in tracked
    BY <1>1 DEF RelayInv, OrderInv, TrackedInv
  <1>3. (counted' = counted \cup {r} /\ panicked' = panicked)
        \/ (counted' = counted /\ panicked' = TRUE)
    BY <1>2 DEF CountRequest
  <1>4. NetType' /\ EntryType' /\ ServiceType' /\ ExitType'
    BY <1>1, <1>3 DEF RelayInv, TypeOK, EntryType, NetType, ServiceType, ExitType
  <1>5. ConnInv' /\ KeyFound' /\ FromInv'
    BY <1>1 DEF RelayInv, OrderInv, ConnInv, KeyFound, FromInv, Busy, AtRest
  <1>6. reader.at = "count" /\ reader'.at = "read"
    BY <1>1 DEF AtRest
  <1>7. TrackedInv'
    <2>1. codec \subseteq tracked
      BY <1>6 DEF RelayInv, OrderInv, TrackedInv
    <2>2. \A s \in Requests :
              reader' \notin {[at |-> "push", request |-> s], [at |-> "count", request |-> s]}
      BY <1>6
    <2>. QED
      BY <1>1, <2>1, <2>2 DEF TrackedInv
  <1>8. AllCounted'
    <2>1. PassedOn' = PassedOn
      BY <1>1 DEF PassedOn, Items
    <2>2. \A s : reader = [at |-> "count", request |-> s] => s = r
      BY <1>1
    <2>3. \A s \in PassedOn : s \in counted \/ s = r
      BY <1>1, <2>2 DEF RelayInv, OrderInv, AllCounted
    <2>4. CASE counted' = counted \cup {r}
      BY <2>1, <2>3, <2>4 DEF AllCounted
    <2>5. CASE panicked' = TRUE
      BY <2>5 DEF AllCounted
    <2>. QED
      BY <1>3, <2>4, <2>5
  <1>9. UpInv'
    BY <1>1, <1>6 DEF RelayInv, PipeInv, UpInv
  <1>10. SocketInv' /\ CacheInv' /\ AnswerInv'
    BY <1>1 DEF RelayInv, PipeInv, SocketInv, SocketFor, CacheInv, AnswerInv, AnswerFor
  <1>. QED
    BY <1>4, <1>5, <1>7, <1>8, <1>9, <1>10 DEF RelayInv, OrderInv, TypeOK, PipeInv

---------------------------------------------------------------------------
\* Another state of a socket, or other requests of its port.
LEMMA SocketStep ==
    ASSUME ServiceType, SocketInv, CacheInv, UNCHANGED asked,
           NEW i \in 1 .. Len(sockets), NEW x \in Sockets, SocketFor(x),
           x.port = sockets[i].port, sockets' = [sockets EXCEPT ![i] = x]
    PROVE  /\ sockets' \in Seq(Sockets) /\ Len(sockets') = Len(sockets)
           /\ \A j \in 1 .. Len(sockets) : sockets'[j] = IF j = i THEN x ELSE sockets[j]
           /\ \A j \in 1 .. Len(sockets) : sockets'[j].port = sockets[j].port
           /\ SocketInv'
  <1>1. sockets \in Seq(Sockets)
    BY DEF ServiceType
  <1>2. /\ sockets' \in Seq(Sockets) /\ Len(sockets') = Len(sockets)
        /\ \A j \in 1 .. Len(sockets) : sockets'[j] = IF j = i THEN x ELSE sockets[j]
    BY <1>1, ExceptSeq
  <1>3. SocketInv'
    BY <1>2 DEF SocketInv, SocketFor
  <1>. QED
    BY <1>2, <1>3

\* The dispatcher takes a request to a socket of its port, dialled now if need be.
LEMMA DispatchInv ==
    ASSUME RelayInv, Dispatch
    PROVE  RelayInv'
  <1>. DEFINE r == Head(inQueue)
  <1>1. /\ UNCHANGED <<conn, asked, got, hellos, up, back, shake, ready, from, codec,
                       tracked, reader, writer, counted, panicked>>
        /\ UNCHANGED <<outQueue, closed>> /\ inQueue # <<>>
        /\ inQueue' = Tail(inQueue) /\ dispatching' \in BOOLEAN
    BY DEF Dispatch, entryVars, netVars, tcpVars, udpVars, RelayInv, TypeOK, ServiceType
  <1>2. /\ inQueue' \in Seq(Requests) /\ r \in Requests /\ r = inQueue[1]
        /\ 1 \in 1 .. Len(inQueue)
        /\ \A i \in 1 .. Len(inQueue') :
              i + 1 \in 1 .. Len(inQueue) /\ inQueue'[i] = inQueue[i + 1]
    BY <1>1, TailItems DEF RelayInv, TypeOK, ServiceType
  <1>3. Port(r) \in Ports /\ To[r] \in Services /\ r \in asked
    BY <1>2, ConstantFacts DEF RelayInv, PipeInv, UpInv
  <1>4. EntryType' /\ NetType' /\ ExitType' /\ UpInv' /\ AnswerInv'
    BY <1>1, <1>2 DEF RelayInv, TypeOK, EntryType, NetType, ExitType, PipeInv, UpInv,
                      AnswerInv, AnswerFor
  <1>5. ConnInv' /\ TrackedInv' /\ KeyFound' /\ from' # NoConn
    BY <1>1 DEF RelayInv, OrderInv, ConnInv, TrackedInv, KeyFound, FromInv, Busy
  <1>6. FromInv'
    BY <1>5 DEF FromInv
  <1>7. /\ sockets \in Seq(Sockets) /\ cache \in [Ports -> 0 .. MaxSockets]
        /\ SocketInv /\ CacheInv /\ ServiceType /\ Len(sockets) \in Nat
    BY DEF RelayInv, TypeOK, ServiceType, PipeInv
  <1>8. /\ sockets' \in Seq(Sockets) /\ cache' \in [Ports -> 0 .. MaxSockets]
        /\ SocketInv' /\ CacheInv'
        /\ \A j \in 1 .. Len(sockets') : \A s \in sockets'[j].asked :
              s = r \/ (j \in 1 .. Len(sockets) /\ s \in sockets[j].asked)
    <2>1. CASE Dial(r)
      <3>. DEFINE x == [port |-> Port(r), service |-> To[r], state |-> "open", asked |-> {r}]
      <3>1. x \in Sockets /\ SocketFor(x)
        BY <1>2, <1>3 DEF Sockets, SocketFor
      <3>2. sockets' = Append(sockets, x) /\ Len(sockets) < MaxSockets
        BY <2>1 DEF Dial
      <3>. HIDE DEF x
      <3>3. /\ sockets' \in Seq(Sockets) /\ Len(sockets') = Len(sockets) + 1
            /\ sockets'[Len(sockets) + 1] = x
            /\ \A j \in 1 .. Len(sockets) : sockets'[j] = sockets[j]
        BY <1>7, <3>1, <3>2
      <3>4. SocketInv'
        BY <1>1, <1>7, <3>1, <3>3 DEF SocketInv, SocketFor
      <3>5. cache' = [cache EXCEPT ![Port(r)] = Len(sockets) + 1]
        BY <2>1 DEF Dial, Key
      <3>6. x.port = Port(r) /\ x.asked = {r}
        BY DEF x
      <3>7. CacheInv' /\ cache' \in [Ports -> 0 .. MaxSockets]
        BY <1>3, <1>7, <3>2, <3>3, <3>5, <3>6, BoundsAssumption DEF CacheInv
      <3>8. \A j \in 1 .. Len(sockets') : \A s \in sockets'[j].asked :
              s = r \/ (j \in 1 .. Len(sockets) /\ s \in sockets[j].asked)
        BY <1>7, <3>3, <3>6
      <3>. QED
        BY <3>3, <3>4, <3>7, <3>8
    <2>2. CASE Forward(r)
      <3>. DEFINE i == cache[Port(r)]
                  x == Waiting(sockets[i], sockets[i].asked \cup {r})
      <3>1. i \in 1 .. Len(sockets) /\ sockets[i].port = Port(r) /\ cache' = cache
        BY <1>3, <1>7, <2>2 DEF Forward, Key, CacheInv
      <3>2. sockets' = [sockets EXCEPT ![i] = x] \/ sockets' = sockets
        BY <2>2 DEF Forward, Key
      <3>3. sockets[i] \in Sockets /\ SocketFor(sockets[i])
        BY <1>7, <3>1 DEF SocketInv
      <3>4. /\ x \in Sockets /\ x.port = sockets[i].port /\ x.service = sockets[i].service
            /\ x.asked = sockets[i].asked \cup {r}
        BY <1>2, <3>3 DEF Waiting, Sockets
      <3>5. SocketFor(x)
        BY <1>3, <3>1, <3>3, <3>4 DEF SocketFor
      <3>6. CASE sockets' = sockets
        BY <1>1, <1>7, <3>1, <3>6 DEF SocketInv, SocketFor, CacheInv
      <3>7. CASE sockets' = [sockets EXCEPT ![i] = x]
        <4>. HIDE DEF x, i
        <4>1. /\ sockets' \in Seq(Sockets) /\ Len(sockets') = Len(sockets) /\ SocketInv'
              /\ \A j \in 1 .. Len(sockets) : sockets'[j] = IF j = i THEN x ELSE sockets[j]
              /\ \A j \in 1 .. Len(sockets) : sockets'[j].port = sockets[j].port
          BY <1>1, <1>7, <3>1, <3>4, <3>5, <3>7, SocketStep
        <4>2. CacheInv'
          BY <1>7, <3>1, <4>1 DEF CacheInv
        <4>. QED
          BY <1>7, <3>1, <3>4, <4>1, <4>2
      <3>. QED
        BY <3>2, <3>6, <3>7
    <2>3. CASE DialFails(r)
      <3>1. UNCHANGED <<sockets, cache, asked>>
        BY <1>1, <2>3 DEF DialFails
      <3>2. SocketInv' /\ CacheInv'
        BY <1>7, <3>1 DEF SocketInv, SocketFor, CacheInv
      <3>. QED
        BY <1>7, <3>1, <3>2
    <2>. QED
      BY <2>1, <2>2, <2>3 DEF Dispatch
  <1>9. ServiceType'
    BY <1>1, <1>2, <1>7, <1>8 DEF ServiceType
  <1>10. AllCounted'
    <2>. DEFINE Held(s) == \E j \in 1 .. Len(sockets) : s \in sockets[j].asked
    <2>1. \A s : Held(s) => s \in PassedOn
      BY <1>7, PassedOnByIndex
    <2>2. \A i \in 1 .. Len(inQueue) : inQueue[i] \in PassedOn
      BY <1>7, PassedOnByIndex
    <2>3. \A s : (\E j \in 1 .. Len(sockets') : s \in sockets'[j].asked) => s = r \/ Held(s)
      BY <1>8
    <2>. HIDE DEF Held
    <2>4. \A s \in PassedOn' : s \in PassedOn
      BY <1>2, <1>9, <2>1, <2>2, <2>3, PassedOnByIndex
    <2>. QED
      BY <1>1, <2>4 DEF RelayInv, OrderInv, AllCounted
  <1>. QED
    BY <1>4, <1>5, <1>6, <1>8, <1>9, <1>10 DEF RelayInv, OrderInv, TypeOK, PipeInv

\* The cache forgets a socket.
LEMMA ExpireInv ==
    ASSUME NEW p \in Ports, RelayInv, Expire(p)
    PROVE  RelayInv'
  <1>1. /\ UNCHANGED <<conn, asked, got, hellos, up, back, shake, ready, from, codec,
                       tracked, reader, writer, counted, panicked>>
        /\ UNCHANGED <<inQueue, outQueue, sockets, dispatching, closed>>
        /\ cache' = [cache EXCEPT ![p] = 0]
    BY DEF Expire, entryVars, netVars, tcpVars, udpVars
  <1>2. ServiceType' /\ CacheInv'
    BY <1>1, BoundsAssumption DEF RelayInv, TypeOK, ServiceType, PipeInv, CacheInv
  <1>3. EntryType' /\ NetType' /\ ExitType' /\ UpInv' /\ AnswerInv' /\ SocketInv'
    BY <1>1 DEF RelayInv, TypeOK, EntryType, NetType, ExitType, PipeInv, UpInv,
                AnswerInv, AnswerFor, SocketInv, SocketFor
  <1>4. OrderInv'
    BY <1>1 DEF RelayInv, OrderInv, ConnInv, TrackedInv, FromInv, Busy, KeyFound,
                AllCounted, PassedOn, Items
  <1>. QED
    BY <1>2, <1>3, <1>4 DEF RelayInv, TypeOK, PipeInv

\* The goroutine of a socket: an answer, or the end of the socket.
LEMMA SocketGoroutineInv ==
    ASSUME NEW i \in 1 .. Len(sockets), RelayInv,
           SocketFails(i) \/ Unlist(i) \/ \E r \in Requests : Collect(i, r)
    PROVE  RelayInv'
  <1>1. /\ UNCHANGED <<conn, asked, got, hellos, up, back, shake, ready, from, codec,
                       tracked, reader, writer, counted, panicked>>
        /\ UNCHANGED <<inQueue, dispatching, closed>>
    BY DEF Collect, SocketFails, Unlist, entryVars, netVars, tcpVars, udpVars
  <1>2. /\ sockets \in Seq(Sockets) /\ sockets[i] \in Sockets /\ Len(sockets) \in Nat
        /\ cache \in [Ports -> 0 .. MaxSockets] /\ outQueue \in Seq(Answers)
        /\ ServiceType /\ SocketInv /\ CacheInv /\ SocketFor(sockets[i])
    BY DEF RelayInv, TypeOK, ServiceType, PipeInv, SocketInv
  <1>3. PICK x \in Sockets :
            /\ sockets' = [sockets EXCEPT ![i] = x]
            /\ x.port = sockets[i].port /\ x.service = sockets[i].service
            /\ x.asked \subseteq sockets[i].asked
    <2>1. ASSUME NEW r \in Requests, Collect(i, r)
          PROVE  \E x \in Sockets :
                    /\ sockets' = [sockets EXCEPT ![i] = x]
                    /\ x.port = sockets[i].port /\ x.service = sockets[i].service
                    /\ x.asked \subseteq sockets[i].asked
      <3>1. Waiting(sockets[i], sockets[i].asked \ {r}) \in Sockets
        BY <1>2 DEF Waiting, Sockets
      <3>. QED
        BY <1>2, <2>1, <3>1 DEF Collect, Waiting
    <2>2. CASE SocketFails(i)
      <3>1. Becomes(sockets[i], "failed") \in Sockets
        BY <1>2 DEF Becomes, Sockets
      <3>. QED
        BY <1>2, <2>2, <3>1 DEF SocketFails, Becomes
    <2>3. CASE Unlist(i)
      <3>1. Becomes(sockets[i], "gone") \in Sockets
        BY <1>2 DEF Becomes, Sockets
      <3>. QED
        BY <1>2, <2>3, <3>1 DEF Unlist, Becomes
    <2>. QED
      BY <2>1, <2>2, <2>3
  <1>4. SocketFor(x)
    BY <1>2, <1>3 DEF SocketFor
  <1>5. /\ sockets' \in Seq(Sockets) /\ Len(sockets') = Len(sockets) /\ SocketInv'
        /\ \A j \in 1 .. Len(sockets) : sockets'[j] = IF j = i THEN x ELSE sockets[j]
        /\ \A j \in 1 .. Len(sockets) : sockets'[j].port = sockets[j].port
    BY <1>1, <1>2, <1>3, <1>4, SocketStep
  <1>6. cache' \in [Ports -> 0 .. MaxSockets] /\ CacheInv'
    <2>1. cache' = cache \/ cache' = [cache EXCEPT ![sockets[i].port] = 0]
      BY DEF Collect, SocketFails, Unlist
    <2>2. cache' \in [Ports -> 0 .. MaxSockets]
      BY <1>2, <2>1, BoundsAssumption
    <2>3. \A p \in Ports : cache'[p] > 0 => cache'[p] = cache[p]
      BY <1>2, <2>1
    <2>4. Len(sockets') <= MaxSockets
      BY <1>2, <1>5 DEF CacheInv
    <2>5. ASSUME NEW p \in Ports, cache'[p] > 0
          PROVE  cache'[p] \in 1 .. Len(sockets') /\ sockets'[cache'[p]].port = p
      BY <1>2, <1>5, <2>3, <2>5 DEF CacheInv
    <2>. QED
      BY <2>2, <2>4, <2>5 DEF CacheInv
  <1>7. outQueue' \in Seq(Answers) /\ AnswerInv'
    <2>1. CASE outQueue' = outQueue
      BY <1>1, <1>2, <2>1 DEF RelayInv, PipeInv, AnswerInv, AnswerFor
    <2>2. ASSUME NEW r \in Requests, Collect(i, r)
          PROVE  outQueue' \in Seq(Answers) /\ AnswerInv'
      <3>. DEFINE a == Answered(i, r)
      <3>1. r \in asked /\ Port(r) = sockets[i].port
        BY <1>2, <2>2 DEF Collect, SocketFor
      <3>2. a \in Answers /\ AnswerFor(a)
        BY <1>2, <3>1 DEF Answered, Answers, AnswerFor, Sockets
      <3>3. outQueue' = Append(outQueue, a)
        BY <2>2 DEF Collect
      <3>. HIDE DEF a
      <3>4. /\ outQueue' \in Seq(Answers)
            /\ \A j \in 1 .. Len(outQueue') : outQueue'[j] = a
                  \/ (j \in 1 .. Len(outQueue) /\ outQueue'[j] = outQueue[j])
        BY <1>2, <3>2, <3>3, AppendItems
      <3>5. \A b : AnswerFor(b) => AnswerFor(b)'
        BY <1>1 DEF AnswerFor
      <3>6. \A j \in 1 .. Len(outQueue') : AnswerFor(outQueue'[j])
        BY <3>2, <3>4 DEF RelayInv, PipeInv, AnswerInv
      <3>. QED
        BY <1>1, <3>4, <3>6 DEF RelayInv, PipeInv, AnswerInv, AnswerFor
    <2>. QED
      BY <2>1, <2>2 DEF SocketFails, Unlist
  <1>8. ServiceType'
    BY <1>1, <1>2, <1>5, <1>6, <1>7 DEF ServiceType
  <1>9. EntryType' /\ NetType' /\ ExitType' /\ UpInv'
    BY <1>1 DEF RelayInv, TypeOK, EntryType, NetType, ExitType, PipeInv, UpInv
  <1>10. ConnInv' /\ TrackedInv' /\ KeyFound'
    BY <1>1 DEF RelayInv, OrderInv, ConnInv, TrackedInv, KeyFound
  <1>11. FromInv'
    <2>1. sockets # <<>>
      BY <1>2
    <2>. QED
      BY <1>1, <2>1 DEF RelayInv, OrderInv, FromInv, Busy
  <1>12. AllCounted'
    <2>1. \A s : (\E j \in 1 .. Len(sockets') : s \in sockets'[j].asked)
                    => \E j \in 1 .. Len(sockets) : s \in sockets[j].asked
      BY <1>3, <1>5
    <2>2. \A s \in PassedOn' : s \in PassedOn
      BY <1>1, <1>2, <1>8, <2>1, PassedOnByIndex
    <2>. QED
      BY <1>1, <2>2 DEF RelayInv, OrderInv, AllCounted
  <1>. QED
    BY <1>5, <1>6, <1>7, <1>8, <1>9, <1>10, <1>11, <1>12
       DEF RelayInv, OrderInv, TypeOK, PipeInv

\* Close: sockets that the cache still has fail.
LEMMA CloseInv ==
    ASSUME RelayInv, Close
    PROVE  RelayInv'
  <1>1. /\ UNCHANGED <<conn, asked, got, hellos, up, back, shake, ready, from, codec,
                       tracked, reader, writer, counted, panicked>>
        /\ UNCHANGED <<inQueue, outQueue, dispatching>> /\ closed' \in BOOLEAN
        /\ cache' = [p \in Ports |-> 0]
    BY DEF Close, entryVars, netVars, tcpVars, udpVars
  <1>2. /\ sockets \in Seq(Sockets) /\ Len(sockets) \in Nat /\ DOMAIN sockets = 1 .. Len(sockets)
        /\ \A j \in 1 .. Len(sockets) : sockets[j] \in Sockets
    BY DEF RelayInv, TypeOK, ServiceType
  <1>3. ASSUME NEW j \in 1 .. Len(sockets)
        PROVE  /\ Becomes(sockets[j], "failed") \in Sockets
               /\ Becomes(sockets[j], "failed").port = sockets[j].port
               /\ Becomes(sockets[j], "failed").service = sockets[j].service
               /\ Becomes(sockets[j], "failed").asked = sockets[j].asked
    BY <1>2 DEF Becomes, Sockets
  <1>4. /\ sockets' \in [1 .. Len(sockets) -> Sockets]
        /\ \A j \in 1 .. Len(sockets) :
              sockets'[j] \in {sockets[j], Becomes(sockets[j], "failed")}
    BY <1>2, <1>3 DEF Close
  <1>5. sockets' \in Seq(Sockets) /\ Len(sockets') = Len(sockets)
    <2>1. sockets' \in Seq(Sockets)
      BY <1>2, <1>4, SeqDef
    <2>. QED
      BY <1>2, <1>4, <2>1, LenProperties
  <1>6. \A j \in 1 .. Len(sockets) :
            /\ sockets'[j].port = sockets[j].port
            /\ sockets'[j].service = sockets[j].service
            /\ sockets'[j].asked = sockets[j].asked
    BY <1>3, <1>4
  <1>7. ServiceType'
    BY <1>1, <1>5, BoundsAssumption DEF RelayInv, TypeOK, ServiceType
  <1>8. SocketInv' /\ CacheInv'
    BY <1>1, <1>5, <1>6 DEF RelayInv, PipeInv, SocketInv, SocketFor, CacheInv
  <1>9. EntryType' /\ NetType' /\ ExitType' /\ UpInv' /\ AnswerInv'
    BY <1>1 DEF RelayInv, TypeOK, EntryType, NetType, ExitType, PipeInv, UpInv,
                AnswerInv, AnswerFor
  <1>10. ConnInv' /\ TrackedInv' /\ KeyFound'
    BY <1>1 DEF RelayInv, OrderInv, ConnInv, TrackedInv, KeyFound
  <1>11. FromInv'
    <2>1. sockets' # <<>> => sockets # <<>>
      BY <1>2, <1>5
    <2>. QED
      BY <1>1, <2>1 DEF RelayInv, OrderInv, FromInv, Busy
  <1>12. AllCounted'
    <2>1. \A r \in PassedOn' : r \in PassedOn
      BY <1>1, <1>5, <1>6, <1>7, PassedOnByIndex DEF RelayInv, TypeOK
    <2>. QED
      BY <1>1, <2>1 DEF RelayInv, OrderInv, AllCounted
  <1>. QED
    BY <1>7, <1>8, <1>9, <1>10, <1>11, <1>12 DEF RelayInv, OrderInv, TypeOK, PipeInv

---------------------------------------------------------------------------
\* The writer sends an answer to the address read from last, and counts it.
LEMMA WriteInv ==
    ASSUME RelayInv, Write
    PROVE  RelayInv'
  <1>. DEFINE a == Head(outQueue)
              d == [to |-> from, encrypted |-> from \in codec, answer |-> a]
  <1>1. /\ UNCHANGED <<conn, asked, got, hellos, up, shake, ready, from, codec, tracked,
                       reader, counted, panicked>>
        /\ UNCHANGED <<inQueue, sockets, cache, dispatching, closed>>
        /\ outQueue # <<>> /\ outQueue' = Tail(outQueue)
        /\ back' = back \cup {d} /\ writer' = [at |-> "count"]
    BY DEF Write, WriteNext, entryVars, tcpVars
  <1>2. /\ outQueue' \in Seq(Answers) /\ a \in Answers /\ AnswerFor(a)
        /\ \A i \in 1 .. Len(outQueue') :
              i + 1 \in 1 .. Len(outQueue) /\ outQueue'[i] = outQueue[i + 1]
    BY <1>1, TailItems DEF RelayInv, TypeOK, ServiceType, PipeInv, AnswerInv
  <1>3. from \in Conns
    BY <1>1 DEF RelayInv, TypeOK, ExitType, OrderInv, FromInv, Busy
  <1>4. NetType'
    <2>1. d \in [to : Conns, encrypted : BOOLEAN, answer : Answers]
      BY <1>2, <1>3
    <2>. QED
      BY <1>1, <2>1 DEF RelayInv, TypeOK, NetType
  <1>5. EntryType' /\ ExitType' /\ ServiceType'
    BY <1>1, <1>2 DEF RelayInv, TypeOK, EntryType, ExitType, ServiceType
  <1>6. ConnInv' /\ TrackedInv' /\ KeyFound' /\ AllCounted'
    BY <1>1 DEF RelayInv, OrderInv, ConnInv, TrackedInv, KeyFound, AllCounted, PassedOn, Items
  <1>7. FromInv'
    BY <1>1, <1>3, ConstantFacts DEF FromInv
  <1>8. UpInv' /\ SocketInv' /\ CacheInv'
    BY <1>1 DEF RelayInv, PipeInv, UpInv, SocketInv, SocketFor, CacheInv
  <1>9. AnswerInv'
    <2>1. \A b : AnswerFor(b) => AnswerFor(b)'
      BY <1>1 DEF AnswerFor
    <2>2. d.answer = a
      OBVIOUS
    <2>. HIDE DEF d, a
    <2>3. /\ \A i \in 1 .. Len(outQueue') : AnswerFor(outQueue'[i])
          /\ \A b \in back' : AnswerFor(b.answer)
      BY <1>1, <1>2, <2>2 DEF RelayInv, PipeInv, AnswerInv
    <2>. QED
      BY <1>1, <2>3 DEF AnswerInv, AnswerFor
  <1>. QED
    BY <1>4, <1>5, <1>6, <1>7, <1>8, <1>9 DEF RelayInv, OrderInv, TypeOK, PipeInv

LEMMA CountAnswerInv ==
    ASSUME RelayInv, CountAnswer
    PROVE  RelayInv'
  <1>1. /\ UNCHANGED <<conn, asked, got, hellos, up, back, shake, ready, from, codec,
                       tracked, reader, counted>>
        /\ UNCHANGED <<inQueue, outQueue, sockets, cache, dispatching, closed>>
        /\ ~panicked /\ panicked' \in BOOLEAN /\ writer' = Idle
    BY DEF CountAnswer, entryVars, netVars, tcpVars, serviceVars
  <1>2. PipeInv' /\ ServiceType'
    BY <1>1, PipeFrame DEF RelayInv, TypeOK
  <1>3. EntryType' /\ NetType' /\ ExitType'
    BY <1>1 DEF RelayInv, TypeOK, EntryType, NetType, ExitType
  <1>4. OrderInv'
    BY <1>1 DEF RelayInv, OrderInv, ConnInv, TrackedInv, FromInv, Busy, KeyFound,
                AllCounted, PassedOn, Items
  <1>. QED
    BY <1>2, <1>3, <1>4 DEF RelayInv, TypeOK

\* An entry gets an answer.
LEMMA DeliverInv ==
    ASSUME NEW d \in back, RelayInv, Deliver(d)
    PROVE  RelayInv'
  <1>. DEFINE client == <<d.to[1], d.answer.port>>
  <1>1. /\ UNCHANGED <<conn, asked, hellos, up, shake, ready, from, codec, tracked, reader,
                       writer, counted, panicked>>
        /\ UNCHANGED <<inQueue, outQueue, sockets, cache, dispatching, closed>>
        /\ back' = back \ {d}
        /\ got' = [got EXCEPT ![client] = @ \cup {d.answer.request}]
    BY DEF Deliver, tcpVars, udpVars, serviceVars
  <1>2. d.answer.request \in Requests
    BY DEF RelayInv, TypeOK, NetType, Answers
  <1>3. EntryType' /\ NetType' /\ ExitType' /\ ServiceType'
    BY <1>1, <1>2 DEF RelayInv, TypeOK, EntryType, NetType, ExitType, ServiceType
  <1>4. OrderInv'
    BY <1>1 DEF RelayInv, OrderInv, ConnInv, TrackedInv, FromInv, Busy, KeyFound,
                AllCounted, PassedOn, Items
  <1>5. PipeInv'
    BY <1>1 DEF RelayInv, PipeInv, UpInv, SocketInv, SocketFor, CacheInv, AnswerInv,
                AnswerFor
  <1>. QED
    BY <1>3, <1>4, <1>5 DEF RelayInv, TypeOK

LEMMA StepInv == RelayInv /\ [Next]_vars => RelayInv'
  <1>. SUFFICES ASSUME RelayInv, [Next]_vars PROVE RelayInv'
    OBVIOUS
  <1>1. ASSUME NEW i \in DOMAIN sockets,
               SocketFails(i) \/ Unlist(i) \/ \E r \in Requests : Collect(i, r)
        PROVE  RelayInv'
    <2>1. i \in 1 .. Len(sockets)
      BY DEF RelayInv, TypeOK, ServiceType
    <2>. QED
      BY <1>1, <2>1, SocketGoroutineInv
  <1>2. CASE Next
    BY <1>1, <1>2, ConnectInv, HandshakeInv, AskInv, PingInv, HelloInv, CodecInv, RequestInv,
       PushInv, CountInv, DispatchInv, ExpireInv, CloseInv, WriteInv, CountAnswerInv,
       DeliverInv DEF Next
  <1>3. CASE UNCHANGED vars
    <2>1. /\ UNCHANGED <<conn, asked, got, hellos, up, back, shake, ready, from, codec,
                         tracked, reader, writer, counted, panicked>>
          /\ UNCHANGED <<inQueue, outQueue, sockets, cache, dispatching, closed>>
      BY <1>3 DEF vars, entryVars, netVars, tcpVars, udpVars, serviceVars
    <2>2. PipeInv' /\ ServiceType'
      BY <2>1, PipeFrame DEF RelayInv, TypeOK
    <2>3. EntryType' /\ NetType' /\ ExitType'
      BY <2>1 DEF RelayInv, TypeOK, EntryType, NetType, ExitType
    <2>4. OrderInv'
      BY <2>1 DEF RelayInv, OrderInv, ConnInv, TrackedInv, FromInv, Busy, KeyFound,
                  AllCounted, PassedOn, Items
    <2>. QED
      BY <2>2, <2>3, <2>4 DEF RelayInv, TypeOK
  <1>. QED
    BY <1>2, <1>3

LEMMA AlwaysInv == Spec => []RelayInv
  BY InitInv, StepInv, PTL DEF Spec

---------------------------------------------------------------------------
\* Types, for any number of entries, requests and sockets.
THEOREM TypeCorrect == Spec => []TypeOK
  BY AlwaysInv, PTL DEF RelayInv

\* The reader finds the key of every connection that it was woken for.
THEOREM KeyFoundHolds == Spec => []KeyFound
  BY AlwaysInv, PTL DEF RelayInv, OrderInv

\* What reaches a service was counted for the connection it came from, or the process
\* panics for want of a counter.
THEOREM AllCountedHolds == Spec => []AllCounted
  BY AlwaysInv, PTL DEF RelayInv, OrderInv

\* No request gets to another service than that which the clients of its port talk to.
THEOREM OwnServiceHolds == Spec => []OwnService
  <1>1. ASSUME RelayInv, NEW i \in 1 .. Len(sockets),
               \A r, s \in Requests : (Port(r) = sockets[i].port /\ Port(s) = Port(r))
                    => To[r] = To[s],
               NEW r \in sockets[i].asked
        PROVE  To[r] = sockets[i].service
    <2>1. SocketFor(sockets[i]) /\ sockets[i] \in Sockets
      BY <1>1 DEF RelayInv, PipeInv, SocketInv, TypeOK, ServiceType
    <2>2. r \in Requests /\ Port(r) = sockets[i].port
      BY <1>1, <2>1 DEF SocketFor, Sockets
    <2>3. PICK s \in Requests : Port(s) = sockets[i].port /\ To[s] = sockets[i].service
      BY <2>1 DEF SocketFor
    <2>. QED
      BY <1>1, <2>2, <2>3
  <1>2. RelayInv => DOMAIN sockets = 1 .. Len(sockets)
    BY DEF RelayInv, TypeOK, ServiceType
  <1>3. RelayInv => OwnService
    BY <1>1, <1>2 DEF OwnService
  <1>. QED
    BY <1>3, AlwaysInv, PTL

\* The relay implements the datagram service: a client is only given answers to
\* requests from its port, after it asked and after they were asked.
THEOREM ImplementsServiceHolds == Spec => ImplementsService
  <1>1. Init => Relay!Init
    BY DEF Init, Relay!Init
  <1>2. RelayInv /\ [Next]_vars => [Relay!Next]_<<asked, got>>
    <2>. SUFFICES ASSUME RelayInv, Next PROVE [Relay!Next]_<<asked, got>>
      BY DEF vars, entryVars
    <2>1. CASE \E r \in Requests : Ask(r)
      BY <2>1 DEF Ask, Relay!Next, Relay!Ask
    <2>2. ASSUME NEW d \in back, Deliver(d) PROVE Relay!Next
      <3>. DEFINE client == <<d.to[1], d.answer.port>>
      <3>1. d.answer.request \in asked /\ d.answer.port = Port(d.answer.request)
        BY DEF RelayInv, PipeInv, AnswerInv, AnswerFor
      <3>2. d.answer.request \in Requests /\ d.answer.port \in Ports /\ asked \subseteq Requests
        BY DEF RelayInv, TypeOK, NetType, EntryType, Answers
      <3>3. PICK r \in asked : From[r] = client
        BY <2>2 DEF Deliver
      <3>4. client \in Clients /\ client[2] = d.answer.port
        BY <3>2, <3>3, RequestsAssumption
      <3>5. From[d.answer.request] \in Clients /\ From[d.answer.request][2] = client[2]
        BY <3>1, <3>2, <3>4, RequestsAssumption DEF Port
      <3>6. Relay!Answer(client, d.answer.request)
        BY <2>2, <3>1, <3>2, <3>3, <3>4, <3>5 DEF Relay!Answer, Deliver
      <3>. QED
        BY <3>2, <3>4, <3>6 DEF Relay!Next
    <2>3. CASE UNCHANGED <<asked, got>>
      BY <2>3
    <2>4. \/ \E r \in Requests : Ask(r)
          \/ \E d \in back : Deliver(d)
          \/ UNCHANGED <<asked, got>>
      BY DEF Next, Connect, Ping, Handshake, StoreKey, SignalReady, StartSession, WrapFails,
             ReceiveHello, AddCodec, CodecFails, Track, ReceiveRequest, Push, CountRequest, Dispatch,
             Expire, Collect, SocketFails, Unlist, Write, CountAnswer, Close, entryVars
    <2>. QED
      BY <2>1, <2>2, <2>3, <2>4
  <1>. QED
    BY <1>1, <1>2, AlwaysInv, PTL DEF Spec, ImplementsService, Relay!Spec

---------------------------------------------------------------------------
(* Nothing is counted twice. *)

Holding(r) == reader \in {[at |-> "push", request |-> r], [at |-> "count", request |-> r]}

\* What is counted was asked and has been received, and the request that the reader is
\* about to count was not counted before: no client pays twice for a datagram.
CountedOnce ==
    /\ counted \subseteq asked /\ counted \cap up = {}
    /\ \A r \in Requests : Holding(r) => r \notin counted /\ r \notin up

LEMMA CountedOnceStep == RelayInv /\ CountedOnce /\ [Next]_vars => CountedOnce'
  <1>. SUFFICES ASSUME RelayInv, CountedOnce, [Next]_vars PROVE CountedOnce'
    OBVIOUS
  <1>1. ASSUME NEW r \in Requests, Ask(r) PROVE CountedOnce'
    <2>1. /\ r \notin asked /\ asked' = asked \cup {r} /\ up' \subseteq up \cup {r}
          /\ UNCHANGED <<reader, counted>>
      BY <1>1 DEF Ask, udpVars
    <2>2. ~Holding(r)
      BY <2>1 DEF Holding, RelayInv, PipeInv, UpInv
    <2>. QED
      BY <2>1, <2>2 DEF CountedOnce, Holding
  <1>2. ASSUME NEW r \in Requests, ReceiveRequest(r) PROVE CountedOnce'
    <2>1. /\ r \in up /\ up' = up \ {r} /\ UNCHANGED <<asked, counted>>
          /\ reader = AtRest /\ reader' \in {AtRest, [at |-> "push", request |-> r]}
      BY <1>2 DEF ReceiveRequest, Reading, entryVars
    <2>2. \A s \in Requests : Holding(s)' => s = r
      BY <2>1 DEF Holding, AtRest
    <2>. QED
      BY <2>1, <2>2 DEF CountedOnce
  <1>3. ASSUME NEW r \in Requests, Push(r) PROVE CountedOnce'
    <2>1. /\ UNCHANGED <<asked, up, counted>>
          /\ reader = [at |-> "push", request |-> r] /\ reader' = [at |-> "count", request |-> r]
      BY <1>3 DEF Push, entryVars, netVars
    <2>2. Holding(r) /\ \A s \in Requests : Holding(s)' => s = r
      BY <2>1 DEF Holding
    <2>. QED
      BY <2>1, <2>2 DEF CountedOnce
  <1>4. ASSUME NEW r \in Requests, CountRequest(r) PROVE CountedOnce'
    <2>1. /\ UNCHANGED <<asked, up>> /\ counted' \subseteq counted \cup {r}
          /\ reader = [at |-> "count", request |-> r] /\ reader' = AtRest
      BY <1>4 DEF CountRequest, entryVars, netVars
    <2>2. r \in asked /\ r \notin up
      BY <2>1 DEF RelayInv, PipeInv, UpInv, CountedOnce, Holding
    <2>3. \A s \in Requests : ~Holding(s)'
      BY <2>1 DEF Holding, AtRest
    <2>. QED
      BY <2>1, <2>2, <2>3 DEF CountedOnce
  <1>5. ASSUME UNCHANGED <<asked, up, counted>>,
               reader' = reader \/ reader'.at \in {"read", "await", "codec"}
        PROVE  CountedOnce'
    BY <1>5 DEF CountedOnce, Holding
  <1>6. CASE \E c \in Conns : \/ Handshake(c) \/ WrapFails(c)
                             \/ ReceiveHello(c) \/ AddCodec(c) \/ CodecFails(c) \/ Track(c)
    BY <1>5, <1>6 DEF Handshake, StoreKey, SignalReady, StartSession, WrapFails, ReceiveHello,
                AddCodec, CodecFails, Track, AtRest, entryVars, netVars, udpVars
  <1>7. CASE \E e \in Entries : Connect(e) \/ Ping(e)
    BY <1>5, <1>7 DEF Connect, Ping, entryVars, netVars, udpVars
  <1>8. CASE Dispatch \/ \E p \in Ports : Expire(p)
    BY <1>5, <1>8 DEF Dispatch, Expire, entryVars, netVars, udpVars
  <1>9. CASE \E i \in DOMAIN sockets :
                SocketFails(i) \/ Unlist(i) \/ (\E r \in Requests : Collect(i, r))
    BY <1>5, <1>9 DEF SocketFails, Unlist, Collect, entryVars, netVars, udpVars
  <1>10. CASE Write \/ CountAnswer \/ (\E d \in back : Deliver(d)) \/ Close \/ UNCHANGED vars
    BY <1>5, <1>10 DEF Write, CountAnswer, Deliver, Close, vars, entryVars, netVars, udpVars
  <1>. QED
    BY <1>1, <1>2, <1>3, <1>4, <1>6, <1>7, <1>8, <1>9, <1>10 DEF Next

\* No datagram is counted that was not received, and none is counted twice.
THEOREM CountedOnceHolds == Spec => []CountedOnce
  <1>1. Init => CountedOnce
    BY DEF Init, CountedOnce, Holding, AtRest
  <1>. QED
    BY <1>1, CountedOnceStep, AlwaysInv, PTL DEF Spec
=============================================================================
