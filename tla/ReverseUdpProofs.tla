-------------------------- MODULE ReverseUdpProofs --------------------------
(***************************************************************************)
(* For any number of exits: the writer of an entry never sends in the      *)
(* clear, the reader finds the key it was woken for, every datagram handed *)
(* on is counted, and what was counted for a connection stays counted.     *)
(* They rest on one invariant about the order in which handler and reader  *)
(* fill the shared maps.                                                   *)
(***************************************************************************)
EXTENDS ReverseUdp, TLAPS

\* The handler stores, then signals.
HandlerOrder ==
    \A k \in Exits :
        /\ k \in tcpReady => handler[k] \in {"signalled", "waiting", "serving", "closed", "ended"}
        /\ handler[k] \in {"stored", "signalled", "waiting", "serving", "closed"} => k \in known

\* The reader installs the codec, fills the maps, then signals.
BindingOrder ==
    /\ bound \subseteq codec
    /\ \A k \in Exits : udpReady[k] = "closed" => k \in bound
    /\ \A k \in Exits : writer[k] = "run" => k \in bound

\* What the reader has established at each of its steps.
ReaderOrder ==
    /\ reader = "key" => current \in tcpReady
    /\ reader \in {"ready", "key"} => current \notin codec
    /\ reader = "entry" => current \in codec /\ current \notin bound
    /\ reader \in {"signal", "push", "count"} => current \in bound

\* Counters are made once, when the connection is bound.
CountOrder ==
    \A k \in Exits : k \notin bound => counted[k] = 0

\* A datagram that was sent is on its way, with the reader, or counted, and only once.
InHand(k) == IF reader = "push" /\ current = k THEN 1 ELSE 0
SentOrder ==
    \A k \in Exits : counted[k] + Behind(k) + InHand(k) + data[k] <= sent[k]

UdpInv ==
    /\ TypeOK /\ HandlerOrder /\ BindingOrder /\ ReaderOrder
    /\ CountOrder /\ SentOrder /\ AllCounted

LEMMA InitInv == Init => UdpInv
  <1>. SUFFICES ASSUME Init PROVE UdpInv
    OBVIOUS
  <1>1. TypeOK
    BY ParameterAssumption DEF Init, TypeOK, HandlerType, ReaderType, NetworkType
  <1>2. HandlerOrder /\ BindingOrder /\ ReaderOrder /\ CountOrder /\ SentOrder /\ AllCounted
    BY DEF Init, HandlerOrder, BindingOrder, ReaderOrder, CountOrder, SentOrder, InHand,
           AllCounted, Behind, AtReader
  <1>. QED
    BY <1>1, <1>2 DEF UdpInv

\* What is counted are natural numbers.
LEMMA CountTypes ==
    ASSUME TypeOK
    PROVE  /\ counted \in [Exits -> Nat] /\ queue \in [Exits -> Nat] /\ taken \in [Exits -> Nat]
           /\ data \in [Exits -> Nat] /\ sent \in [Exits -> Nat]
           /\ \A k \in Exits : Behind(k) \in Nat /\ InHand(k) \in Nat
  BY ParameterAssumption DEF TypeOK, ReaderType, NetworkType, Behind, InHand

---------------------------------------------------------------------------
\* The handler's steps, each with the map it fills.
LEMMA HandlerInv ==
    ASSUME NEW k \in Exits, UdpInv,
           Connect(k) \/ SendData(k) \/ Setup(k) \/ WrapFails(k) \/ Abandon(k) \/ Close(k)
    PROVE  UdpInv'
  <1>. USE DEF UdpInv, TypeOK
  <1>1. CASE Connect(k) \/ SendData(k)
    <2>1. NetworkType'
      BY <1>1, ParameterAssumption DEF Connect, SendData, NetworkType
    <2>2. HandlerType' /\ HandlerOrder'
      BY <1>1 DEF Connect, SendData, Step, HandlerType, HandlerOrder, maps
    <2>3. ReaderType' /\ BindingOrder' /\ ReaderOrder' /\ CountOrder'
      BY <1>1 DEF Connect, SendData, ReaderType, BindingOrder, ReaderOrder, CountOrder,
                  AtReader, maps, binding
    <2>4. /\ UNCHANGED <<reader, current, counted, queue, taken>>
          /\ \/ UNCHANGED <<data, sent>>
             \/ /\ data' = [data EXCEPT ![k] = @ + 1]
                /\ sent' = [sent EXCEPT ![k] = @ + 1]
      BY <1>1 DEF Connect, SendData, binding
    <2>5. SentOrder' /\ AllCounted'
      BY <2>4, CountTypes DEF SentOrder, InHand, AllCounted, Behind, AtReader
    <2>. QED
      BY <2>1, <2>2, <2>3, <2>5
  <1>2. CASE Setup(k) \/ WrapFails(k) \/ Abandon(k) \/ Close(k)
    <2>1. NetworkType' /\ ReaderType' /\ CountOrder' /\ SentOrder' /\ AllCounted'
      BY <1>2 DEF Setup, Store, SignalTcp, MakeUdpReady, Serve, Forget, WrapFails, Abandon,
                  Close, NetworkType, ReaderType, CountOrder, SentOrder, InHand, AllCounted,
                  Behind, AtReader, network, binding
    <2>2. HandlerType'
      BY <1>2 DEF Setup, Store, SignalTcp, MakeUdpReady, Serve, Forget, WrapFails, Abandon,
                  Close, HandlerType, Step, maps
    <2>3. HandlerOrder'
      BY <1>2 DEF Setup, Store, SignalTcp, MakeUdpReady, Serve, Forget, WrapFails, Abandon,
                  Close, HandlerType, HandlerOrder, Step, maps
    <2>4. BindingOrder'
      BY <1>2 DEF Setup, Store, SignalTcp, MakeUdpReady, Serve, Forget, WrapFails, Abandon,
                  Close, HandlerType, BindingOrder, Step, maps, binding
    <2>5. ReaderOrder'
      BY <1>2 DEF Setup, Store, SignalTcp, MakeUdpReady, Serve, Forget, WrapFails, Abandon,
                  Close, ReaderOrder, Step, maps, binding
    <2>. QED
      BY <2>1, <2>2, <2>3, <2>4, <2>5
  <1>. QED
    BY <1>1, <1>2

\* The reader takes a datagram.
LEMMA ReceiveInv ==
    ASSUME NEW k \in Exits, UdpInv, Receive(k)
    PROVE  UdpInv'
  <1>. USE DEF UdpInv, TypeOK
  <1>1. NetworkType'
    BY DEF Receive, ReceiveHello, ReceiveData, NetworkType
  <1>2. HandlerType' /\ HandlerOrder' /\ BindingOrder' /\ CountOrder'
    BY DEF Receive, ReceiveHello, ReceiveData, HandlerType, HandlerOrder, BindingOrder,
           CountOrder, maps, binding
  <1>3. ReaderType'
    BY ParameterAssumption DEF Receive, ReceiveHello, ReceiveData, Go, AtReader,
       ReaderType, binding
  <1>4. ReaderOrder'
    BY DEF Receive, ReceiveHello, ReceiveData, Go, AtReader, ReaderOrder, maps, binding
  <1>5. SentOrder'
    <2>1. CASE ReceiveHello(k)
      <3>1. UNCHANGED <<counted, data, sent>> /\ reader = "read" /\ reader' \in {"read", "ready"}
        BY <2>1 DEF ReceiveHello, Go, AtReader, binding
      <3>. QED
        BY <3>1 DEF SentOrder, Behind, InHand, AtReader
    <2>2. CASE ReceiveData(k)
      <3>1. /\ UNCHANGED <<counted, sent>> /\ data' = [data EXCEPT ![k] = @ - 1] /\ data[k] > 0
            /\ reader = "read" /\ ((reader' = "push" /\ current' = k) \/ reader' = "read")
        BY <2>2 DEF ReceiveData, Go, AtReader, binding
      <3>2. ASSUME NEW e \in Exits
            PROVE  counted'[e] + Behind(e)' + InHand(e)' + data'[e] <= sent'[e]
        <4>1. counted[e] + data[e] <= sent[e]
          BY <3>1, CountTypes DEF SentOrder, Behind, InHand, AtReader
        <4>2. Behind(e)' = 0 /\ InHand(e)' \in {0, IF e = k THEN 1 ELSE 0}
          BY <3>1 DEF Behind, InHand, AtReader
        <4>3. InHand(e)' + data'[e] <= data[e] /\ InHand(e)' \in Nat /\ data'[e] \in Nat
          BY <3>1, <4>2, CountTypes
        <4>. QED
          BY <3>1, <4>1, <4>2, <4>3, CountTypes
      <3>. QED
        BY <3>2 DEF SentOrder
    <2>. QED
      BY <2>1, <2>2 DEF Receive
  <1>6. AllCounted'
    <2>1. /\ UNCHANGED <<counted, queue, taken, sent>> /\ reader = "read" /\ reader' # "count"
      BY DEF Receive, ReceiveHello, ReceiveData, Go, AtReader, binding, network
    <2>. QED
      BY <2>1 DEF AllCounted, Behind, AtReader
  <1>. QED
    BY <1>1, <1>2, <1>3, <1>4, <1>5, <1>6

\* The reader goes on with it.
LEMMA ReaderInv ==
    ASSUME UdpInv, ReaderStep
    PROVE  UdpInv'
  <1>. USE DEF UdpInv, TypeOK
  <1>1. NetworkType'
    BY DEF ReaderStep, AwaitTcp, AddCodec, Bind, SignalUdp, Push, Count, NetworkType, network
  <1>2. HandlerType' /\ HandlerOrder'
    BY DEF ReaderStep, AwaitTcp, AddCodec, Bind, SignalUdp, Push, Count, HandlerType,
       HandlerOrder, maps
  <1>3. current \in Exits
    BY DEF ReaderStep, AwaitTcp, AddCodec, Bind, SignalUdp, Push, Count, AtReader, ReaderType
  <1>4. ReaderType'
    BY <1>3, ParameterAssumption
       DEF ReaderStep, AwaitTcp, AddCodec, Bind, SignalUdp, Push, Count, Go, AtReader,
          ReaderType, binding
  <1>5. BindingOrder'
    BY <1>3 DEF ReaderStep, AwaitTcp, AddCodec, Bind, SignalUdp, Push, Count, AtReader,
                HandlerType, BindingOrder, ReaderOrder, maps, binding
  <1>6. ReaderOrder'
    BY <1>3 DEF ReaderStep, AwaitTcp, AddCodec, Bind, SignalUdp, Push, Count, Go, AtReader,
                BindingOrder, ReaderOrder, maps, binding
  <1>7. CountOrder'
    BY <1>3 DEF ReaderStep, AwaitTcp, AddCodec, Bind, SignalUdp, Push, Count, Go,
                AtReader, ReaderType, ReaderOrder, CountOrder, binding
  <1>8. SentOrder' /\ AllCounted'
    <2>1. CASE Push
      <3>1. /\ UNCHANGED <<counted, taken, data, sent, current>> /\ reader = "push"
            /\ reader' = "count" /\ queue' = [queue EXCEPT ![current] = @ + 1]
        BY <2>1 DEF Push, Go, AtReader, binding, network
      <3>2. \A e \in Exits : /\ Behind(e) = 0 /\ Behind(e)' = IF e = current THEN 1 ELSE 0
                             /\ InHand(e)' = 0 /\ InHand(e) = IF e = current THEN 1 ELSE 0
        BY <3>1 DEF Behind, InHand, AtReader
      <3>3. SentOrder'
        BY <3>1, <3>2, CountTypes DEF SentOrder
      <3>4. AllCounted'
        <4> SUFFICES ASSUME NEW e \in Exits
                     PROVE  /\ queue'[e] + taken'[e] = counted'[e] + Behind(e)'
                            /\ counted'[e] + Behind(e)' <= sent'[e]
          BY DEF AllCounted
        <4>1. queue[e] + taken[e] = counted[e] /\ counted[e] + InHand(e) + data[e] <= sent[e]
          BY <3>2, CountTypes DEF AllCounted, SentOrder
        <4>2. queue'[e] = queue[e] + Behind(e)' /\ Behind(e)' = InHand(e)
          BY <3>1, <3>2, CountTypes
        <4>. QED
          BY <3>1, <3>2, <4>1, <4>2, CountTypes
      <3>. QED
        BY <3>3, <3>4
    <2>2. CASE Count
      <3>1. /\ UNCHANGED <<queue, taken, data, sent>> /\ reader = "count"
            /\ reader' = "read" /\ counted' = [counted EXCEPT ![current] = @ + 1]
        BY <2>2 DEF Count, Go, AtReader, network
      <3>2. \A e \in Exits : /\ Behind(e)' = 0 /\ Behind(e) = IF e = current THEN 1 ELSE 0
                             /\ InHand(e)' = 0 /\ InHand(e) = 0
        BY <3>1 DEF Behind, InHand, AtReader
      <3>3. \A e \in Exits : counted'[e] = counted[e] + Behind(e)
        BY <3>1, <3>2, CountTypes
      <3>. QED
        BY <3>1, <3>2, <3>3, CountTypes DEF SentOrder, AllCounted
    <2>3. CASE AwaitTcp \/ AddCodec \/ Bind \/ SignalUdp
      <3>1. /\ UNCHANGED <<queue, taken, data, sent>>
            /\ reader \notin {"push", "count"} /\ reader' \notin {"push", "count"}
        BY <2>3 DEF AwaitTcp, AddCodec, Bind, SignalUdp, Go, AtReader, network
      <3>2. counted' = counted
        <4>1. CASE Bind
          BY <1>3, <4>1, CountTypes DEF Bind, AtReader, ReaderOrder, CountOrder
        <4>2. CASE ~Bind
          BY <2>3, <4>2 DEF AwaitTcp, AddCodec, SignalUdp, binding
        <4>. QED
          BY <4>1, <4>2
      <3>3. \A e \in Exits : Behind(e)' = Behind(e) /\ InHand(e)' = InHand(e)
        BY <3>1 DEF Behind, InHand, AtReader
      <3>. QED
        BY <3>1, <3>2, <3>3 DEF SentOrder, AllCounted
    <2>. QED
      BY <2>1, <2>2, <2>3 DEF ReaderStep
  <1>. QED
    BY <1>1, <1>2, <1>4, <1>5, <1>6, <1>7, <1>8

\* The goroutines of an entry.
LEMMA EntryInv ==
    ASSUME NEW k \in Exits, UdpInv, Consumer(k) \/ Writer(k)
    PROVE  UdpInv'
  <1>. USE DEF UdpInv, TypeOK
  <1>1. NetworkType' /\ HandlerOrder' /\ ReaderOrder'
    BY DEF Consumer, ConsumerChecks, Consume, Writer, WriterStarts, WriterStops, NetworkType,
           HandlerOrder, ReaderOrder, network, maps, binding
  <1>2. HandlerType' /\ BindingOrder'
    BY DEF Consumer, ConsumerChecks, Consume, Writer, WriterStarts, WriterStops, HandlerType,
           BindingOrder, maps, binding
  <1>3. /\ queue' \in [Exits -> 0..Capacity] /\ taken' \in [Exits -> Nat]
        /\ \A e \in Exits : queue'[e] + taken'[e] = queue[e] + taken[e]
    <2>1. CASE Consume(k)
      <3>1. /\ queue[k] \in 1..Capacity /\ queue \in [Exits -> 0..Capacity]
            /\ taken \in [Exits -> Nat]
        BY <2>1, ParameterAssumption DEF Consume, ReaderType
      <3>. QED
        BY <2>1, <3>1, ParameterAssumption DEF Consume
    <2>2. CASE UNCHANGED <<queue, taken>>
      BY <2>2 DEF ReaderType
    <2>. QED
      BY <2>1, <2>2 DEF Consumer, ConsumerChecks, Writer, WriterStarts, WriterStops
  <1>4. ReaderType' /\ CountOrder'
    BY <1>3, ParameterAssumption DEF Consumer, ConsumerChecks, Consume, Writer,
           WriterStarts, WriterStops, ReaderType, CountOrder, binding
  <1>5. SentOrder' /\ AllCounted'
    <2>1. UNCHANGED <<reader, current, counted, data, sent>>
      BY DEF Consumer, ConsumerChecks, Consume, Writer, WriterStarts, WriterStops, binding, network
    <2>. QED
      BY <2>1, <1>3 DEF SentOrder, InHand, AllCounted, Behind, AtReader
  <1>. QED
    BY <1>1, <1>2, <1>4, <1>5

LEMMA StepInv == UdpInv /\ [Next]_vars => UdpInv'
  <1>. SUFFICES ASSUME UdpInv, [Next]_vars PROVE UdpInv'
    OBVIOUS
  <1>1. CASE Next
    BY <1>1, HandlerInv, ReceiveInv, ReaderInv, EntryInv DEF Next
  <1>2. CASE UNCHANGED vars
    BY <1>2 DEF vars, maps, binding, network, UdpInv, TypeOK, HandlerType, ReaderType,
                NetworkType, HandlerOrder, BindingOrder, ReaderOrder, CountOrder, SentOrder,
                InHand, AllCounted, Behind, AtReader
  <1>. QED
    BY <1>1, <1>2

LEMMA AlwaysInv == Spec => []UdpInv
  BY InitInv, StepInv, PTL DEF Spec

---------------------------------------------------------------------------
\* Types, for any number of exits.
THEOREM TypeCorrect == Spec => []TypeOK
  BY AlwaysInv, PTL DEF UdpInv

\* The writer of an entry only sends to an address with an encoder.
THEOREM WriterEncryptsHolds == Spec => []WriterEncrypts
  <1>1. UdpInv => WriterEncrypts
    BY DEF UdpInv, BindingOrder, WriterEncrypts
  <1>. QED
    BY <1>1, AlwaysInv, PTL

\* Once woken for a connection, the reader finds its key, unless that connection
\* has ended: the handler signals after it stored everything.
KeyFound == AtReader("key") => current \in known \/ handler[current] = "ended"

THEOREM KeyFoundHolds == Spec => []KeyFound
  <1>1. UdpInv => KeyFound
    BY DEF UdpInv, TypeOK, HandlerType, ReaderOrder, HandlerOrder, KeyFound, AtReader
  <1>. QED
    BY <1>1, AlwaysInv, PTL

\* No datagram is handed to an entry uncounted, counted twice or made up.
THEOREM AllCountedHolds == Spec => []AllCounted
  BY AlwaysInv, PTL DEF UdpInv

\* A connection's count never decreases: its counters are made once.
THEOREM CountsKeptHolds == Spec => CountsKept
  <1>1. UdpInv /\ [Next]_vars => [\A k \in Exits : counted'[k] >= counted[k]]_vars
    <2>. SUFFICES ASSUME UdpInv, Next PROVE \A k \in Exits : counted'[k] >= counted[k]
      BY DEF UdpInv
    <2>. counted \in [Exits -> Nat]
      BY DEF UdpInv, TypeOK, ReaderType
    <2>1. CASE Bind
      BY <2>1 DEF Bind, AtReader, UdpInv, ReaderOrder, CountOrder
    <2>2. CASE Count
      BY <2>2 DEF Count
    <2>3. CASE UNCHANGED counted
      BY <2>3
    <2>4. Bind \/ Count \/ UNCHANGED counted
      BY DEF Next, Connect, SendData, Setup, Store, SignalTcp, MakeUdpReady, Serve, Forget,
             WrapFails, Abandon, Close, Receive, ReceiveHello, ReceiveData, Consumer,
             ConsumerChecks, Consume, Writer, WriterStarts, WriterStops, ReaderStep, AwaitTcp,
             AddCodec, SignalUdp, Push, binding
    <2>. QED
      BY <2>1, <2>2, <2>3, <2>4
  <1>. QED
    BY <1>1, AlwaysInv, PTL DEF Spec, CountsKept
=============================================================================
