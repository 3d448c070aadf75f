----------------------------- MODULE ReverseExit -----------------------------
(***************************************************************************)
(* The exit that offers its services through a reverse entry: the loop of  *)
(* StartReverse connects, agrees with the entry, serves the session and    *)
(* connects again; Close is called at any time.  Each UDP connection gets  *)
(* a reader and a pinger, which end with it, and a writer, which waits for *)
(* Close.  The goroutines of readUDP, which hand datagrams on to services, *)
(* are left out: they only look at isClosed when a datagram comes.         *)
(*                                                                         *)
(* Which node is found is the subject of NodeSelection, what is paid on    *)
(* the session that of TrafficPayment; a search that succeeds names one    *)
(* node here.                                                              *)
(***************************************************************************)
EXTENDS Integers, FiniteSets

CONSTANTS
    Conns,        \* names of connections; one that nobody uses is used again
    Modes,        \* configurations to choose from
    MaxWriters,   \* bound: writers counted
    MaxLeaks,     \* bound: sockets left open by connections that failed half way
    None

ASSUME ConnsAssumption == None \notin Conns
ASSUME ModesAssumption == Modes \subseteq [reconnect : BOOLEAN, udp : BOOLEAN]
ASSUME MaxWritersAssumption == MaxWriters \in Nat
ASSUME MaxLeaksAssumption == MaxLeaks \in Nat

VARIABLES
    mode,       \* shouldReconnect, and whether the service has UDP
    pc,         \* where StartReverse is
    tcpConn,    \* te.tcpConn
    udpConn,    \* te.udpConn
    tcp,        \* tcp[c]: the state of c's TCP connection and its session
    udp,        \* udp[c]: the state of c's UDP socket
    leaked,     \* history: the connections whose UDP socket was dialled but not stored
    lost,       \* the other end of tcpConn is gone
    users,      \* users[c]: the goroutines that read c's UDP socket and keep it alive
    writers,    \* goroutines that take from udpWriteChan
    reported,   \* reverseIP and the ports are those of tcpConn
    closed      \* isClosed, with closeChan and udpCloseChan

vars ==
    <<mode, pc, tcpConn, udpConn, tcp, udp, leaked, lost, users, writers, reported, closed>>

Tenders == {"reader", "pinger"}
Unused(c) ==
    /\ tcp[c] # "open" /\ udp[c] # "open" /\ users[c] = {} /\ c # udpConn
\* Close(conn) for a connection that may not be there.
Shut(state, c) == [d \in Conns |-> IF d = c /\ state[d] = "open" THEN "closed" ELSE state[d]]

Init ==
    /\ mode \in Modes /\ pc = "connect"
    /\ tcpConn = None /\ udpConn = None /\ lost = FALSE
    /\ tcp = [c \in Conns |-> "none"] /\ udp = [c \in Conns |-> "none"]
    /\ leaked = {} /\ users = [c \in Conns |-> {}] /\ writers = 0
    /\ reported = FALSE /\ closed = FALSE

---------------------------------------------------------------------------
\* te.Close: everything it finds, under the lock; a second one does nothing.
CloseAll ==
    IF closed THEN UNCHANGED <<tcp, udp, closed>>
    ELSE /\ closed' = TRUE
         /\ tcp' = Shut(tcp, tcpConn) /\ udp' = Shut(udp, udpConn)
Close ==
    /\ ~closed /\ CloseAll
    /\ UNCHANGED <<mode, pc, tcpConn, udpConn, leaked, lost, users, writers, reported>>

\* CreateServerConn looks at isClosed, before it searches: then StartReverse returns.
Stop ==
    /\ pc = "connect" /\ closed
    /\ pc' = "end"
    /\ UNCHANGED <<mode, tcpConn, udpConn, tcp, udp, leaked, lost, users, writers,
                   reported, closed>>
\* It returns too, and closes, when the balance does not suffice.
GiveUp ==
    /\ pc = "connect" /\ ~closed
    /\ pc' = "end" /\ CloseAll
    /\ UNCHANGED <<mode, tcpConn, udpConn, leaked, lost, users, writers, reported>>

\* A node is found: UpdateServerConn closes the TCP connection there is, and dials.
FoundKeepsOld ==                                                 \* mutant
    /\ pc = "connect" /\ ~closed
    /\ pc' = "dial"
    /\ UNCHANGED <<mode, tcpConn, udpConn, tcp, udp, leaked, lost, users, writers,
                   reported, closed>>
Found ==
    /\ pc = "connect" /\ ~closed
    /\ pc' = "dial" /\ tcp' = Shut(tcp, tcpConn)
    /\ UNCHANGED <<mode, tcpConn, udpConn, udp, leaked, lost, users, writers, reported,
                   closed>>
DialFails ==
    /\ pc = "dial"
    /\ pc' = "connect"
    /\ UNCHANGED <<mode, tcpConn, udpConn, tcp, udp, leaked, lost, users, writers,
                   reported, closed>>
Dial(c) ==
    /\ pc = "dial" /\ Unused(c)
    /\ tcpConn' = c /\ tcp' = [tcp EXCEPT ![c] = "open"]
    /\ udp' = [udp EXCEPT ![c] = "none"] /\ lost' = FALSE /\ reported' = FALSE
    /\ pc' = IF mode.udp THEN "dialUdp" ELSE "agree"
    /\ UNCHANGED <<mode, udpConn, leaked, users, writers, closed>>

\* The old UDP connection is closed first, whether the new one comes or not.  When its
\* metadata cannot be sent or the codec is refused (wrapUDPConn), the new one is neither
\* stored nor closed.
DialUdpFails ==
    /\ pc = "dialUdp"
    /\ udp' = Shut(udp, udpConn) /\ pc' = "connect"
    /\ UNCHANGED <<mode, tcpConn, udpConn, tcp, leaked, lost, users, writers, reported,
                   closed>>
WrapUdpFails ==
    /\ pc = "dialUdp" /\ Cardinality(leaked) < MaxLeaks
    /\ udp' = [Shut(udp, udpConn) EXCEPT ![tcpConn] = "open"]
    /\ leaked' = leaked \cup {tcpConn} /\ pc' = "connect"
    /\ UNCHANGED <<mode, tcpConn, udpConn, tcp, lost, users, writers, reported, closed>>
DialUdpNotKept ==                                                \* mutant
    /\ pc = "dialUdp"
    /\ udp' = [Shut(udp, udpConn) EXCEPT ![tcpConn] = "open"]
    /\ pc' = "tend"
    /\ UNCHANGED <<mode, tcpConn, udpConn, tcp, leaked, lost, users, writers, reported,
                   closed>>
DialUdp ==
    /\ pc = "dialUdp"
    /\ udp' = [Shut(udp, udpConn) EXCEPT ![tcpConn] = "open"] /\ udpConn' = tcpConn
    /\ pc' = "tend"
    /\ UNCHANGED <<mode, tcpConn, tcp, leaked, lost, users, writers, reported, closed>>

\* startUDPReaderWriter and sendPingMsg for the new UDP connection.
Tend ==
    /\ pc = "tend"
    /\ users' = [users EXCEPT ![udpConn] = Tenders]
    /\ writers' = IF writers < MaxWriters THEN writers + 1 ELSE writers
    /\ pc' = "agree"
    /\ UNCHANGED <<mode, tcpConn, udpConn, tcp, udp, leaked, lost, reported, closed>>

\* Metadata is exchanged on a stream, the entry tests the port, the payment stream is
\* opened: any of it can fail, and the loop starts over.
Agree ==
    /\ pc = "agree" /\ tcp[tcpConn] = "open"
    /\ pc' = "report"
    /\ UNCHANGED <<mode, tcpConn, udpConn, tcp, udp, leaked, lost, users, writers,
                   reported, closed>>
AgreeFails ==
    /\ pc = "agree"
    /\ pc' = "connect"
    /\ UNCHANGED <<mode, tcpConn, udpConn, tcp, udp, leaked, lost, users, writers,
                   reported, closed>>

\* Under the lock that Close needs: returns if closed, or reports where the service is
\* found (OnConnect), and serves.
ReportAnyway ==                                                  \* mutant
    /\ pc = "report"
    /\ reported' = TRUE /\ pc' = "serve"
    /\ UNCHANGED <<mode, tcpConn, udpConn, tcp, udp, leaked, lost, users, writers,
                   closed>>
Report ==
    /\ pc = "report"
    /\ IF closed THEN pc' = "end" /\ UNCHANGED reported
       ELSE reported' = TRUE /\ pc' = "serve"
    /\ UNCHANGED <<mode, tcpConn, udpConn, tcp, udp, leaked, lost, users, writers,
                   closed>>

\* handleSession returns when the session is gone; both connections are closed.  An
\* exit that must not reconnect closes.
Served(again) ==
    /\ pc = "serve" /\ (tcp[tcpConn] # "open" \/ lost)
    /\ pc' = IF again THEN "connect" ELSE "end"
    /\ tcp' = Shut(tcp, tcpConn) /\ udp' = Shut(udp, udpConn)
    /\ closed' = (closed \/ ~mode.reconnect)
    /\ UNCHANGED <<mode, tcpConn, udpConn, leaked, lost, users, writers, reported>>
NoNextRound == Served(FALSE)                                     \* mutant
NextRound == Served(mode.reconnect /\ ~closed)

---------------------------------------------------------------------------
\* The reader and the pinger of a connection end when it is closed under them.
Leave(c) ==
    /\ udp[c] # "open"
    /\ \E g \in users[c] : users' = [users EXCEPT ![c] = @ \ {g}]
    /\ UNCHANGED <<mode, pc, tcpConn, udpConn, tcp, udp, leaked, lost, writers, reported,
                   closed>>
\* The reader of an open connection sees isClosed when a datagram arrives.
ReaderSeesClosed(c) ==
    /\ closed /\ udp[c] = "open" /\ "reader" \in users[c]
    /\ users' = [users EXCEPT ![c] = @ \ {"reader"}]
    /\ UNCHANGED <<mode, pc, tcpConn, udpConn, tcp, udp, leaked, lost, writers, reported,
                   closed>>

\* Writers wait for answers and for udpCloseChan.
WriterEnds ==
    /\ closed /\ writers > 0
    /\ writers' = writers - 1
    /\ UNCHANGED <<mode, pc, tcpConn, udpConn, tcp, udp, leaked, lost, users, reported,
                   closed>>

\* The entry goes away, or closes the session; AgreeFails covers that it does so before.
Lose ==
    /\ pc \in {"report", "serve"} /\ ~lost
    /\ lost' = TRUE
    /\ UNCHANGED <<mode, pc, tcpConn, udpConn, tcp, udp, leaked, users, writers, reported,
                   closed>>

---------------------------------------------------------------------------
Loop ==
    \/ Stop \/ GiveUp \/ Found \/ DialFails \/ DialUdpFails
    \/ WrapUdpFails \/ DialUdp \/ Tend \/ Agree \/ AgreeFails \/ Report \/ NextRound
    \/ \E c \in Conns : Dial(c)

Next ==
    \/ Loop
    \/ \E c \in Conns : Leave(c) \/ ReaderSeesClosed(c)
    \/ WriterEnds \/ Lose \/ Close

Spec == Init /\ [][Next]_vars

\* Goroutines go on; the entry can be reached and agrees now and then.
FairSpec ==
    /\ Spec
    /\ WF_vars(Loop) /\ WF_vars(WriterEnds) /\ \A c \in Conns : WF_vars(Leave(c))
    /\ SF_vars(\E c \in Conns : Dial(c)) /\ SF_vars(DialUdp) /\ SF_vars(Agree)

---------------------------------------------------------------------------
\* Types of the state, and that there is a connection where the loop uses one.
TypeOK ==
    /\ mode \in Modes
    /\ pc \in {"connect", "dial", "dialUdp", "tend", "agree", "report", "serve", "end"}
    /\ tcpConn \in Conns \cup {None} /\ udpConn \in Conns \cup {None}
    /\ tcp \in [Conns -> {"none", "open", "closed"}]
    /\ udp \in [Conns -> {"none", "open", "closed"}]
    /\ leaked \subseteq Conns /\ lost \in BOOLEAN /\ users \in [Conns -> SUBSET Tenders]
    /\ writers \in 0 .. MaxWriters
    /\ reported \in BOOLEAN /\ closed \in BOOLEAN
    /\ pc \in {"dialUdp", "tend", "agree", "report", "serve"} => tcpConn # None
    /\ pc = "tend" => udpConn = tcpConn

\* However often the exit reconnects and wherever it failed on the way, it has at most
\* one TCP and one UDP connection open that Close can find.  What else is open are the
\* sockets of failed wrapUDPConns: nobody uses them, and no field refers to them any more.
OneConnection ==
    \A c \in Conns :
        /\ tcp[c] = "open" => c = tcpConn
        /\ udp[c] = "open" => c = udpConn \/ c \in leaked
        /\ c \in leaked => udp[c] = "open" /\ users[c] = {} /\ c # udpConn

\* After Close the loop and all writers end, wherever they are, and the reader and the
\* pinger of every connection that is not left open.
EndsOnClose ==
    closed ~> (pc = "end" /\ writers = 0 /\ \A c \in Conns : udp[c] = "open" \/ users[c] = {})

\* As long as the exit is not closed it comes to serve a session again, whatever of the
\* agreement with an entry fails, as often as it does.
ServedAgain == []<>(pc = "serve" \/ closed)
===========================================================================
