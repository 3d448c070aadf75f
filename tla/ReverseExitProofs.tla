-------------------------- MODULE ReverseExitProofs --------------------------
(***************************************************************************)
(* For any connections and configurations: a reverse exit has at most one  *)
(* TCP and one UDP connection open that Close can find, however it         *)
(* reconnects, and what is open besides are sockets of failed wrapUDPConns *)
(* that nobody uses.                                                       *)
(***************************************************************************)
EXTENDS ReverseExit, TLAPS

\* From the close of the old TCP connection to the new one there is none open; and the
\* UDP socket to be dialled is a new one, which is not known anywhere yet.
NewSocket == users[tcpConn] = {} /\ tcpConn # udpConn /\ tcpConn \notin leaked
ExitInv ==
    /\ TypeOK /\ OneConnection
    /\ pc = "dial" => \A c \in Conns : tcp[c] # "open"
    /\ pc = "dialUdp" => NewSocket

LEMMA InitInv == Init => ExitInv
  <1>. SUFFICES ASSUME Init PROVE ExitInv
    OBVIOUS
  <1>1. /\ mode \in Modes /\ pc = "connect" /\ tcpConn = None /\ udpConn = None
        /\ reported = FALSE /\ lost = FALSE /\ closed = FALSE /\ writers = 0
        /\ leaked = {}
    BY DEF Init
  <1>2. /\ tcp = [c \in Conns |-> "none"] /\ udp = [c \in Conns |-> "none"]
        /\ users = [c \in Conns |-> {}]
    BY DEF Init
  <1>3. writers \in 0 .. MaxWriters
    BY <1>1, MaxWritersAssumption
  <1>4. /\ tcp \in [Conns -> {"none", "open", "closed"}]
        /\ udp \in [Conns -> {"none", "open", "closed"}]
        /\ users \in [Conns -> SUBSET Tenders]
        /\ \A c \in Conns : tcp[c] = "none" /\ udp[c] = "none"
    BY <1>2
  <1>5. TypeOK
    BY <1>1, <1>3, <1>4 DEF TypeOK
  <1>. QED
    BY <1>1, <1>4, <1>5 DEF ExitInv, OneConnection

\* Closing leaves types alone and opens nothing.
LEMMA ShutFacts ==
    ASSUME NEW state \in [Conns -> {"none", "open", "closed"}], NEW c
    PROVE  /\ Shut(state, c) \in [Conns -> {"none", "open", "closed"}]
           /\ \A d \in Conns : Shut(state, c)[d] = "open" <=> state[d] = "open" /\ d # c
  BY DEF Shut

\* Close and the loop's own closing.
LEMMA CloseInv ==
    ASSUME ExitInv, Close \/ GiveUp \/ NextRound
    PROVE  ExitInv'
  <1>. USE DEF ExitInv, Close, GiveUp, NextRound, Served, CloseAll
  <1>1. /\ tcp' \in [Conns -> {"none", "open", "closed"}]
        /\ udp' \in [Conns -> {"none", "open", "closed"}]
        /\ \A c \in Conns : tcp'[c] = "open" => tcp[c] = "open"
        /\ \A c \in Conns : udp'[c] = "open" => udp[c] = "open"
        /\ \A c \in Conns : udp[c] = "open" /\ c # udpConn => udp'[c] = "open"
    <2>1. tcp' \in {tcp, Shut(tcp, tcpConn)} /\ udp' \in {udp, Shut(udp, udpConn)}
      OBVIOUS
    <2>. QED
      BY <2>1, ShutFacts DEF TypeOK
  <1>2. UNCHANGED <<mode, tcpConn, udpConn, leaked, users, writers, lost, reported>>
    OBVIOUS
  <1>3. closed' \in BOOLEAN /\ (pc' = pc \/ pc' \in {"end", "connect"})
    BY DEF TypeOK
  <1>4. TypeOK'
    BY <1>1, <1>2, <1>3 DEF TypeOK
  <1>5. OneConnection'
    BY <1>1, <1>2 DEF OneConnection
  <1>. QED
    BY <1>1, <1>2, <1>3, <1>4, <1>5 DEF NewSocket

\* Connecting.
LEMMA ConnectInv ==
    ASSUME ExitInv,
           Found \/ DialUdpFails \/ WrapUdpFails \/ DialUdp \/ \E c \in Conns : Dial(c)
    PROVE  ExitInv'
  <1>1. CASE Found
    <2>1. /\ tcp' \in [Conns -> {"none", "open", "closed"}]
          /\ \A c \in Conns : tcp'[c] = "open" => tcp[c] = "open" /\ c # tcpConn
      BY <1>1, ShutFacts DEF Found, ExitInv, TypeOK
    <2>. QED
      BY <1>1, <2>1 DEF Found, ExitInv, TypeOK, OneConnection
  <1>2. CASE DialUdpFails
    <2>1. /\ udp' \in [Conns -> {"none", "open", "closed"}]
          /\ \A c \in Conns : udp'[c] = "open" <=> udp[c] = "open" /\ c # udpConn
      BY <1>2, ShutFacts DEF DialUdpFails, ExitInv, TypeOK
    <2>2. OneConnection'
      BY <1>2, <2>1 DEF DialUdpFails, ExitInv, OneConnection
    <2>. QED
      BY <1>2, <2>1, <2>2 DEF DialUdpFails, ExitInv, TypeOK
  <1>3. CASE WrapUdpFails \/ DialUdp
    <2>1. tcpConn \in Conns /\ NewSocket
      BY <1>3 DEF WrapUdpFails, DialUdp, ExitInv, TypeOK
    <2>2. /\ Shut(udp, udpConn) \in [Conns -> {"none", "open", "closed"}]
          /\ \A c \in Conns : Shut(udp, udpConn)[c] = "open" => c \in leaked
          /\ \A c \in leaked : Shut(udp, udpConn)[c] = "open"
      BY ShutFacts DEF ExitInv, TypeOK, OneConnection
    <2>3. /\ udp' \in [Conns -> {"none", "open", "closed"}]
          /\ \A c \in Conns : udp'[c] = "open" => c = tcpConn \/ c \in leaked
          /\ \A c \in leaked : udp'[c] = "open"
          /\ udp'[tcpConn] = "open"
      BY <1>3, <2>1, <2>2 DEF WrapUdpFails, DialUdp, ExitInv, TypeOK
    <2>4. CASE WrapUdpFails
      <3>1. OneConnection'
        BY <2>1, <2>3, <2>4 DEF WrapUdpFails, ExitInv, OneConnection, NewSocket
      <3>. QED
        BY <2>1, <2>3, <2>4, <3>1 DEF WrapUdpFails, ExitInv, TypeOK
    <2>5. CASE DialUdp
      <3>1. OneConnection'
        BY <2>1, <2>3, <2>5 DEF DialUdp, ExitInv, OneConnection, NewSocket
      <3>. QED
        BY <2>1, <2>3, <2>5, <3>1 DEF DialUdp, ExitInv, TypeOK
    <2>. QED
      BY <1>3, <2>4, <2>5
  <1>4. ASSUME NEW c \in Conns, Dial(c) PROVE ExitInv'
    <2>1. /\ tcp' \in [Conns -> {"none", "open", "closed"}]
          /\ udp' \in [Conns -> {"none", "open", "closed"}]
          /\ \A d \in Conns : tcp'[d] = "open" => d = c
          /\ \A d \in Conns : udp'[d] = "open" <=> udp[d] = "open"
      BY <1>4 DEF Dial, Unused, ExitInv, TypeOK
    <2>2. c # None
      BY ConnsAssumption
    <2>3. users[c] = {} /\ c # udpConn /\ c \notin leaked
      BY <1>4 DEF Dial, Unused, ExitInv, OneConnection
    <2>4. OneConnection' /\ NewSocket'
      BY <1>4, <2>1, <2>3 DEF Dial, ExitInv, OneConnection, NewSocket
    <2>. QED
      BY <1>4, <2>1, <2>2, <2>4 DEF Dial, ExitInv, TypeOK
  <1>. QED
    BY <1>1, <1>2, <1>3, <1>4

\* The rest opens and closes nothing.
LEMMA OtherInv ==
    ASSUME ExitInv,
           \/ Stop \/ DialFails \/ Tend \/ Agree \/ AgreeFails \/ Report \/ WriterEnds \/ Lose
           \/ \E c \in Conns : Leave(c) \/ ReaderSeesClosed(c)
           \/ UNCHANGED vars
    PROVE  ExitInv'
  <1>1. UNCHANGED <<mode, tcpConn, udpConn, tcp, udp, leaked, closed>>
    BY DEF Stop, DialFails, Tend, Agree, AgreeFails, Report, WriterEnds, Lose, Leave,
           ReaderSeesClosed, vars
  <1>2. /\ OneConnection'
        /\ pc' = "dialUdp" => NewSocket'
    <2>1. ASSUME NEW c \in Conns, users[c] = {}, pc # "tend" \/ c # udpConn
          PROVE  users'[c] = {}
      <3>1. CASE Tend
        BY <2>1, <3>1 DEF Tend, ExitInv, TypeOK
      <3>2. CASE \E d \in Conns : Leave(d) \/ ReaderSeesClosed(d)
        <4>1. PICK d \in Conns, S \in SUBSET Tenders : users' = [users EXCEPT ![d] = @ \ S]
          <5>1. ASSUME NEW d \in Conns, Leave(d)
                PROVE  \E S \in SUBSET Tenders : users' = [users EXCEPT ![d] = @ \ S]
            BY <5>1 DEF Leave, ExitInv, TypeOK
          <5>2. ASSUME NEW d \in Conns, ReaderSeesClosed(d)
                PROVE  \E S \in SUBSET Tenders : users' = [users EXCEPT ![d] = @ \ S]
            BY <5>2 DEF ReaderSeesClosed, Tenders
          <5>. QED
            BY <3>2, <5>1, <5>2
        <4>. QED
          BY <2>1, <4>1 DEF ExitInv, TypeOK
      <3>3. CASE UNCHANGED users
        BY <2>1, <3>3
      <3>. QED
        BY <3>1, <3>2, <3>3 DEF Stop, DialFails, Agree, AgreeFails, Report, WriterEnds, Lose,
                                vars
    <2>2. pc' = "dialUdp" => pc = "dialUdp"
      BY DEF Stop, DialFails, Tend, Agree, AgreeFails, Report, WriterEnds, Lose, Leave,
             ReaderSeesClosed, vars
    <2>3. pc = "dialUdp" => tcpConn \in Conns
      BY DEF ExitInv, TypeOK
    <2>. QED
      BY <1>1, <2>1, <2>2, <2>3 DEF ExitInv, OneConnection, NewSocket
  <1>3. users' \in [Conns -> SUBSET Tenders]
    BY DEF ExitInv, TypeOK, Stop, DialFails, Tend, Agree, AgreeFails, Report, WriterEnds,
           Lose, Leave, ReaderSeesClosed, vars
  <1>4. writers' \in 0 .. MaxWriters
    BY MaxWritersAssumption
       DEF ExitInv, TypeOK, Stop, DialFails, Tend, Agree, AgreeFails, Report, WriterEnds,
           Lose, Leave, ReaderSeesClosed, vars
  <1>5. /\ lost' \in BOOLEAN /\ reported' \in BOOLEAN
        /\ pc' \in {"connect", "dial", "dialUdp", "tend", "agree", "report", "serve", "end"}
        /\ pc' = "dial" => pc = "dial"
        /\ pc' = "tend" => pc = "tend"
        /\ pc' \in {"dialUdp", "tend", "agree", "report", "serve"} => tcpConn # None
    BY DEF ExitInv, TypeOK, Stop, DialFails, Tend, Agree, AgreeFails, Report, WriterEnds,
           Lose, Leave, ReaderSeesClosed, vars
  <1>. QED
    BY <1>1, <1>2, <1>3, <1>4, <1>5 DEF ExitInv, TypeOK

LEMMA StepInv == ExitInv /\ [Next]_vars => ExitInv'
  BY CloseInv, ConnectInv, OtherInv DEF Next, Loop

LEMMA AlwaysInv == Spec => []ExitInv
  BY InitInv, StepInv, PTL DEF Spec

---------------------------------------------------------------------------
\* Types, and a connection wherever the loop uses one.
THEOREM TypeCorrect == Spec => []TypeOK
  BY AlwaysInv, PTL DEF ExitInv

\* At most one TCP and one UDP connection is open that Close finds; the others that are
\* open belong to failed wrapUDPConns, and nobody uses them.
THEOREM OneConnectionHolds == Spec => []OneConnection
  BY AlwaysInv, PTL DEF ExitInv

---------------------------------------------------------------------------
(* What the loop leaves when it serves and when it returns. *)

\* While it serves, what the exit reports is where it can be found; Close leaves nothing
\* open then but the sockets of failed wrapUDPConns (while the exit connects it also
\* misses the connection made after it); and the loop only returns from an exit that is
\* closed, which is what the writers wait for.
ServeInv ==
    /\ pc = "serve" => reported
    /\ closed /\ pc = "serve" =>
          \A c \in Conns : tcp[c] # "open" /\ (udp[c] = "open" => c \in leaked)
    /\ pc = "end" => closed

LEMMA ServeStep == ExitInv /\ ServeInv /\ [Next]_vars => ServeInv'
  <1>. SUFFICES ASSUME ExitInv, ServeInv, [Next]_vars PROVE ServeInv'
    OBVIOUS
  <1>1. CASE Close
    <2>1. /\ tcp' = Shut(tcp, tcpConn) /\ udp' = Shut(udp, udpConn) /\ closed'
          /\ UNCHANGED <<pc, reported, tcpConn, leaked>>
      BY <1>1 DEF Close, CloseAll
    <2>2. \A c \in Conns : tcp'[c] # "open" /\ (udp'[c] = "open" => c \in leaked)
      BY <2>1, ShutFacts DEF ExitInv, OneConnection, TypeOK
    <2>. QED
      BY <2>1, <2>2 DEF ServeInv
  <1>2. CASE GiveUp
    BY <1>2 DEF GiveUp, CloseAll, ServeInv
  <1>3. CASE NextRound
    BY <1>3 DEF NextRound, Served, ServeInv, ExitInv, TypeOK
  <1>4. CASE Report
    BY <1>4 DEF Report, ServeInv
  <1>5. CASE Stop \/ Found \/ DialFails \/ DialUdpFails \/ WrapUdpFails \/ DialUdp \/ Tend
             \/ Agree \/ AgreeFails \/ \E c \in Conns : Dial(c)
    BY <1>5 DEF Stop, Found, DialFails, DialUdpFails, WrapUdpFails, DialUdp, Tend, Agree,
                AgreeFails, Dial, ServeInv
  <1>6. CASE WriterEnds \/ Lose \/ UNCHANGED vars
             \/ \E c \in Conns : Leave(c) \/ ReaderSeesClosed(c)
    BY <1>6 DEF WriterEnds, Lose, vars, Leave, ReaderSeesClosed, ServeInv
  <1>. QED
    BY <1>1, <1>2, <1>3, <1>4, <1>5, <1>6 DEF Next, Loop

\* Close of an exit that serves misses no connection but those of failed wrapUDPConns, what
\* was reported is the connection served, and no loop returns without the exit being closed.
THEOREM ServeHolds == Spec => []ServeInv
  <1>1. Init => ServeInv
    BY DEF Init, ServeInv
  <1>. QED
    BY <1>1, ServeStep, AlwaysInv, PTL DEF Spec
=============================================================================
