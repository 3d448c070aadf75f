---------------------------- MODULE EntrySession ----------------------------
(***************************************************************************)
(* The smux session of a TunaEntry, its local connections and its closing. *)
(* The accept loop, the payment goroutine and the handler of every local   *)
(* connection get the session from getSession, which replaces a dead one   *)
(* (not in a reverse entry); a session carries a stream per connection,    *)
(* which two pipes copy.  Close waits for the pipes as SetLinger says.     *)
(***************************************************************************)
EXTENDS Naturals, FiniteSets

CONSTANTS
    Conns,            \* connections to the entry's TCP listeners
    AcceptLoop,       \* the goroutine that accepts (and discards) streams
    Payment,          \* the goroutine of startPayment
    User,             \* a caller of Close
    None,             \* nobody
    Modes,            \* configurations of an entry, as in EveryMode
    MaxSessions       \* bound: sessions created

\* Is it a reverse entry, what does Start's shouldReconnect say, and does SetLinger's t
\* say not to wait for open connections (0), for a time (t > 0) or until they are done?
EveryMode == [reverse : BOOLEAN, reconnect : BOOLEAN, linger : {"none", "timeout", "forever"}]
ASSUME ModeAssumption ==
    Modes \subseteq EveryMode /\ MaxSessions \in Nat \ {0}

Procs == Conns \cup {AcceptLoop, Payment, User}
Closers == {AcceptLoop, User}
Getters == Procs \ {User}
ASSUME NamesAssumption ==
    /\ AcceptLoop \notin Conns \cup {Payment, User, None}
    /\ Payment \notin Conns \cup {User, None} /\ User \notin Conns \cup {None}
    /\ None \notin Conns

Pipes == {"out", "in"}   \* pipe(stream, conn) and pipe(conn, stream)

VARIABLES
    mode,      \* the configuration of this entry
    closed,    \* te.isClosed; the listeners are closed with it
    session,   \* te.session, the number of a session, 0 when there is none
    open,      \* sessions that are not closed
    made,      \* sessions made
    unused,    \* the transport that Start connected carries no session yet
    lock,      \* holder of sessionLock
    pc,        \* what each goroutine does next
    got,       \* the session each goroutine was given
    socket,    \* local connections: "none", "open", "closed"
    stream,    \* the session of the connection's stream, 0 when closed
    hungUp,    \* the pipes whose source is at its end
    pipe       \* "none", "start", "active", "done"

sessions == <<session, open, made, unused, lock>>
conns == <<socket, stream, hungUp, pipe>>
vars == <<mode, closed, sessions, pc, got, conns>>

Reverse == mode.reverse
ShouldReconnect == mode.reconnect
Linger == mode.linger

Init ==
    /\ mode \in Modes
    /\ closed = FALSE /\ lock = None
    /\ unused = ~Reverse
    /\ session = IF Reverse THEN 1 ELSE 0
    /\ made = session /\ open = {session} \ {0}
    /\ pc = [p \in Procs |-> IF p = User THEN "idle" ELSE IF p = AcceptLoop THEN "get"
                             ELSE IF p = Payment /\ ~Reverse THEN "poll"
                             ELSE IF p = Payment THEN "done" ELSE "none"]
    /\ got = [p \in Procs |-> 0]
    /\ socket = [c \in Conns |-> "none"] /\ stream = [c \in Conns |-> 0]
    /\ hungUp = [c \in Conns |-> {}]
    /\ pipe = [c \in Conns |-> [d \in Pipes |-> "none"]]

Searching == {"reuse", "force", "connect"}
At(p, l) == pc[p] = l
Goto(p, l) == pc' = [pc EXCEPT ![p] = l]
Active == {x \in Conns \X Pipes : pipe[x[1]][x[2]] = "active"}

---------------------------------------------------------------------------
(* getSession, under sessionLock. *)

Given(p) == IF p = AcceptLoop THEN "accept" ELSE IF p = Payment THEN "poll" ELSE "stream"

\* The caller of getSession returns; a handler closes its connection first.
Fail(p) ==
    /\ Goto(p, IF p = Payment THEN "poll"
               ELSE IF p = AcceptLoop /\ Reverse THEN "wait" ELSE "done")
    /\ socket' = IF p \in Conns THEN [socket EXCEPT ![p] = "closed"] ELSE socket
    /\ UNCHANGED <<got, stream, hungUp, pipe>>

EnterUnlocked(p) ==                                              \* mutant
    /\ At(p, "get")
    /\ IF session \in open
       THEN /\ got' = [got EXCEPT ![p] = session] /\ Goto(p, Given(p))
            /\ UNCHANGED <<lock, conns>>
       ELSE IF Reverse THEN Fail(p) /\ UNCHANGED lock
       ELSE lock' = p /\ Goto(p, "reuse") /\ UNCHANGED <<got, conns>>
    /\ UNCHANGED <<mode, closed, session, open, made, unused>>
Enter(p) ==
    /\ At(p, "get") /\ lock = None
    /\ IF session \in open
       THEN /\ got' = [got EXCEPT ![p] = session] /\ Goto(p, Given(p))
            /\ UNCHANGED <<lock, conns>>
       ELSE IF Reverse THEN Fail(p) /\ UNCHANGED lock
       ELSE lock' = p /\ Goto(p, "reuse") /\ UNCHANGED <<got, conns>>
    /\ UNCHANGED <<mode, closed, session, open, made, unused>>

\* A session with its payment stream, on a transport that works.
Install(p) ==
    /\ made < MaxSessions
    /\ made' = made + 1 /\ session' = made' /\ open' = open \cup {made'}
    /\ lock' = None /\ unused' = FALSE
    /\ got' = [got EXCEPT ![p] = made'] /\ Goto(p, Given(p))
    /\ UNCHANGED <<mode, closed, conns>>

\* createSession(false) uses the transport there is.  It was closed with the last
\* session, unless it never carried one.
Reuse(p) ==
    /\ At(p, "reuse")
    /\ \/ unused /\ Install(p)
       \/ /\ Goto(p, "force") /\ unused' = FALSE
          /\ UNCHANGED <<mode, closed, session, open, made, lock, got, conns>>

\* createSession(true): CreateServerConn looks at isClosed before every search.
SearchKeepsLock(p) ==                                             \* mutant
    /\ At(p, "force")
    /\ IF closed THEN Fail(p) ELSE Goto(p, "connect") /\ UNCHANGED <<got, conns>>
    /\ UNCHANGED <<mode, closed, sessions>>
Search(p) ==
    /\ At(p, "force")
    /\ IF closed THEN Fail(p) /\ lock' = None
       ELSE Goto(p, "connect") /\ UNCHANGED <<lock, got, conns>>
    /\ UNCHANGED <<mode, closed, session, open, made, unused>>

\* It connects, or finds no node that answers, or the balance is insufficient.
Connect(p) ==
    /\ At(p, "connect")
    /\ \/ Install(p)
       \/ /\ Goto(p, "force")
          /\ UNCHANGED <<mode, closed, sessions, got, conns>>
       \/ /\ Fail(p) /\ lock' = None
          /\ UNCHANGED <<mode, closed, session, open, made, unused>>

GetSession(p) == Enter(p) \/ Reuse(p) \/ Search(p) \/ Connect(p)

\* The node dies or the transport breaks.
Lose(s) ==
    /\ s \in open /\ open' = open \ {s}
    /\ UNCHANGED <<mode, closed, session, made, unused, lock, pc, got, conns>>

---------------------------------------------------------------------------
\* AcceptStream fails once the session is closed.
AfterLossForgets == "get"                                        \* mutant
AfterLoss == IF Reverse \/ ~ShouldReconnect THEN "wait" ELSE "get"
AcceptFails ==
    /\ At(AcceptLoop, "accept") /\ got[AcceptLoop] \notin open
    /\ Goto(AcceptLoop, AfterLoss)
    /\ UNCHANGED <<mode, closed, sessions, got, conns>>

\* A payment is due (startPayment stops when the entry is closed).
Poll ==
    /\ At(Payment, "poll")
    /\ Goto(Payment, IF closed THEN "done" ELSE "get")
    /\ UNCHANGED <<mode, closed, sessions, got, conns>>

---------------------------------------------------------------------------
(* A local connection. *)

Arrive(c) ==
    /\ At(c, "none") /\ ~closed
    /\ Goto(c, "check") /\ socket' = [socket EXCEPT ![c] = "open"]
    /\ UNCHANGED <<mode, closed, sessions, got, stream, hungUp, pipe>>

\* In a closed entry the handler returns and leaves the connection alone.
Check(c) ==
    /\ At(c, "check")
    /\ Goto(c, IF closed THEN "done" ELSE "get")
    /\ UNCHANGED <<mode, closed, sessions, got, conns>>

OpenStream(c) ==
    /\ At(c, "stream")
    /\ IF got[c] \in open
       THEN /\ Goto(c, "piping") /\ stream' = [stream EXCEPT ![c] = got[c]]
            /\ pipe' = [pipe EXCEPT ![c] = [d \in Pipes |-> "start"]]
            /\ UNCHANGED socket
       ELSE /\ Goto(c, "done") /\ socket' = [socket EXCEPT ![c] = "closed"]
            /\ UNCHANGED <<stream, pipe>>
    /\ UNCHANGED <<mode, closed, sessions, got, hungUp>>

\* The pipe adds itself to the wait group.
PipeStart(c, d) ==
    /\ pipe[c][d] = "start" /\ pipe' = [pipe EXCEPT ![c][d] = "active"]
    /\ UNCHANGED <<mode, closed, sessions, pc, got, socket, stream, hungUp>>

\* The application, or the service behind the exit, closes its end.
HangUp(c, d) ==
    /\ At(c, "piping") /\ d \notin hungUp[c]
    /\ hungUp' = [hungUp EXCEPT ![c] = @ \cup {d}]
    /\ UNCHANGED <<mode, closed, sessions, pc, got, socket, stream, pipe>>

SocketEnded(c) == socket[c] = "closed"
StreamEnded(c) == stream[c] \notin open
SourceEnded(c, d) == d \in hungUp[c] \/ (IF d = "out" THEN SocketEnded(c) ELSE StreamEnded(c))
TargetEnded(c, d) == IF d = "out" THEN StreamEnded(c) ELSE SocketEnded(c)

\* A pipe ends when it cannot read, or when it reads and cannot write; it closes
\* both of its ends.
PipeClosesSource(c, d) ==                                        \* mutant
    /\ pipe[c][d] = "active"
    /\ SourceEnded(c, d) \/ TargetEnded(c, d)
    /\ pipe' = [pipe EXCEPT ![c][d] = "done"]
    /\ socket' = IF d = "out" THEN [socket EXCEPT ![c] = "closed"] ELSE socket
    /\ stream' = IF d = "in" THEN [stream EXCEPT ![c] = 0] ELSE stream
    /\ UNCHANGED <<mode, closed, sessions, pc, got, hungUp>>
PipeEnd(c, d) ==
    /\ pipe[c][d] = "active"
    /\ SourceEnded(c, d) \/ TargetEnded(c, d)
    /\ pipe' = [pipe EXCEPT ![c][d] = "done"]
    /\ socket' = [socket EXCEPT ![c] = "closed"] /\ stream' = [stream EXCEPT ![c] = 0]
    /\ UNCHANGED <<mode, closed, sessions, pc, got, hungUp>>

---------------------------------------------------------------------------
(* Close. *)

Call ==
    /\ At(User, "idle") /\ Goto(User, "wait")
    /\ UNCHANGED <<mode, closed, sessions, got, conns>>

\* WaitSessions: the counter of the wait group is zero, or the timeout passed.
MayCloseWhenIdle == Linger = "none" \/ Active = {}               \* mutant
MayClose == Linger # "forever" \/ Active = {}
WaitSessions(p) ==
    /\ At(p, "wait") /\ MayClose
    /\ Goto(p, "close")
    /\ UNCHANGED <<mode, closed, sessions, got, conns>>

CloseKeepsSession(p) ==                                          \* mutant
    /\ At(p, "close") /\ Goto(p, "done")
    /\ closed' = TRUE
    /\ UNCHANGED <<mode, sessions, got, conns>>
Close(p) ==
    /\ At(p, "close") /\ Goto(p, "done")
    /\ closed' = TRUE
    /\ open' = IF closed THEN open ELSE open \ {session}
    /\ UNCHANGED <<mode, session, made, unused, lock, got, conns>>

---------------------------------------------------------------------------
Handle(c) == Check(c) \/ OpenStream(c)
Closing(p) == WaitSessions(p) \/ Close(p)

Next ==
    \/ \E p \in Getters : GetSession(p)
    \/ \E s \in open : Lose(s)
    \/ AcceptFails \/ Poll
    \/ \E c \in Conns : Arrive(c) \/ Handle(c)
    \/ \E c \in Conns, d \in Pipes : PipeStart(c, d) \/ HangUp(c, d) \/ PipeEnd(c, d)
    \/ Call
    \/ \E p \in Closers : Closing(p)

Spec == Init /\ [][Next]_vars

\* Goroutines run; a mutex is given to who waits for it; a pipe that waits for data
\* finds out that its source ended.  Nothing says that a payment is due, that a
\* pipe has something to write, or that a search for a node succeeds.
FairSpec ==
    /\ Spec
    /\ \A p \in Getters : WF_vars(Reuse(p) \/ Search(p) \/ Connect(p)) /\ SF_vars(Enter(p))
    /\ WF_vars(AcceptFails)
    /\ \A c \in Conns : WF_vars(Handle(c))
    /\ \A c \in Conns, d \in Pipes :
         WF_vars(PipeStart(c, d)) /\ WF_vars(SourceEnded(c, d) /\ PipeEnd(c, d))
    /\ \A p \in Closers : WF_vars(Closing(p))

---------------------------------------------------------------------------
Labels == {"idle", "none", "poll", "get", "accept", "check", "stream", "piping", "wait",
           "close", "done"} \cup Searching

ControlType ==
    /\ closed \in BOOLEAN /\ session \in 0..MaxSessions /\ open \subseteq 1..MaxSessions
    /\ made \in 0..MaxSessions /\ unused \in BOOLEAN /\ lock \in Getters \cup {None}
    /\ pc \in [Procs -> Labels] /\ got \in [Procs -> 0..MaxSessions]
ConnType ==
    /\ socket \in [Conns -> {"none", "open", "closed"}]
    /\ stream \in [Conns -> 0..MaxSessions] /\ hungUp \in [Conns -> SUBSET Pipes]
    /\ pipe \in [Conns -> [Pipes -> {"none", "start", "active", "done"}]]
LockHeld == \A p \in Procs : pc[p] \in Searching <=> lock = p

\* Types; and whoever replaces the session, and nobody else, holds sessionLock, on
\* every way out of getSession.
TypeOK == mode \in Modes /\ ControlType /\ ConnType /\ LockHeld

\* However many goroutines find the session dead, one replaces it: there is never
\* more than one session open, and it is te.session.
OneSession == open \subseteq {session}

\* When the session of a connection is lost, or one side hangs up, both pipes end
\* and the local connection is closed.
PipesEnd ==
    \A c \in Conns :
        (At(c, "piping") /\ (hungUp[c] # {} \/ StreamEnded(c)))
            ~> (socket[c] = "closed" /\ pipe[c]["out"] = "done" /\ pipe[c]["in"] = "done")

\* Close returns, with whatever connections and searches for a node in progress,
\* unless it has to wait until all connections are done.
CloseReturns == At(User, "wait") /\ Linger # "forever" ~> At(User, "done")

\* An entry that must not reconnect closes when its session is lost.
LossCloses ==
    /\ At(AcceptLoop, "accept") /\ session \notin open
    /\ ~Reverse /\ ~ShouldReconnect /\ Linger # "forever"
    ~> closed

\* Closing a reverse entry closes its session and ends every pipe.
TornDown == closed /\ Reverse ~> open = {} /\ Active = {}

\* Closing the entry closes all connections ("t = 0 (default): close all conn when
\* tuna close").
AllClosed ==
    closed /\ (\A p \in Procs : pc[p] \notin Searching \cup {"get"})
        => open = {}
=============================================================================
