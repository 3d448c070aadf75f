------------------------- MODULE EntrySessionProofs -------------------------
(***************************************************************************)
(* Whatever the number of connections, sessions and closers: sessionLock   *)
(* is held by whoever replaces the session, and there is one session.      *)
(* The invariant adds to the two that nobody searches for a node while the *)
(* session it holds is open: only the holder of the lock opens one.        *)
(* Then, what the pipes of a connection leave behind when they end, and    *)
(* what Close leaves to be made after it.                                  *)
(***************************************************************************)
EXTENDS EntrySession, TLAPS

SearchedIsDead == \A p \in Procs : pc[p] \in Searching => session \notin open

SessionInv == ControlType /\ ConnType /\ LockHeld /\ OneSession /\ SearchedIsDead

\* Nothing but sessionLock and the goroutine's own step moves it in or out of the
\* search: a step of p to a label outside keeps the lock's bookkeeping.
LEMMA StepOutside ==
    ASSUME NEW p \in Procs, NEW l \in Labels \ Searching,
           SessionInv, Goto(p, l), pc[p] \notin Searching, lock' = lock,
           session' = session, open' \subseteq open
    PROVE  pc' \in [Procs -> Labels] /\ LockHeld' /\ OneSession' /\ SearchedIsDead'
  BY DEF SessionInv, ControlType, LockHeld, OneSession, SearchedIsDead, Goto

\* The holder of the lock leaves the search and gives it back.
LEMMA StepRelease ==
    ASSUME NEW p \in Procs, NEW l \in Labels \ Searching,
           SessionInv, Goto(p, l), lock = p \/ lock = None, lock' = None,
           open' \subseteq {session'}
    PROVE  pc' \in [Procs -> Labels] /\ LockHeld' /\ OneSession' /\ SearchedIsDead'
  BY NamesAssumption DEF SessionInv, ControlType, LockHeld, OneSession, SearchedIsDead,
     Goto, Procs, Getters

\* A goroutine takes the lock, or goes on searching with it.
LEMMA StepSearch ==
    ASSUME NEW p \in Procs, NEW l \in Searching,
           SessionInv, Goto(p, l), lock = p \/ lock = None, lock' = p,
           session' = session, open' = open, session \notin open
    PROVE  pc' \in [Procs -> Labels] /\ LockHeld' /\ OneSession' /\ SearchedIsDead'
  BY NamesAssumption DEF SessionInv, ControlType, LockHeld, OneSession, SearchedIsDead,
     Goto, Procs, Getters, Labels

LEMMA InitInv == Init => SessionInv
  <1>. SUFFICES ASSUME Init PROVE SessionInv
    OBVIOUS
  <1>1. session \in {0, 1} /\ open \subseteq {session} /\ open \subseteq 1..MaxSessions
    BY ModeAssumption DEF Init
  <1>2. ControlType
    <2>1. pc \in [Procs -> Labels]
      BY DEF Init, Labels
    <2>2. session \in 0..MaxSessions /\ made \in 0..MaxSessions
      BY <1>1, ModeAssumption DEF Init
    <2>3. unused \in BOOLEAN
      BY ModeAssumption DEF Init
    <2>4. closed \in BOOLEAN /\ lock \in Getters \cup {None}
      BY DEF Init
    <2>5. 0 \in 0..MaxSessions
      BY ModeAssumption
    <2>6. got \in [Procs -> 0..MaxSessions]
      BY <2>5 DEF Init
    <2>. QED
      BY <1>1, <2>1, <2>2, <2>3, <2>4, <2>6 DEF ControlType
  <1>3. ConnType
    BY ModeAssumption DEF Init, ConnType
  <1>4. \A p \in Procs : pc[p] \notin Searching
    BY DEF Init, Searching
  <1>5. LockHeld
    BY <1>4, NamesAssumption DEF Init, LockHeld, Procs
  <1>. QED
    BY <1>1, <1>2, <1>3, <1>4, <1>5 DEF SessionInv, OneSession, SearchedIsDead

\* getSession fails, at a point where the goroutine holds the lock or nobody does.
LEMMA FailInv ==
    ASSUME NEW p \in Procs, SessionInv, Fail(p), lock = p \/ lock = None, lock' = None,
           UNCHANGED <<closed, session, open, made, unused>>
    PROVE  SessionInv'
  <1>. DEFINE l == IF p = Payment THEN "poll"
                   ELSE IF p = AcceptLoop /\ Reverse THEN "wait" ELSE "done"
  <1>1. l \in Labels \ Searching /\ Goto(p, l)
    BY DEF Fail, Labels, Searching
  <1>. HIDE DEF l
  <1>2. pc' \in [Procs -> Labels] /\ LockHeld' /\ OneSession' /\ SearchedIsDead'
    BY <1>1, StepRelease DEF SessionInv, OneSession
  <1>3. ControlType'
    BY <1>2 DEF Fail, SessionInv, ControlType
  <1>4. ConnType'
    BY DEF Fail, SessionInv, ConnType
  <1>. QED
    BY <1>2, <1>3, <1>4 DEF SessionInv

\* A new session replaces a dead one.
LEMMA InstallInv ==
    ASSUME NEW p \in Procs, SessionInv, pc[p] \in Searching, Install(p)
    PROVE  SessionInv'
  <1>1. open = {} /\ lock = p
    BY DEF SessionInv, OneSession, SearchedIsDead, LockHeld
  <1>2. Given(p) \in Labels \ Searching
    BY DEF Given, Labels, Searching
  <1>3. open' = {session'} /\ session' = made + 1 /\ made + 1 \in 1..MaxSessions
    BY <1>1, ModeAssumption DEF Install, SessionInv, ControlType
  <1>4. pc' \in [Procs -> Labels] /\ LockHeld' /\ OneSession' /\ SearchedIsDead'
    BY <1>1, <1>2, <1>3, StepRelease DEF Install
  <1>5. ControlType'
    <2>1. got' \in [Procs -> 0..MaxSessions] /\ made' \in 0..MaxSessions
      BY <1>3, ModeAssumption DEF Install, SessionInv, ControlType
    <2>2. session' \in 0..MaxSessions /\ open' \subseteq 1..MaxSessions
      BY <1>3, ModeAssumption DEF SessionInv, ControlType
    <2>3. closed' \in BOOLEAN /\ unused' \in BOOLEAN /\ lock' \in Getters \cup {None}
      BY DEF Install, SessionInv, ControlType
    <2>. QED
      BY <1>4, <2>1, <2>2, <2>3 DEF ControlType
  <1>6. ConnType'
    BY DEF Install, SessionInv, ConnType, conns
  <1>. QED
    BY <1>4, <1>5, <1>6 DEF SessionInv

LEMMA GetSessionInv ==
    ASSUME NEW p \in Getters, SessionInv, GetSession(p)
    PROVE  SessionInv'
  <1>. p \in Procs
    BY DEF Getters
  <1>1. CASE Enter(p)
    <2>1. CASE session \in open
      <3>1. Given(p) \in Labels \ Searching /\ pc[p] \notin Searching
        BY <1>1 DEF Given, Labels, Searching, Enter, At
      <3>2. pc' \in [Procs -> Labels] /\ LockHeld' /\ OneSession' /\ SearchedIsDead'
        BY <1>1, <2>1, <3>1, StepOutside DEF Enter
      <3>3. ControlType' /\ ConnType'
        BY <1>1, <2>1, <3>2 DEF Enter, SessionInv, ControlType, ConnType, conns
      <3>. QED
        BY <3>2, <3>3 DEF SessionInv
    <2>2. CASE session \notin open /\ Reverse
      BY <1>1, <2>2, FailInv DEF Enter
    <2>3. CASE session \notin open /\ ~Reverse
      <3>1. "reuse" \in Searching
        BY DEF Searching
      <3>2. pc' \in [Procs -> Labels] /\ LockHeld' /\ OneSession' /\ SearchedIsDead'
        BY <1>1, <2>3, <3>1, StepSearch DEF Enter
      <3>3. ControlType' /\ ConnType'
        BY <1>1, <2>3, <3>2 DEF Enter, SessionInv, ControlType, ConnType, conns
      <3>. QED
        BY <3>2, <3>3 DEF SessionInv
    <2>. QED
      BY <2>1, <2>2, <2>3
  <1>2. CASE Reuse(p)
    <2>1. pc[p] \in Searching
      BY <1>2 DEF Reuse, At, Searching
    <2>2. CASE Install(p)
      BY <2>1, <2>2, InstallInv
    <2>3. CASE ~Install(p)
      <3>1. Goto(p, "force") /\ lock' = lock /\ session' = session /\ open' = open
        BY <1>2, <2>3 DEF Reuse
      <3>2. lock = p /\ session \notin open /\ "force" \in Searching
        BY <2>1 DEF SessionInv, LockHeld, SearchedIsDead, Searching
      <3>3. pc' \in [Procs -> Labels] /\ LockHeld' /\ OneSession' /\ SearchedIsDead'
        BY <3>1, <3>2, StepSearch
      <3>4. ControlType' /\ ConnType'
        BY <1>2, <2>3, <3>3 DEF Reuse, SessionInv, ControlType, ConnType, conns
      <3>. QED
        BY <3>3, <3>4 DEF SessionInv
    <2>. QED
      BY <2>2, <2>3
  <1>3. CASE Search(p)
    <2>1. lock = p /\ session \notin open /\ "connect" \in Searching
      BY <1>3 DEF Search, At, SessionInv, LockHeld, SearchedIsDead, Searching
    <2>2. CASE closed
      BY <1>3, <2>1, <2>2, FailInv DEF Search
    <2>3. CASE ~closed
      <3>1. pc' \in [Procs -> Labels] /\ LockHeld' /\ OneSession' /\ SearchedIsDead'
        BY <1>3, <2>1, <2>3, StepSearch DEF Search
      <3>2. ControlType' /\ ConnType'
        BY <1>3, <2>3, <3>1 DEF Search, SessionInv, ControlType, ConnType, conns
      <3>. QED
        BY <3>1, <3>2 DEF SessionInv
    <2>. QED
      BY <2>2, <2>3
  <1>4. CASE Connect(p)
    <2>1. pc[p] \in Searching /\ lock = p /\ session \notin open /\ "force" \in Searching
      BY <1>4 DEF Connect, At, SessionInv, LockHeld, SearchedIsDead, Searching
    <2>2. CASE Install(p)
      BY <2>1, <2>2, InstallInv
    <2>3. CASE Goto(p, "force") /\ UNCHANGED <<closed, sessions, got, conns>>
      <3>1. pc' \in [Procs -> Labels] /\ LockHeld' /\ OneSession' /\ SearchedIsDead'
        BY <2>1, <2>3, StepSearch DEF sessions
      <3>2. ControlType' /\ ConnType'
        BY <2>3, <3>1 DEF SessionInv, ControlType, ConnType, conns, sessions
      <3>. QED
        BY <3>1, <3>2 DEF SessionInv
    <2>4. CASE Fail(p) /\ lock' = None /\ UNCHANGED <<closed, session, open, made, unused>>
      BY <2>1, <2>4, FailInv
    <2>. QED
      BY <1>4, <2>2, <2>3, <2>4 DEF Connect
  <1>. QED
    BY <1>1, <1>2, <1>3, <1>4 DEF GetSession

\* Steps that touch neither the session nor its lock: a goroutine goes from one
\* label outside the search to another.
LEMMA MoveInv ==
    ASSUME NEW p \in Procs, NEW l \in Labels \ Searching, SessionInv,
           Goto(p, l), pc[p] \notin Searching, ConnType',
           UNCHANGED <<sessions, got>>, closed' \in BOOLEAN
    PROVE  SessionInv'
  <1>1. pc' \in [Procs -> Labels] /\ LockHeld' /\ OneSession' /\ SearchedIsDead'
    BY StepOutside DEF sessions
  <1>2. ControlType'
    BY <1>1 DEF SessionInv, ControlType, sessions
  <1>. QED
    BY <1>1, <1>2 DEF SessionInv

LEMMA HandleInv ==
    ASSUME NEW c \in Conns, SessionInv, Arrive(c) \/ Handle(c)
    PROVE  SessionInv'
  <1>. c \in Procs
    BY DEF Procs
  <1>1. CASE Arrive(c)
    <2>1. ConnType'
      BY <1>1 DEF Arrive, SessionInv, ConnType
    <2>2. "check" \in Labels \ Searching /\ pc[c] \notin Searching
      BY <1>1 DEF Arrive, At, Labels, Searching
    <2>. QED
      BY <1>1, <2>1, <2>2, MoveInv DEF Arrive, SessionInv, ControlType
  <1>2. CASE Check(c)
    <2>1. ConnType'
      BY <1>2 DEF Check, SessionInv, ConnType, conns
    <2>2. "done" \in Labels \ Searching /\ "get" \in Labels \ Searching /\ pc[c] \notin Searching
      BY <1>2 DEF Check, At, Labels, Searching
    <2>. QED
      BY <1>2, <2>1, <2>2, MoveInv DEF Check, SessionInv, ControlType
  <1>3. CASE OpenStream(c)
    <2>1. ConnType'
      <3>1. got[c] \in 0..MaxSessions
        BY DEF SessionInv, ControlType
      <3>2. stream' \in [Conns -> 0..MaxSessions]
        BY <1>3, <3>1 DEF OpenStream, SessionInv, ConnType
      <3>3. socket' \in [Conns -> {"none", "open", "closed"}]
        BY <1>3 DEF OpenStream, SessionInv, ConnType
      <3>4. pipe' \in [Conns -> [Pipes -> {"none", "start", "active", "done"}]]
        BY <1>3 DEF OpenStream, SessionInv, ConnType
      <3>. QED
        BY <1>3, <3>2, <3>3, <3>4 DEF OpenStream, SessionInv, ConnType
    <2>2. "done" \in Labels \ Searching /\ "piping" \in Labels \ Searching
          /\ pc[c] \notin Searching
      BY <1>3 DEF OpenStream, At, Labels, Searching
    <2>. QED
      BY <1>3, <2>1, <2>2, MoveInv DEF OpenStream, SessionInv, ControlType
  <1>. QED
    BY <1>1, <1>2, <1>3 DEF Handle

\* The pipes only change the state of their connection.
LEMMA PipeInv ==
    ASSUME NEW c \in Conns, NEW d \in Pipes, SessionInv,
           PipeStart(c, d) \/ HangUp(c, d) \/ PipeEnd(c, d)
    PROVE  SessionInv'
  <1>1. UNCHANGED <<closed, sessions, pc, got>>
    BY DEF PipeStart, HangUp, PipeEnd
  <1>2. socket' \in [Conns -> {"none", "open", "closed"}] /\ stream' \in [Conns -> 0..MaxSessions]
    BY ModeAssumption DEF PipeStart, HangUp, PipeEnd, SessionInv, ConnType
  <1>3. hungUp' \in [Conns -> SUBSET Pipes]
    BY DEF PipeStart, HangUp, PipeEnd, SessionInv, ConnType
  <1>4. pipe' \in [Conns -> [Pipes -> {"none", "start", "active", "done"}]]
    BY DEF PipeStart, HangUp, PipeEnd, SessionInv, ConnType
  <1>. QED
    BY <1>1, <1>2, <1>3, <1>4
       DEF SessionInv, ControlType, ConnType, LockHeld, OneSession, SearchedIsDead, sessions

LEMMA ClosingInv ==
    ASSUME NEW p \in Closers, SessionInv, Closing(p)
    PROVE  SessionInv'
  <1>. p \in Procs
    BY DEF Closers, Procs
  <1>1. ConnType'
    BY DEF Closing, WaitSessions, Close, SessionInv, ConnType, conns
  <1>2. CASE WaitSessions(p)
    <2>1. "close" \in Labels \ Searching /\ pc[p] \notin Searching
      BY <1>2 DEF WaitSessions, At, Labels, Searching
    <2>. QED
      BY <1>1, <1>2, <2>1, MoveInv DEF WaitSessions, SessionInv, ControlType
  <1>3. CASE Close(p)
    <2>1. "done" \in Labels \ Searching /\ pc[p] \notin Searching
      BY <1>3 DEF Close, At, Labels, Searching
    <2>2. pc' \in [Procs -> Labels] /\ LockHeld' /\ OneSession' /\ SearchedIsDead'
      BY <1>3, <2>1, StepOutside DEF Close
    <2>3. ControlType'
      BY <1>3, <2>2 DEF Close, SessionInv, ControlType
    <2>. QED
      BY <1>1, <2>2, <2>3 DEF SessionInv
  <1>. QED
    BY <1>2, <1>3 DEF Closing

LEMMA StepInv == SessionInv /\ [Next]_vars => SessionInv'
  <1>. SUFFICES ASSUME SessionInv, [Next]_vars PROVE SessionInv'
    OBVIOUS
  <1>1. CASE \E p \in Getters : GetSession(p)
    BY <1>1, GetSessionInv
  <1>2. CASE \E s \in open : Lose(s)
    BY <1>2 DEF Lose, SessionInv, ControlType, ConnType, LockHeld, OneSession,
                SearchedIsDead, conns
  <1>3. CASE AcceptFails
    <2>1. AfterLoss \in Labels \ Searching /\ pc[AcceptLoop] \notin Searching
      BY <1>3 DEF AcceptFails, At, AfterLoss, Labels, Searching
    <2>2. ConnType' /\ closed' \in BOOLEAN /\ AcceptLoop \in Procs
      BY <1>3 DEF AcceptFails, SessionInv, ControlType, ConnType, conns, Procs
    <2>. QED
      BY <1>3, <2>1, <2>2, MoveInv DEF AcceptFails
  <1>4. CASE Poll
    <2>1. "done" \in Labels \ Searching /\ "get" \in Labels \ Searching
          /\ pc[Payment] \notin Searching
      BY <1>4 DEF Poll, At, Labels, Searching
    <2>2. ConnType' /\ closed' \in BOOLEAN /\ Payment \in Procs
      BY <1>4 DEF Poll, SessionInv, ControlType, ConnType, conns, Procs
    <2>. QED
      BY <1>4, <2>1, <2>2, MoveInv DEF Poll
  <1>5. CASE \E c \in Conns : Arrive(c) \/ Handle(c)
    BY <1>5, HandleInv
  <1>6. CASE \E c \in Conns, d \in Pipes : PipeStart(c, d) \/ HangUp(c, d) \/ PipeEnd(c, d)
    BY <1>6, PipeInv
  <1>7. CASE Call
    <2>1. "wait" \in Labels \ Searching /\ pc[User] \notin Searching
      BY <1>7 DEF Call, At, Labels, Searching
    <2>2. ConnType' /\ closed' \in BOOLEAN /\ User \in Procs
      BY <1>7 DEF Call, SessionInv, ControlType, ConnType, conns, Procs
    <2>. QED
      BY <1>7, <2>1, <2>2, MoveInv DEF Call
  <1>8. CASE \E p \in Closers : Closing(p)
    BY <1>8, ClosingInv
  <1>9. CASE UNCHANGED vars
    BY <1>9 DEF vars, sessions, conns, SessionInv, ControlType, ConnType, LockHeld,
                OneSession, SearchedIsDead
  <1>. QED
    BY <1>1, <1>2, <1>3, <1>4, <1>5, <1>6, <1>7, <1>8, <1>9 DEF Next

LEMMA AlwaysInv == Spec => []SessionInv
  BY InitInv, StepInv, PTL DEF Spec

\* An entry keeps its configuration.
LEMMA ModeSame == ASSUME [Next]_vars PROVE mode' = mode
  <1>1. ASSUME NEW p \in Getters, GetSession(p) PROVE mode' = mode
    BY <1>1 DEF GetSession, Enter, Reuse, Search, Connect, Install
  <1>2. ASSUME NEW c \in Conns, Arrive(c) \/ Handle(c) PROVE mode' = mode
    BY <1>2 DEF Arrive, Handle, Check, OpenStream
  <1>3. ASSUME NEW c \in Conns, NEW d \in Pipes, PipeStart(c, d) \/ HangUp(c, d) \/ PipeEnd(c, d)
        PROVE  mode' = mode
    BY <1>3 DEF PipeStart, HangUp, PipeEnd
  <1>4. ASSUME NEW p \in Closers, Closing(p) PROVE mode' = mode
    BY <1>4 DEF Closing, WaitSessions, Close
  <1>. QED
    BY <1>1, <1>2, <1>3, <1>4 DEF Next, vars, Lose, AcceptFails, Poll, Call

---------------------------------------------------------------------------
\* getSession returns sessionLock on every path, and only its holder searches.
THEOREM TypeCorrect == Spec => []TypeOK
  <1>1. SessionInv /\ mode \in Modes => TypeOK
    BY DEF SessionInv, TypeOK
  <1>2. Init => mode \in Modes
    BY DEF Init
  <1>3. mode \in Modes /\ [Next]_vars => (mode \in Modes)'
    BY ModeSame
  <1>. QED
    BY <1>1, <1>2, <1>3, AlwaysInv, PTL DEF Spec

\* There is never more than one session open: no goroutine replaces a live one.
THEOREM OneSessionHolds == Spec => []OneSession
  <1>1. SessionInv => OneSession
    BY DEF SessionInv
  <1>. QED
    BY <1>1, AlwaysInv, PTL

---------------------------------------------------------------------------
(* Connections and their pipes. *)

\* A handler before its stream, with the local connection it was started for.
Accepted == {"check", "get", "stream"} \cup Searching

\* A handler that pipes has a session and both pipes; its stream and its local
\* connection are closed by the first pipe that ends, and by nothing else.
Together(c) ==
    IF At(c, "piping")
    THEN /\ got[c] # 0 /\ stream[c] \in {0, got[c]} /\ socket[c] \in {"open", "closed"}
         /\ \A d \in Pipes : pipe[c][d] # "none"
         /\ socket[c] = "closed" <=> stream[c] = 0
         /\ socket[c] = "closed" <=> \E d \in Pipes : pipe[c][d] = "done"
    ELSE /\ stream[c] = 0 /\ \A d \in Pipes : pipe[c][d] = "none"
         /\ pc[c] \in Accepted => socket[c] = "open"

\* Stream and local connection of a handler are open and closed together, exactly until
\* one of its two pipes has ended; the stream is one of the session the handler was given.
PipesTogether == \A c \in Conns : Together(c)

\* Whoever leaves getSession for a stream was given a session.
Served == \A p \in Procs : pc[p] \in {"stream", "accept"} => got[p] # 0

LEMMA TogetherInit == Init => PipesTogether /\ Served
  <1>. SUFFICES ASSUME Init PROVE PipesTogether /\ Served
    OBVIOUS
  <1>1. /\ \A p \in Procs : pc[p] \notin {"piping", "stream", "accept"}
        /\ \A c \in Conns : pc[c] = "none"
    BY NamesAssumption DEF Init, Procs
  <1>2. \A c \in Conns : stream[c] = 0 /\ \A d \in Pipes : pipe[c][d] = "none"
    BY DEF Init
  <1>. QED
    BY <1>1, <1>2 DEF PipesTogether, Together, Served, At, Procs, Accepted, Searching

\* Nothing that a step leaves alone comes apart.
LEMMA TogetherKept ==
    ASSUME NEW c \in Conns, Together(c), SessionInv, pc'[c] = pc[c],
           UNCHANGED <<got, socket, stream, pipe>>
    PROVE  Together(c)'
  BY DEF Together, At

\* getSession changes one goroutine, which neither pipes before nor after.
LEMMA GetterFacts ==
    ASSUME NEW p \in Getters, SessionInv, GetSession(p)
    PROVE  /\ pc[p] \in {"get"} \cup Searching /\ pc'[p] # "piping"
           /\ pc'[p] \in {"stream", "accept"} => got'[p] # 0
           /\ \A q \in Procs \ {p} : pc'[q] = pc[q] /\ got'[q] = got[q]
           /\ \A c \in Conns : socket'[c] = socket[c] \/ (c = p /\ pc'[p] = "done")
           /\ UNCHANGED <<stream, pipe>>
  <1>. p \in Procs /\ pc \in [Procs -> Labels] /\ got \in [Procs -> 0..MaxSessions]
    BY DEF Getters, SessionInv, ControlType
  <1>. socket \in [Conns -> {"none", "open", "closed"}]
    BY DEF SessionInv, ConnType
  <1>1. \A s \in open : s # 0
    BY DEF SessionInv, ControlType
  <1>2. ASSUME Install(p)
        PROVE  /\ pc'[p] = Given(p) /\ got'[p] # 0 /\ UNCHANGED conns
               /\ \A q \in Procs \ {p} : pc'[q] = pc[q] /\ got'[q] = got[q]
    <2>1. made + 1 # 0
      BY ModeAssumption DEF SessionInv, ControlType
    <2>. QED
      BY <1>2, <2>1 DEF Install, Goto
  <1>3. ASSUME Fail(p)
        PROVE  /\ pc'[p] \in {"poll", "wait", "done"} /\ got' = got
               /\ \A q \in Procs \ {p} : pc'[q] = pc[q]
               /\ \A c \in Conns : socket'[c] = socket[c] \/ (c = p /\ pc'[p] = "done")
               /\ UNCHANGED <<stream, pipe>>
    BY <1>3, NamesAssumption DEF Fail, Goto
  <1>4. Given(p) # "piping"
    BY DEF Given
  <1>5. CASE Enter(p)
    BY <1>1, <1>3, <1>4, <1>5 DEF Enter, Searching, At, Goto, conns
  <1>6. CASE Reuse(p)
    BY <1>2, <1>4, <1>6 DEF Reuse, Searching, At, Goto, conns
  <1>7. CASE Search(p)
    BY <1>3, <1>7 DEF Search, Searching, At, Goto, conns
  <1>8. CASE Connect(p)
    BY <1>2, <1>3, <1>4, <1>8 DEF Connect, Searching, At, Goto, conns
  <1>. QED
    BY <1>5, <1>6, <1>7, <1>8 DEF GetSession

\* A pipe changes its own connection only.
LEMMA PipeTogether ==
    ASSUME SessionInv, PipesTogether, NEW c \in Conns, NEW d \in Pipes,
           PipeStart(c, d) \/ HangUp(c, d) \/ PipeEnd(c, d)
    PROVE  PipesTogether'
  <1>. /\ pipe \in [Conns -> [Pipes -> {"none", "start", "active", "done"}]]
       /\ socket \in [Conns -> {"none", "open", "closed"}] /\ stream \in [Conns -> 0..MaxSessions]
    BY DEF SessionInv, ConnType
  <1>1. UNCHANGED <<pc, got>>
    BY DEF PipeStart, HangUp, PipeEnd
  <1>2. ASSUME NEW e \in Conns, e # c PROVE Together(e)'
    <2>1. socket'[e] = socket[e] /\ stream'[e] = stream[e] /\ pipe'[e] = pipe[e]
      BY <1>2 DEF PipeStart, HangUp, PipeEnd
    <2>. QED
      BY <1>1, <2>1 DEF PipesTogether, Together, At
  <1>3. Together(c)'
    <2>1. Together(c)
      BY DEF PipesTogether
    <2>2. CASE HangUp(c, d)
      BY <2>1, <2>2 DEF HangUp, Together, At
    <2>3. CASE PipeStart(c, d)
      <3>1. /\ pipe[c][d] = "start" /\ pipe'[c][d] = "active"
            /\ \A x \in Pipes \ {d} : pipe'[c][x] = pipe[c][x]
            /\ UNCHANGED <<socket, stream>>
        BY <2>3 DEF PipeStart
      <3>. QED
        BY <1>1, <2>1, <3>1 DEF Together, At
    <2>4. CASE PipeEnd(c, d)
      <3>1. /\ pipe[c][d] = "active" /\ pipe'[c][d] = "done"
            /\ \A x \in Pipes \ {d} : pipe'[c][x] = pipe[c][x]
            /\ socket'[c] = "closed" /\ stream'[c] = 0
        BY <2>4 DEF PipeEnd
      <3>. QED
        BY <1>1, <2>1, <3>1 DEF Together, At
    <2>. QED
      BY <2>2, <2>3, <2>4
  <1>. QED
    BY <1>2, <1>3 DEF PipesTogether

\* A handler opens a stream and starts both pipes, or none of it.
LEMMA HandleTogether ==
    ASSUME SessionInv, PipesTogether, Served, NEW c \in Conns, Arrive(c) \/ Handle(c)
    PROVE  PipesTogether' /\ Served'
  <1>. /\ pipe \in [Conns -> [Pipes -> {"none", "start", "active", "done"}]]
       /\ socket \in [Conns -> {"none", "open", "closed"}] /\ stream \in [Conns -> 0..MaxSessions]
       /\ pc \in [Procs -> Labels] /\ c \in Procs
    BY DEF SessionInv, ConnType, ControlType, Procs
  <1>1. /\ pc[c] # "piping" /\ got' = got /\ pc'[c] \in {"check", "done", "get", "piping"}
        /\ \A q \in Procs \ {c} : pc'[q] = pc[q]
        /\ \A e \in Conns \ {c} : socket'[e] = socket[e] /\ stream'[e] = stream[e]
                                  /\ pipe'[e] = pipe[e]
    BY DEF Arrive, Handle, Check, OpenStream, Goto, At, conns
  <1>2. Served'
    BY <1>1 DEF Served
  <1>3. ASSUME NEW e \in Conns, e # c PROVE Together(e)'
    BY <1>1, <1>3 DEF PipesTogether, Together, At, Procs
  <1>4. Together(c)'
    <2>1. Together(c) /\ ~At(c, "piping")
      BY <1>1 DEF PipesTogether, At
    <2>2. CASE OpenStream(c) /\ got[c] \in open
      <3>1. /\ got[c] # 0
        BY <2>2 DEF SessionInv, ControlType
      <3>2. /\ pc[c] = "stream" /\ pc'[c] = "piping" /\ stream'[c] = got[c] /\ socket' = socket
            /\ \A d \in Pipes : pipe'[c][d] = "start"
        BY <2>2 DEF OpenStream, Goto, At
      <3>3. socket[c] = "open"
        BY <2>1, <3>2 DEF Together, At, Accepted
      <3>. QED
        BY <1>1, <3>1, <3>2, <3>3 DEF Together, At
    <2>3. CASE ~(OpenStream(c) /\ got[c] \in open)
      <3>1. pc'[c] # "piping" /\ UNCHANGED <<stream, pipe>>
        BY <2>3 DEF Arrive, Handle, Check, OpenStream, Goto, At, conns
      <3>2. pc'[c] \in Accepted => socket'[c] = "open"
        <4>1. CASE Arrive(c)
          BY <4>1 DEF Arrive
        <4>2. CASE Check(c)
          BY <2>1, <4>2 DEF Check, At, Together, Accepted, conns
        <4>3. CASE OpenStream(c)
          BY <2>3, <4>3 DEF OpenStream, Goto, At, Accepted, Searching
        <4>. QED
          BY <4>1, <4>2, <4>3 DEF Handle
      <3>. QED
        BY <2>1, <3>1, <3>2 DEF Together, At
    <2>. QED
      BY <2>2, <2>3
  <1>. QED
    BY <1>2, <1>3, <1>4 DEF PipesTogether

LEMMA TogetherStep == SessionInv /\ PipesTogether /\ Served /\ [Next]_vars
                        => PipesTogether' /\ Served'
  <1>. SUFFICES ASSUME SessionInv, PipesTogether, Served, [Next]_vars
                PROVE  PipesTogether' /\ Served'
    OBVIOUS
  <1>. pc \in [Procs -> Labels] /\ Conns \subseteq Procs
    BY DEF SessionInv, ControlType, Procs
  <1>1. ASSUME NEW p \in Getters, GetSession(p) PROVE PipesTogether' /\ Served'
    <2>1. /\ pc[p] \in {"get"} \cup Searching /\ pc'[p] # "piping"
          /\ pc'[p] \in {"stream", "accept"} => got'[p] # 0
          /\ \A q \in Procs \ {p} : pc'[q] = pc[q] /\ got'[q] = got[q]
          /\ \A c \in Conns : socket'[c] = socket[c] \/ (c = p /\ pc'[p] = "done")
          /\ UNCHANGED <<stream, pipe>>
      BY <1>1, GetterFacts
    <2>2. ASSUME NEW c \in Conns PROVE Together(c)'
      <3>1. Together(c)
        BY DEF PipesTogether
      <3>2. CASE c # p
        BY <2>1, <3>1, <3>2 DEF Together, At
      <3>3. CASE c = p
        <4>1. pc[c] # "piping" /\ pc[c] \in Accepted /\ "done" \notin Accepted
          BY <2>1, <3>3 DEF Accepted, Searching
        <4>. QED
          BY <2>1, <3>1, <3>3, <4>1 DEF Together, At
      <3>. QED
        BY <3>2, <3>3
    <2>. QED
      BY <2>1, <2>2 DEF PipesTogether, Served
  <1>2. ASSUME UNCHANGED <<got, socket, stream, pipe>>, NEW p \in Procs \ Conns,
               \A q \in Procs \ {p} : pc'[q] = pc[q], pc'[p] \notin {"stream", "accept"}
        PROVE  PipesTogether' /\ Served'
    BY <1>2, TogetherKept DEF PipesTogether, Served
  <1>3. AcceptLoop \in Procs \ Conns /\ Payment \in Procs \ Conns /\ User \in Procs \ Conns
    BY NamesAssumption DEF Procs
  <1>4. CASE \E s \in open : Lose(s)
    BY <1>2, <1>3, <1>4 DEF Lose, conns, PipesTogether, Served, Together, At
  <1>5. CASE AcceptFails
    BY <1>2, <1>3, <1>5 DEF AcceptFails, Goto, AfterLoss, conns
  <1>6. CASE Poll
    BY <1>2, <1>3, <1>6 DEF Poll, Goto, conns
  <1>7. CASE \E c \in Conns : Arrive(c) \/ Handle(c)
    BY <1>7, HandleTogether
  <1>8. CASE \E c \in Conns, d \in Pipes : PipeStart(c, d) \/ HangUp(c, d) \/ PipeEnd(c, d)
    BY <1>8, PipeTogether DEF PipeStart, HangUp, PipeEnd, Served
  <1>9. CASE Call
    BY <1>2, <1>3, <1>9 DEF Call, Goto, conns
  <1>10. CASE \E p \in Closers : Closing(p)
    BY <1>2, <1>3, <1>10 DEF Closing, WaitSessions, Close, Closers, Goto, conns
  <1>11. CASE UNCHANGED vars
    BY <1>11 DEF vars, conns, PipesTogether, Served, Together, At
  <1>. QED
    BY <1>1, <1>4, <1>5, <1>6, <1>7, <1>8, <1>9, <1>10, <1>11 DEF Next

\* Both ends of a piped connection are open, or both are closed since a pipe ended: no
\* interleaving of the two pipes, losses and hangups leaves one of them behind.
THEOREM PipesTogetherHolds == Spec => []PipesTogether
  BY TogetherInit, TogetherStep, AlwaysInv, PTL DEF Spec

---------------------------------------------------------------------------
(* After Close. *)

\* A reverse entry, which never replaces its session, has none open once it is closed.
ReverseClosed == Reverse /\ closed => open = {}

ReverseInv == Reverse => lock = None /\ ~unused /\ session = 1 /\ (closed => open = {})

LEMMA ReverseStep == SessionInv /\ ReverseInv /\ [Next]_vars => ReverseInv'
  <1>. SUFFICES ASSUME SessionInv, ReverseInv, [Next]_vars, Reverse'
                PROVE  (lock = None /\ ~unused /\ session = 1 /\ (closed => open = {}))'
    BY DEF ReverseInv
  <1>1. Reverse /\ lock = None /\ ~unused /\ session = 1 /\ (closed => open = {})
    BY ModeSame DEF Reverse, ReverseInv
  <1>2. ASSUME NEW p \in Getters, GetSession(p)
        PROVE  UNCHANGED <<lock, unused, session, closed, open>>
    <2>1. pc[p] \notin Searching
      BY <1>1, NamesAssumption DEF SessionInv, LockHeld, Procs, Getters
    <2>2. Enter(p)
      BY <1>2, <2>1 DEF GetSession, Reuse, Search, Connect, At, Searching
    <2>. QED
      BY <1>1, <2>2 DEF Enter
  <1>3. ASSUME NEW p \in Closers, Closing(p)
        PROVE  UNCHANGED <<lock, unused, session>> /\ (closed' => open' = {})
    <2>1. CASE WaitSessions(p)
      BY <1>1, <2>1 DEF WaitSessions, sessions
    <2>2. CASE Close(p)
      <3>1. open' = {}
        BY <1>1, <2>2 DEF Close, SessionInv, OneSession
      <3>. QED
        BY <2>2, <3>1 DEF Close
    <2>. QED
      BY <1>3, <2>1, <2>2 DEF Closing
  <1>4. CASE \E c \in Conns, d \in Pipes : PipeStart(c, d) \/ HangUp(c, d) \/ PipeEnd(c, d)
    BY <1>1, <1>4 DEF PipeStart, HangUp, PipeEnd, sessions
  <1>5. CASE \E c \in Conns : Arrive(c) \/ Handle(c)
    BY <1>1, <1>5 DEF Arrive, Handle, Check, OpenStream, sessions
  <1>6. CASE \E s \in open : Lose(s)
    BY <1>1, <1>6 DEF Lose
  <1>7. CASE AcceptFails \/ Poll \/ Call \/ UNCHANGED vars
    BY <1>1, <1>7 DEF AcceptFails, Poll, Call, vars, sessions
  <1>. QED
    BY <1>1, <1>2, <1>3, <1>4, <1>5, <1>6, <1>7 DEF Next

\* What Close misses in an entry that reconnects, it never misses in a reverse entry.
THEOREM ReverseClosedHolds == Spec => []ReverseClosed
  <1>1. Init => ReverseInv
    BY DEF Init, ReverseInv, Reverse
  <1>2. ReverseInv => ReverseClosed
    BY DEF ReverseInv, ReverseClosed
  <1>. QED
    BY <1>1, <1>2, ReverseStep, AlwaysInv, PTL DEF Spec

\* The session that may still be made after Close: by who is connecting, or on the
\* transport that Start connected.
Late == IF unused \/ \E p \in Procs : At(p, "connect") THEN 1 ELSE 0

\* However many goroutines want a session of a closed entry, at most one is made after
\* Close, the one that somebody was making.
OneLateSession == [][closed => made' + Late' <= made + Late]_vars

\* The transport of Start is tried before a node is searched for.
FirstTransport == unused => \A p \in Procs : pc[p] \notin {"force", "connect"}

LEMMA FirstTransportStep == SessionInv /\ FirstTransport /\ [Next]_vars => FirstTransport'
  <1>. SUFFICES ASSUME SessionInv, FirstTransport, [Next]_vars, unused'
                PROVE  \A p \in Procs : pc'[p] \notin {"force", "connect"}
    BY DEF FirstTransport
  <1>. pc \in [Procs -> Labels] /\ Getters \subseteq Procs /\ Closers \subseteq Procs
    BY DEF SessionInv, ControlType, Getters, Closers, Procs
  <1>1. ASSUME NEW p \in Getters, GetSession(p)
        PROVE  \A q \in Procs : pc'[q] \notin {"force", "connect"}
    <2>1. unused
      BY <1>1 DEF GetSession, Enter, Reuse, Search, Connect, Install, sessions
    <2>2. Enter(p)
      BY <1>1, <2>1 DEF GetSession, Reuse, Search, Connect, Install, At, FirstTransport
    <2>. QED
      BY <2>1, <2>2 DEF Enter, Fail, Goto, Given, FirstTransport
  <1>2. ASSUME NEW p \in Closers, Closing(p)
        PROVE  \A q \in Procs : pc'[q] \notin {"force", "connect"}
    BY <1>2 DEF Closing, WaitSessions, Close, Goto, FirstTransport, sessions
  <1>3. CASE \E c \in Conns, d \in Pipes : PipeStart(c, d) \/ HangUp(c, d) \/ PipeEnd(c, d)
    BY <1>3 DEF PipeStart, HangUp, PipeEnd, FirstTransport, sessions
  <1>4. CASE \E c \in Conns : Arrive(c) \/ Handle(c)
    BY <1>4 DEF Arrive, Handle, Check, OpenStream, Goto, FirstTransport, sessions
  <1>5. CASE \E s \in open : Lose(s)
    BY <1>5 DEF Lose, FirstTransport
  <1>6. CASE AcceptFails \/ Poll \/ Call \/ UNCHANGED vars
    BY <1>6 DEF AcceptFails, Poll, Call, AfterLoss, Goto, FirstTransport, vars, sessions
  <1>. QED
    BY <1>1, <1>2, <1>3, <1>4, <1>5, <1>6 DEF Next

\* A step that makes no session and lets nobody connect leaves no more to come.
LEMMA LateKept ==
    ASSUME SessionInv, made' = made, unused' => unused,
           \A p \in Procs : pc'[p] = "connect" => pc[p] = "connect"
    PROVE  made' + Late' <= made + Late
  BY ModeAssumption DEF Late, At, SessionInv, ControlType

\* The session somebody was making uses up what was to come.
LEMMA LateMade ==
    ASSUME SessionInv, FirstTransport, NEW p \in Getters, Install(p),
           unused \/ pc[p] = "connect", pc[p] \in {"reuse", "connect"}
    PROVE  made' + Late' <= made + Late
  <1>1. Late = 1
    BY DEF Late, At, Getters
  <1>2. \A q \in Procs \ {p} : pc[q] # "connect"
    BY DEF SessionInv, LockHeld, Searching, Getters
  <1>3. ~unused' /\ pc' = [pc EXCEPT ![p] = Given(p)] /\ made' = made + 1
    BY DEF Install, Goto
  <1>4. Late' = 0
    BY <1>2, <1>3 DEF Late, At, Given, SessionInv, ControlType
  <1>. QED
    BY <1>1, <1>3, <1>4, ModeAssumption DEF SessionInv, ControlType

LEMMA LateStep ==
    ASSUME SessionInv, FirstTransport, [Next]_vars, closed
    PROVE  made' + Late' <= made + Late
  <1>. pc \in [Procs -> Labels] /\ Getters \subseteq Procs /\ Closers \subseteq Procs
    BY DEF SessionInv, ControlType, Getters, Closers, Procs
  <1>. DEFINE NoMore == /\ made' = made /\ (unused' => unused)
                        /\ \A q \in Procs : pc'[q] = "connect" => pc[q] = "connect"
  <1>1. ASSUME NEW p \in Getters, GetSession(p)
        PROVE  NoMore \/ made' + Late' <= made + Late
    <2>1. CASE Enter(p)
      BY <2>1 DEF Enter, Fail, Goto, Given
    <2>2. CASE Reuse(p)
      <3>1. CASE unused /\ Install(p)
        BY <2>2, <3>1, LateMade DEF Reuse, At
      <3>2. CASE ~(unused /\ Install(p))
        BY <2>2, <3>2 DEF Reuse, Goto
      <3>. QED
        BY <3>1, <3>2
    <2>3. CASE Search(p)
      BY <2>3 DEF Search, Fail, Goto
    <2>4. CASE Connect(p)
      <3>1. CASE Install(p)
        BY <2>4, <3>1, LateMade DEF Connect, At
      <3>2. CASE ~Install(p)
        BY <2>4, <3>2 DEF Connect, Fail, Goto, sessions
      <3>. QED
        BY <3>1, <3>2
    <2>. QED
      BY <1>1, <2>1, <2>2, <2>3, <2>4 DEF GetSession
  <1>2. ASSUME UNCHANGED sessions, \A q \in Procs : pc'[q] = "connect" => pc[q] = "connect"
        PROVE  NoMore
    <2>1. made' = made /\ unused' = unused
      BY <1>2 DEF sessions
    <2>. QED
      BY <1>2, <2>1
  <1>. HIDE DEF NoMore
  <1>3. ASSUME NEW p \in Closers, Closing(p) PROVE NoMore
    BY <1>2, <1>3 DEF Closing, WaitSessions, Close, Goto, sessions
  <1>4. ASSUME NEW c \in Conns, NEW d \in Pipes, PipeStart(c, d) \/ HangUp(c, d) \/ PipeEnd(c, d)
        PROVE  NoMore
    BY <1>2, <1>4 DEF PipeStart, HangUp, PipeEnd
  <1>5. ASSUME NEW c \in Conns, Arrive(c) \/ Handle(c) PROVE NoMore
    BY <1>2, <1>5 DEF Arrive, Handle, Check, OpenStream, Goto
  <1>6. ASSUME NEW s \in open, Lose(s) PROVE NoMore
    BY <1>6 DEF Lose, NoMore
  <1>7. ASSUME AcceptFails \/ Poll \/ Call \/ UNCHANGED vars PROVE NoMore
    BY <1>2, <1>7 DEF AcceptFails, Poll, Call, AfterLoss, Goto, vars
  <1>8. NoMore \/ made' + Late' <= made + Late
    BY <1>1, <1>3, <1>4, <1>5, <1>6, <1>7 DEF Next
  <1>. QED
    BY <1>8, LateKept DEF NoMore

\* Close leaves at most one session to be made after it.
THEOREM OneLateSessionHolds == Spec => OneLateSession
  <1>1. Init => FirstTransport
    BY DEF Init, FirstTransport
  <1>. QED
    BY <1>1, FirstTransportStep, LateStep, AlwaysInv, PTL DEF Spec, OneLateSession
=============================================================================
