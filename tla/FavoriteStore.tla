--------------------------- MODULE FavoriteStore ---------------------------
(***************************************************************************)
(* MeasureStorage: the nodes that did well (favorite) or failed (avoided)  *)
(* in bandwidth measurements, in memory and in two JSON files.  The jobs   *)
(* of one measurement run concurrently and add their results; each method  *)
(* of Storage locks on its own, so AddFavoriteNode is a sequence of steps. *)
(* A measurement is the only one in the process (measureStorageMutex) and  *)
(* starts with Load.                                                       *)
(***************************************************************************)
EXTENDS Naturals, FiniteSets

CONSTANTS
    Workers,       \* goroutines that a pool may have
    Main,          \* the goroutine that calls Load
    IPs,           \* keys: addresses of the measured nodes
    Speeds,        \* MinBandwidth values
    MaxFavorite,   \* maxFavoriteLength
    Life,          \* favoriteExpired and avoidExpired
    Horizon,       \* the math.MaxInt32 an expiry is compared with
    None,          \* no entry, no process
    Torn,          \* content of a file that was truncated and not, or partly, written
    MaxClock,      \* bound: time
    MaxRounds      \* bound: measurements

ASSUME StoreAssumption ==
    /\ Main \notin Workers /\ None \notin Workers \cup {Main}
    /\ Speeds \subseteq Nat \ {0} /\ MaxFavorite \in Nat \ {0}
    /\ Life \in Nat /\ Horizon \in Nat /\ MaxClock \in Nat /\ MaxRounds \in Nat

Procs == Workers \cup {Main}
Entry == [speed : Speeds, expires : Nat]

VARIABLES
    clock, rounds,
    favorites,     \* FavoriteNodes: entry or None by IP
    avoided,       \* AvoidNodes: expiry or None by IP
    file,          \* the favorite file: entries by IP, or Torn
    avoidFile,     \* the avoid file
    pool,          \* the goroutines of the pool, as MeasureWorkerPoolSize says
    jobs,          \* nodes of this measurement not yet taken by a worker
    pc,            \* what each process does next
    item,          \* the result each worker is adding
    victim,        \* deleteKey
    writer,        \* holder of favoriteNodeFileMutex
    snapshot,      \* the data it is writing
    avoidWriter,   \* holder of avoidNodeMutex.RLock and avoidNodeFileMutex
    result,        \* history: "error" if the last save of the favorites since Load failed
    avoidResult    \* history: the same of the avoided nodes

onFavorites == <<file, writer, snapshot, result>>
onAvoided == <<avoidFile, avoidWriter, avoidResult>>
store == <<favorites, avoided, onFavorites, onAvoided>>
vars == <<clock, rounds, store, pool, jobs, pc, item, victim>>

Empty == [k \in IPs |-> None]
Size(f) == Cardinality({k \in IPs : f[k] # None})
Fresh(f) == [k \in IPs |-> IF f[k] # None /\ clock > f[k].expires THEN None ELSE f[k]]
FreshAvoided(f) == [k \in IPs |-> IF f[k] # None /\ clock > f[k] THEN None ELSE f[k]]

Init ==
    /\ clock = 0 /\ rounds = 0
    /\ favorites = Empty /\ avoided = Empty /\ file = Empty /\ avoidFile = Empty
    /\ pool \in SUBSET Workers \ {{}} /\ jobs = {} /\ pc = [p \in Procs |-> "idle"]
    /\ item = [p \in Procs |-> None] /\ victim = [p \in Procs |-> None]
    /\ writer = None /\ snapshot = Empty /\ avoidWriter = None
    /\ result = "ok" /\ avoidResult = "ok"

Goto(p, l) == pc' = [pc EXCEPT ![p] = l]
At(p, l) == pc[p] = l
Quiet == jobs = {} /\ \A p \in Procs : At(p, "idle")

---------------------------------------------------------------------------
\* Load: a file that does not parse counts as empty.  The expired are cleared, then
\* both files are written.
Content(f) == IF f = Torn THEN Empty ELSE f

Load ==
    /\ Quiet /\ rounds < MaxRounds
    /\ rounds' = rounds + 1
    /\ favorites' = Fresh(Content(file)) /\ avoided' = FreshAvoided(Content(avoidFile))
    /\ result' = "ok" /\ avoidResult' = "ok"
    /\ Goto(Main, "save")
    /\ UNCHANGED <<pool, clock, file, avoidFile, writer, snapshot, avoidWriter, jobs, item, victim>>

\* GetTopPerformanceNodesContext hands the nodes to the pool; wg.Wait ends the round.
Measure ==
    /\ At(Main, "loaded")
    /\ \E nodes \in SUBSET IPs : jobs' = nodes
    /\ Goto(Main, "wait")
    /\ UNCHANGED <<pool, clock, rounds, store, item, victim>>

Done ==
    /\ At(Main, "wait") /\ jobs = {} /\ \A w \in Workers : At(w, "idle")
    /\ Goto(Main, "idle")
    /\ UNCHANGED <<pool, clock, rounds, store, jobs, item, victim>>

\* After an error the job adds the node to the avoided ones and returns.
FailureFallsThrough == "length"                                  \* mutant
OnFailure == "avoid"

\* A worker takes a node: it answers at some speed, fails, or is cancelled.
Take(w, k) ==
    /\ w \in pool /\ At(w, "idle") /\ k \in jobs /\ jobs' = jobs \ {k}
    /\ \/ \E s \in Speeds :
            /\ item' = [item EXCEPT ![w] = [ip |-> k, speed |-> s, expires |-> clock + Life]]
            /\ Goto(w, "length")
       \/ /\ item' = [item EXCEPT ![w] = [ip |-> k, speed |-> 0, expires |-> clock + Life]]
          /\ Goto(w, OnFailure)
       \/ UNCHANGED <<item, pc>>
    /\ UNCHANGED <<pool, clock, rounds, store, victim>>

---------------------------------------------------------------------------
\* AddFavoriteNode, one critical section of Storage at a time.
FullPastMax(f) == Size(f) > MaxFavorite                              \* mutant
Full(f) == Size(f) >= MaxFavorite

CheckLength(w) ==
    /\ At(w, "length")
    /\ Goto(w, IF Full(favorites) THEN "compare" ELSE "add")
    /\ UNCHANGED <<pool, clock, rounds, store, jobs, item, victim>>

\* Faster than the slowest favorite, or nothing happens.  minBandwidth stays 0 if another
\* worker deleted the last one meanwhile, and every result is faster than that.
Compare(w) ==
    /\ At(w, "compare")
    /\ Goto(w, IF \/ \E k \in IPs : favorites[k] # None /\ item[w].speed > favorites[k].speed
                  \/ \A k \in IPs : favorites[k] = None
               THEN "choose" ELSE "idle")
    /\ UNCHANGED <<pool, clock, rounds, store, jobs, item, victim>>

\* The entry that expires first, of those that expire before the horizon.
Victims ==
    {k \in IPs : /\ favorites[k] # None /\ favorites[k].expires < Horizon
                 /\ \A o \in IPs : favorites[o] # None =>
                                     favorites[k].expires <= favorites[o].expires}
Choose(w) ==
    /\ At(w, "choose")
    /\ IF Victims = {} THEN victim' = [victim EXCEPT ![w] = None]
       ELSE \E k \in Victims : victim' = [victim EXCEPT ![w] = k]
    /\ Goto(w, "delete")
    /\ UNCHANGED <<pool, clock, rounds, store, jobs, item>>

Delete(w) ==
    /\ At(w, "delete")
    /\ favorites' = [k \in IPs |-> IF k = victim[w] THEN None ELSE favorites[k]]
    /\ victim' = [victim EXCEPT ![w] = None]
    /\ Goto(w, "add")
    /\ UNCHANGED <<pool, clock, rounds, avoided, onFavorites, onAvoided, jobs, item>>

Add(w) ==
    /\ At(w, "add")
    /\ favorites' = [favorites EXCEPT ![item[w].ip] =
                        [speed |-> item[w].speed, expires |-> item[w].expires]]
    /\ Goto(w, "save")
    /\ UNCHANGED <<pool, clock, rounds, avoided, onFavorites, onAvoided, jobs, item, victim>>

\* SaveFavoriteNodes: the data is read and the file truncated under the file lock,
\* then written.
TruncateEarlyData(p) ==                                          \* mutant
    /\ At(p, "save") /\ writer = None
    /\ writer' = p /\ file' = Torn /\ result' = "ok"
    /\ snapshot' = IF p = Main THEN favorites ELSE snapshot
    /\ Goto(p, "write")
    /\ UNCHANGED <<pool, clock, rounds, favorites, avoided, onAvoided, jobs, item, victim>>
Truncate(p) ==
    /\ At(p, "save") /\ writer = None
    /\ writer' = p /\ snapshot' = favorites /\ file' = Torn /\ result' = "ok"
    /\ Goto(p, "write")
    /\ UNCHANGED <<pool, clock, rounds, favorites, avoided, onAvoided, jobs, item, victim>>

Write(p) ==
    /\ At(p, "write")
    /\ file' = snapshot /\ writer' = None
    /\ Goto(p, IF p = Main THEN "saveAvoid" ELSE "idle")
    /\ UNCHANGED <<pool, clock, rounds, favorites, avoided, snapshot, result, onAvoided, jobs, item,
                   victim>>

\* The file cannot be created and stays as it is, or it cannot be written and stays torn.
\* A worker only logs that; Load gives up, the avoided nodes unsaved as well.
SaveFails(p) ==
    /\ (At(p, "save") /\ writer = None) \/ At(p, "write")
    /\ writer' = None /\ result' = "error"
    /\ avoidResult' = IF p = Main THEN "error" ELSE avoidResult
    /\ Goto(p, "idle")
    /\ UNCHANGED <<pool, clock, rounds, favorites, avoided, file, snapshot, avoidFile, avoidWriter,
                   jobs, item, victim>>

\* AddAvoidNode, then SaveAvoidNodes, which keeps adders out while it writes.
AddAvoidUnlocked(w) ==                                           \* mutant
    /\ At(w, "avoid")
    /\ avoided' = [avoided EXCEPT ![item[w].ip] = item[w].expires]
    /\ Goto(w, "saveAvoid")
    /\ UNCHANGED <<pool, clock, rounds, favorites, onFavorites, onAvoided, jobs, item, victim>>
AddAvoid(w) ==
    /\ At(w, "avoid") /\ avoidWriter = None
    /\ avoided' = [avoided EXCEPT ![item[w].ip] = item[w].expires]
    /\ Goto(w, "saveAvoid")
    /\ UNCHANGED <<pool, clock, rounds, favorites, onFavorites, onAvoided, jobs, item, victim>>

TruncateAvoid(p) ==
    /\ At(p, "saveAvoid") /\ avoidWriter = None
    /\ avoidWriter' = p /\ avoidFile' = Torn /\ avoidResult' = "ok"
    /\ Goto(p, "writeAvoid")
    /\ UNCHANGED <<pool, clock, rounds, favorites, avoided, onFavorites, jobs, item, victim>>

WriteAvoidKeepsLock(p) ==                                        \* mutant
    /\ At(p, "writeAvoid")
    /\ avoidFile' = avoided
    /\ Goto(p, IF p = Main THEN "loaded" ELSE "idle")
    /\ UNCHANGED <<pool, clock, rounds, favorites, avoided, onFavorites, avoidWriter, avoidResult,
                   jobs, item, victim>>
WriteAvoid(p) ==
    /\ At(p, "writeAvoid")
    /\ avoidFile' = avoided /\ avoidWriter' = None
    /\ Goto(p, IF p = Main THEN "loaded" ELSE "idle")
    /\ UNCHANGED <<pool, clock, rounds, favorites, avoided, onFavorites, avoidResult, jobs, item,
                   victim>>

SaveAvoidFails(p) ==
    /\ (At(p, "saveAvoid") /\ avoidWriter = None) \/ At(p, "writeAvoid")
    /\ avoidWriter' = None /\ avoidResult' = "error"
    /\ Goto(p, "idle")
    /\ UNCHANGED <<pool, clock, rounds, favorites, avoided, onFavorites, avoidFile, jobs, item,
                   victim>>

---------------------------------------------------------------------------
\* The process dies and starts again: only the files are left.
Crash ==
    /\ ~Quiet /\ rounds < MaxRounds
    /\ favorites' = Empty /\ avoided' = Empty
    /\ jobs' = {} /\ pc' = [p \in Procs |-> "idle"]
    /\ item' = [p \in Procs |-> None] /\ victim' = [p \in Procs |-> None]
    /\ writer' = None /\ snapshot' = Empty /\ avoidWriter' = None
    /\ result' = "ok" /\ avoidResult' = "ok"
    /\ UNCHANGED <<pool, clock, rounds, file, avoidFile>>

Tick ==
    /\ clock < MaxClock /\ clock' = clock + 1
    /\ UNCHANGED <<pool, rounds, store, jobs, pc, item, victim>>

Work(w) ==
    \/ \E k \in IPs : Take(w, k)
    \/ CheckLength(w) \/ Compare(w) \/ Choose(w) \/ Delete(w) \/ Add(w) \/ AddAvoid(w)
Save(p) ==
    \/ Truncate(p) \/ Write(p) \/ SaveFails(p)
    \/ TruncateAvoid(p) \/ WriteAvoid(p) \/ SaveAvoidFails(p)

Next ==
    \/ Load \/ Measure \/ Done
    \/ \E w \in Workers : Work(w)
    \/ \E p \in Procs : Save(p)
    \/ Crash \/ Tick

Spec == Init /\ [][Next]_vars

\* Goroutines are scheduled fairly.  Weak fairness does for a process that waits for a
\* lock: the jobs of a measurement are finite, so the lock is free for good in the end.
FairSpec ==
    /\ Spec
    /\ WF_vars(Measure) /\ WF_vars(Done)
    /\ \A w \in Workers : WF_vars(Work(w))
    /\ \A p \in Procs : WF_vars(Save(p))

---------------------------------------------------------------------------
TypeOK ==
    /\ clock \in 0..MaxClock /\ rounds \in 0..MaxRounds
    /\ favorites \in [IPs -> Entry \cup {None}] /\ avoided \in [IPs -> Nat \cup {None}]
    /\ file = Torn \/ file \in [IPs -> Entry \cup {None}]
    /\ avoidFile = Torn \/ avoidFile \in [IPs -> Nat \cup {None}]
    /\ pool \subseteq Workers /\ jobs \subseteq IPs /\ victim \in [Procs -> IPs \cup {None}]
    /\ writer \in Procs \cup {None} /\ avoidWriter \in Procs \cup {None}
    /\ result \in {"ok", "error"} /\ avoidResult \in {"ok", "error"}

\* Once a measurement is over, both files hold what is in memory: of the saves that
\* raced, the last one wrote everything, unless it failed.
FilesMatchMemory ==
    At(Main, "wait") /\ jobs = {} /\ (\A w \in Workers : At(w, "idle")) =>
        /\ result = "ok" => file = favorites
        /\ avoidResult = "ok" => avoidFile = avoided

\* With a pool of one, there are never more favorites than maxFavoriteLength, over
\* measurements, expiry, restarts and half-written files, until the clock reaches the
\* horizon.  (Two may exceed it: both see room, or both choose the same entry.)
BoundedWhenAlone == Cardinality(pool) = 1 => Size(favorites) <= MaxFavorite

\* Each list is a map with a copy on disk, open while a measurement goes on.  A save
\* counts from the moment the data is taken, under the lock of the file; the adders and
\* savers of all workers may race, a save may fail, and the process may die at any step.
Measuring == ~At(Main, "idle")
Favorites == INSTANCE SavedCopy WITH
    Keys <- IPs, open <- Measuring, mem <- favorites,
    saved <- IF writer # None THEN snapshot ELSE file
Avoided == INSTANCE SavedCopy WITH
    Keys <- IPs, open <- Measuring, mem <- avoided,
    saved <- IF avoidWriter # None THEN avoided ELSE avoidFile, result <- avoidResult
ImplementsCopies == Favorites!Spec /\ Avoided!Spec

\* A measurement that started ends, unless the process dies: nobody waits for a
\* lock, or for a result, for ever.
MeasurementEnds == At(Main, "wait") ~> At(Main, "idle")
=============================================================================
