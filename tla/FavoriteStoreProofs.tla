------------------------ MODULE FavoriteStoreProofs ------------------------
(***************************************************************************)
(* For any pool, list of nodes and number of measurements: when one is     *)
(* over, both files hold what is in memory, if the last save of each did   *)
(* not fail.  The argument: whoever changes a map still has to save it,    *)
(* and who saves last saves everything, since the data is read under the   *)
(* lock of the file.  And a pool of one worker                             *)
(* keeps the favorites within their limit: what it saw of them is still so *)
(* when it adds, and before the horizon there is always a victim.          *)
(***************************************************************************)
EXTENDS FavoriteStore, FiniteSetTheorems, TLAPS

USE DEF onFavorites, onAvoided

MainLabels == {"idle", "save", "write", "saveAvoid", "writeAvoid", "loaded", "wait"}
AddLabels == {"length", "compare", "choose", "delete", "add"}
Labels == MainLabels \cup AddLabels \cup {"avoid"}
Item == [ip : IPs, speed : Nat, expires : Nat]

ControlType ==
    /\ pc \in [Procs -> Labels] /\ pc[Main] \in MainLabels
    /\ item \in [Procs -> Item \cup {None}]
    /\ snapshot \in [IPs -> Entry \cup {None}]

\* Workers work while Main waits for them.
RoundInv == pc[Main] # "wait" => jobs = {} /\ \A w \in Workers : pc[w] = "idle"

\* Who writes a file holds its lock.
LockInv ==
    \A p \in Procs : /\ pc[p] = "write" <=> writer = p
                     /\ pc[p] = "writeAvoid" <=> avoidWriter = p

\* What a worker adds is the result of a measurement.
ItemInv ==
    \A w \in Workers : /\ pc[w] \in AddLabels => item[w] \in Item /\ item[w].speed \in Speeds
                       /\ pc[w] = "avoid" => item[w] \in Item

\* Unless somebody has yet to save the favorites, they are in the file or about to be.
FavoritesSaved ==
    pc[Main] # "idle" /\ (\A p \in Procs : pc[p] \notin {"add", "save"}) =>
        IF writer = None THEN result = "ok" => file = favorites ELSE snapshot = favorites

\* The same of the avoided nodes, to which nobody adds while they are written.
AvoidedSaved ==
    /\ pc[Main] \notin {"idle", "save", "write"}
    /\ \A p \in Procs : pc[p] # "saveAvoid"
    /\ avoidWriter = None /\ avoidResult = "ok"
    => avoidFile = avoided

ControlInv == ControlType /\ RoundInv /\ LockInv /\ ItemInv
StoreInv == TypeOK /\ ControlInv /\ FavoritesSaved /\ AvoidedSaved

LEMMA MainIsNone == Main \in Procs /\ Main \notin Workers /\ None \notin Procs
  BY StoreAssumption DEF Procs

LEMMA InitInv == Init => StoreInv
  <1>. SUFFICES ASSUME Init PROVE StoreInv
    OBVIOUS
  <1>1. Empty \in [IPs -> Entry \cup {None}] /\ Empty \in [IPs -> Nat \cup {None}]
    BY DEF Empty
  <1>2. TypeOK
    BY <1>1, StoreAssumption DEF Init, TypeOK
  <1>3. ControlInv
    BY <1>1, MainIsNone DEF Init, ControlInv, ControlType, RoundInv, LockInv, ItemInv, Labels,
       MainLabels, AddLabels, Procs
  <1>. QED
    BY <1>2, <1>3, MainIsNone DEF Init, StoreInv, FavoritesSaved, AvoidedSaved

---------------------------------------------------------------------------
(* Main. *)

LEMMA LoadInv ==
    ASSUME StoreInv, Load
    PROVE  StoreInv'
  <1>1. /\ Content(file) \in [IPs -> Entry \cup {None}]
        /\ Content(avoidFile) \in [IPs -> Nat \cup {None}]
    BY DEF StoreInv, TypeOK, Content, Empty
  <1>2. favorites' \in [IPs -> Entry \cup {None}] /\ avoided' \in [IPs -> Nat \cup {None}]
    BY <1>1 DEF Load, Fresh, FreshAvoided
  <1>3. TypeOK'
    BY <1>2, StoreAssumption DEF Load, StoreInv, TypeOK
  <1>4. pc' = [pc EXCEPT ![Main] = "save"] /\ jobs = {} /\ \A p \in Procs : pc[p] = "idle"
    BY DEF Load, Goto, Quiet, At
  <1>5. ControlInv'
    BY <1>4, MainIsNone DEF Load, StoreInv, ControlInv, ControlType, RoundInv, LockInv, ItemInv,
       Labels, MainLabels, AddLabels
  <1>6. FavoritesSaved' /\ AvoidedSaved'
    BY <1>4, MainIsNone DEF StoreInv, ControlInv, ControlType, FavoritesSaved, AvoidedSaved
  <1>. QED
    BY <1>3, <1>5, <1>6 DEF StoreInv

LEMMA MainInv ==
    ASSUME StoreInv, Measure \/ Done
    PROVE  StoreInv'
  <1>1. UNCHANGED <<clock, rounds, store, item, victim, pool>>
    BY DEF Measure, Done
  <1>2. TypeOK'
    BY <1>1 DEF Measure, Done, StoreInv, TypeOK, store
  <1>3. ControlInv'
    BY <1>1, MainIsNone DEF Measure, Done, At, Goto, StoreInv, ControlInv, ControlType, RoundInv,
       LockInv, ItemInv, Labels, MainLabels, AddLabels, Procs, store
  <1>4. FavoritesSaved' /\ AvoidedSaved'
    BY <1>1, MainIsNone DEF Measure, Done, At, Goto, StoreInv, ControlInv, ControlType,
       FavoritesSaved, AvoidedSaved, store
  <1>. QED
    BY <1>2, <1>3, <1>4 DEF StoreInv

---------------------------------------------------------------------------
(* A worker adds a result. *)

LEMMA WorkerLabels ==
    ASSUME NEW w \in Workers, StoreInv, pc[w] # "idle" \/ jobs # {}
    PROVE  w \in Procs /\ w # Main /\ pc[Main] = "wait"
  BY MainIsNone DEF StoreInv, ControlInv, RoundInv, Procs

LEMMA TakeInv ==
    ASSUME NEW w \in Workers, NEW k \in IPs, StoreInv, Take(w, k)
    PROVE  StoreInv'
  <1>1. w \in Procs /\ w # Main /\ pc[Main] = "wait" /\ pc[w] = "idle"
    BY WorkerLabels DEF Take, At
  <1>2. /\ UNCHANGED <<clock, rounds, store, victim, pool>> /\ jobs' \subseteq jobs
        /\ \E l \in {"idle", "length", "avoid"} : pc' = [pc EXCEPT ![w] = l]
    BY <1>1 DEF Take, Goto, OnFailure, StoreInv, ControlInv, ControlType
  <1>3. TypeOK'
    BY <1>2 DEF StoreInv, TypeOK, store
  <1>4. ItemInv' /\ item' \in [Procs -> Item \cup {None}]
    <2>1. clock + Life \in Nat
      BY StoreAssumption DEF StoreInv, TypeOK
    <2>2. ASSUME NEW s \in Speeds, Goto(w, "length"),
                 item' = [item EXCEPT ![w] = [ip |-> k, speed |-> s, expires |-> clock + Life]]
          PROVE  ItemInv' /\ item' \in [Procs -> Item \cup {None}]
      <3>1. [ip |-> k, speed |-> s, expires |-> clock + Life] \in Item
        BY <2>1, StoreAssumption DEF Item
      <3>. QED
        BY <1>1, <2>2, <3>1 DEF StoreInv, ControlInv, ControlType, ItemInv, Goto, AddLabels, Procs
    <2>3. ASSUME Goto(w, OnFailure),
                 item' = [item EXCEPT ![w] = [ip |-> k, speed |-> 0, expires |-> clock + Life]]
          PROVE  ItemInv' /\ item' \in [Procs -> Item \cup {None}]
      <3>1. [ip |-> k, speed |-> 0, expires |-> clock + Life] \in Item
        BY <2>1 DEF Item
      <3>. QED
        BY <1>1, <2>3, <3>1
           DEF StoreInv, ControlInv, ControlType, ItemInv, Goto, OnFailure, AddLabels, Procs
    <2>4. ASSUME UNCHANGED <<item, pc>>
          PROVE  ItemInv' /\ item' \in [Procs -> Item \cup {None}]
      BY <2>4 DEF StoreInv, ControlInv, ControlType, ItemInv
    <2>. QED
      BY <2>2, <2>3, <2>4 DEF Take
  <1>5. ControlInv'
    BY <1>1, <1>2, <1>4, MainIsNone DEF StoreInv, ControlInv, ControlType, RoundInv, LockInv,
       Labels, MainLabels, AddLabels, store
  <1>6. FavoritesSaved' /\ AvoidedSaved'
    BY <1>1, <1>2 DEF StoreInv, ControlInv, ControlType, FavoritesSaved, AvoidedSaved, store
  <1>. QED
    BY <1>3, <1>5, <1>6 DEF StoreInv

\* Up to the deletion nothing changes but the worker's label.
LEMMA ChooseInv ==
    ASSUME NEW w \in Workers, StoreInv, CheckLength(w) \/ Compare(w) \/ Choose(w)
    PROVE  StoreInv'
  <1>1. w \in Procs /\ w # Main /\ pc[Main] = "wait" /\ pc[w] \in AddLabels \ {"add"}
    BY WorkerLabels DEF CheckLength, Compare, Choose, At, AddLabels
  <1>2. /\ UNCHANGED <<clock, rounds, store, jobs, item, pool>>
        /\ \E l \in AddLabels \cup {"idle"} : pc' = [pc EXCEPT ![w] = l]
    BY DEF CheckLength, Compare, Choose, Goto, AddLabels
  <1>3. victim' \in [Procs -> IPs \cup {None}]
    BY <1>1 DEF CheckLength, Compare, Choose, Victims, StoreInv, TypeOK
  <1>4. TypeOK'
    BY <1>2, <1>3 DEF StoreInv, TypeOK, store
  <1>5. ControlInv'
    BY <1>1, <1>2, MainIsNone DEF StoreInv, ControlInv, ControlType, RoundInv, LockInv, ItemInv,
       Labels, MainLabels, AddLabels, store
  <1>6. FavoritesSaved' /\ AvoidedSaved'
    BY <1>1, <1>2 DEF StoreInv, ControlInv, ControlType, FavoritesSaved, AvoidedSaved, store,
       AddLabels
  <1>. QED
    BY <1>4, <1>5, <1>6 DEF StoreInv

\* Who changes the favorites goes on to save them.
LEMMA ChangeInv ==
    ASSUME NEW w \in Workers, StoreInv, Delete(w) \/ Add(w)
    PROVE  StoreInv'
  <1>1. w \in Procs /\ w # Main /\ pc[Main] = "wait" /\ pc[w] \in {"delete", "add"}
    BY WorkerLabels DEF Delete, Add, At
  <1>2. /\ UNCHANGED <<clock, rounds, avoided, onFavorites, onAvoided, jobs, item, pool>>
        /\ \E l \in {"add", "save"} : pc' = [pc EXCEPT ![w] = l] /\ (l = "add" => Delete(w))
    BY DEF Delete, Add, Goto
  <1>3. item[w] \in Item /\ item[w].speed \in Speeds
    BY <1>1 DEF StoreInv, ControlInv, ItemInv, AddLabels
  <1>4. favorites' \in [IPs -> Entry \cup {None}]
    <2>1. [speed |-> item[w].speed, expires |-> item[w].expires] \in Entry
      BY <1>3 DEF Item, Entry
    <2>. QED
      BY <2>1 DEF Delete, Add, StoreInv, TypeOK
  <1>5. victim' \in [Procs -> IPs \cup {None}]
    BY DEF Delete, Add, StoreInv, TypeOK
  <1>6. TypeOK'
    BY <1>2, <1>4, <1>5 DEF StoreInv, TypeOK
  <1>7. ControlInv'
    BY <1>1, <1>2, <1>3, MainIsNone DEF StoreInv, ControlInv, ControlType, RoundInv, LockInv,
       ItemInv, Labels, MainLabels, AddLabels
  <1>8. FavoritesSaved' /\ AvoidedSaved'
    BY <1>1, <1>2 DEF StoreInv, ControlInv, ControlType, FavoritesSaved, AvoidedSaved
  <1>. QED
    BY <1>6, <1>7, <1>8 DEF StoreInv

LEMMA AddAvoidInv ==
    ASSUME NEW w \in Workers, StoreInv, AddAvoid(w)
    PROVE  StoreInv'
  <1>1. w \in Procs /\ w # Main /\ pc[Main] = "wait" /\ pc[w] = "avoid"
    BY WorkerLabels DEF AddAvoid, At
  <1>2. avoided' \in [IPs -> Nat \cup {None}]
    BY <1>1 DEF AddAvoid, StoreInv, TypeOK, ControlInv, ItemInv, Item
  <1>3. TypeOK'
    BY <1>2 DEF AddAvoid, StoreInv, TypeOK
  <1>4. pc' = [pc EXCEPT ![w] = "saveAvoid"]
    BY DEF AddAvoid, Goto
  <1>5. ControlInv'
    BY <1>1, <1>4, MainIsNone DEF AddAvoid, StoreInv, ControlInv, ControlType, RoundInv, LockInv,
       ItemInv, Labels, MainLabels, AddLabels
  <1>6. FavoritesSaved' /\ AvoidedSaved'
    BY <1>1, <1>4 DEF AddAvoid, StoreInv, ControlInv, ControlType, FavoritesSaved, AvoidedSaved
  <1>. QED
    BY <1>3, <1>5, <1>6 DEF StoreInv

---------------------------------------------------------------------------
(* Saving. *)

\* The favorites are read when nobody else writes; the last to read them read all.
LEMMA SaveFavoritesInv ==
    ASSUME NEW p \in Procs, StoreInv, Truncate(p) \/ Write(p) \/ SaveFails(p)
    PROVE  StoreInv'
  <1>1. pc[p] \in {"save", "write"} /\ (p # Main => pc[Main] = "wait")
    BY MainIsNone DEF Truncate, Write, SaveFails, At, StoreInv, ControlInv, RoundInv, Procs
  <1>2. /\ UNCHANGED <<clock, rounds, favorites, avoided, avoidFile, avoidWriter, jobs, item,
                       victim, pool>>
        /\ avoidResult' \in {avoidResult, "error"}
        /\ \E l \in {"write", "saveAvoid", "idle"} :
             /\ pc' = [pc EXCEPT ![p] = l]
             /\ l = "write" => pc[p] = "save"
             /\ l = "saveAvoid" => pc[p] = "write" /\ p = Main
             /\ l = "idle" /\ p = Main => avoidResult' = "error"
    BY DEF Truncate, Write, SaveFails, Goto, At
  <1>3. result' \in {"ok", "error"} /\ snapshot' \in [IPs -> Entry \cup {None}] /\ writer' \in Procs \cup {None}
        /\ (file' = Torn \/ file' \in [IPs -> Entry \cup {None}])
    BY DEF Truncate, Write, SaveFails, StoreInv, TypeOK, ControlInv, ControlType
  <1>4. TypeOK'
    BY <1>2, <1>3 DEF StoreInv, TypeOK
  <1>5. LockInv'
    BY <1>1, MainIsNone DEF Truncate, Write, SaveFails, Goto, At, StoreInv, ControlInv, ControlType, LockInv
  <1>6. ControlInv'
    BY <1>1, <1>2, <1>3, <1>5, MainIsNone DEF StoreInv, ControlInv, ControlType, RoundInv, ItemInv,
       Labels, MainLabels, AddLabels, Procs
  <1>7. FavoritesSaved'
    BY <1>1, MainIsNone DEF Truncate, Write, SaveFails, Goto, At, StoreInv, ControlInv, ControlType, LockInv,
       FavoritesSaved
  <1>8. AvoidedSaved'
    BY <1>1, <1>2 DEF StoreInv, ControlInv, ControlType, AvoidedSaved
  <1>. QED
    BY <1>4, <1>6, <1>7, <1>8 DEF StoreInv

LEMMA SaveAvoidedInv ==
    ASSUME NEW p \in Procs, StoreInv, TruncateAvoid(p) \/ WriteAvoid(p) \/ SaveAvoidFails(p)
    PROVE  StoreInv'
  <1>1. pc[p] \in {"saveAvoid", "writeAvoid"} /\ (p # Main => pc[Main] = "wait")
    BY MainIsNone DEF TruncateAvoid, WriteAvoid, SaveAvoidFails, At, StoreInv, ControlInv, RoundInv, Procs
  <1>2. /\ UNCHANGED <<clock, rounds, favorites, avoided, file, writer, snapshot, result, jobs,
                       item, victim, pool>>
        /\ \E l \in {"writeAvoid", "loaded", "idle"} :
             /\ pc' = [pc EXCEPT ![p] = l]
             /\ l = "loaded" => pc[p] = "writeAvoid" /\ p = Main
             /\ l = "writeAvoid" => pc[p] = "saveAvoid"
    BY DEF TruncateAvoid, WriteAvoid, SaveAvoidFails, Goto, At
  <1>3. avoidResult' \in {"ok", "error"} /\ avoidWriter' \in Procs \cup {None}
        /\ (avoidFile' = Torn \/ avoidFile' \in [IPs -> Nat \cup {None}])
    BY DEF TruncateAvoid, WriteAvoid, SaveAvoidFails, StoreInv, TypeOK
  <1>4. TypeOK'
    BY <1>2, <1>3 DEF StoreInv, TypeOK
  <1>5. LockInv'
    BY <1>1, MainIsNone DEF TruncateAvoid, WriteAvoid, SaveAvoidFails, Goto, At, StoreInv, ControlInv, ControlType,
       LockInv
  <1>6. ControlInv'
    BY <1>1, <1>2, <1>3, <1>5, MainIsNone DEF StoreInv, ControlInv, ControlType, RoundInv, ItemInv,
       Labels, MainLabels, AddLabels, Procs
  <1>7. FavoritesSaved'
    BY <1>1, <1>2, MainIsNone DEF StoreInv, ControlInv, ControlType, FavoritesSaved
  <1>8. AvoidedSaved'
    BY <1>1, MainIsNone DEF TruncateAvoid, WriteAvoid, SaveAvoidFails, StoreInv, ControlInv, ControlType,
       AvoidedSaved
  <1>. QED
    BY <1>4, <1>6, <1>7, <1>8 DEF StoreInv

---------------------------------------------------------------------------
LEMMA CrashInv ==
    ASSUME StoreInv, Crash
    PROVE  StoreInv'
  <1>1. Empty \in [IPs -> Entry \cup {None}] /\ Empty \in [IPs -> Nat \cup {None}]
    BY DEF Empty
  <1>2. TypeOK'
    BY <1>1 DEF Crash, StoreInv, TypeOK
  <1>3. ControlInv'
    BY <1>1, MainIsNone DEF Crash, ControlInv, ControlType, RoundInv, LockInv, ItemInv, Labels,
       MainLabels, AddLabels, Procs
  <1>4. FavoritesSaved' /\ AvoidedSaved'
    BY MainIsNone DEF Crash, FavoritesSaved, AvoidedSaved
  <1>. QED
    BY <1>2, <1>3, <1>4 DEF StoreInv

LEMMA StepInv == StoreInv /\ [Next]_vars => StoreInv'
  <1>. SUFFICES ASSUME StoreInv, [Next]_vars PROVE StoreInv'
    OBVIOUS
  <1>1. CASE Load
    BY <1>1, LoadInv
  <1>2. CASE Measure \/ Done
    BY <1>2, MainInv
  <1>3. CASE \E w \in Workers : Work(w)
    BY <1>3, TakeInv, ChooseInv, ChangeInv, AddAvoidInv DEF Work
  <1>4. CASE \E p \in Procs : Save(p)
    BY <1>4, SaveFavoritesInv, SaveAvoidedInv DEF Save
  <1>5. CASE Crash
    BY <1>5, CrashInv
  <1>6. CASE Tick
    <2>1. TypeOK'
      BY <1>6, StoreAssumption DEF Tick, StoreInv, TypeOK, store
    <2>. QED
      BY <1>6, <2>1 DEF Tick, StoreInv, ControlInv, ControlType, RoundInv, LockInv, ItemInv,
         FavoritesSaved, AvoidedSaved, store
  <1>7. CASE UNCHANGED vars
    BY <1>7 DEF vars, store, StoreInv, TypeOK, ControlInv, ControlType, RoundInv, LockInv, ItemInv,
       FavoritesSaved, AvoidedSaved
  <1>. QED
    BY <1>1, <1>2, <1>3, <1>4, <1>5, <1>6, <1>7 DEF Next

LEMMA AlwaysInv == Spec => []StoreInv
  BY InitInv, StepInv, PTL DEF Spec

---------------------------------------------------------------------------
\* Only results of measurements and readable files get into memory.
THEOREM TypeCorrect == Spec => []TypeOK
  <1>1. StoreInv => TypeOK
    BY DEF StoreInv
  <1>. QED
    BY <1>1, AlwaysInv, PTL

LEMMA MeasuredSaved == StoreInv => FilesMatchMemory
  <1>. SUFFICES ASSUME StoreInv, At(Main, "wait"), jobs = {}, \A w \in Workers : At(w, "idle")
                PROVE  /\ result = "ok" => file = favorites
                       /\ avoidResult = "ok" => avoidFile = avoided
    BY DEF FilesMatchMemory
  <1>1. \A p \in Procs : pc[p] \in {"wait", "idle"}
    BY DEF At, Procs
  <1>2. writer = None /\ avoidWriter = None
    BY <1>1 DEF StoreInv, TypeOK, ControlInv, LockInv
  <1>. QED
    BY <1>1, <1>2 DEF StoreInv, FavoritesSaved, AvoidedSaved, At

\* After a measurement both files hold what memory holds, unless the last save failed.
THEOREM FilesMatchMemoryHolds == Spec => []FilesMatchMemory
  BY MeasuredSaved, AlwaysInv, PTL

---------------------------------------------------------------------------
(* Each list and its file are a map with a saved copy.  Truncating a file,  *)
(* with the data taken, is a Save; the end of writing changes nothing; Done *)
(* is a Close.                                                              *)

CopyInv ==
    /\ writer # None => file = Torn
    /\ avoidWriter # None => avoidFile = Torn

SavedFavorites == IF writer # None THEN snapshot ELSE file
SavedAvoided == IF avoidWriter # None THEN avoided ELSE avoidFile

LEMMA InitCopies == Init => CopyInv /\ Favorites!Init /\ Avoided!Init
  BY MainIsNone
     DEF Init, CopyInv, Favorites!Init, Favorites!Nothing, Avoided!Init, Avoided!Nothing, Empty,
         Measuring, At

\* Whoever holds a lock is not idle.
LEMMA QuietUnlocked ==
    ASSUME StoreInv, Quiet
    PROVE  writer = None /\ avoidWriter = None
  BY DEF StoreInv, TypeOK, ControlInv, LockInv, Quiet, At

LEMMA LoadCopies ==
    ASSUME StoreInv, CopyInv, Load
    PROVE  CopyInv' /\ Favorites!Load /\ Avoided!Load
  <1>1. /\ writer = None /\ avoidWriter = None /\ pc[Main] = "idle"
        /\ UNCHANGED <<file, avoidFile, writer, snapshot, avoidWriter>>
        /\ result' = "ok" /\ avoidResult' = "ok"
    BY QuietUnlocked, MainIsNone DEF Load, Quiet, At
  <1>2. ~Measuring /\ Measuring'
    BY <1>1, MainIsNone DEF Load, Goto, StoreInv, ControlInv, ControlType, Measuring, At
  <1>3. CopyInv'
    BY <1>1 DEF CopyInv
  <1>4. Favorites!Load
    <2>. DEFINE expired == {k \in IPs : Fresh(Content(file))[k] = None}
    <2>1. favorites' = [k \in IPs |-> IF k \in expired THEN None ELSE Content(file)[k]]
      BY DEF Load, Fresh
    <2>2. Content(file) = IF file = Torn THEN Favorites!Nothing ELSE file
      BY DEF Content, Empty, Favorites!Nothing
    <2>3. expired \in SUBSET IPs
      OBVIOUS
    <2>. HIDE DEF expired
    <2>. QED
      BY <1>1, <1>2, <2>1, <2>2, <2>3 DEF Favorites!Load
  <1>5. Avoided!Load
    <2>. DEFINE expired == {k \in IPs : FreshAvoided(Content(avoidFile))[k] = None}
    <2>1. avoided' = [k \in IPs |-> IF k \in expired THEN None ELSE Content(avoidFile)[k]]
      BY DEF Load, FreshAvoided
    <2>2. Content(avoidFile) = IF avoidFile = Torn THEN Avoided!Nothing ELSE avoidFile
      BY DEF Content, Empty, Avoided!Nothing
    <2>3. expired \in SUBSET IPs
      OBVIOUS
    <2>. HIDE DEF expired
    <2>. QED
      BY <1>1, <1>2, <2>1, <2>2, <2>3 DEF Avoided!Load
  <1>. QED
    BY <1>3, <1>4, <1>5

LEMMA DoneCopies ==
    ASSUME StoreInv, CopyInv, Done
    PROVE  CopyInv' /\ Favorites!Close /\ Avoided!Close
  <1>1. UNCHANGED store
    BY DEF Done
  <1>2. Measuring /\ ~Measuring'
    BY MainIsNone DEF Done, Goto, StoreInv, ControlInv, ControlType, Measuring, At
  <1>3. /\ file = favorites \/ result = "error"
        /\ avoidFile = avoided \/ avoidResult = "error"
    BY MeasuredSaved DEF Done, FilesMatchMemory, StoreInv, TypeOK
  <1>4. writer = None /\ avoidWriter = None
    BY DEF Done, At, StoreInv, TypeOK, ControlInv, LockInv, Procs
  <1>. QED
    BY <1>1, <1>2, <1>3, <1>4 DEF store, CopyInv, Favorites!Close, Avoided!Close

\* A worker changes one entry at most.
LEMMA WorkCopies ==
    ASSUME StoreInv, CopyInv, NEW w \in Workers, Work(w)
    PROVE  /\ CopyInv'
           /\ Favorites!Change \/ UNCHANGED <<Measuring, favorites, SavedFavorites, result>>
           /\ Avoided!Change \/ UNCHANGED <<Measuring, avoided, SavedAvoided, avoidResult>>
  <1>1. pc[Main] = "wait" /\ w \in Procs /\ w # Main
    BY WorkerLabels DEF Work, Take, CheckLength, Compare, Choose, Delete, Add, AddAvoid, At
  <1>2. UNCHANGED <<onFavorites, onAvoided>>
    BY DEF Work, Take, CheckLength, Compare, Choose, Delete, Add, AddAvoid, store
  <1>3. Measuring /\ UNCHANGED Measuring
    BY <1>1, MainIsNone
       DEF Work, Take, CheckLength, Compare, Choose, Delete, Add, AddAvoid, Goto, StoreInv,
           ControlInv, ControlType, Measuring, At
  <1>4. CopyInv'
    BY <1>2 DEF CopyInv
  <1>5. favorites \in [IPs -> Entry \cup {None}] /\ avoided \in [IPs -> Nat \cup {None}]
    BY DEF StoreInv, TypeOK
  <1>6. CASE UNCHANGED <<favorites, avoided>>
    BY <1>2, <1>3, <1>4, <1>6 DEF SavedFavorites, SavedAvoided
  <1>7. CASE Delete(w)
    <2>1. /\ favorites' = [k \in IPs |-> IF k = victim[w] THEN None ELSE favorites[k]]
          /\ UNCHANGED avoided
      BY <1>7 DEF Delete
    <2>2. CASE victim[w] \in IPs
      <3>1. favorites' = [favorites EXCEPT ![victim[w]] = favorites'[victim[w]]]
        BY <1>5, <2>1, <2>2
      <3>2. Favorites!Change
        BY <1>2, <1>3, <2>2, <3>1 DEF Favorites!Change
      <3>. QED
        BY <1>2, <1>3, <1>4, <2>1, <3>2 DEF SavedAvoided
    <2>3. CASE victim[w] \notin IPs
      <3>1. favorites' = favorites
        BY <1>5, <2>1, <2>3
      <3>. QED
        BY <1>2, <1>3, <1>4, <2>1, <3>1 DEF SavedFavorites, SavedAvoided
    <2>. QED
      BY <2>2, <2>3
  <1>8. CASE Add(w)
    <2>1. item[w].ip \in IPs
      BY <1>8 DEF Add, At, StoreInv, ControlInv, ItemInv, AddLabels, Item
    <2>2. favorites' = [favorites EXCEPT ![item[w].ip] = favorites'[item[w].ip]]
      BY <1>5, <1>8, <2>1 DEF Add
    <2>3. Favorites!Change
      BY <1>2, <1>3, <2>1, <2>2 DEF Favorites!Change
    <2>. QED
      BY <1>2, <1>3, <1>4, <1>8, <2>3 DEF Add, SavedAvoided
  <1>9. CASE AddAvoid(w)
    <2>1. item[w].ip \in IPs
      BY <1>9 DEF AddAvoid, At, StoreInv, ControlInv, ItemInv, Item
    <2>2. avoided' = [avoided EXCEPT ![item[w].ip] = avoided'[item[w].ip]]
      BY <1>5, <1>9, <2>1 DEF AddAvoid
    <2>3. Avoided!Change
      BY <1>2, <1>3, <1>9, <2>1, <2>2 DEF Avoided!Change, AddAvoid
    <2>. QED
      BY <1>2, <1>3, <1>4, <1>9, <2>3 DEF AddAvoid, SavedFavorites
  <1>. QED
    BY <1>6, <1>7, <1>8, <1>9 DEF Work, Take, CheckLength, Compare, Choose, store

\* Taking the data under the lock is the save.  A Load that fails over the avoided nodes
\* has saved the favorites.
LEMMA SaveCopies ==
    ASSUME StoreInv, CopyInv, NEW p \in Procs, Save(p)
    PROVE  /\ CopyInv'
           /\ \/ Favorites!Save \/ Favorites!Fail \/ Favorites!Close
              \/ UNCHANGED <<Measuring, favorites, SavedFavorites, result>>
           /\ \/ Avoided!Save \/ Avoided!Fail
              \/ UNCHANGED <<Measuring, avoided, SavedAvoided, avoidResult>>
  <1>1. UNCHANGED <<favorites, avoided>> /\ p # None /\ Measuring /\ Measuring' \in BOOLEAN
    BY MainIsNone
       DEF Save, Truncate, Write, SaveFails, TruncateAvoid, WriteAvoid, SaveAvoidFails, At,
           StoreInv, ControlInv, RoundInv, Procs, Measuring
  <1>2. ASSUME Truncate(p) \/ Write(p) \/ TruncateAvoid(p) \/ WriteAvoid(p)
        PROVE  UNCHANGED Measuring
    BY <1>2, MainIsNone
       DEF Truncate, Write, TruncateAvoid, WriteAvoid, At, Goto, StoreInv, ControlInv,
           ControlType, RoundInv, Procs, Measuring
  <1>3. CASE Truncate(p)
    BY <1>1, <1>2, <1>3
       DEF Truncate, CopyInv, Favorites!Save, SavedFavorites, SavedAvoided
  <1>4. CASE Write(p)
    <2>1. writer = p
      BY <1>4 DEF Write, At, StoreInv, ControlInv, LockInv
    <2>. QED
      BY <1>1, <1>2, <1>4, <2>1 DEF Write, CopyInv, SavedFavorites, SavedAvoided
  <1>5. CASE SaveFails(p)
    <2>1. SavedFavorites' \in {SavedFavorites, Torn}
      BY <1>5 DEF SaveFails, At, StoreInv, ControlInv, LockInv, CopyInv, SavedFavorites
    <2>2. Favorites!Fail
      BY <1>1, <1>5, <2>1 DEF SaveFails, Favorites!Fail, SavedFavorites
    <2>3. CASE p = Main
      BY <1>1, <1>5, <2>2, <2>3
         DEF SaveFails, CopyInv, Avoided!Fail, SavedAvoided
    <2>4. CASE p # Main
      <3>1. UNCHANGED Measuring
        BY <1>5, <2>4, MainIsNone
           DEF SaveFails, Goto, StoreInv, ControlInv, ControlType, Measuring, At
      <3>. QED
        BY <1>1, <1>5, <2>2, <2>4, <3>1 DEF SaveFails, CopyInv, SavedAvoided
    <2>. QED
      BY <2>3, <2>4
  <1>6. CASE TruncateAvoid(p)
    BY <1>1, <1>2, <1>6
       DEF TruncateAvoid, CopyInv, Avoided!Save, SavedFavorites, SavedAvoided
  <1>7. CASE WriteAvoid(p)
    <2>1. avoidWriter = p
      BY <1>7 DEF WriteAvoid, At, StoreInv, ControlInv, LockInv
    <2>. QED
      BY <1>1, <1>2, <1>7, <2>1 DEF WriteAvoid, CopyInv, SavedFavorites, SavedAvoided
  <1>8. CASE SaveAvoidFails(p)
    <2>1. SavedAvoided' \in {SavedAvoided, Torn}
      BY <1>8 DEF SaveAvoidFails, At, StoreInv, ControlInv, LockInv, CopyInv, SavedAvoided
    <2>2. Avoided!Fail
      BY <1>1, <1>8, <2>1 DEF SaveAvoidFails, Avoided!Fail, SavedAvoided
    <2>3. CASE p # Main
      <3>1. UNCHANGED Measuring
        BY <1>8, <2>3, MainIsNone
           DEF SaveAvoidFails, Goto, StoreInv, ControlInv, ControlType, Measuring, At
      <3>. QED
        BY <1>1, <1>8, <2>2, <3>1 DEF SaveAvoidFails, CopyInv, SavedFavorites
    <2>4. CASE p = Main
      <3>1. pc[Main] \in {"saveAvoid", "writeAvoid"} /\ \A w \in Workers : pc[w] = "idle"
        BY <1>8, <2>4 DEF SaveAvoidFails, At, StoreInv, ControlInv, RoundInv
      <3>2. writer = None /\ \A q \in Procs : pc[q] \notin {"add", "save", "write"}
        BY <3>1 DEF StoreInv, TypeOK, ControlInv, LockInv, Procs
      <3>3. file = favorites \/ result = "error"
        BY <3>1, <3>2 DEF StoreInv, TypeOK, FavoritesSaved
      <3>4. ~Measuring'
        BY <1>8, <2>4, MainIsNone
           DEF SaveAvoidFails, Goto, StoreInv, ControlInv, ControlType, Measuring, At
      <3>5. Favorites!Close
        BY <1>1, <1>8, <3>2, <3>3, <3>4 DEF SaveAvoidFails, Favorites!Close, SavedFavorites
      <3>. QED
        BY <1>8, <2>2, <3>5 DEF SaveAvoidFails, CopyInv
    <2>. QED
      BY <2>3, <2>4
  <1>. QED
    BY <1>3, <1>4, <1>5, <1>6, <1>7, <1>8 DEF Save

\* A crash leaves the copy, or a torn file.
LEMMA CrashCopies ==
    ASSUME StoreInv, CopyInv, Crash
    PROVE  CopyInv' /\ Favorites!Crash /\ Avoided!Crash
  <1>1. Measuring /\ ~Measuring'
    BY MainIsNone
       DEF Crash, Quiet, StoreInv, ControlInv, RoundInv, Measuring, At, Procs
  <1>. QED
    BY <1>1 DEF Crash, CopyInv, Favorites!Crash, Favorites!Nothing, Avoided!Crash,
       Avoided!Nothing, Empty

\* Both lists are maps with saved copies, for any pool and any number of measurements:
\* no file ever mixes two states, and only a crash or a save that fails loses a result.
THEOREM ImplementsCopiesHolds == Spec => ImplementsCopies
  <1>1. Init => CopyInv /\ Favorites!Init /\ Avoided!Init
    BY InitCopies
  <1>2. StoreInv /\ CopyInv /\ [Next]_vars
          => /\ CopyInv'
             /\ [Favorites!Next]_<<Measuring, favorites, SavedFavorites, result>>
             /\ [Avoided!Next]_<<Measuring, avoided, SavedAvoided, avoidResult>>
    <2>. SUFFICES ASSUME StoreInv, CopyInv, [Next]_vars
                  PROVE  /\ CopyInv'
                         /\ [Favorites!Next]_<<Measuring, favorites, SavedFavorites, result>>
                         /\ [Avoided!Next]_<<Measuring, avoided, SavedAvoided, avoidResult>>
      OBVIOUS
    <2>1. CASE Load
      BY <2>1, LoadCopies DEF Favorites!Next, Avoided!Next
    <2>2. CASE Measure
      BY <2>2, MainIsNone
         DEF Measure, Goto, StoreInv, ControlInv, ControlType, Measuring, At, store, CopyInv,
             SavedFavorites, SavedAvoided
    <2>3. CASE Done
      BY <2>3, DoneCopies DEF Favorites!Next, Avoided!Next
    <2>4. CASE \E w \in Workers : Work(w)
      BY <2>4, WorkCopies DEF Favorites!Next, Avoided!Next
    <2>5. CASE \E p \in Procs : Save(p)
      BY <2>5, SaveCopies DEF Favorites!Next, Avoided!Next
    <2>6. CASE Crash
      BY <2>6, CrashCopies DEF Favorites!Next, Avoided!Next
    <2>7. CASE Tick \/ UNCHANGED vars
      BY <2>7 DEF Tick, vars, store, CopyInv, Measuring, At, SavedFavorites, SavedAvoided
    <2>. QED
      BY <2>1, <2>2, <2>3, <2>4, <2>5, <2>6, <2>7 DEF Next
  <1>. QED
    BY <1>1, <1>2, AlwaysInv, PTL
       DEF Spec, ImplementsCopies, Favorites!Spec, Avoided!Spec, SavedFavorites, SavedAvoided

---------------------------------------------------------------------------
(* How many favorites there are, when a pool has one worker. *)

Occupied(f) == {k \in IPs : f[k] # None}
Contents == [IPs -> Entry \cup {None}]
Finite == IsFiniteSet(IPs) /\ IsFiniteSet(Workers)

LEMMA SizeType ==
    ASSUME Finite, NEW f
    PROVE  IsFiniteSet(Occupied(f)) /\ Size(f) = Cardinality(Occupied(f)) /\ Size(f) \in Nat
  <1>1. IsFiniteSet(Occupied(f))
    <2>1. Occupied(f) \in SUBSET IPs
      BY DEF Occupied
    <2>. QED
      BY <2>1, FS_Subset DEF Finite
  <1>2. Size(f) = Cardinality(Occupied(f))
    BY DEF Size, Occupied
  <1>. QED
    BY <1>1, <1>2, FS_CardinalityType

LEMMA SizeEmpty ==
    ASSUME Finite
    PROVE  Size(Empty) = 0
  <1>1. Occupied(Empty) = {}
    BY DEF Occupied, Empty
  <1>. QED
    BY <1>1, SizeType, FS_EmptySet

LEMMA SizeFewer ==
    ASSUME Finite, NEW f, NEW g, \A k \in IPs : g[k] # None => f[k] # None
    PROVE  Size(g) <= Size(f)
  <1>1. Occupied(g) \in SUBSET Occupied(f)
    BY DEF Occupied
  <1>. QED
    BY <1>1, SizeType, FS_Subset

LEMMA SizeRemoved ==
    ASSUME Finite, NEW f, NEW v \in IPs, f[v] # None
    PROVE  Size([k \in IPs |-> IF k = v THEN None ELSE f[k]]) = Size(f) - 1
  <1>. DEFINE g == [k \in IPs |-> IF k = v THEN None ELSE f[k]]
  <1>1. Occupied(g) = Occupied(f) \ {v}
    BY DEF Occupied
  <1>2. v \in Occupied(f)
    BY DEF Occupied
  <1>3. IsFiniteSet(Occupied(f)) /\ Size(f) = Cardinality(Occupied(f))
    BY SizeType
  <1>4. Cardinality(Occupied(f) \ {v}) = Cardinality(Occupied(f)) - 1
    BY <1>2, <1>3, FS_RemoveElement
  <1>5. Size(g) = Cardinality(Occupied(g))
    BY SizeType
  <1>. QED
    BY <1>1, <1>3, <1>4, <1>5

LEMMA SizeAdded ==
    ASSUME Finite, NEW f \in Contents, NEW v \in IPs, NEW e
    PROVE  Size([f EXCEPT ![v] = e]) <= Size(f) + 1
  <1>. DEFINE g == [f EXCEPT ![v] = e]
  <1>1. IsFiniteSet(Occupied(f)) /\ Size(f) = Cardinality(Occupied(f)) /\ Size(f) \in Nat
    BY SizeType
  <1>2. IsFiniteSet(Occupied(f) \cup {v}) /\ Cardinality(Occupied(f) \cup {v}) <= Size(f) + 1
    <2>1. /\ IsFiniteSet(Occupied(f) \cup {v})
          /\ Cardinality(Occupied(f) \cup {v})
               = IF v \in Occupied(f) THEN Cardinality(Occupied(f))
                 ELSE Cardinality(Occupied(f)) + 1
      BY <1>1, FS_AddElement
    <2>2. Cardinality(Occupied(f) \cup {v}) = IF v \in Occupied(f) THEN Size(f) ELSE Size(f) + 1
      BY <1>1, <2>1
    <2>. QED
      BY <1>1, <2>1, <2>2
  <1>3. Occupied(g) \in SUBSET (Occupied(f) \cup {v})
    BY DEF Occupied, Contents
  <1>4. Cardinality(Occupied(g)) <= Cardinality(Occupied(f) \cup {v})
    BY <1>2, <1>3, FS_Subset
  <1>5. Size(g) = Cardinality(Occupied(g)) /\ Size(g) \in Nat
    BY SizeType
  <1>6. Cardinality(Occupied(f) \cup {v}) \in Nat
    BY <1>2, FS_CardinalityType
  <1>. QED
    BY <1>1, <1>2, <1>4, <1>5, <1>6

\* Of a nonempty set of times, one is the earliest.
LEMMA Earliest ==
    ASSUME NEW T \in SUBSET Nat, T # {}
    PROVE  \E x \in T : \A y \in T : x <= y
  <1>. DEFINE R == {p \in Nat \X Nat : p[1] < p[2]}
  <1>1. IsWellFoundedOn(R, Nat)
    BY NatLessThanWellFounded, Zenon DEF OpToRel
  <1>. HIDE DEF R
  <1>2. PICK x \in T : \A y \in T : <<y, x>> \notin R
    BY <1>1, WFMin
  <1>3. \A y \in T : ~(y < x)
    BY <1>2 DEF R
  <1>. QED
    BY <1>3

---------------------------------------------------------------------------
\* No entry expires after the last possible time.
Timely(f) == \A k \in IPs : f[k] # None => f[k].expires <= MaxClock + Life

ExpiryInv ==
    /\ Timely(favorites) /\ Timely(snapshot) /\ (file = Torn \/ Timely(file))
    /\ \A w \in Workers : pc[w] \in AddLabels => item[w].expires <= MaxClock + Life

\* The only worker adds when there is room, or after it made room.
RoomInv(w) ==
    /\ Size(favorites) <= MaxFavorite /\ Size(snapshot) <= MaxFavorite
    /\ file = Torn \/ Size(file) <= MaxFavorite
    /\ \A v \in Workers : v # w => pc[v] = "idle"
    /\ pc[w] \in {"compare", "choose"} => \E k \in IPs : favorites[k] # None
    /\ pc[w] = "delete" => victim[w] \in IPs /\ favorites[victim[w]] # None
    /\ pc[w] = "add" => Size(favorites) < MaxFavorite

AloneInv == StoreInv /\ ExpiryInv /\ \A w \in Workers : pool = {w} => RoomInv(w)

LEMMA StoreTypes ==
    ASSUME StoreInv
    PROVE  favorites \in Contents /\ snapshot \in Contents /\ (file = Torn \/ file \in Contents)
  BY DEF StoreInv, TypeOK, ControlInv, ControlType, Contents

\* Before the horizon there is always a victim among the favorites.
LEMMA VictimExists ==
    ASSUME StoreInv, ExpiryInv, MaxClock + Life < Horizon, \E k \in IPs : favorites[k] # None
    PROVE  Victims # {}
  <1>. DEFINE T == {favorites[k].expires : k \in Occupied(favorites)}
  <1>1. \A k \in Occupied(favorites) : favorites[k] \in Entry /\ favorites[k].expires \in Nat
    BY StoreTypes DEF Occupied, Contents, Entry
  <1>2. T \in SUBSET Nat /\ T # {}
    BY <1>1 DEF Occupied
  <1>3. PICK x \in T : \A y \in T : x <= y
    BY <1>2, Earliest
  <1>4. PICK k \in Occupied(favorites) : favorites[k].expires = x
    BY <1>3
  <1>5. \A o \in IPs : favorites[o] # None => favorites[k].expires <= favorites[o].expires
    BY <1>3, <1>4 DEF Occupied
  <1>6. k \in IPs /\ favorites[k] # None /\ favorites[k].expires <= MaxClock + Life
    BY DEF Occupied, ExpiryInv, Timely
  <1>7. favorites[k].expires < Horizon
    BY <1>1, <1>6, StoreAssumption
  <1>. QED
    BY <1>5, <1>6, <1>7 DEF Victims

LEMMA InitAlone ==
    ASSUME Finite, Init
    PROVE  AloneInv
  <1>1. StoreInv
    BY InitInv
  <1>2. ExpiryInv
    BY DEF Init, ExpiryInv, Timely, Empty, AddLabels, Procs
  <1>3. ASSUME NEW w \in Workers, pool = {w} PROVE RoomInv(w)
    BY SizeEmpty, StoreAssumption DEF Init, RoomInv, Procs
  <1>. QED
    BY <1>1, <1>2, <1>3 DEF AloneInv

LEMMA ExpiryStep ==
    ASSUME StoreInv, ExpiryInv, [Next]_vars
    PROVE  ExpiryInv'
  <1>. USE StoreAssumption
  <1>0. /\ pc \in [Procs -> Labels] /\ item \in [Procs -> Item \cup {None}]
        /\ clock \in Nat /\ clock <= MaxClock /\ favorites \in Contents
    BY StoreTypes DEF StoreInv, ControlInv, ControlType, TypeOK
  <1>1. CASE Load
    <2>1. Timely(Content(file))
      BY DEF ExpiryInv, Content, Empty, Timely
    <2>2. Timely(Fresh(Content(file)))
      BY <2>1 DEF Fresh, Timely
    <2>3. \A w \in Workers : pc'[w] = pc[w]
      BY <1>0, <1>1, MainIsNone DEF Load, Goto, Procs
    <2>. QED
      BY <1>1, <2>2, <2>3 DEF Load, ExpiryInv, Timely
  <1>2. CASE Measure \/ Done
    <2>1. \A w \in Workers : pc'[w] = pc[w]
      BY <1>0, <1>2, MainIsNone DEF Measure, Done, Goto, Procs
    <2>. QED
      BY <1>2, <2>1 DEF Measure, Done, store, ExpiryInv, Timely
  <1>3. ASSUME NEW w \in Workers, NEW k \in IPs, Take(w, k) PROVE ExpiryInv'
    <2>1. w \in Procs /\ UNCHANGED store
      BY <1>3 DEF Take, Procs
    <2>2. ASSUME NEW v \in Workers, pc'[v] \in AddLabels PROVE item'[v].expires <= MaxClock + Life
      <3>1. CASE v # w
        <4>1. pc'[v] = pc[v]
          BY <1>0, <1>3, <2>1, <3>1 DEF Take, Goto, Procs
        <4>2. item'[v] = item[v]
          BY <1>0, <1>3, <2>1, <3>1 DEF Take, Procs
        <4>. QED
          BY <2>2, <4>1, <4>2 DEF ExpiryInv
      <3>2. CASE v = w
        <4>1. CASE UNCHANGED <<item, pc>>
          BY <2>2, <4>1 DEF ExpiryInv
        <4>2. ASSUME NEW s,
                     item' = [item EXCEPT ![w] = [ip |-> k, speed |-> s, expires |-> clock + Life]]
              PROVE  item'[v].expires <= MaxClock + Life
          <5>1. item'[v] = [ip |-> k, speed |-> s, expires |-> clock + Life]
            BY <1>0, <2>1, <3>2, <4>2
          <5>. QED
            BY <1>0, <5>1
        <4>. QED
          BY <1>3, <4>1, <4>2 DEF Take
      <3>. QED
        BY <3>1, <3>2
    <2>. QED
      BY <2>1, <2>2 DEF store, ExpiryInv, Timely
  <1>4. ASSUME NEW w \in Workers, CheckLength(w) \/ Compare(w) \/ Choose(w) \/ AddAvoid(w)
        PROVE  ExpiryInv'
    <2>1. pc[w] \in AddLabels \/ pc'[w] \notin AddLabels
      BY <1>0, <1>4 DEF CheckLength, Compare, Choose, AddAvoid, At, Goto, AddLabels, Procs
    <2>2. \A v \in Workers : pc'[v] \in AddLabels => pc[v] \in AddLabels
      BY <1>0, <1>4, <2>1 DEF CheckLength, Compare, Choose, AddAvoid, Goto, Procs
    <2>. QED
      BY <1>4, <2>2 DEF CheckLength, Compare, Choose, AddAvoid, store, ExpiryInv, Timely
  <1>5. ASSUME NEW w \in Workers, Delete(w) PROVE ExpiryInv'
    <2>1. \A v \in Workers : pc'[v] \in AddLabels => pc[v] \in AddLabels
      BY <1>0, <1>5 DEF Delete, At, Goto, Procs, AddLabels
    <2>2. Timely(favorites')
      BY <1>5 DEF Delete, Timely, ExpiryInv
    <2>. QED
      BY <1>5, <2>1, <2>2 DEF Delete, ExpiryInv, Timely
  <1>6. ASSUME NEW w \in Workers, Add(w) PROVE ExpiryInv'
    <2>1. \A v \in Workers : pc'[v] \in AddLabels => pc[v] \in AddLabels
      BY <1>0, <1>6 DEF Add, At, Goto, Procs, AddLabels
    <2>2. item[w].expires <= MaxClock + Life
      BY <1>6 DEF Add, At, AddLabels, ExpiryInv
    <2>3. Timely(favorites')
      <3>1. ASSUME NEW k \in IPs, favorites'[k] # None
            PROVE  favorites'[k].expires <= MaxClock + Life
        <4>1. CASE k = item[w].ip
          <5>1. favorites'[k] = [speed |-> item[w].speed, expires |-> item[w].expires]
            BY <1>0, <1>6, <4>1 DEF Add, Contents
          <5>. QED
            BY <2>2, <5>1
        <4>2. CASE k # item[w].ip
          <5>1. favorites'[k] = favorites[k]
            BY <1>0, <1>6, <4>2 DEF Add, Contents
          <5>. QED
            BY <3>1, <5>1 DEF ExpiryInv, Timely
        <4>. QED
          BY <4>1, <4>2
      <3>. QED
        BY <3>1 DEF Timely
    <2>. QED
      BY <1>6, <2>1, <2>3 DEF Add, ExpiryInv, Timely
  <1>7. ASSUME NEW p \in Procs, Save(p) PROVE ExpiryInv'
    <2>1. \A v \in Workers : pc'[v] \in AddLabels => pc[v] \in AddLabels
      BY <1>0, <1>7
         DEF Save, Truncate, Write, SaveFails, TruncateAvoid, WriteAvoid,
             SaveAvoidFails, Goto, Procs, AddLabels
    <2>. QED
      BY <1>7, <2>1 DEF Save, Truncate, Write, SaveFails, TruncateAvoid, WriteAvoid,
             SaveAvoidFails, ExpiryInv, Timely
  <1>8. CASE Crash
    BY <1>8 DEF Crash, ExpiryInv, Timely, Empty, AddLabels, Procs
  <1>9. CASE Tick \/ UNCHANGED vars
    BY <1>9 DEF Tick, vars, store, ExpiryInv, Timely
  <1>. QED
    BY <1>1, <1>2, <1>3, <1>4, <1>5, <1>6, <1>7, <1>8, <1>9 DEF Next, Work

LEMMA RoomStep ==
    ASSUME Finite, MaxClock + Life < Horizon, StoreInv, ExpiryInv, [Next]_vars,
           NEW w \in Workers, pool = {w}, RoomInv(w)
    PROVE  RoomInv(w)'
  <1>. USE StoreAssumption
  <1>0. /\ pc \in [Procs -> Labels] /\ favorites \in Contents /\ snapshot \in Contents
        /\ victim \in [Procs -> IPs \cup {None}]
        /\ Size(favorites) \in Nat /\ Size(snapshot) \in Nat /\ Size(file) \in Nat
        /\ w \in Procs
    BY StoreTypes, SizeType DEF StoreInv, ControlInv, ControlType, TypeOK, Procs
  <1>1. CASE Load
    <2>1. Size(Content(file)) <= MaxFavorite
      BY SizeEmpty DEF RoomInv, Content
    <2>2. Size(Fresh(Content(file))) <= Size(Content(file))
      <3>1. \A k \in IPs : Fresh(Content(file))[k] # None => Content(file)[k] # None
        BY DEF Fresh
      <3>. QED
        BY <3>1, SizeFewer
    <2>3. Size(Content(file)) \in Nat /\ Size(Fresh(Content(file))) \in Nat
      BY SizeType
    <2>4. Size(favorites') <= MaxFavorite
      BY <1>1, <2>1, <2>2, <2>3 DEF Load
    <2>5. \A v \in Workers : pc'[v] = "idle"
      BY <1>0, <1>1, MainIsNone DEF Load, Quiet, At, Goto, Procs
    <2>. QED
      BY <1>1, <2>4, <2>5 DEF Load, RoomInv, Size
  <1>2. CASE Measure \/ Done
    <2>1. \A v \in Workers : pc'[v] = pc[v]
      BY <1>0, <1>2, MainIsNone DEF Measure, Done, Goto, Procs
    <2>2. UNCHANGED <<favorites, snapshot, file, victim>>
      BY <1>2 DEF Measure, Done, store
    <2>. QED
      BY <2>1, <2>2 DEF RoomInv, Size
  <1>3. ASSUME NEW v \in Workers, NEW k \in IPs, Take(v, k) PROVE RoomInv(w)'
    <2>1. v = w /\ UNCHANGED <<store, victim>> /\ pc[w] = "idle"
      BY <1>3 DEF Take, At
    <2>2. pc'[w] \in {"idle", "length", "avoid"} /\ \A u \in Workers : u # w => pc'[u] = pc[u]
      BY <1>0, <1>3, <2>1 DEF Take, Goto, OnFailure, Procs
    <2>. QED
      BY <2>1, <2>2 DEF store, RoomInv, Size
  <1>4. ASSUME NEW v \in Workers, CheckLength(v) PROVE RoomInv(w)'
    <2>1. v = w /\ UNCHANGED <<store, victim>>
      BY <1>4 DEF CheckLength, At, RoomInv
    <2>2. /\ pc'[w] = IF Full(favorites) THEN "compare" ELSE "add"
          /\ \A u \in Workers : u # w => pc'[u] = pc[u]
      BY <1>0, <1>4, <2>1 DEF CheckLength, Goto, Procs
    <2>3. pc'[w] = "add" => Size(favorites) < MaxFavorite
      BY <1>0, <2>2 DEF Full
    <2>4. pc'[w] = "compare" => \E k \in IPs : favorites[k] # None
      <3>. SUFFICES ASSUME \A k \in IPs : ~(favorites[k] # None)
                    PROVE  Size(favorites) < MaxFavorite
        BY <1>0, <2>2 DEF Full
      <3>1. Size(favorites) <= Size(Empty)
        BY SizeFewer
      <3>. QED
        BY <1>0, <3>1, SizeEmpty
    <2>. QED
      BY <2>1, <2>2, <2>3, <2>4 DEF store, RoomInv, Size
  <1>5. ASSUME NEW v \in Workers, Compare(v) PROVE RoomInv(w)'
    <2>1. v = w /\ UNCHANGED <<store, victim>> /\ pc[w] = "compare"
      BY <1>5 DEF Compare, At, RoomInv
    <2>2. /\ pc'[w] \in {"choose", "idle"} /\ \A u \in Workers : u # w => pc'[u] = pc[u]
      BY <1>0, <1>5, <2>1 DEF Compare, Goto, Procs
    <2>. QED
      BY <2>1, <2>2 DEF store, RoomInv, Size
  <1>6. ASSUME NEW v \in Workers, Choose(v) PROVE RoomInv(w)'
    <2>1. v = w /\ UNCHANGED store
      BY <1>6 DEF Choose, At, RoomInv
    <2>2. Victims # {}
      BY <1>6, <2>1, VictimExists DEF Choose, At, RoomInv
    <2>3. victim'[w] \in IPs /\ favorites[victim'[w]] # None
      BY <1>0, <1>6, <2>1, <2>2 DEF Choose, Victims
    <2>4. pc'[w] = "delete" /\ \A u \in Workers : u # w => pc'[u] = pc[u]
      BY <1>0, <1>6, <2>1 DEF Choose, Goto, Procs
    <2>. QED
      BY <2>1, <2>3, <2>4 DEF store, RoomInv, Size
  <1>7. ASSUME NEW v \in Workers, Delete(v) PROVE RoomInv(w)'
    <2>1. v = w /\ pc[w] = "delete"
      BY <1>7 DEF Delete, At, RoomInv
    <2>2. Size(favorites') = Size(favorites) - 1
      BY <1>7, <2>1, SizeRemoved DEF Delete, RoomInv
    <2>3. Size(favorites') < MaxFavorite
      BY <1>0, <2>2 DEF RoomInv
    <2>4. Size(favorites') <= MaxFavorite
      BY <1>0, <2>2 DEF RoomInv
    <2>5. pc'[w] = "add" /\ \A u \in Workers : u # w => pc'[u] = pc[u]
      BY <1>0, <1>7, <2>1 DEF Delete, Goto, Procs
    <2>. QED
      BY <1>7, <2>3, <2>4, <2>5 DEF Delete, RoomInv, Size
  <1>8. ASSUME NEW v \in Workers, Add(v) PROVE RoomInv(w)'
    <2>1. v = w /\ pc[w] = "add"
      BY <1>8 DEF Add, At, RoomInv
    <2>2. item[w].ip \in IPs
      BY <2>1 DEF StoreInv, ControlInv, ItemInv, AddLabels, Item
    <2>3. Size(favorites') <= Size(favorites) + 1
      BY <1>0, <1>8, <2>1, <2>2, SizeAdded DEF Add
    <2>4. Size(favorites') <= MaxFavorite
      <3>1. Size(favorites) < MaxFavorite /\ Size(favorites') \in Nat
        BY <2>1, SizeType DEF RoomInv
      <3>. QED
        BY <1>0, <2>3, <3>1
    <2>5. pc'[w] = "save" /\ \A u \in Workers : u # w => pc'[u] = pc[u]
      BY <1>0, <1>8, <2>1 DEF Add, Goto, Procs
    <2>. QED
      BY <1>8, <2>4, <2>5 DEF Add, RoomInv, Size
  <1>9. ASSUME NEW v \in Workers, AddAvoid(v) PROVE RoomInv(w)'
    <2>1. v = w
      BY <1>9 DEF AddAvoid, At, RoomInv
    <2>2. pc'[w] = "saveAvoid" /\ \A u \in Workers : u # w => pc'[u] = pc[u]
      BY <1>0, <1>9, <2>1 DEF AddAvoid, Goto, Procs
    <2>. QED
      BY <1>9, <2>2 DEF AddAvoid, RoomInv, Size
  <1>10. ASSUME NEW p \in Procs, Save(p) PROVE RoomInv(w)'
    <2>1. p = Main \/ p = w
      BY <1>10
         DEF Save, Truncate, Write, SaveFails, TruncateAvoid, WriteAvoid,
             SaveAvoidFails, At, RoomInv, Procs
    <2>2. \A u \in Workers : u # w => pc'[u] = pc[u]
      BY <1>0, <1>10, <2>1, MainIsNone
         DEF Save, Truncate, Write, SaveFails, TruncateAvoid, WriteAvoid,
             SaveAvoidFails, Goto, Procs
    <2>3. pc'[w] = pc[w] \/ pc'[w] \in {"write", "idle", "saveAvoid", "writeAvoid", "loaded"}
      BY <1>0, <1>10, <2>1, MainIsNone
         DEF Save, Truncate, Write, SaveFails, TruncateAvoid, WriteAvoid,
             SaveAvoidFails, Goto, Procs
    <2>4. UNCHANGED <<favorites, victim>>
      BY <1>10 DEF Save, Truncate, Write, SaveFails, TruncateAvoid, WriteAvoid,
             SaveAvoidFails
    <2>5. /\ snapshot' \in {snapshot, favorites} /\ file' \in {file, snapshot, Torn}
      BY <1>10 DEF Save, Truncate, Write, SaveFails, TruncateAvoid, WriteAvoid,
             SaveAvoidFails
    <2>6. Size(snapshot') <= MaxFavorite /\ (file' = Torn \/ Size(file') <= MaxFavorite)
      BY <2>5 DEF RoomInv
    <2>. QED
      BY <2>2, <2>3, <2>4, <2>6 DEF RoomInv, Size
  <1>11. CASE Crash
    <2>1. Size(Empty) <= MaxFavorite
      BY SizeEmpty
    <2>. QED
      BY <1>11, <2>1 DEF Crash, RoomInv, Size, Procs
  <1>12. CASE Tick \/ UNCHANGED vars
    BY <1>12 DEF Tick, vars, store, RoomInv, Size
  <1>. QED
    BY <1>1, <1>2, <1>3, <1>4, <1>5, <1>6, <1>7, <1>8, <1>9, <1>10, <1>11, <1>12
       DEF Next, Work

LEMMA StepAlone ==
    ASSUME Finite, MaxClock + Life < Horizon, AloneInv, [Next]_vars
    PROVE  AloneInv'
  <1>1. StoreInv' /\ ExpiryInv'
    BY StepInv, ExpiryStep DEF AloneInv
  <1>2. pool' = pool
    BY DEF Next, vars, Load, Measure, Done, Work, Take, CheckLength, Compare, Choose, Delete, Add,
       AddAvoid, Save, Truncate, Write, SaveFails, TruncateAvoid, WriteAvoid,
             SaveAvoidFails, Crash, Tick
  <1>3. ASSUME NEW w \in Workers, pool' = {w} PROVE RoomInv(w)'
    BY <1>2, <1>3, RoomStep DEF AloneInv
  <1>. QED
    BY <1>1, <1>3 DEF AloneInv

\* A pool of one never holds more than maxFavoriteLength favorites, however many
\* nodes are measured and whenever the process dies, as long as no entry outlives
\* the horizon.
THEOREM BoundedWhenAloneHolds ==
    ASSUME Finite, MaxClock + Life < Horizon
    PROVE  Spec => []BoundedWhenAlone
  <1>1. Init => AloneInv
    BY InitAlone
  <1>2. AloneInv /\ [Next]_vars => AloneInv'
    BY StepAlone
  <1>3. AloneInv => BoundedWhenAlone
    <2>. SUFFICES ASSUME AloneInv, Cardinality(pool) = 1 PROVE Size(favorites) <= MaxFavorite
      BY DEF BoundedWhenAlone
    <2>1. IsFiniteSet(pool)
      BY FS_Subset DEF Finite, AloneInv, StoreInv, TypeOK
    <2>2. PICK w : pool = {w}
      BY <2>1, FS_Singleton
    <2>3. w \in Workers
      BY <2>2 DEF AloneInv, StoreInv, TypeOK
    <2>. QED
      BY <2>2, <2>3 DEF AloneInv, RoomInv
  <1>. QED
    BY <1>1, <1>2, <1>3, PTL DEF Spec
=============================================================================
