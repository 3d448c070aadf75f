----------------------------- MODULE SavedCopy -----------------------------
(***************************************************************************)
(* What a map with a copy on disk promises, whoever changes and saves it   *)
(* while it is open: the copy is always all that the map was at one        *)
(* moment, never a mixture of two, unless a crash or a save that failed    *)
(* tore it; the map is closed only when the copy is up to date, or after   *)
(* its last save failed; and it opens as what the copy holds, up to        *)
(* entries that have expired.                                              *)
(***************************************************************************)
CONSTANTS
    Keys,
    None,        \* the value of a key that is not in the map
    Torn         \* what a crash or an error while saving leaves

VARIABLES
    open,        \* somebody uses the map
    mem,         \* the map
    saved,       \* its copy
    result       \* "error" if the last save since it was opened failed

Nothing == [k \in Keys |-> None]

Init == open = FALSE /\ mem = Nothing /\ saved = Nothing /\ result = "ok"

Load ==
    /\ ~open /\ open' = TRUE /\ result' = "ok"
    /\ LET copy == IF saved = Torn THEN Nothing ELSE saved IN
       \E expired \in SUBSET Keys :
           mem' = [k \in Keys |-> IF k \in expired THEN None ELSE copy[k]]
    /\ UNCHANGED saved

Change ==
    /\ open /\ \E k \in Keys : mem' = [mem EXCEPT ![k] = mem'[k]]
    /\ UNCHANGED <<open, saved, result>>

Save == open /\ saved' = mem /\ result' = "ok" /\ UNCHANGED <<open, mem>>

\* A save that fails, which may be reason to close the map.
Fail ==
    /\ open /\ open' \in BOOLEAN
    /\ saved' \in {saved, Torn} /\ result' = "error"
    /\ UNCHANGED mem

Close ==
    /\ open /\ (saved = mem \/ result = "error")
    /\ open' = FALSE
    /\ UNCHANGED <<mem, saved, result>>

Crash ==
    /\ open /\ open' = FALSE /\ mem' = Nothing
    /\ saved' \in {saved, Torn} /\ result' = "ok"

Next == Load \/ Change \/ Save \/ Fail \/ Close \/ Crash

Spec == Init /\ [][Next]_<<open, mem, saved, result>>
============================================================================
