------------------------ MODULE NodeSelectionProofs ------------------------
(***************************************************************************)
(* Whatever the nodes, the metadata, the lists and the prices: the client  *)
(* is connected to an admitted node, with the metadata, price and receiver *)
(* of that node.  The invariant carries what the filter found from the     *)
(* candidates to the connection, and what Adopt set to the connected node. *)
(***************************************************************************)
EXTENDS NodeSelection, TLAPS

\* A candidate passed the filter with the metadata collected for it.
Passed(n) == raw[n] \in Metas /\ Eligible(n, raw[n])

CandidatesPassed == phase = "try" => \A n \in candidates : Passed(n)
ConnectedPassed == phase = "connected" => remote \in Nodes /\ Passed(remote)

SelectionInv == TypeOK /\ CandidatesPassed /\ ConnectedPassed /\ ConnectedConsistent

LEMMA InitInv == Init => SelectionInv
  <1>. SUFFICES ASSUME Init PROVE SelectionInv
    OBVIOUS
  <1>1. phase = "fetch"
    BY DEF Init
  <1>2. TypeOK
    BY BoundAssumption DEF Init, TypeOK
  <1>. QED
    BY <1>1, <1>2 DEF SelectionInv, CandidatesPassed, ConnectedPassed, ConnectedConsistent

\* Steps of the world leave the client alone, unless its node dies.
LEMMA WorldInv ==
    ASSUME NEW n \in Nodes, SelectionInv, Crash(n) \/ \E m \in Metas : Publish(n, m)
    PROVE  SelectionInv'
  <1>1. CASE Crash(n)
    <2>1. TypeOK'
      BY <1>1 DEF Crash, SelectionInv, TypeOK
    <2>2. CandidatesPassed' /\ ConnectedPassed' /\ ConnectedConsistent'
      BY <1>1 DEF Crash, SelectionInv, CandidatesPassed, ConnectedPassed, ConnectedConsistent,
                  Passed, Eligible
    <2>. QED
      BY <2>1, <2>2 DEF SelectionInv
  <1>2. ASSUME NEW m \in Metas, Publish(n, m) PROVE SelectionInv'
    <2>1. TypeOK'
      BY <1>2, BoundAssumption DEF Publish, SelectionInv, TypeOK
    <2>2. CandidatesPassed' /\ ConnectedPassed' /\ ConnectedConsistent'
      BY <1>2 DEF Publish, SelectionInv, CandidatesPassed, ConnectedPassed, ConnectedConsistent,
                  Passed, Eligible
    <2>. QED
      BY <2>1, <2>2 DEF SelectionInv
  <1>. QED
    BY <1>1, <1>2

\* Collecting: any metadata is that of a node now, or was stored or given for it.
LEMMA FetchInv ==
    ASSUME SelectionInv, Fetch
    PROVE  SelectionInv'
  <1>1. phase' = "filter"
    BY DEF Fetch
  <1>2. raw' \in [Nodes -> Metas \cup {Absent}]
    <2>1. /\ conf.pinned \in [Nodes -> Metas \cup {Absent}]
          /\ Favorite \in [Nodes -> Metas \cup {Absent}]
          /\ chain \in [Nodes -> Metas \cup {Absent}]
      BY StoreAssumption DEF SelectionInv, TypeOK
    <2>2. CASE FetchWhiteList
      BY <2>1, <2>2 DEF FetchWhiteList
    <2>3. CASE FetchTopic
      BY <2>1, <2>3 DEF FetchTopic
    <2>. QED
      BY <2>2, <2>3 DEF Fetch
  <1>3. TypeOK'
    BY <1>1, <1>2 DEF Fetch, SelectionInv, TypeOK
  <1>. QED
    BY <1>1, <1>3 DEF SelectionInv, CandidatesPassed, ConnectedPassed, ConnectedConsistent

\* The filter lets nobody through that is not eligible.
LEMMA FilterInv ==
    ASSUME SelectionInv, Filter
    PROVE  SelectionInv'
  <1>1. /\ candidates' \subseteq {n \in Nodes : raw[n] # Absent /\ Eligible(n, raw[n])}
        /\ phase' \in {"fetch", "try"} /\ raw' = raw /\ conf' = conf
    BY DEF Filter, Onward
  <1>2. raw \in [Nodes -> Metas \cup {Absent}]
    BY DEF SelectionInv, TypeOK
  <1>3. TypeOK'
    BY <1>1 DEF Filter, SelectionInv, TypeOK
  <1>4. CandidatesPassed'
    BY <1>1, <1>2 DEF CandidatesPassed, Passed, Eligible
  <1>. QED
    BY <1>1, <1>3, <1>4 DEF SelectionInv, ConnectedPassed, ConnectedConsistent

\* A candidate is adopted as a whole or not at all, and a connection is only made to
\* one that was.
LEMMA TryInv ==
    ASSUME NEW n \in Nodes, SelectionInv, Try(n)
    PROVE  SelectionInv'
  <1>1. /\ n \in candidates /\ Passed(n) /\ phase = "try"
        /\ UNCHANGED <<conf, chain, up, updates, raw>> /\ candidates' = candidates \ {n}
    BY DEF Try, SelectionInv, CandidatesPassed
  <1>2. PICK m \in Latest(n, raw[n]) :
          /\ metadata' = m /\ Adopt(n, m)
          /\ phase' = IF Adoptable(n, m) /\ Reachable(n, m) THEN "connected"
                      ELSE Onward(candidates')
    BY DEF Try
  <1>3. m \in Metas /\ m.price \in Nat \cup {BadPrice}
    BY <1>1, PriceAssumption DEF Latest, Passed, SelectionInv, TypeOK
  <1>4. phase' \in {"connected", "fetch", "try"}
    BY <1>2 DEF Onward
  <1>5. phase' = "connected" =>
          /\ price' = metadata'.price /\ remote' = n /\ n \in up
          /\ receiver' = ReceiverOf(n, metadata') /\ receiver' \notin {BadPayee, NoPayee}
    BY <1>2 DEF Adopt, Adoptable, Onward, Reachable
  <1>6. TypeOK'
    <2>1. price' \in Nat /\ remote' \in Nodes \cup {Absent}
      BY <1>2, <1>3 DEF Adopt, Adoptable, SelectionInv, TypeOK
    <2>. QED
      BY <1>1, <1>2, <1>3, <1>4, <2>1 DEF SelectionInv, TypeOK
  <1>7. ConnectedConsistent'
    BY <1>1, <1>5 DEF ConnectedConsistent, ReceiverOf
  <1>8. ConnectedPassed'
    BY <1>1, <1>5 DEF ConnectedPassed, Passed, Eligible
  <1>9. CandidatesPassed'
    BY <1>1 DEF SelectionInv, CandidatesPassed, Passed, Eligible
  <1>. QED
    BY <1>6, <1>7, <1>8, <1>9 DEF SelectionInv

LEMMA StepInv == SelectionInv /\ [Next]_vars => SelectionInv'
  <1>. SUFFICES ASSUME SelectionInv, [Next]_vars PROVE SelectionInv'
    OBVIOUS
  <1>1. CASE \E n \in Nodes : Crash(n) \/ \E m \in Metas : Publish(n, m)
    BY <1>1, WorldInv
  <1>2. CASE Fetch
    BY <1>2, FetchInv
  <1>3. CASE Filter
    BY <1>3, FilterInv
  <1>4. CASE \E n \in Nodes : Try(n)
    BY <1>4, TryInv
  <1>5. CASE Stop
    BY <1>5 DEF Stop, SelectionInv, TypeOK, CandidatesPassed, ConnectedPassed,
                ConnectedConsistent
  <1>6. CASE UNCHANGED vars
    BY <1>6 DEF vars, SelectionInv, TypeOK, CandidatesPassed, ConnectedPassed,
                ConnectedConsistent, Passed, Eligible, ReceiverOf
  <1>. QED
    BY <1>1, <1>2, <1>3, <1>4, <1>5, <1>6 DEF Next, Select

LEMMA AlwaysInv == Spec => []SelectionInv
  BY InitInv, StepInv, PTL DEF Spec

---------------------------------------------------------------------------
\* The client's state stays well formed: a price that does not parse is never adopted.
THEOREM TypeCorrect == Spec => []TypeOK
  <1>1. SelectionInv => TypeOK
    BY DEF SelectionInv
  <1>. QED
    BY <1>1, AlwaysInv, PTL

\* A connection's metadata, price and receiver are those of its node.
THEOREM ConnectedConsistentHolds == Spec => []ConnectedConsistent
  <1>1. SelectionInv => ConnectedConsistent
    BY DEF SelectionInv
  <1>. QED
    BY <1>1, AlwaysInv, PTL

\* The NKN filter admits every node connected to.
THEOREM ConnectedAllowedHolds == Spec => []ConnectedAllowed
  <1>1. SelectionInv => ConnectedAllowed
    BY DEF SelectionInv, ConnectedPassed, Passed, Eligible, Allows, ConnectedAllowed,
              WhiteList
  <1>. QED
    BY <1>1, AlwaysInv, PTL

\* A node whose metadata is what was filtered is within price and location.
THEOREM ConnectedEligibleHolds == Spec => []ConnectedEligible
  <1>1. SelectionInv => ConnectedEligible
    BY DEF SelectionInv, ConnectedPassed, Passed, Eligible, Allows, ConnectedEligible
  <1>. QED
    BY <1>1, AlwaysInv, PTL
=============================================================================
