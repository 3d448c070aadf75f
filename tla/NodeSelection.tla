--------------------------- MODULE NodeSelection ---------------------------
(***************************************************************************)
(* How a client finds the node that will serve it: CreateServerConn loops  *)
(* over nknFilterContext (collect subscribers), filterSubscribers and      *)
(* measurement, then tries the candidates, each with its subscription read *)
(* again.  Operators publish new metadata, and nodes die, at any time.     *)
(***************************************************************************)
EXTENDS Naturals, AccessFilter

CONSTANTS
    Nodes,                 \* NKN addresses: subscribed to the topic, or mistyped in a list
    Metas,                 \* metadata they publish: [price, ip, payee]
    BadPrice,              \* a price ParsePrice refuses
    NoPayee,               \* no beneficiary address
    BadPayee,              \* a beneficiary that VerifyWalletAddress refuses
    WalletOf,              \* the wallet address of each node, NoPayee if mistyped
    Absent,                \* no metadata, not subscribed
    MaxPrice,              \* ServiceInfo.MaxPrice
    Configs,               \* configurations, see conf
    Favorite,              \* metadata stored for favorite nodes, or Absent
    MaxUpdates             \* bound: publications of new metadata

ASSUME PriceAssumption == /\ MaxPrice \in Nat /\ BadPrice \notin Nat
                          /\ \A m \in Metas : m.price \in Nat \cup {BadPrice}
ASSUME StoreAssumption == /\ Absent \notin Metas
                          /\ \A f \in Configs : f.pinned \in [Nodes -> Metas \cup {Absent}]
                          /\ Favorite \in [Nodes -> Metas \cup {Absent}]
ASSUME BoundAssumption == MaxUpdates \in Nat

VARIABLES
    conf,        \* how the client is configured: allow and disallow of its NknFilter, pinned
                 \* (the metadata that an allowed address may come with, or Absent), ipAllow
                 \* and ipDisallow of its IPFilter, sampleAll (fewer subscribers than
                 \* GetSubscribersBatchSize) and bandwidth, c.MeasureBandwidth
    chain,       \* the subscription of every node, or Absent
    up,          \* nodes that run
    updates,     \* publications so far
    phase,       \* "fetch", "filter", "try", "connected", "stopped"
    raw,         \* subscriberRaw
    candidates,  \* candidateSubs not tried yet; measurement orders them
    metadata,    \* c.metadata
    price,       \* c.entryToExitPrice, c.exitToEntryPrice
    receiver,    \* c.paymentReceiver
    remote       \* c.remoteNknAddress

vars == <<conf, chain, up, updates, phase, raw, candidates, metadata, price, receiver, remote>>

Init ==
    /\ conf \in Configs
    /\ chain \in [Nodes -> Metas \cup {Absent}]
    /\ \A n \in Nodes : chain[n] = Absent <=> WalletOf[n] = NoPayee
    /\ up = {n \in Nodes : chain[n] # Absent} /\ updates = 0
    /\ phase = "fetch" /\ raw = [n \in Nodes |-> Absent] /\ candidates = {}
    /\ metadata = Absent /\ price = 0 /\ receiver = NoPayee /\ remote = Absent

---------------------------------------------------------------------------
(* The world. *)

Publish(n, m) ==
    /\ updates < MaxUpdates /\ chain[n] \notin {m, Absent}
    /\ chain' = [chain EXCEPT ![n] = m] /\ updates' = updates + 1
    /\ UNCHANGED <<conf, up, phase, raw, candidates, metadata, price, receiver, remote>>

\* A node dies; createSession(true) looks for another when it was ours.
Crash(n) ==
    /\ n \in up /\ up' = up \ {n}
    /\ phase' = IF phase = "connected" /\ remote = n THEN "fetch" ELSE phase
    /\ UNCHANGED <<conf, chain, updates, raw, candidates, metadata, price, receiver, remote>>

\* A node runs where its subscription says it does; nobody has a mistyped address,
\* of which ClientAddrToPubKey makes no key.
Reachable(n, m) == n \in up /\ m.ip = chain[n].ip

---------------------------------------------------------------------------
(* The client. *)

WhiteList == {n \in Nodes : \E e \in conf.allow : Matches(e, n)}

\* nknFilterContext with an allow list, be its entries empty: each address on it with
\* its given metadata, or with its subscription unless the request for that fails.
FetchWhiteList ==
    /\ conf.allow # {}
    /\ \E failed \in SUBSET {n \in WhiteList : conf.pinned[n] = Absent} :
         /\ WhiteList \ failed # {}
         /\ raw' = [n \in Nodes |-> IF n \notin WhiteList \ failed THEN Absent
                                    ELSE IF conf.pinned[n] # Absent THEN conf.pinned[n] ELSE chain[n]]

\* Without one: a random sample of the subscribers, then the favorite nodes with
\* the metadata stored for them.
FetchTopic ==
    /\ conf.allow = {}
    /\ \E sample \in IF conf.sampleAll THEN {Nodes} ELSE SUBSET Nodes \ {{}} :
         raw' = [n \in Nodes |-> IF Favorite[n] # Absent THEN Favorite[n]
                                 ELSE IF n \in sample THEN chain[n] ELSE Absent]

Fetch ==
    /\ phase = "fetch"
    /\ receiver' = NoPayee
    /\ FetchWhiteList \/ FetchTopic
    /\ phase' = "filter"
    /\ UNCHANGED <<conf, chain, up, updates, candidates, metadata, price, remote>>

\* filterSubscribers.  Its check against the avoided networks has no conjunct: the
\* "continue" in it goes on to the next network, not to the next subscriber, so it
\* excludes nobody.
EligibleAtAnyPrice(n, m) ==                                      \* mutant
    /\ m.price # BadPrice
    /\ Allows(conf.allow, conf.disallow, n) /\ Allows(conf.ipAllow, conf.ipDisallow, m.ip)
Eligible(n, m) ==
    /\ m.price # BadPrice /\ m.price <= MaxPrice
    /\ Allows(conf.allow, conf.disallow, n)
    /\ Allows(conf.ipAllow, conf.ipDisallow, m.ip)

\* Without a candidate left the loop starts over.
OnwardAlways(rest) == "try"                                      \* mutant
Onward(rest) == IF rest = {} THEN "fetch" ELSE "try"

\* measureDelay keeps who answers, maybe a stranger at an address given up;
\* measureBandwidth may lose any of them.  A single node is not measured.
Measured(nodes, kept) ==
    LET answering == {n \in nodes : Reachable(n, raw[n])} IN
    IF \E n \in nodes : nodes = {n} THEN kept = nodes
    ELSE conf.bandwidth \/ answering \subseteq kept

Filter ==
    /\ phase = "filter"
    /\ \E kept \in SUBSET {n \in Nodes : raw[n] # Absent /\ Eligible(n, raw[n])} :
         /\ Measured({n \in Nodes : raw[n] # Absent /\ Eligible(n, raw[n])}, kept)
         /\ candidates' = kept
         /\ phase' = Onward(kept)
    /\ UNCHANGED <<conf, chain, up, updates, raw, metadata, price, receiver, remote>>

\* One round of the loop over the candidates, with the metadata now on chain, or
\* with that of the list when it cannot be read.
Latest(n, m) == {m, chain[n]} \ {Absent}
ReceiverOf(n, m) == IF m.payee # NoPayee THEN m.payee ELSE WalletOf[n]

\* The price parses, and SetPaymentReceiver takes the beneficiary, or the wallet that
\* ClientAddrToWalletAddr finds for the address.
Adoptable(n, m) == m.price # BadPrice /\ ReceiverOf(n, m) \notin {BadPayee, NoPayee}

AdoptUnparsed(n, m) ==                                           \* mutant
    /\ price' = m.price /\ receiver' = ReceiverOf(n, m) /\ remote' = n
AdoptKeepsReceiver(n, m) ==                                      \* mutant
    IF Adoptable(n, m)
    THEN /\ price' = m.price /\ remote' = n
         /\ receiver' = IF m.payee # NoPayee THEN m.payee ELSE receiver
    ELSE UNCHANGED <<price, receiver, remote>>
Adopt(n, m) ==
    IF Adoptable(n, m)
    THEN price' = m.price /\ receiver' = ReceiverOf(n, m) /\ remote' = n
    ELSE UNCHANGED <<price, receiver, remote>>

\* A candidate that cannot be adopted is skipped, but c.metadata is its metadata already.
Try(n) ==
    /\ phase = "try" /\ n \in candidates
    /\ candidates' = candidates \ {n}
    /\ \E m \in Latest(n, raw[n]) :
         /\ metadata' = m
         /\ Adopt(n, m)
         /\ phase' = IF Adoptable(n, m) /\ Reachable(n, m) THEN "connected"
                     ELSE Onward(candidates')
    /\ UNCHANGED <<conf, chain, up, updates, raw>>

\* The loop ends: the client was closed, or its balance is below minBalance.
Stop ==
    /\ phase = "fetch" /\ phase' = "stopped"
    /\ UNCHANGED <<conf, chain, up, updates, raw, candidates, metadata, price, receiver, remote>>

---------------------------------------------------------------------------
Select == Fetch \/ Filter \/ \E n \in Nodes : Try(n)

Next ==
    \/ \E n \in Nodes, m \in Metas : Publish(n, m)
    \/ \E n \in Nodes : Crash(n)
    \/ Select
    \/ Stop

Spec == Init /\ [][Next]_vars

\* The loop never blocks.
FairSpec == Spec /\ WF_vars(Select)

---------------------------------------------------------------------------
TypeOK ==
    /\ conf \in Configs
    /\ chain \in [Nodes -> Metas \cup {Absent}] /\ up \subseteq Nodes
    /\ updates \in 0..MaxUpdates
    /\ phase \in {"fetch", "filter", "try", "connected", "stopped"}
    /\ raw \in [Nodes -> Metas \cup {Absent}] /\ candidates \subseteq Nodes
    /\ metadata \in Metas \cup {Absent} /\ price \in Nat
    /\ remote \in Nodes \cup {Absent}

\* The metadata, the price and the receiver of payments of a connection are all
\* those of the node connected to, whatever candidates failed half way before it, and
\* there is a receiver that can be paid.
ConnectedConsistent ==
    phase = "connected" =>
        /\ price = metadata.price
        /\ receiver = ReceiverOf(remote, metadata)
        /\ receiver \notin {BadPayee, NoPayee}
        /\ remote \in up

\* Only nodes that the NKN filter admits are connected to, favorites included.
ConnectedAllowed ==
    phase = "connected" =>
        /\ ~\E e \in conf.disallow : Matches(e, remote)
        /\ Blank(conf.allow) \/ remote \in WhiteList

\* If its metadata is what was filtered, the node connected to is within the maximum
\* price and at an address that the IP filter admits.
ConnectedEligible ==
    phase = "connected" /\ metadata = raw[remote] =>
        /\ metadata.price <= MaxPrice
        /\ ~\E e \in conf.ipDisallow : Matches(e, metadata.ip)
        /\ Blank(conf.ipAllow) \/ \E e \in conf.ipAllow : Matches(e, metadata.ip)

\* If in the end some node stays up and acceptable, also by what is stored of it if it
\* is a favorite, the client gets connected, unless chance decides each round whether
\* the node is asked for or survives the measurement.
Fine(n, m) == Eligible(n, m) /\ Adoptable(n, m) /\ Reachable(n, m)
Good(n) ==
    /\ n \in up /\ Fine(n, chain[n])
    /\ Favorite[n] = Absent \/ Fine(n, Favorite[n])
Certain == conf.allow = {} /\ conf.sampleAll /\ ~conf.bandwidth
FindsNode ==
    Certain /\ <>[](\E n \in Nodes : Good(n)) => []<>(phase \in {"connected", "stopped"})
=============================================================================
