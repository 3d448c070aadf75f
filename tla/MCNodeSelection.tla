-------------------------- MODULE MCNodeSelection --------------------------
(* Small instances of NodeSelection for TLC. *)
EXTENDS NodeSelection, TLC

CONSTANTS a, b, c, d, ipA, ipB, wA, wB, wC, wX

Meta(p, ip, payee) == [price |-> p, ip |-> ip, payee |-> payee]

\* cheap or dear, at two addresses, with a beneficiary, a broken one or none, and with
\* a broken price
AllMetas == {Meta(1, ipA, NoPayee), Meta(1, ipB, BadPayee), Meta(2, ipA, wX),
             Meta(BadPrice, ipB, NoPayee)}
Wallets == (a :> wA) @@ (b :> wB) @@ (c :> wC) @@ (d :> NoPayee)
NotPinned == [n \in Nodes |-> Absent]
FavoriteB == [NotPinned EXCEPT ![b] = Meta(1, ipA, NoPayee)]

Entry(matches) == [empty |-> FALSE, matches |-> matches]
EmptyEntry == [empty |-> TRUE, matches |-> {}]
CityOnly == Entry({})

\* Anyone but c, with the choice certain or left to chance.
Open(chance) == [allow |-> {}, disallow |-> {Entry({c})}, pinned |-> NotPinned,
                 ipAllow |-> {EmptyEntry}, ipDisallow |-> {Entry({ipB})},
                 sampleAll |-> ~chance, bandwidth |-> chance]
\* A white list of all, with a and the mistyped d pinned to given metadata, c disallowed.
White == [allow |-> {Entry({n}) : n \in Nodes}, disallow |-> {Entry({c})},
          pinned |-> [NotPinned EXCEPT ![a] = Meta(1, ipA, NoPayee), ![d] = Meta(1, ipA, NoPayee)],
          ipAllow |-> {Entry({ipA}), Entry({ipB})}, ipDisallow |-> {},
          sampleAll |-> TRUE, bandwidth |-> TRUE]
\* Nobody: an IP filter that matches nothing.
Shut == [Open(FALSE) EXCEPT !.ipAllow = {CityOnly}]
AllConfigs == {Open(TRUE), Open(FALSE), White, Shut}
=============================================================================
