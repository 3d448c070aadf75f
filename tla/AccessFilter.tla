--------------------------- MODULE AccessFilter ---------------------------
(***************************************************************************)
(* The allow and disallow lists of NknFilter and IPFilter.  An entry       *)
(* [empty, matches] is the set of the addresses or locations it matches (a *)
(* CIDR or a country is a set of IPs, an NKN address a singleton) and      *)
(* whether it has no field set at all.  An entry may have fields and match *)
(* nothing: metadata without an address, a city without a country code.    *)
(***************************************************************************)

Matches(e, x) == ~e.empty /\ x \in e.matches
Blank(entries) == \A e \in entries : e.empty

AllowsListed(allow, disallow, x) ==                              \* mutant
    Blank(allow) \/ \E e \in allow : Matches(e, x)

\* NknFilter.IsAllow, IPFilter.AllowLocation: disallowing wins, and an allow list
\* with an entry that is not empty admits nothing that no entry matches.
Allows(allow, disallow, x) ==
    /\ ~\E e \in disallow : Matches(e, x)
    /\ Blank(allow) \/ \E e \in allow : Matches(e, x)
===========================================================================
