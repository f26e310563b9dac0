-------------------------- MODULE MCTokenExchange --------------------------
(* Small instances of TokenExchange.  Constraint sets name the resource    *)
(* tokens are minted for, in its canonical spelling or in another one that *)
(* the agent API stores as it is, with or without a rate cap.              *)
EXTENDS TokenExchange, TLC

CONSTANTS o1

Canonical == [id |-> "res", form |-> "canonical"]
Variant   == [id |-> "res", form |-> "variant"]
MCResources == {Canonical, Variant}
MCResource == {Canonical}
MCZones == {"UTC"}
MCInstants == {0}
MCLocalTime(z, t) == [weekday |-> 1, minute |-> 600]

For(r) == [Unconstrained EXCEPT !.allow["resources"] = {r}]
Rated(n) == [For(Canonical) EXCEPT !.rate = n]

InputsCanonical == {For(Canonical)}
InputsSpelled == {For(Canonical), For(Variant)}
InputsRated == {Rated(1)}

MCOrgOf == [a \in Agents |-> o1]
MCMemberOf == [u \in Users |-> Orgs]
Symmetry == Permutations(Users) \cup Permutations(Agents)
               \cup Permutations(Scopes) \cup Permutations(Exchangers)
=============================================================================
