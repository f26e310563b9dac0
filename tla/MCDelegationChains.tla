------------------------- MODULE MCDelegationChains -------------------------
(* A small instance of DelegationChains.  Three agents share the user's    *)
(* organisation and a fourth belongs to another one.                       *)
EXTENDS DelegationChains, TLC

CONSTANTS t1, u1, a1, a2, a3, a4, o1, o2

MCNoResources == {}
MCValues == {t1}
MCZones == {"UTC"}
MCInstants == {0}
MCLocalTime(z, t) == [weekday |-> 1, minute |-> 600]

MCInputs == {[Unconstrained EXCEPT !.allow["tools"] = {t1}]}

MCOrgOf == [a \in Agents |-> IF a = a4 THEN o2 ELSE o1]
MCMemberOf == [u \in Users |-> {o1}]
Symmetry == Permutations(Redelegators) \cup Permutations({a1, a2, a3})
=============================================================================
