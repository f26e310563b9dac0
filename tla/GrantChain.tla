----------------------------- MODULE GrantChain -----------------------------
(***************************************************************************)
(* delegation.Grant: the in-memory delegation chain every part of the      *)
(* system agrees on.  A root grant is a user's; Delegate derives a child   *)
(* in one atomic step from a parent that never changes.  This is the       *)
(* abstract specification of a delegation chain: DelegationChains, which   *)
(* keeps the chain in a table and builds it in several unlocked queries,   *)
(* is shown to implement it.                                               *)
(***************************************************************************)
EXTENDS Constraints, Ancestry, FiniteSets

CONSTANTS Users, Agents, Scopes,
          Inputs,      \* constraint sets a caller may ask for
          Expiries,    \* values of now + ttl; Absent is "no expiry"
          Probes,      \* actions the narrowing property ranges over
          MaxDepth,    \* delegation.DefaultMaxDepth
          MaxGrants,   \* bound on the number of grants
          MaxRoots     \* bound on the root grants among them

ASSUME GrantAssumption ==
    /\ Inputs \subseteq ConstraintSets
    /\ Expiries \subseteq Nat \cup {Absent}
    /\ Probes \subseteq Actions
    /\ MaxDepth \in Nat \ {0}
    /\ MaxGrants \in Nat /\ MaxRoots \in Nat

VARIABLE grants

GrantRecords == [delegator : Users \cup Agents, delegatee : Agents,
                 scopes : SUBSET Scopes, cnst : ConstraintSets,
                 exp : Nat \cup {Absent}, parent : Nat]

(* The number of links above grant i.                                      *)
depth(i) == Cardinality(Chain(grants, i)) - 1

(* e after f, where Absent never comes.                                    *)
After(e, f) == f # Absent /\ (e = Absent \/ e > f)

Clamp(e, f) == IF After(e, f) THEN f ELSE e

RootsLeft == Cardinality({i \in DOMAIN grants : grants[i].parent = 0}) < MaxRoots

NewRootGrant(user, agent, scopes, c, exp) ==
    /\ Len(grants) < MaxGrants /\ RootsLeft
    /\ grants' = Append(grants,
           [delegator |-> user, delegatee |-> agent, scopes |-> scopes,
            cnst |-> c, exp |-> exp, parent |-> 0])

WithinDepth(p) == depth(p) + 1 < MaxDepth

(* Mutant: the walk for a cycle stops at the parent.                       *)
MutHeldOnChain(p, agent) == grants[p].delegatee = agent

HeldOnChain(p, agent) == \E g \in Chain(grants, p) : grants[g].delegatee = agent

(* Mutant: the child is handed on by whoever handed the parent on.         *)
MutWrongDelegator(p, delegatee, scopes, c, exp) ==
    [delegator |-> grants[p].delegator, delegatee |-> delegatee,
     scopes |-> scopes, cnst |-> Tighten(grants[p].cnst, c),
     exp |-> Clamp(exp, grants[p].exp), parent |-> p]

Child(p, delegatee, scopes, c, exp) ==
    [delegator |-> grants[p].delegatee, delegatee |-> delegatee,
     scopes |-> scopes, cnst |-> Tighten(grants[p].cnst, c),
     exp |-> Clamp(exp, grants[p].exp), parent |-> p]

Delegate(p, delegatee, scopes, c, exp) ==
    /\ Len(grants) < MaxGrants
    /\ IsSubset(scopes, grants[p].scopes)
    /\ WithinDepth(p)
    /\ ~HeldOnChain(p, delegatee)
    /\ grants' = Append(grants, Child(p, delegatee, scopes, c, exp))

Init == grants = << >>

Next ==
    \E agent \in Agents, scopes \in SUBSET Scopes, c \in Inputs, e \in Expiries :
        \/ \E user \in Users : NewRootGrant(user, agent, scopes, c, e)
        \/ \E p \in DOMAIN grants : Delegate(p, agent, scopes, c, e)

Spec == Init /\ [][Next]_grants
-----------------------------------------------------------------------------
(* The table of grants is well formed.                                     *)
TypeOK == grants \in Seq(GrantRecords) /\ WellParented(grants)

(* Constraint set c permits nothing that d denies.                         *)
AtMost(c, d) == \A a \in Probes : Permit(c, a) => Permit(d, a)

(* What a link may do relative to one above it.                            *)
NoWider(g, h) ==
    /\ g.scopes \subseteq h.scopes
    /\ ~After(g.exp, h.exp)
    /\ AtMost(g.cnst, h.cnst)

(* Authority only narrows: whatever number of re-delegations separates     *)
(* them, a grant holds no scope, no lifetime and no permitted action that  *)
(* any grant above it on its chain does not (Delegate, Tighten).           *)
AuthorityNarrows ==
    \A i \in DOMAIN grants : \A h \in Chain(grants, i) :
        NoWider(grants[i], grants[h])

(* No principal receives authority twice on one chain, so an agent cannot  *)
(* be handed back, with a longer provenance, what it gave away.            *)
NoCycle ==
    \A i \in DOMAIN grants : \A g, h \in Chain(grants, i) :
        grants[g].delegatee = grants[h].delegatee => g = h

(* No chain is longer than MaxDepth links, the root included.              *)
DepthBounded == \A i \in DOMAIN grants : depth(i) < MaxDepth

(* A chain has one root, a user's grant, and each later link is handed on  *)
(* by the principal who received the link above: the act claim built from  *)
(* the chain names who really acted for whom (RootDelegator,               *)
(* ActorChainRootToLeaf).                                                  *)
ProvenanceUnbroken ==
    \A i \in DOMAIN grants :
        LET links == Chain(grants, i)
        IN  /\ \E r \in links : /\ grants[r].parent = 0
                                /\ grants[r].delegator \in Users
                                /\ \A h \in links : grants[h].parent = 0 => h = r
            /\ \A h \in links : grants[h].parent # 0 =>
                  /\ grants[h].parent \in links
                  /\ grants[h].delegator = grants[grants[h].parent].delegatee

(* A grant, once made, is never altered: a derived token keeps meaning     *)
(* what the chain meant when it was built.                                 *)
GrantsImmutable ==
    [][\A i \in DOMAIN grants : i \in DOMAIN grants' /\ grants'[i] = grants[i]]_grants
=============================================================================
