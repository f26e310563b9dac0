-------------------------- MODULE DelegationChains --------------------------
(***************************************************************************)
(* internal/delegation/chains and the delegation half of internal/agent:   *)
(* delegation chains as rows of the table delegation_chains.               *)
(*                                                                         *)
(* Row i of deleg is the i-th inserted.  A request is a slot that moves    *)
(* through the queries of its handler; between two queries any other       *)
(* request may commit, because no handler locks the rows it read.  A       *)
(* request that is refused returns an error and frees its slot.            *)
(***************************************************************************)
EXTENDS Constraints, Ancestry, FiniteSets

CONSTANTS Users, Agents, Orgs, Scopes,
          orgOf,          \* the organisation of an agent, fixed at creation
          memberOf,       \* the organisations a user belongs to
          Inputs,         \* constraint sets a request may carry
          Resources,      \* resource indicators, as records id and form
          TTLs,           \* lifetimes a request may ask for; 0 is "none"
          Redelegators,   \* slots of concurrent Redelegate requests
          Revokers,       \* slots of concurrent RevokeDelegationTree requests
          MaxDepth,       \* delegation.DefaultMaxDepth
          MaxRows,        \* bound on the table
          MaxRoots,       \* bound on the root rows in it
          MaxRevoked,     \* bound on the agents revoked
          MaxTime         \* bound on the clock

ASSUME ChainsAssumption ==
    /\ orgOf \in [Agents -> Orgs] /\ memberOf \in [Users -> SUBSET Orgs]
    /\ Inputs \subseteq ConstraintSets
    /\ \A c \in Inputs : c.allow["resources"] \subseteq Resources
    /\ Resources \subseteq Values
    /\ \A r \in Resources : CanonicalizeResource(r) \in Resources
    /\ TTLs \subseteq Nat
    /\ Users \cap Agents = {}
    /\ MaxDepth \in Nat \ {0} /\ MaxRows \in Nat /\ MaxTime \in Nat
    /\ MaxRoots \in Nat /\ MaxRevoked \in Nat

VARIABLES deleg,       \* the table delegation_chains
          revokedAgents, \* agents whose status is 'revoked'
          now,         \* the clock
          redel,       \* what each Redelegate request holds
          revtx        \* what each open RevokeDelegationTree holds

chainVars == <<deleg, revokedAgents, now, redel, revtx>>

Rows == [delegatorType : {"user", "agent"}, delegator : Users \cup Agents,
         delegatee : Agents, scopes : SUBSET Scopes, cnst : ConstraintSets,
         parent : Nat, depth : Nat, org : Orgs, exp : Nat \cup {Absent},
         active : BOOLEAN]

Idle == [pc |-> "idle"]
NotRevoking == [pc |-> "idle"]

Usable(d) == deleg[d].active /\ (deleg[d].exp # Absent => deleg[d].exp > now)

Insert(row) == /\ Len(deleg) < MaxRows
               /\ deleg' = Append(deleg, row)

RootsLeft == Cardinality({d \in DOMAIN deleg : deleg[d].parent = 0}) < MaxRoots

RootRow(user, agent, scopes, c, exp) ==
    [delegatorType |-> "user", delegator |-> user, delegatee |-> agent,
     scopes |-> scopes, cnst |-> c, parent |-> 0, depth |-> 0,
     org |-> orgOf[agent], exp |-> exp, active |-> TRUE]
-----------------------------------------------------------------------------
(* POST /consent/delegate and GrantConsent: the receipt, which nothing     *)
(* reads, and the root row are one transaction.  A consent's resource      *)
(* stands in for an empty resource list.                                   *)
FoldResource(c, resource) ==
    IF c.allow["resources"] = {} /\ resource # Absent
    THEN [c EXCEPT !.allow["resources"] = {resource}]
    ELSE c

GrantConsent(user, agent, scopes, c, resource, ttl) ==
    /\ agent \notin revokedAgents
    /\ orgOf[agent] # Absent /\ orgOf[agent] \in memberOf[user]
    /\ scopes # {}
    /\ LET folded == FoldResource(c, resource)
       IN  /\ validateConstraints(folded)
           /\ Storable(folded)
           /\ Insert(RootRow(user, agent, scopes, canonicalizeConstraints(folded),
                             IF ttl > 0 THEN now + ttl ELSE Absent))
    /\ UNCHANGED <<revokedAgents, now, redel, revtx>>

(* POST .../delegations of the agent API: a root row whose constraints are *)
(* stored as they came.                                                    *)
CreateDelegation(user, agent, scopes, c, exp) ==
    /\ orgOf[agent] \in memberOf[user]
    /\ scopes # {}
    /\ Storable(c)
    /\ Insert(RootRow(user, agent, scopes, c, exp))
    /\ UNCHANGED <<revokedAgents, now, redel, revtx>>
-----------------------------------------------------------------------------
(* POST /delegations/redelegate and Redelegate: authenticate the agent;    *)
(* read and check the parent row; walk the chain for the delegatee and     *)
(* look its status up; tighten and insert.  The columns the handler keeps  *)
(* from its first query are never updated, so it keeps the row's number.   *)
RedelegateAuth(r, by) ==
    /\ redel[r].pc = "idle"
    /\ by \notin revokedAgents
    /\ redel' = [redel EXCEPT ![r] = [pc |-> "read", by |-> by]]
    /\ UNCHANGED <<deleg, revokedAgents, now, revtx>>

(* Mutant: off by one.                                                     *)
MutWithinDepth(p) == deleg[p].depth + 1 <= MaxDepth

WithinDepth(p) == deleg[p].depth + 1 < MaxDepth

RedelegateRead(r, p, to, scopes, c, ttl) ==
    /\ redel[r].pc = "read"
    /\ scopes # {} /\ validateConstraints(c)
    /\ Usable(p)
    /\ deleg[p].delegatee = redel[r].by
    /\ IsSubset(scopes, deleg[p].scopes)
    /\ WithinDepth(p)
    /\ redel' = [redel EXCEPT ![r] =
           [pc |-> "check", parent |-> p, by |-> redel[r].by, to |-> to,
            scopes |-> scopes, cnst |-> canonicalizeConstraints(c), ttl |-> ttl]]
    /\ UNCHANGED <<deleg, revokedAgents, now, revtx>>

(* Mutant: the walk looks at its first row alone.                          *)
MutInParent(p, agent) == deleg[p].delegatee = agent

agentInChain(p, agent) ==
    \E d \in Chain(deleg, p) : deleg[d].delegatee = agent

(* Mutant: the delegatee is looked up without its organisation.            *)
MutAnyTenant(to, p) == to \notin revokedAgents

MayReceive(to, p) == to \notin revokedAgents /\ orgOf[to] = deleg[p].org

RedelegateCheck(r) ==
    /\ redel[r].pc = "check"
    /\ redel' = [redel EXCEPT ![r] =
           IF /\ ~agentInChain(redel[r].parent, redel[r].to)
              /\ MayReceive(redel[r].to, redel[r].parent)
           THEN [@ EXCEPT !.pc = "insert"]
           ELSE Idle]
    /\ UNCHANGED <<deleg, revokedAgents, now, revtx>>

ChildExpiry(ttl, pExp) ==
    IF pExp # Absent /\ now + ttl > pExp THEN pExp ELSE now + ttl

(* Mutant: the parent's depth is copied.                                   *)
MutSameDepth(q) ==
    [delegatorType |-> "agent", delegator |-> q.by, delegatee |-> q.to,
     scopes |-> q.scopes, cnst |-> Tighten(deleg[q.parent].cnst, q.cnst),
     parent |-> q.parent, depth |-> deleg[q.parent].depth,
     org |-> deleg[q.parent].org, exp |-> ChildExpiry(q.ttl, deleg[q.parent].exp),
     active |-> TRUE]

ChildRow(q) ==
    [delegatorType |-> "agent", delegator |-> q.by, delegatee |-> q.to,
     scopes |-> q.scopes, cnst |-> Tighten(deleg[q.parent].cnst, q.cnst),
     parent |-> q.parent, depth |-> deleg[q.parent].depth + 1,
     org |-> deleg[q.parent].org, exp |-> ChildExpiry(q.ttl, deleg[q.parent].exp),
     active |-> TRUE]

RedelegateInsert(r) ==
    /\ redel[r].pc = "insert"
    /\ IF Storable(ChildRow(redel[r]).cnst)
       THEN Insert(ChildRow(redel[r]))
       ELSE UNCHANGED deleg
    /\ redel' = [redel EXCEPT ![r] = Idle]
    /\ UNCHANGED <<revokedAgents, now, revtx>>
-----------------------------------------------------------------------------
(* RevokeDelegationTree, one transaction of two statements.  Each sees     *)
(* what is committed when it starts; the rows the first one deactivates    *)
(* stay active for everyone else until the commit.                         *)
(* Mutant: only the rows below the revoked one.                            *)
MutBelow(d) == Tree(deleg, d) \ {d}

RevokedRows(d) == Tree(deleg, d)

RevokeTreeBegin(v, d, user) ==
    /\ revtx[v].pc = "idle"
    /\ deleg[d].delegatorType = "user" /\ deleg[d].delegator = user
    /\ revtx' = [revtx EXCEPT ![v] =
           [pc |-> "commit", root |-> d, rows |-> RevokedRows(d)]]
    /\ UNCHANGED <<deleg, revokedAgents, now, redel>>

(* Mutant: the statement writes every row.                                 *)
MutWriteAll(S) ==
    deleg' = [d \in DOMAIN deleg |-> [deleg[d] EXCEPT !.active = d \notin S]]

Deactivate(S) ==
    deleg' = [d \in DOMAIN deleg |->
                 IF d \in S THEN [deleg[d] EXCEPT !.active = FALSE] ELSE deleg[d]]

RevokeTreeCommit(v) ==
    /\ revtx[v].pc = "commit"
    /\ Deactivate(revtx[v].rows)
    /\ revtx' = [revtx EXCEPT ![v] = NotRevoking]
    /\ UNCHANGED <<revokedAgents, now, redel>>

(* The transaction is rolled back.                                         *)
RevokeTreeAbort(v) ==
    /\ revtx[v].pc = "commit"
    /\ revtx' = [revtx EXCEPT ![v] = NotRevoking]
    /\ UNCHANGED <<deleg, revokedAgents, now, redel>>

(* DELETE .../delegations/{id} of the agent API: one row, not its subtree. *)
RevokeDelegation(d) ==
    /\ Deactivate({d})
    /\ UNCHANGED <<revokedAgents, now, redel, revtx>>

(* DELETE /agents/{id}: a status change; rows are left as they are.        *)
RevokeAgent(a) ==
    /\ a \notin revokedAgents /\ Cardinality(revokedAgents) < MaxRevoked
    /\ revokedAgents' = revokedAgents \cup {a}
    /\ UNCHANGED <<deleg, now, redel, revtx>>

Tick == /\ now < MaxTime
        /\ now' = now + 1
        /\ UNCHANGED <<deleg, revokedAgents, redel, revtx>>

(* A request that fails one of its checks, or whose client goes away.      *)
RedelegateAbort(r) ==
    /\ redel[r].pc # "idle"
    /\ redel' = [redel EXCEPT ![r] = Idle]
    /\ UNCHANGED <<deleg, revokedAgents, now, revtx>>
-----------------------------------------------------------------------------
ChainInit ==
    /\ deleg = << >>
    /\ revokedAgents = {}
    /\ now = 0
    /\ redel = [r \in Redelegators |-> Idle]
    /\ revtx = [v \in Revokers |-> NotRevoking]

RootStep ==
    /\ RootsLeft
    /\ \E user \in Users, agent \in Agents, scopes \in SUBSET Scopes,
          c \in Inputs :
          \/ \E resource \in Resources \cup {Absent}, ttl \in TTLs :
                GrantConsent(user, agent, scopes, c, resource, ttl)
          \/ \E exp \in TTLs \cup {Absent} :
                CreateDelegation(user, agent, scopes, c, exp)

RedelegateStep ==
    \E r \in Redelegators :
        \/ \E by \in Agents : RedelegateAuth(r, by)
        \/ \E p \in DOMAIN deleg, to \in Agents, scopes \in SUBSET Scopes,
              c \in Inputs, ttl \in TTLs : RedelegateRead(r, p, to, scopes, c, ttl)
        \/ RedelegateCheck(r)
        \/ RedelegateInsert(r)
        \/ RedelegateAbort(r)

RevokeTreeOpen ==
    \E v \in Revokers :
        \/ \E d \in DOMAIN deleg, user \in Users : RevokeTreeBegin(v, d, user)
        \/ RevokeTreeAbort(v)

(* The steps that touch delegation_chains, agents and the clock alone.     *)
LocalStep == \/ RootStep
             \/ RedelegateStep
             \/ RevokeTreeOpen
             \/ \E a \in Agents : RevokeAgent(a)
             \/ Tick

ChainNext == \/ LocalStep
             \/ \E v \in Revokers : RevokeTreeCommit(v)
             \/ \E d \in DOMAIN deleg : RevokeDelegation(d)

ChainSpec == ChainInit /\ [][ChainNext]_chainVars
-----------------------------------------------------------------------------
Requests == {Idle}
    \cup [pc : {"read"}, by : Agents]
    \cup [pc : {"check", "insert"}, parent : DOMAIN deleg, by : Agents,
          to : Agents, scopes : SUBSET Scopes, cnst : ConstraintSets, ttl : Nat]

(* Every row and every request is of its type; parents precede children.   *)
ChainTypeOK ==
    /\ deleg \in Seq(Rows) /\ WellParented(deleg)
    /\ revokedAgents \subseteq Agents
    /\ now \in Nat
    /\ redel \in [Redelegators -> Requests]
    /\ revtx \in [Revokers -> {NotRevoking}
          \cup [pc : {"commit"}, root : DOMAIN deleg, rows : SUBSET (DOMAIN deleg)]]

(* The depth column, which Redelegate computes from a row it read earlier, *)
(* is the number of links above the row, and it stays below the limit.     *)
StoredDepth ==
    \A d \in DOMAIN deleg :
        /\ deleg[d].depth = Cardinality(Chain(deleg, d)) - 1
        /\ deleg[d].depth < MaxDepth

(* A chain never crosses organisations: every agent on it belongs to the   *)
(* organisation recorded on every row of it.                               *)
OneTenant ==
    \A d \in DOMAIN deleg : \A l \in Chain(deleg, d) :
        orgOf[deleg[l].delegatee] = deleg[d].org

(* Tokens can be minted from row d: every link is active and unexpired.    *)
Exercisable(d) == \A l \in Chain(deleg, d) : Usable(l)

(* A chain broken by a revocation or an expiry never becomes exercisable   *)
(* again, whatever is inserted under it meanwhile (only the rows and the   *)
(* clock decide it, so only steps that change them are looked at).         *)
DeadStaysDead ==
    [][<<deleg, now>>' # <<deleg, now>> =>
          \A d \in DOMAIN deleg : ~Exercisable(d) => ~Exercisable(d)']_chainVars

(* When a tree revocation commits, nothing below its root can be exercised *)
(* any more, rows committed between its two statements included.           *)
TreeRevokeKillsSubtree ==
    [][\A v \in Revokers : RevokeTreeCommit(v) =>
          \A e \in Tree(deleg, revtx[v].root) : ~Exercisable(e)']_chainVars

(* The row a request is about to derive a child from is still what it was  *)
(* when the checks were made, even though nothing is locked: only its      *)
(* active flag and the clock can have moved.                               *)
ChecksStillHold ==
    \A r \in Redelegators : redel[r].pc \in {"check", "insert"} =>
        LET p == deleg[redel[r].parent]
        IN  /\ p.delegatee = redel[r].by
            /\ redel[r].scopes \subseteq p.scopes
            /\ p.depth + 1 < MaxDepth
            /\ redel[r].pc = "insert" =>
                  /\ orgOf[redel[r].to] = p.org
                  /\ ~agentInChain(redel[r].parent, redel[r].to)
-----------------------------------------------------------------------------
(* The chains of the table, seen as grants.                                *)
AsGrants ==
    [d \in DOMAIN deleg |->
        [delegator |-> deleg[d].delegator, delegatee |-> deleg[d].delegatee,
         scopes |-> deleg[d].scopes, cnst |-> deleg[d].cnst,
         exp |-> deleg[d].exp, parent |-> deleg[d].parent]]

StoredInputs ==
    Inputs \cup {canonicalizeConstraints(FoldResource(c, r)) :
                    c \in Inputs, r \in Resources \cup {Absent}}

StoredExpiries == {Absent} \cup TTLs \cup {t + ttl : t \in 0..MaxTime, ttl \in TTLs}

G == INSTANCE GrantChain WITH
        grants <- AsGrants, Inputs <- StoredInputs, Expiries <- StoredExpiries,
        Probes <- Actions, MaxGrants <- MaxRows

(* The table, built by concurrent requests in several unlocked queries,    *)
(* implements the atomic chain of delegation.Grant.  This is G!Spec with   *)
(* the test for a stuttering step first: most steps leave the grants alone.*)
ImplementsGrants == G!Init /\ [][AsGrants' # AsGrants => G!Next]_chainVars
=============================================================================
