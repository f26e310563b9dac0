-------------------------- MODULE GrantChainProofs --------------------------
(***************************************************************************)
(* The properties of GrantChain for every set of users, agents, scopes,    *)
(* constraint sets and expiries, every depth limit and any number of       *)
(* grants.  Each step appends one record: a user's root, or a child that   *)
(* is no wider than its parent, sits within the depth limit and goes to an *)
(* agent new to the chain (StepAppends).  The chain of the appended record *)
(* is its parent's chain and itself, and every other chain is what it was  *)
(* (AppendChains); the properties follow by comparing the new record with  *)
(* its parent alone.  What the gateway and the SDK make of a grant's token *)
(* (Enforcement) then needs no step: they only compare it with the grant.  *)
(***************************************************************************)
EXTENDS Enforcement, AlgebraProofs

(* What a link may do relative to one above it, for every action and not   *)
(* only for the probes.                                                    *)
Permits(c, d) == \A a \in Actions : Permit(c, a) => Permit(d, a)

Within(g, h) ==
    /\ g.scopes \subseteq h.scopes
    /\ ~After(g.exp, h.exp)
    /\ Permits(g.cnst, h.cnst)

Nested ==
    \A i \in DOMAIN grants : \A h \in Chain(grants, i) : Within(grants[i], grants[h])

(* What Next can append.                                                   *)
RootRecord(rec) == rec.parent = 0 /\ rec.delegator \in Users

ChildRecord(rec) ==
    /\ rec.parent \in DOMAIN grants
    /\ rec.delegator = grants[rec.parent].delegatee
    /\ Within(rec, grants[rec.parent])
    /\ WithinDepth(rec.parent)
    /\ ~HeldOnChain(rec.parent, rec.delegatee)

Appended(rec) == RootRecord(rec) \/ ChildRecord(rec)

(* The step adds rec as grant New, and nothing else changes.               *)
New == Len(grants) + 1

Grows(rec) ==
    /\ New \in Nat /\ New \notin DOMAIN grants
    /\ DOMAIN grants' = DOMAIN grants \cup {New}
    /\ grants'[New] = rec
    /\ \A i \in DOMAIN grants :
          /\ grants'[i] = grants[i]
          /\ Chain(grants', i) = Chain(grants, i)
          /\ Chain(grants, i) \subseteq DOMAIN grants
    /\ rec.parent = 0 => Chain(grants', New) = {New}
    /\ rec.parent # 0 => Chain(grants', New) = Chain(grants, rec.parent) \cup {New}

LEMMA ClampIsEarlier ==
    ASSUME NEW e \in Nat \cup {Absent}, NEW f \in Nat \cup {Absent}
    PROVE  Clamp(e, f) \in Nat \cup {Absent} /\ ~After(Clamp(e, f), f)
BY SentinelAssumption DEF Clamp, After

LEMMA WithinReflexive ==
    ASSUME NEW g \in GrantRecords
    PROVE  Within(g, g)
BY SentinelAssumption DEF Within, Permits, After, GrantRecords

LEMMA WithinTransitive ==
    ASSUME NEW g \in GrantRecords, NEW h \in GrantRecords, NEW k \in GrantRecords,
           Within(g, h), Within(h, k)
    PROVE  Within(g, k)
<1>1. g.scopes \subseteq k.scopes
  BY DEF Within
<1>2. ~After(g.exp, k.exp)
  BY SentinelAssumption DEF Within, After, GrantRecords
<1>3. Permits(g.cnst, k.cnst)
  BY DEF Within, Permits
<1> QED BY <1>1, <1>2, <1>3 DEF Within

(* Every step appends a root or a child of one of the grants.              *)
LEMMA StepAppends ==
    ASSUME TypeOK, Next
    PROVE  \E rec \in GrantRecords : Appended(rec) /\ grants' = Append(grants, rec)
<1> USE GrantAssumption
<1>1. PICK agent \in Agents, scopes \in SUBSET Scopes, c \in Inputs, e \in Expiries :
          \/ \E user \in Users : NewRootGrant(user, agent, scopes, c, e)
          \/ \E p \in DOMAIN grants : Delegate(p, agent, scopes, c, e)
  BY DEF Next
<1>2. c \in ConstraintSets /\ e \in Nat \cup {Absent}
  OBVIOUS
<1>3. ASSUME NEW user \in Users, NewRootGrant(user, agent, scopes, c, e)
      PROVE  \E rec \in GrantRecords : Appended(rec) /\ grants' = Append(grants, rec)
  <2> DEFINE rec == [delegator |-> user, delegatee |-> agent, scopes |-> scopes,
                     cnst |-> c, exp |-> e, parent |-> 0]
  <2>1. rec \in GrantRecords
    BY <1>2 DEF GrantRecords
  <2>2. Appended(rec)
    BY DEF Appended, RootRecord
  <2>3. grants' = Append(grants, rec)
    BY <1>3 DEF NewRootGrant
  <2> QED BY <2>1, <2>2, <2>3
<1>4. ASSUME NEW p \in DOMAIN grants, Delegate(p, agent, scopes, c, e)
      PROVE  \E rec \in GrantRecords : Appended(rec) /\ grants' = Append(grants, rec)
  <2> DEFINE rec == Child(p, agent, scopes, c, e)
             par == grants[p]
  <2>1. par \in GrantRecords /\ p \in Nat
    BY DEF TypeOK
  <2>2. par.cnst \in ConstraintSets /\ par.exp \in Nat \cup {Absent}
    BY <2>1 DEF GrantRecords
  <2>3. Tighten(par.cnst, c) \in ConstraintSets
    BY <1>2, <2>2, TightenType
  <2>4. Clamp(e, par.exp) \in Nat \cup {Absent} /\ ~After(Clamp(e, par.exp), par.exp)
    BY <1>2, <2>2, ClampIsEarlier
  <2>5. rec \in GrantRecords
    BY <2>1, <2>3, <2>4 DEF GrantRecords, Child
  <2>6. Permits(Tighten(par.cnst, c), par.cnst)
    BY <1>2, <2>2, TightenNarrows DEF Permits
  <2>7. Within(rec, par)
    BY <1>4, <2>4, <2>6 DEF Within, Child, Delegate, IsSubset
  <2>8. ChildRecord(rec)
    BY <1>4, <2>7 DEF ChildRecord, Child, Delegate
  <2>9. grants' = Append(grants, rec)
    BY <1>4 DEF Delegate
  <2> QED BY <2>5, <2>8, <2>9 DEF Appended
<1> QED BY <1>1, <1>3, <1>4

(* Appending keeps every grant and every chain; the new grant's chain is   *)
(* itself, or its parent's chain and itself.                               *)
LEMMA AppendChains ==
    ASSUME TypeOK, NEW rec \in GrantRecords, rec.parent \in 0..Len(grants),
           grants' = Append(grants, rec)
    PROVE  TypeOK' /\ Grows(rec)
<1>1. /\ New \in Nat /\ New # 0 /\ DOMAIN grants = 1..(New - 1)
      /\ DOMAIN grants' = 1..New /\ grants'[New] = rec
      /\ grants' \in Seq(GrantRecords)
      /\ \A i \in DOMAIN grants : grants'[i] = grants[i]
      /\ rec.parent \in 0..(New - 1)
  BY DEF TypeOK, New
<1>2. WellParented(grants')
  BY <1>1 DEF TypeOK, WellParented
<1>3. ASSUME NEW i \in DOMAIN grants
      PROVE  /\ Chain(grants', i) = Chain(grants, i)
             /\ Chain(grants, i) \subseteq DOMAIN grants
  <2>1. i \in Nat /\ 1..i \subseteq DOMAIN grants
    BY <1>1
  <2>2. \A x \in 1..i : grants'[x].parent = grants[x].parent
    BY <1>1, <2>1
  <2> QED BY <2>1, <2>2, ChainStable, ChainRange
<1>4. rec.parent = 0 => Chain(grants', New) = {New}
  BY <1>1, ChainRoot
<1>5. ASSUME rec.parent # 0
      PROVE  Chain(grants', New) = Chain(grants, rec.parent) \cup {New}
  <2>1. Chain(grants', New) = Chain(grants', grants'[New].parent) \cup {New}
    <3>1. 1..New \subseteq DOMAIN grants' /\ grants'[New].parent # 0
      BY <1>1, <1>5
    <3> QED BY <1>1, <1>2, <3>1, ChainOfChild
  <2>2. rec.parent \in DOMAIN grants
    BY <1>1, <1>5
  <2> QED BY <1>1, <1>3, <2>1, <2>2
<1> QED BY <1>1, <1>2, <1>3, <1>4, <1>5 DEF TypeOK, Grows

(* Both facts together: the shape of a step.                               *)
LEMMA StepShape ==
    ASSUME TypeOK, Next
    PROVE  TypeOK' /\ \E rec \in GrantRecords : Appended(rec) /\ Grows(rec)
<1>1. PICK rec \in GrantRecords : Appended(rec) /\ grants' = Append(grants, rec)
  BY StepAppends
<1>2. rec.parent \in 0..Len(grants)
  BY <1>1 DEF Appended, RootRecord, ChildRecord, TypeOK
<1> QED BY <1>1, <1>2, AppendChains
-----------------------------------------------------------------------------
(* The table of grants is well formed in every behaviour.                  *)
THEOREM TypeCorrect == Spec => []TypeOK
<1>1. Init => TypeOK
  BY DEF Init, TypeOK, WellParented
<1>2. TypeOK /\ [Next]_grants => TypeOK'
  <2>1. TypeOK /\ Next => TypeOK'
    BY StepShape
  <2>2. TypeOK /\ UNCHANGED grants => TypeOK'
    BY DEF TypeOK, WellParented
  <2> QED BY <2>1, <2>2
<1> QED BY <1>1, <1>2, PTL DEF Spec

(* Each grant is within all above it.                                      *)
LEMMA AlwaysNested == Spec => []Nested
<1>1. Init => Nested
  BY DEF Init, Nested
<1>2. TypeOK /\ Nested /\ [Next]_grants => Nested'
  <2> SUFFICES ASSUME TypeOK, Nested, [Next]_grants
               PROVE  Nested'
    OBVIOUS
  <2>1. CASE UNCHANGED grants
    BY <2>1 DEF Nested, Within, Permits, After
  <2>2. CASE Next
    <3>1. PICK rec \in GrantRecords : Appended(rec) /\ Grows(rec)
      BY <2>2, StepShape
    <3>2. ASSUME NEW i \in DOMAIN grants, NEW h \in Chain(grants', i)
          PROVE  Within(grants'[i], grants'[h])
      BY <3>1, <3>2 DEF Nested, Grows
    <3>3. Within(rec, rec)
      BY WithinReflexive
    <3>4. ASSUME rec.parent # 0, NEW h \in Chain(grants, rec.parent)
          PROVE  Within(rec, grants'[h])
      <4>1. rec.parent \in DOMAIN grants /\ Within(rec, grants[rec.parent])
        BY <3>1, <3>4 DEF Appended, RootRecord, ChildRecord
      <4>2. Within(grants[rec.parent], grants[h])
        BY <3>4, <4>1 DEF Nested
      <4>3. h \in DOMAIN grants
        BY <3>1, <3>4, <4>1 DEF Grows
      <4>4. grants[rec.parent] \in GrantRecords /\ grants[h] \in GrantRecords
        BY <4>1, <4>3 DEF TypeOK
      <4>5. Within(rec, grants[h])
        BY <4>1, <4>2, <4>4, WithinTransitive
      <4> QED BY <3>1, <4>3, <4>5 DEF Grows
    <3>5. ASSUME NEW h \in Chain(grants', New)
          PROVE  Within(grants'[New], grants'[h])
      BY <3>1, <3>3, <3>4, <3>5 DEF Grows
    <3>6. \A i \in DOMAIN grants' : \A h \in Chain(grants', i) :
              Within(grants'[i], grants'[h])
      BY <3>1, <3>2, <3>5 DEF Grows
    <3> QED BY <3>6 DEF Nested, Within, Permits, After
  <2> QED BY <2>1, <2>2
<1> QED BY <1>1, <1>2, TypeCorrect, PTL DEF Spec

(* Authority only narrows along a chain of any length: Delegate and        *)
(* Tighten never add a scope, a permitted action or lifetime to what any   *)
(* grant above holds.                                                      *)
THEOREM AuthorityOnlyNarrows == Spec => []AuthorityNarrows
<1>1. Nested => AuthorityNarrows
  BY GrantAssumption DEF Nested, Within, Permits, AuthorityNarrows, NoWider, AtMost
<1> QED BY <1>1, AlwaysNested, PTL

(* No agent receives authority twice on one chain.                         *)
THEOREM CycleFree == Spec => []NoCycle
<1>1. Init => NoCycle
  BY DEF Init, NoCycle
<1>2. TypeOK /\ NoCycle /\ [Next]_grants => NoCycle'
  <2> SUFFICES ASSUME TypeOK, NoCycle, [Next]_grants
               PROVE  NoCycle'
    OBVIOUS
  <2>1. CASE UNCHANGED grants
    BY <2>1 DEF NoCycle
  <2>2. CASE Next
    <3>1. PICK rec \in GrantRecords : Appended(rec) /\ Grows(rec)
      BY <2>2, StepShape
    <3>2. ASSUME NEW i \in DOMAIN grants, NEW g \in Chain(grants', i),
                 NEW h \in Chain(grants', i),
                 grants'[g].delegatee = grants'[h].delegatee
          PROVE  g = h
      BY <3>1, <3>2 DEF NoCycle, Grows
    <3>3. CASE rec.parent = 0
      BY <3>1, <3>2, <3>3 DEF NoCycle, Grows
    <3>4. CASE rec.parent # 0
      <4>1. rec.parent \in DOMAIN grants /\ ~HeldOnChain(rec.parent, rec.delegatee)
        BY <3>1, <3>4 DEF Appended, RootRecord, ChildRecord
      <4>2. \A g \in Chain(grants, rec.parent) :
                g \in DOMAIN grants /\ grants'[g].delegatee # grants'[New].delegatee
        BY <3>1, <4>1 DEF HeldOnChain, Grows
      <4>3. ASSUME NEW g \in Chain(grants', New), NEW h \in Chain(grants', New),
                   grants'[g].delegatee = grants'[h].delegatee
            PROVE  g = h
        <5>1. CASE g = New \/ h = New
          BY <3>1, <3>4, <4>2, <4>3, <5>1 DEF Grows
        <5>2. CASE g # New /\ h # New
          <6>1. g \in Chain(grants', rec.parent) /\ h \in Chain(grants', rec.parent)
            BY <3>1, <3>4, <4>1, <4>3, <5>2 DEF Grows
          <6> QED BY <3>2, <4>1, <4>3, <6>1
        <5> QED BY <5>1, <5>2
      <4> QED BY <3>1, <3>2, <4>3 DEF NoCycle, Grows
    <3> QED BY <3>3, <3>4
  <2> QED BY <2>1, <2>2
<1> QED BY <1>1, <1>2, TypeCorrect, PTL DEF Spec

(* No chain has more than MaxDepth links.                                  *)
THEOREM DepthLimited == Spec => []DepthBounded
<1>1. Init => DepthBounded
  BY DEF Init, DepthBounded
<1>2. TypeOK /\ DepthBounded /\ [Next]_grants => DepthBounded'
  <2> SUFFICES ASSUME TypeOK, DepthBounded, [Next]_grants
               PROVE  DepthBounded'
    OBVIOUS
  <2>1. CASE UNCHANGED grants
    BY <2>1 DEF DepthBounded, depth
  <2>2. CASE Next
    <3>1. PICK rec \in GrantRecords : Appended(rec) /\ Grows(rec)
      BY <2>2, StepShape
    <3>2. ASSUME NEW i \in DOMAIN grants
          PROVE  Cardinality(Chain(grants', i)) - 1 < MaxDepth
      BY <3>1 DEF DepthBounded, depth, Grows
    <3>3. Cardinality(Chain(grants', New)) - 1 < MaxDepth
      <4>1. CASE rec.parent = 0
        <5>1. Cardinality({New}) = 1
          BY FS_Singleton
        <5> QED BY <3>1, <4>1, <5>1, GrantAssumption DEF Grows
      <4>2. CASE rec.parent # 0
        <5>1. rec.parent \in DOMAIN grants /\ WithinDepth(rec.parent)
          BY <3>1, <4>2 DEF Appended, RootRecord, ChildRecord
        <5>2. rec.parent \in Nat /\ rec.parent # 0
          BY <4>2, <5>1 DEF TypeOK
        <5>3. /\ IsFiniteSet(Chain(grants, rec.parent))
              /\ New \notin Chain(grants, rec.parent)
          BY <3>1, <5>1, <5>2, ChainFinite DEF Grows
        <5>4. /\ Cardinality(Chain(grants', New))
                    = Cardinality(Chain(grants, rec.parent)) + 1
              /\ Cardinality(Chain(grants, rec.parent)) \in Nat
          BY <3>1, <4>2, <5>3, FS_AddElement, FS_CardinalityType DEF Grows
        <5> QED BY <5>1, <5>4, GrantAssumption DEF WithinDepth, depth
      <4> QED BY <4>1, <4>2
    <3> QED BY <3>1, <3>2, <3>3 DEF DepthBounded, depth, Grows
  <2> QED BY <2>1, <2>2
<1> QED BY <1>1, <1>2, TypeCorrect, PTL DEF Spec

(* A chain has one root, a user's, and each later link is handed on by     *)
(* whoever received the link above.                                        *)
THEOREM ProvenanceNeverBroken == Spec => []ProvenanceUnbroken
<1>1. Init => ProvenanceUnbroken
  BY DEF Init, ProvenanceUnbroken
<1>2. TypeOK /\ ProvenanceUnbroken /\ [Next]_grants => ProvenanceUnbroken'
  <2> SUFFICES ASSUME TypeOK, ProvenanceUnbroken, [Next]_grants
               PROVE  ProvenanceUnbroken'
    OBVIOUS
  <2>1. CASE UNCHANGED grants
    BY <2>1 DEF ProvenanceUnbroken
  <2>2. CASE Next
    <3>1. PICK rec \in GrantRecords : Appended(rec) /\ Grows(rec)
      BY <2>2, StepShape
    <3> DEFINE OneRoot(i) ==
                 \E r \in Chain(grants', i) :
                    /\ grants'[r].parent = 0 /\ grants'[r].delegator \in Users
                    /\ \A h \in Chain(grants', i) : grants'[h].parent = 0 => h = r
               HandedOn(i) ==
                 \A h \in Chain(grants', i) : grants'[h].parent # 0 =>
                    /\ grants'[h].parent \in Chain(grants', i)
                    /\ grants'[h].delegator = grants'[grants'[h].parent].delegatee
    <3>2. ASSUME NEW i \in DOMAIN grants
          PROVE  OneRoot(i) /\ HandedOn(i)
      <4>1. \A h \in Chain(grants', i) :
                h \in Chain(grants, i) /\ h \in DOMAIN grants /\ grants'[h] = grants[h]
        BY <3>1 DEF Grows
      <4>2. Chain(grants', i) = Chain(grants, i)
        BY <3>1 DEF Grows
      <4>3. PICK r \in Chain(grants, i) :
               /\ grants[r].parent = 0 /\ grants[r].delegator \in Users
               /\ \A h \in Chain(grants, i) : grants[h].parent = 0 => h = r
        BY DEF ProvenanceUnbroken
      <4>4. \A h \in Chain(grants, i) : grants[h].parent # 0 =>
               /\ grants[h].parent \in Chain(grants, i)
               /\ grants[h].delegator = grants[grants[h].parent].delegatee
        BY DEF ProvenanceUnbroken
      <4>5. OneRoot(i)
        BY <4>1, <4>2, <4>3
      <4>6. HandedOn(i)
        BY <4>1, <4>2, <4>4
      <4> QED BY <4>5, <4>6
    <3>3. CASE rec.parent = 0
      <4>1. Chain(grants', New) = {New} /\ rec.delegator \in Users
        BY <3>1, <3>3 DEF Appended, RootRecord, ChildRecord, Grows, TypeOK
      <4>2. OneRoot(New) /\ HandedOn(New)
        BY <3>1, <3>3, <4>1 DEF Grows
      <4> QED BY <3>1, <3>2, <4>2 DEF ProvenanceUnbroken, Grows
    <3>4. CASE rec.parent # 0
      <4>1. /\ rec.parent \in DOMAIN grants
            /\ rec.delegator = grants[rec.parent].delegatee
        BY <3>1, <3>4 DEF Appended, RootRecord, ChildRecord
      <4>2. Chain(grants', New) = Chain(grants', rec.parent) \cup {New}
        BY <3>1, <3>4, <4>1 DEF Grows
      <4>3. OneRoot(rec.parent) /\ HandedOn(rec.parent)
        BY <3>2, <4>1
      <4>4. rec.parent \in Chain(grants', rec.parent)
        BY <3>4, <4>1, ChainSelf DEF TypeOK
      <4>5. grants'[New] = rec /\ grants'[rec.parent] = grants[rec.parent]
        BY <3>1, <4>1 DEF Grows
      <4>6. OneRoot(New)
        BY <3>4, <4>2, <4>3, <4>5
      <4>7. HandedOn(New)
        BY <4>1, <4>2, <4>3, <4>4, <4>5
      <4> QED BY <3>1, <3>2, <4>6, <4>7 DEF ProvenanceUnbroken, Grows
    <3> QED BY <3>3, <3>4
  <2> QED BY <2>1, <2>2
<1> QED BY <1>1, <1>2, TypeCorrect, PTL DEF Spec

(* A grant, once made, is never altered.                                   *)
THEOREM GrantsNeverChange == Spec => GrantsImmutable
<1> DEFINE Kept == \A i \in DOMAIN grants : i \in DOMAIN grants' /\ grants'[i] = grants[i]
<1>1. TypeOK /\ [Next]_grants => [Kept]_grants
  <2>1. TypeOK /\ Next => Kept
    BY StepShape DEF Grows
  <2> QED BY <2>1
<1> QED BY <1>1, TypeCorrect, PTL DEF Spec, GrantsImmutable
-----------------------------------------------------------------------------
(* What the gateway hands on.                                              *)

(* A token reaches an upstream only for a request whose own token is meant *)
(* for it and has not expired, and is minted from that token.              *)
LEMMA HandedOn ==
    ASSUME NEW up, NEW r, r.active, r.body = "object",
           r.method \in {"tools/call", "tools/list"}, handle(up, r).token # Absent
    PROVE  /\ Verify(r.token, up.inboundAudience, r.now)
           /\ \/ /\ r.method = "tools/call"
                 /\ ToolAllowed(up, r.token, r.tool, r.at)
                 /\ handle(up, r).token =
                      mint(up, r.token, {up.toolScopes[r.tool]},
                           downstreamConstraints(r.token.cnst, r.tool), r.now)
              \/ /\ r.method = "tools/list"
                 /\ handle(up, r).token =
                      mint(up, r.token, r.token.scopes, discoveryConstraints(r.token.cnst), r.now)
<1>1. \A status : Refuse(status).token = Absent
  BY DEF Refuse
<1>2. \A t, answer : Forward(t, answer).token = t
  BY DEF Forward
<1>3. r.token # Absent /\ Verify(r.token, up.inboundAudience, r.now)
  BY <1>1 DEF handle
<1>4. CASE r.method = "tools/call"
  <2>1. ToolAllowed(up, r.token, r.tool, r.at)
    BY <1>1, <1>3, <1>4 DEF handle
  <2>2. handle(up, r) = Forward(mint(up, r.token, {up.toolScopes[r.tool]},
                                     downstreamConstraints(r.token.cnst, r.tool), r.now), r.answer)
    BY <1>3, <1>4, <2>1 DEF handle
  <2> QED BY <1>2, <1>3, <1>4, <2>1, <2>2
<1>5. CASE r.method = "tools/list"
  <2> DEFINE t == mint(up, r.token, r.token.scopes, discoveryConstraints(r.token.cnst), r.now)
             shown == filterToolsList(up, r.token, r.answer, r.at)
  <2>1. handle(up, r) = handleNonToolCall(up, r)
    BY <1>3, <1>5 DEF handle
  <2>2. ~isPassthrough(r.method)
    BY <1>5 DEF isPassthrough
  <2>3. handleNonToolCall(up, r) = IF shown = Absent THEN [Refuse(502) EXCEPT !.token = t]
                                   ELSE Forward(t, shown)
    BY <1>5, <2>2 DEF handleNonToolCall
  <2>4. [Refuse(502) EXCEPT !.token = t].token = t
    BY DEF Refuse
  <2> QED BY <1>2, <1>3, <1>5, <2>1, <2>3, <2>4
<1> QED BY <1>4, <1>5

(* The action that a holder is judged by when the list of resources gives  *)
(* way to the audience.                                                    *)
Bound(a, aud) == [a EXCEPT !.value["resources"] = aud]

LEMMA BoundAction ==
    ASSUME NEW a \in Actions, NEW aud \in Values
    PROVE  /\ Bound(a, aud) \in Actions
           /\ Bound(a, aud).amount = a.amount /\ Bound(a, aud).at = a.at
           /\ Bound(a, aud).value["resources"] = aud
           /\ \A d \in Dims \ {"resources"} : Bound(a, aud).value[d] = a.value[d]
BY DEF Bound, Actions, Dims

(* What the SDK allows the holder of a token minted from constraints c,    *)
(* which allow audience aud, c permits with that audience: with the list   *)
(* of resources dropped, and with the tools narrowed to an allowed one.    *)
LEMMA MintedPermits ==
    ASSUME NEW c \in ConstraintSets, NEW a \in Actions, NEW aud \in Values,
           c.allow["resources"] # {} => aud \in c.allow["resources"],
           NEW minted, NEW tool \in Values,
           \/ minted = discoveryConstraints(c)
           \/ minted = downstreamConstraints(c, tool) /\ permitList(c.allow["tools"], tool),
           NEW claims, NEW scope, claims.cnst = minted, SDKAuthorize(claims, scope, a)
    PROVE  /\ Permit(c, Bound(a, aud))
           /\ minted = downstreamConstraints(c, tool) => a.value["tools"] \in {tool, Absent}
<1>1. /\ c # Absent /\ c.allow \in [Dims -> AllowLists]
      /\ {"categories", "tools", "resources"} = Dims
  BY EnforcementAssumption DEF ConstraintSets, Dims
<1>0. /\ "categories" \in Dims /\ "tools" \in Dims /\ "resources" \in Dims
      /\ "categories" # "tools" /\ "categories" # "resources" /\ "tools" # "resources"
      /\ {} \in AllowLists /\ {tool} \in AllowLists
  BY DEF Dims, AllowLists
<1>2. ASSUME minted = discoveryConstraints(c)
      PROVE  /\ minted \in ConstraintSets
             /\ minted.maxAmount = c.maxAmount /\ minted.window = c.window
             /\ minted.allow["categories"] = c.allow["categories"]
             /\ minted.allow["tools"] = c.allow["tools"]
  <2> DEFINE f == [c.allow EXCEPT !["resources"] = {}]
  <2>1. minted = [c EXCEPT !.allow = f]
    BY <1>1, <1>2 DEF discoveryConstraints
  <2>2. /\ f \in [Dims -> AllowLists]
        /\ f["categories"] = c.allow["categories"] /\ f["tools"] = c.allow["tools"]
    BY <1>1, <1>0
  <2> HIDE DEF f
  <2> QED BY <2>1, <2>2 DEF ConstraintSets
<1>3. ASSUME minted = downstreamConstraints(c, tool)
      PROVE  /\ minted \in ConstraintSets
             /\ minted.maxAmount = c.maxAmount /\ minted.window = c.window
             /\ minted.allow["categories"] = c.allow["categories"]
             /\ minted.allow["tools"] = {tool}
  <2> DEFINE f == [c.allow EXCEPT !["tools"] = {tool}, !["resources"] = {}]
  <2>1. minted = [c EXCEPT !.allow = f]
    BY <1>1, <1>3 DEF downstreamConstraints
  <2>2. /\ f \in [Dims -> AllowLists]
        /\ f["categories"] = c.allow["categories"] /\ f["tools"] = {tool}
    BY <1>1, <1>0
  <2> HIDE DEF f
  <2> QED BY <2>1, <2>2 DEF ConstraintSets
<1>4. minted \in ConstraintSets /\ minted.maxAmount = c.maxAmount /\ minted.window = c.window
      /\ minted.allow["categories"] = c.allow["categories"]
      /\ \/ minted.allow["tools"] = c.allow["tools"]
         \/ minted.allow["tools"] = {tool} /\ permitList(c.allow["tools"], tool)
  BY <1>2, <1>3
<1>5. minted # Absent
  BY <1>4, EnforcementAssumption
<1>6. /\ permitAmount(c.maxAmount, a.amount) /\ permitWindow(c.window, a.at)
      /\ permitList(c.allow["categories"], a.value["categories"])
      /\ permitList(minted.allow["tools"], a.value["tools"])
  BY <1>1, <1>4, <1>5 DEF SDKAuthorize, SDKPermitList
<1>7. permitList(c.allow["tools"], a.value["tools"])
  BY <1>4, <1>6 DEF permitList
<1>8. permitList(c.allow["resources"], aud)
  BY <1>1, SentinelAssumption DEF permitList, AllowLists
<1>9. Permit(c, Bound(a, aud))
  BY <1>1, <1>6, <1>7, <1>8, BoundAction DEF Permit, Dims
<1>10. minted = downstreamConstraints(c, tool) => a.value["tools"] \in {tool, Absent}
  BY <1>3, <1>6 DEF permitList
<1> QED BY <1>9, <1>10

LEMMA ReversedTwice ==
    ASSUME NEW n \in Nat, NEW s, s = [k \in 1..n |-> s[k]]
    PROVE  Reverse(Reverse(s)) = s
<1> DEFINE X == {s[k] : k \in 1..n}
<1>1. \A k \in 1..n : n + 1 - k \in 1..n /\ n + 1 - (n + 1 - k) = k
  OBVIOUS
<1>2. \A k \in 1..n : s[k] \in X
  OBVIOUS
<1> HIDE DEF X
<1>3. s \in Seq(X) /\ Len(s) = n /\ DOMAIN s = 1..n
  BY <1>2
<1>4. PICK t : t = [k \in 1..n |-> s[n + 1 - k]]
  OBVIOUS
<1>5. Reverse(s) = t
  BY <1>3, <1>4 DEF Reverse
<1>6. \A k \in 1..n : t[k] \in X
  BY <1>1, <1>2, <1>4
<1>7. t \in Seq(X) /\ Len(t) = n /\ DOMAIN t = 1..n
  <2>1. t \in [1..n -> X]
    BY <1>4, <1>6
  <2> QED BY <2>1
<1>8. Reverse(t) = [k \in 1..n |-> t[n + 1 - k]]
  BY <1>7 DEF Reverse
<1>9. \A k \in 1..n : t[n + 1 - k] = s[k]
  BY <1>1, <1>4
<1> QED BY <1>5, <1>8, <1>9

(* The token an upstream receives reaches no further than the delegation   *)
(* it stems from, for every chain, upstream, tool and action: what the     *)
(* resource server lets its holder do, every grant above permits with the  *)
(* audience the inbound token was bound to (mint, downstreamConstraints,   *)
(* Verifier.Authorize).                                                    *)
THEOREM DownstreamOnlyNarrows == Spec => []DownstreamNarrows
<1>1. ASSUME TypeOK, Nested PROVE DownstreamNarrows
  <2> SUFFICES ASSUME NEW i \in {Len(grants)} \ {0}, NEW aud \in Audiences,
                      CanIssue(i, Scopes, aud), NEW up \in Upstreams,
                      NEW method \in {"tools/call", "tools/list"}, NEW tool \in ToolNames,
                      NEW d \in Downstream(i, up, aud, method, tool)
               PROVE  /\ aud = up.inboundAudience
                      /\ d.sub = RootDelegator(i) /\ Reverse(d.act) = ActorChainRootToLeaf(i)
                      /\ \A a \in Probes, scope \in Scopes, later \in Nows :
                            Respond(d, up.resourceID, Absent, scope, a, later) = 200 =>
                               /\ Licensed(i, aud, scope, a, later)
                               /\ method = "tools/call" =>
                                     /\ a.value["tools"] \in {tool, Absent}
                                     /\ scope = up.toolScopes[tool]
    BY DEF DownstreamNarrows
  <2> DEFINE T == IssueForGrant(i, Scopes, aud)
             c == grants[i].cnst
  <2>1. /\ i \in DOMAIN grants /\ i \in Nat /\ grants[i] \in GrantRecords
        /\ c \in ConstraintSets /\ grants[i].exp \in Nat
    <3>1. i = Len(grants) /\ i # 0 /\ grants \in Seq(GrantRecords)
      BY <1>1 DEF TypeOK
    <3>2. i \in DOMAIN grants /\ i \in Nat /\ grants[i] \in GrantRecords
      BY <3>1
    <3> QED BY <3>2 DEF GrantRecords, CanIssue
  <2>2. /\ aud \in Values /\ tool \in Values /\ DownstreamTTL \in Nat /\ Nows \subseteq Nat
        /\ Probes \subseteq Actions
    BY EnforcementAssumption, GrantAssumption
  <2>3. /\ T.sub = RootDelegator(i) /\ T.act = Reverse(ActorChainRootToLeaf(i))
        /\ T.scopes \subseteq grants[i].scopes /\ T.aud = aud /\ T.cnst = c
        /\ T.exp = grants[i].exp
    BY DEF IssueForGrant, IssueClaims, Attenuate
  <2>4. c.allow["resources"] # {} => aud \in c.allow["resources"]
    BY DEF CanIssue
  <2>5. Reverse(T.act) = ActorChainRootToLeaf(i)
    <3>1. depth(i) + 1 \in Nat
      BY <1>1, <2>1, ChainCardinalityType DEF depth
    <3> DEFINE s == ActorChainRootToLeaf(i)
    <3>2. s = [k \in 1..(depth(i) + 1) |-> s[k]]
      BY DEF ActorChainRootToLeaf
    <3>3. T.act = Reverse(s)
      BY <2>3
    <3>4. SUFFICES Reverse(T.act) = s
      OBVIOUS
    <3> HIDE DEF s
    <3> QED BY <3>3, <3>1, <3>2, ReversedTwice
  <2> HIDE DEF T
  <2>6. PICK r \in CallsWith(i, aud, method, tool) : d = handle(up, r).token /\ d # Absent
    BY DEF Downstream
  <2>7. PICK now \in Nows, at \in Instants :
           /\ r.token = T /\ r.active /\ r.body = "object" /\ r.method = method
           /\ r.tool = tool /\ r.now = now /\ r.at = at
    BY DEF CallsWith, T
  <2>8. PICK scopes, minted :
           /\ d = mint(up, T, scopes, minted, now)
           /\ \/ /\ method = "tools/call" /\ ToolAllowed(up, T, tool, at)
                 /\ scopes = {up.toolScopes[tool]} /\ minted = downstreamConstraints(c, tool)
              \/ /\ method = "tools/list" /\ scopes = T.scopes
                 /\ minted = discoveryConstraints(c)
    <3>1. \/ /\ method = "tools/call" /\ ToolAllowed(up, T, tool, at)
             /\ d = mint(up, T, {up.toolScopes[tool]}, downstreamConstraints(T.cnst, tool), now)
          \/ /\ method = "tools/list"
             /\ d = mint(up, T, T.scopes, discoveryConstraints(T.cnst), now)
      BY <2>6, <2>7, HandedOn
    <3> QED BY <2>3, <3>1
  <2>9. aud = up.inboundAudience
    BY <2>3, <2>6, <2>7, HandedOn DEF Verify
  <2>10. /\ d.sub = T.sub /\ d.act = T.act /\ d.scopes = scopes /\ d.cnst = minted
         /\ d.exp = Clamp(now + DownstreamTTL, grants[i].exp)
    BY <2>3, <2>8 DEF mint, IssueClaims
  <2>11. scopes \subseteq grants[i].scopes
    BY <2>3, <2>8 DEF ToolAllowed, Authorize
  <2>12. method = "tools/call" => permitList(c.allow["tools"], tool)
    <3>1. SUFFICES ASSUME method = "tools/call" PROVE permitList(c.allow["tools"], tool)
      OBVIOUS
    <3>2. Permit(c, ToolAction(tool, at))
      BY <2>1, <2>3, <2>8, <3>1, EnforcementAssumption DEF ToolAllowed, Authorize
    <3>3. ToolAction(tool, at).value["tools"] = tool /\ "tools" \in Dims
      BY DEF ToolAction, NoValue, Dims
    <3> QED BY <3>2, <3>3 DEF Permit
  <2>13. ASSUME NEW a \in Probes, NEW scope \in Scopes, NEW later \in Nows,
                Respond(d, up.resourceID, Absent, scope, a, later) = 200
         PROVE  /\ Licensed(i, aud, scope, a, later)
                /\ method = "tools/call" => /\ a.value["tools"] \in {tool, Absent}
                                            /\ scope = up.toolScopes[tool]
    <3>1. SDKVerify(d, up.resourceID, Absent, later) /\ SDKAuthorize(d, scope, a)
      BY <2>6, <2>13 DEF Respond
    <3>2. later < grants[i].exp
      <4>1. later < Clamp(now + DownstreamTTL, grants[i].exp)
        BY <2>10, <3>1 DEF SDKVerify, VerifyAny
      <4> QED BY <2>1, <2>2, <4>1, SentinelAssumption DEF Clamp, After
    <3>3. scope \in scopes
      BY <2>10, <3>1 DEF SDKAuthorize
    <3>4. /\ Permit(c, Bound(a, aud))
          /\ minted = downstreamConstraints(c, tool) => a.value["tools"] \in {tool, Absent}
      BY <2>1, <2>2, <2>4, <2>8, <2>10, <2>12, <3>1, MintedPermits
    <3>5. Bound(a, aud) \in Actions
      BY <2>2, BoundAction
    <3>6. ASSUME NEW g \in Chain(grants, i)
          PROVE  /\ scope \in grants[g].scopes
                 /\ Permit(grants[g].cnst, Bound(a, aud))
                 /\ grants[g].exp # Absent => later < grants[g].exp
      <4>1. Within(grants[i], grants[g])
        BY <1>1, <2>1 DEF Nested
      <4>2. g \in DOMAIN grants /\ grants[g].exp \in Nat \cup {Absent}
        <5>1. g \in 1..i /\ i = Len(grants) /\ grants \in Seq(GrantRecords)
          BY <1>1, <2>1, ChainRange DEF TypeOK
        <5>2. g \in DOMAIN grants /\ grants[g] \in GrantRecords
          BY <2>1, <5>1
        <5> QED BY <5>2 DEF GrantRecords
      <4>3. Permit(grants[g].cnst, Bound(a, aud))
        BY <3>4, <3>5, <4>1 DEF Within, Permits
      <4>4. grants[g].exp # Absent => later < grants[g].exp
        <5>1. ~After(grants[i].exp, grants[g].exp)
          BY <4>1 DEF Within
        <5>2. \A e, f, x \in Nat : x < e /\ ~(e > f) => x < f
          OBVIOUS
        <5>3. later \in Nat
          BY <2>2
        <5> QED BY <2>1, <3>2, <4>2, <5>1, <5>2, <5>3 DEF After
      <4> QED BY <2>11, <3>3, <4>1, <4>3, <4>4 DEF Within
    <3>7. Licensed(i, aud, scope, a, later)
      BY <3>6 DEF Licensed, Bound
    <3> QED BY <2>8, <3>3, <3>4, <3>7
  <2> QED BY <2>3, <2>5, <2>9, <2>10, <2>13
<1> QED BY <1>1, TypeCorrect, AlwaysNested, PTL
=============================================================================
