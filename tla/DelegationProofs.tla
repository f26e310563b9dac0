--------------------------- MODULE DelegationProofs ---------------------------
(***************************************************************************)
(* What the delegation chains, the exchange and the revocation paths       *)
(* guarantee for any number of concurrent requests.                        *)
(*                                                                         *)
(* First the table delegation_chains.  A step appends one row (a root, or  *)
(* a child of a row the request checked earlier) or deactivates some; what *)
(* a request read earlier still holds, since no step changes the rest of a *)
(* row (Keeps).                                                            *)
(*                                                                         *)
(* Then the tokens.  Every step of the exchange is one of DelegationChains *)
(* or leaves its variables alone, so that what is proved there holds here  *)
(* (AlwaysSteady).  The invariant has three parts: what an exchange knows  *)
(* of its chain at each stage (Known), what a recorded token owes to its   *)
(* row (Recorded), and what an open tree revocation has in hand (Doomed).  *)
(***************************************************************************)
EXTENDS TokenExchange, AlgebraProofs, SequenceTheorems, WellFoundedInduction

New == Len(deleg) + 1

(* Rows stay, and only their active flag changes, from TRUE to FALSE.      *)
Keeps ==
    /\ DOMAIN deleg \subseteq DOMAIN deleg'
    /\ \A d \in DOMAIN deleg :
          /\ deleg'[d].delegatorType = deleg[d].delegatorType
          /\ deleg'[d].delegator = deleg[d].delegator
          /\ deleg'[d].delegatee = deleg[d].delegatee
          /\ deleg'[d].scopes = deleg[d].scopes
          /\ deleg'[d].cnst = deleg[d].cnst
          /\ deleg'[d].parent = deleg[d].parent
          /\ deleg'[d].depth = deleg[d].depth
          /\ deleg'[d].org = deleg[d].org
          /\ deleg'[d].exp = deleg[d].exp
          /\ deleg'[d].active => deleg[d].active

Typed == deleg \in Seq(Rows) /\ WellParented(deleg)

RootOf(row) == /\ row.parent = 0 /\ row.depth = 0
               /\ row.delegator \in Users /\ row.org = orgOf[row.delegatee]

(* A row permits no more than another, as far as a token's claims go.      *)
Within(row, above) ==
    /\ row.scopes \subseteq above.scopes /\ ~G!After(row.exp, above.exp)
    /\ \A v : permitList(row.cnst.allow["resources"], v)
                => permitList(above.cnst.allow["resources"], v)

ChildOf(row) ==
    LET p == row.parent
    IN  /\ p \in DOMAIN deleg
        /\ row.delegator = deleg[p].delegatee /\ Within(row, deleg[p])
        /\ row.depth = deleg[p].depth + 1 /\ row.depth < MaxDepth
        /\ row.org = deleg[p].org /\ row.org = orgOf[row.delegatee]
        /\ ~agentInChain(p, row.delegatee)

(* The step adds row, and nothing else changes in the table.               *)
Grows(row) ==
    /\ New \in Nat \ {0} /\ New \notin DOMAIN deleg
    /\ DOMAIN deleg' = DOMAIN deleg \cup {New} /\ deleg'[New] = row
    /\ \A d \in DOMAIN deleg : deleg'[d] = deleg[d]
    /\ row.parent = 0 => Chain(deleg', New) = {New}
    /\ row.parent # 0 => /\ Chain(deleg', New) = Chain(deleg, row.parent) \cup {New}
                         /\ New \notin Chain(deleg, row.parent)

LEMMA TableTyped ==
    ASSUME Typed
    PROVE  /\ Len(deleg) \in Nat /\ DOMAIN deleg = 1..Len(deleg)
           /\ \A d \in DOMAIN deleg :
                 /\ deleg[d] \in Rows /\ d \in Nat \ {0} /\ 1..d \subseteq DOMAIN deleg
                 /\ deleg[d].parent \in 0..(d - 1)
<1>1. Len(deleg) \in Nat /\ DOMAIN deleg = 1..Len(deleg)
  BY LenProperties DEF Typed
<1>2. \A d \in DOMAIN deleg : deleg[d] \in Rows
  BY <1>1, ElementOfSeq DEF Typed
<1> QED BY <1>1, <1>2 DEF Typed, WellParented

LEMMA KeptChains ==
    ASSUME Typed, Keeps, NEW d \in DOMAIN deleg
    PROVE  Chain(deleg', d) = Chain(deleg, d) /\ Chain(deleg, d) \subseteq DOMAIN deleg
           /\ d \in Chain(deleg, d)
<1>1. d \in Nat \ {0} /\ 1..d \subseteq DOMAIN deleg
  BY TableTyped
<1>2. \A x \in 1..d : deleg'[x].parent = deleg[x].parent
  BY <1>1 DEF Keeps
<1> QED BY <1>1, <1>2, ChainStable, ChainRange, ChainSelf

LEMMA AppendRow ==
    ASSUME Typed, NEW row \in Rows, row.parent \in 0..Len(deleg),
           deleg' = Append(deleg, row)
    PROVE  Typed' /\ Keeps /\ Grows(row)
<1>1. Len(deleg) \in Nat /\ DOMAIN deleg = 1..Len(deleg) /\ deleg \in Seq(Rows)
  BY TableTyped DEF Typed
<1>2. /\ deleg' \in Seq(Rows) /\ Len(deleg') = New
      /\ deleg'[New] = row /\ \A d \in 1..Len(deleg) : deleg'[d] = deleg[d]
  BY <1>1, AppendProperties DEF New
<1>3. /\ New \in Nat \ {0} /\ New \notin DOMAIN deleg
      /\ DOMAIN deleg' = 1..New /\ DOMAIN deleg' = DOMAIN deleg \cup {New}
  <2>1. DOMAIN deleg' = 1..New
    BY <1>2, LenProperties
  <2> QED BY <1>1, <2>1 DEF New
<1>4. Typed'
  <2>1. \A d \in DOMAIN deleg : deleg'[d].parent \in 0..(d - 1)
    BY <1>1, <1>2, TableTyped
  <2>2. deleg'[New].parent \in 0..(New - 1)
    BY <1>1, <1>2 DEF New
  <2> QED BY <1>2, <1>3, <2>1, <2>2 DEF Typed, WellParented
<1>5. Keeps
  BY <1>1, <1>2, <1>3 DEF Keeps
<1>6. row.parent = 0 => Chain(deleg', New) = {New}
  BY <1>2, <1>3, ChainRoot
<1>7. ASSUME row.parent # 0
      PROVE  /\ Chain(deleg', New) = Chain(deleg, row.parent) \cup {New}
             /\ New \notin Chain(deleg, row.parent)
  <2>1. row.parent \in DOMAIN deleg
    BY <1>1, <1>7
  <2>2. WellParented(deleg') /\ 1..New \subseteq DOMAIN deleg' /\ deleg'[New].parent # 0
    BY <1>2, <1>3, <1>4, <1>7 DEF Typed
  <2>3. /\ Chain(deleg', New) = Chain(deleg', deleg'[New].parent) \cup {New}
        /\ New \notin Chain(deleg', deleg'[New].parent)
    BY <1>3, <2>2, ChainOfChild
  <2>4. Chain(deleg', row.parent) = Chain(deleg, row.parent)
    BY <1>5, <2>1, KeptChains
  <2> QED BY <1>2, <2>3, <2>4
<1> QED BY <1>1, <1>2, <1>3, <1>4, <1>5, <1>6, <1>7 DEF Grows

LEMMA DeactivateRows ==
    ASSUME Typed, NEW S, Deactivate(S)
    PROVE  /\ Typed' /\ Keeps /\ DOMAIN deleg' = DOMAIN deleg
           /\ \A d \in S \cap DOMAIN deleg : ~deleg'[d].active
<1>1. Len(deleg) \in Nat /\ DOMAIN deleg = 1..Len(deleg)
  BY TableTyped
<1>2. DOMAIN deleg' = DOMAIN deleg
  BY DEF Deactivate
<1>3. \A d \in DOMAIN deleg :
         deleg'[d] = IF d \in S THEN [deleg[d] EXCEPT !.active = FALSE] ELSE deleg[d]
  BY DEF Deactivate
<1>4. \A d \in DOMAIN deleg : deleg[d] \in Rows
  BY TableTyped
<1>5. \A d \in DOMAIN deleg : deleg'[d] \in Rows
  <2> SUFFICES ASSUME NEW d \in DOMAIN deleg PROVE deleg'[d] \in Rows
    OBVIOUS
  <2>1. deleg[d] \in Rows
    BY <1>4
  <2>2. [deleg[d] EXCEPT !.active = FALSE] \in Rows
    BY <2>1 DEF Rows
  <2> QED BY <1>3, <2>1, <2>2
<1>6. Keeps
  BY <1>2, <1>3, <1>4 DEF Keeps, Rows
<1>7. deleg' \in Seq(Rows)
  <2>1. deleg' \in [1..Len(deleg) -> Rows]
    BY <1>1, <1>2, <1>5 DEF Deactivate
  <2> QED BY <1>1, <2>1, SeqDef
<1>8. Typed'
  BY <1>1, <1>2, <1>6, <1>7, TableTyped DEF Typed, WellParented, Keeps
<1>9. \A d \in S \cap DOMAIN deleg : ~deleg'[d].active
  BY <1>3, <1>4 DEF Rows
<1> QED BY <1>2, <1>6, <1>8, <1>9
-----------------------------------------------------------------------------
(* The typed inputs.                                                       *)
LEMMA CanonicalTyped ==
    ASSUME NEW c \in Inputs, NEW r \in Resources \cup {Absent}
    PROVE  /\ c \in ConstraintSets
           /\ FoldResource(c, r) \in ConstraintSets
           /\ canonicalizeConstraints(FoldResource(c, r)) \in ConstraintSets
           /\ canonicalizeConstraints(c) \in ConstraintSets
           /\ {canonicalizeConstraints(c), canonicalizeConstraints(FoldResource(c, r))}
                  \subseteq StoredInputs
<1>1. c \in ConstraintSets /\ c.allow["resources"] \subseteq Resources
  BY ChainsAssumption
<1>2. \A S \in SUBSET Resources :
         S \in AllowLists /\ {CanonicalizeResource(x) : x \in S} \in SUBSET Resources
  BY ChainsAssumption DEF AllowLists
<1>3. ASSUME NEW k \in ConstraintSets, NEW S \in AllowLists
      PROVE  [k EXCEPT !.allow["resources"] = S] \in ConstraintSets
             /\ [k EXCEPT !.allow["resources"] = S].allow["resources"] = S
  <2>1. k.allow \in [Dims -> AllowLists] /\ "resources" \in Dims
    BY DEF ConstraintSets, Dims
  <2>2. [k.allow EXCEPT !["resources"] = S] \in [Dims -> AllowLists]
        /\ [k.allow EXCEPT !["resources"] = S]["resources"] = S
    BY <2>1
  <2> DEFINE a == [k.allow EXCEPT !["resources"] = S]
  <2> HIDE DEF a
  <2>3. [k EXCEPT !.allow = a] \in ConstraintSets /\ [k EXCEPT !.allow = a].allow = a
    BY <2>2 DEF ConstraintSets, a
  <2> QED BY <2>2, <2>3 DEF a
<1>4. ASSUME NEW k \in ConstraintSets, k.allow["resources"] \subseteq Resources
      PROVE  canonicalizeConstraints(k) \in ConstraintSets
  BY <1>2, <1>3, <1>4 DEF canonicalizeConstraints
<1>5. /\ FoldResource(c, r) \in ConstraintSets
      /\ FoldResource(c, r).allow["resources"] \subseteq Resources
  <2>1. CASE c.allow["resources"] = {} /\ r # Absent
    <3>1. {r} \in AllowLists /\ {r} \subseteq Resources
      BY <1>2, <2>1
    <3>2. FoldResource(c, r) = [c EXCEPT !.allow["resources"] = {r}]
      BY <2>1 DEF FoldResource
    <3> DEFINE S == {r}
    <3> HIDE DEF S
    <3>3. /\ [c EXCEPT !.allow["resources"] = S] \in ConstraintSets
          /\ [c EXCEPT !.allow["resources"] = S].allow["resources"] = S
      BY <1>1, <1>3, <3>1 DEF S
    <3> QED BY <3>1, <3>2, <3>3 DEF S
  <2>2. CASE ~(c.allow["resources"] = {} /\ r # Absent)
    BY <1>1, <2>2 DEF FoldResource
  <2> QED BY <2>1, <2>2
<1>6. FoldResource(c, Absent) = c
  BY DEF FoldResource
<1> QED BY <1>1, <1>4, <1>5, <1>6 DEF StoredInputs

(* RootRow is a root of the table.                                         *)
LEMMA RootRowTyped ==
    ASSUME NEW user \in Users, NEW agent \in Agents, NEW scopes \in SUBSET Scopes,
           NEW c \in ConstraintSets, NEW exp \in Nat \cup {Absent}
    PROVE  RootRow(user, agent, scopes, c, exp) \in Rows
           /\ RootOf(RootRow(user, agent, scopes, c, exp))
<1>1. orgOf[agent] \in Orgs
  BY ChainsAssumption
<1> QED BY <1>1 DEF RootRow, Rows, RootOf

-----------------------------------------------------------------------------
(* What a request has asked for, and what an open revocation has in hand.  *)
RequestsAsked ==
    /\ now <= MaxTime
    /\ \A r \in Redelegators : redel[r].pc \in {"check", "insert"} =>
          redel[r].cnst \in StoredInputs /\ redel[r].ttl \in TTLs

RootsDoomed ==
    \A v \in Revokers : revtx[v].pc = "commit" => revtx[v].root \in revtx[v].rows

ChainInv == ChainTypeOK /\ StoredDepth /\ OneTenant /\ ChecksStillHold
            /\ RequestsAsked /\ RootsDoomed

LEMMA ChildRowTyped ==
    ASSUME ChainInv, NEW r \in Redelegators, redel[r].pc = "insert"
    PROVE  ChildRow(redel[r]) \in Rows /\ ChildOf(ChildRow(redel[r]))
<1> DEFINE q == redel[r]
           p == redel[r].parent
<1>1. /\ p \in DOMAIN deleg /\ q.by \in Agents /\ q.to \in Agents /\ q.scopes \in SUBSET Scopes
      /\ q.cnst \in ConstraintSets /\ q.ttl \in Nat
  BY DEF ChainInv, ChainTypeOK, Requests, Idle
<1>2. deleg[p] \in Rows
  BY <1>1, TableTyped DEF ChainInv, ChainTypeOK, Typed
<1>3. /\ deleg[p].cnst \in ConstraintSets /\ deleg[p].depth \in Nat
      /\ deleg[p].org \in Orgs /\ deleg[p].exp \in Nat \cup {Absent}
  BY <1>2 DEF Rows
<1>4. /\ deleg[p].delegatee = q.by /\ q.scopes \subseteq deleg[p].scopes
      /\ deleg[p].depth + 1 < MaxDepth /\ orgOf[q.to] = deleg[p].org
      /\ ~agentInChain(p, q.to)
  BY DEF ChainInv, ChecksStillHold
<1>5. Tighten(deleg[p].cnst, q.cnst) \in ConstraintSets
  BY <1>1, <1>3, TightenType
<1>6. ChildExpiry(q.ttl, deleg[p].exp) \in Nat \cup {Absent}
  BY <1>1, <1>3, SentinelAssumption DEF ChildExpiry, ChainInv, ChainTypeOK
<1>7. p \in Nat
  BY <1>1, TableTyped DEF ChainInv, ChainTypeOK, Typed
<1> DEFINE t == Tighten(deleg[p].cnst, q.cnst)
           e == ChildExpiry(q.ttl, deleg[p].exp)
<1>8. ChildRow(q) =
        [delegatorType |-> "agent", delegator |-> q.by, delegatee |-> q.to,
         scopes |-> q.scopes, cnst |-> t, parent |-> p, depth |-> deleg[p].depth + 1,
         org |-> deleg[p].org, exp |-> e, active |-> TRUE]
  BY DEF ChildRow
<1> HIDE DEF q, p, t, e
<1>9. ChildRow(q) \in Rows
  BY <1>1, <1>3, <1>5, <1>6, <1>7, <1>8 DEF Rows, t, e
<1>10. ~G!After(e, deleg[p].exp)
  BY <1>1, <1>3, SentinelAssumption DEF G!After, ChildExpiry, ChainInv, ChainTypeOK, e
<1>11. ASSUME NEW v, permitList(t.allow["resources"], v)
       PROVE  permitList(deleg[p].cnst.allow["resources"], v)
  <2>1. /\ deleg[p].cnst.allow["resources"] \in AllowLists /\ q.cnst.allow["resources"] \in AllowLists
        /\ t.allow["resources"]
              = intersectAllow(deleg[p].cnst.allow["resources"], q.cnst.allow["resources"])
    BY <1>1, <1>3 DEF t, Tighten, Dims, ConstraintSets
  <2> QED BY <1>11, <2>1, IntersectAllowNarrows
<1>12. ChildOf(ChildRow(q))
  BY <1>1, <1>4, <1>8, <1>10, <1>11 DEF ChildOf, Within
<1> QED BY <1>9, <1>12 DEF q
-----------------------------------------------------------------------------
(* The shape of a step: of the table, of the requests, of the revocations. *)
Grown == \E row \in Rows : (RootOf(row) \/ ChildOf(row)) /\ Grows(row)

TableStep == Typed' /\ Keeps /\ (DOMAIN deleg' = DOMAIN deleg \/ Grown)

LEMMA NoTableStep ==
    ASSUME Typed, deleg' = deleg
    PROVE  TableStep
BY DEF TableStep, Typed, WellParented, Keeps

LEMMA InsertStep ==
    ASSUME Typed, NEW row \in Rows, RootOf(row) \/ ChildOf(row), Insert(row)
    PROVE  TableStep
<1>1. row.parent \in 0..Len(deleg)
  BY TableTyped DEF RootOf, ChildOf
<1> QED BY <1>1, AppendRow DEF Insert, TableStep, Grown

LEMMA TableSteps ==
    ASSUME ChainInv, ChainNext
    PROVE  TableStep
<1>1. Typed
  BY DEF ChainInv, ChainTypeOK, Typed
<1>2. CASE RootStep
  <2>1. PICK user \in Users, agent \in Agents, scopes \in SUBSET Scopes, c \in Inputs :
           \/ \E resource \in Resources \cup {Absent}, ttl \in TTLs :
                 GrantConsent(user, agent, scopes, c, resource, ttl)
           \/ \E exp \in TTLs \cup {Absent} : CreateDelegation(user, agent, scopes, c, exp)
    BY <1>2 DEF RootStep
  <2>2. CASE \E resource \in Resources \cup {Absent}, ttl \in TTLs :
                GrantConsent(user, agent, scopes, c, resource, ttl)
    <3>1. PICK resource \in Resources \cup {Absent}, ttl \in TTLs :
             GrantConsent(user, agent, scopes, c, resource, ttl)
      BY <2>2
    <3> DEFINE k == canonicalizeConstraints(FoldResource(c, resource))
               e == IF ttl > 0 THEN now + ttl ELSE Absent
    <3>2. k \in ConstraintSets
      BY CanonicalTyped
    <3>3. e \in Nat \cup {Absent}
      BY ChainsAssumption DEF ChainInv, ChainTypeOK
    <3>4. Insert(RootRow(user, agent, scopes, k, e))
      BY <3>1 DEF GrantConsent
    <3> QED BY <1>1, <3>2, <3>3, <3>4, RootRowTyped, InsertStep
  <2>3. CASE \E exp \in TTLs \cup {Absent} : CreateDelegation(user, agent, scopes, c, exp)
    <3>1. PICK exp \in TTLs \cup {Absent} : Insert(RootRow(user, agent, scopes, c, exp))
      BY <2>3 DEF CreateDelegation
    <3>2. c \in ConstraintSets /\ exp \in Nat \cup {Absent}
      BY ChainsAssumption
    <3> QED BY <1>1, <3>1, <3>2, RootRowTyped, InsertStep
  <2> QED BY <2>1, <2>2, <2>3
<1>3. CASE RedelegateStep
  <2>1. ASSUME NEW r \in Redelegators, RedelegateInsert(r)
        PROVE  TableStep
    BY <1>1, <2>1, NoTableStep, ChildRowTyped, InsertStep DEF RedelegateInsert
  <2>2. deleg' = deleg \/ \E r \in Redelegators : RedelegateInsert(r)
    BY <1>3 DEF RedelegateStep, RedelegateAuth, RedelegateRead, RedelegateCheck, RedelegateAbort
  <2> QED BY <1>1, <2>1, <2>2, NoTableStep
<1>4. CASE RevokeTreeOpen \/ Tick \/ \E a \in Agents : RevokeAgent(a)
  <2>1. deleg' = deleg
    BY <1>4 DEF RevokeTreeOpen, RevokeTreeBegin, RevokeTreeAbort, Tick, RevokeAgent
  <2> QED BY <1>1, <2>1, NoTableStep
<1>5. CASE \/ \E v \in Revokers : RevokeTreeCommit(v)
           \/ \E d \in DOMAIN deleg : RevokeDelegation(d)
  <2>1. PICK S : Deactivate(S)
    BY <1>5 DEF RevokeTreeCommit, RevokeDelegation
  <2> QED BY <1>1, <2>1, DeactivateRows DEF TableStep
<1> QED BY <1>2, <1>3, <1>4, <1>5 DEF ChainNext, LocalStep

(* Request q is typed and its checks hold.                                 *)
Fine(q) ==
    /\ q \in Requests
    /\ q.pc \in {"check", "insert"} =>
          /\ q.cnst \in StoredInputs /\ q.ttl \in TTLs
          /\ deleg[q.parent].delegatee = q.by
          /\ q.scopes \subseteq deleg[q.parent].scopes
          /\ deleg[q.parent].depth + 1 < MaxDepth
          /\ q.pc = "insert" => /\ orgOf[q.to] = deleg[q.parent].org
                                /\ ~agentInChain(q.parent, q.to)

AllFine == redel \in [Redelegators -> Requests] /\ \A r \in Redelegators : Fine(redel[r])

LEMMA FineMeans ==
    ChainTypeOK => (AllFine <=> /\ redel \in [Redelegators -> Requests]
                                /\ ChecksStillHold
                                /\ \A r \in Redelegators : redel[r].pc \in {"check", "insert"} =>
                                      redel[r].cnst \in StoredInputs /\ redel[r].ttl \in TTLs)
BY DEF AllFine, Fine, ChecksStillHold, ChainTypeOK

LEMMA FineStays ==
    ASSUME Typed, Keeps, NEW q, Fine(q)
    PROVE  Fine(q)'
<1>1. CASE q.pc \in {"check", "insert"}
  <2>1. q.parent \in DOMAIN deleg
    BY <1>1 DEF Fine, Requests, Idle
  <2>2. \A d \in Chain(deleg, q.parent) : deleg'[d].delegatee = deleg[d].delegatee
    BY <2>1, KeptChains DEF Keeps
  <2>3. agentInChain(q.parent, q.to)' => agentInChain(q.parent, q.to)
    BY <2>1, <2>2, KeptChains DEF agentInChain
  <2>4. q \in Requests'
    BY DEF Fine, Requests, Keeps
  <2> QED BY <1>1, <2>1, <2>3, <2>4 DEF Fine, Keeps
<1>2. CASE q.pc \notin {"check", "insert"}
  <2>1. q \in Requests'
    BY DEF Fine, Requests, Keeps
  <2> QED BY <1>2, <2>1 DEF Fine
<1> QED BY <1>1, <1>2

LEMMA RequestSteps ==
    ASSUME ChainInv, ChainNext
    PROVE  AllFine'
<1>1. AllFine /\ Typed /\ Keeps
  BY FineMeans, TableSteps DEF ChainInv, RequestsAsked, ChainTypeOK, Typed, TableStep
<1>2. \/ redel' = redel
      \/ \E r \in Redelegators, q \in Requests :
            Fine(q) /\ redel' = [redel EXCEPT ![r] = q]
  <2>1. CASE RedelegateStep
    <3>1. PICK r \in Redelegators :
             \/ \E by \in Agents : RedelegateAuth(r, by)
             \/ \E p \in DOMAIN deleg, to \in Agents, scopes \in SUBSET Scopes,
                   c \in Inputs, ttl \in TTLs : RedelegateRead(r, p, to, scopes, c, ttl)
             \/ RedelegateCheck(r) \/ RedelegateInsert(r) \/ RedelegateAbort(r)
      BY <2>1 DEF RedelegateStep
    <3>2. Idle \in Requests /\ Fine(Idle)
      BY DEF Requests, Idle, Fine
    <3>3. ASSUME NEW by \in Agents, RedelegateAuth(r, by)
          PROVE  \E q \in Requests : Fine(q) /\ redel' = [redel EXCEPT ![r] = q]
      <4> DEFINE q == [pc |-> "read", by |-> by]
      <4>1. q \in Requests /\ Fine(q)
        BY DEF Requests, Fine
      <4> QED BY <3>3, <4>1 DEF RedelegateAuth
    <3>4. ASSUME NEW p \in DOMAIN deleg, NEW to \in Agents, NEW scopes \in SUBSET Scopes,
                 NEW c \in Inputs, NEW ttl \in TTLs, RedelegateRead(r, p, to, scopes, c, ttl)
          PROVE  \E q \in Requests : Fine(q) /\ redel' = [redel EXCEPT ![r] = q]
      <4> DEFINE k == canonicalizeConstraints(c)
      <4>1. k \in ConstraintSets /\ k \in StoredInputs
        BY CanonicalTyped
      <4>2. redel[r].by \in Agents
        BY <1>1, <3>4 DEF AllFine, Requests, Idle, RedelegateRead
      <4>3. ttl \in Nat
        BY ChainsAssumption
      <4>4. /\ deleg[p].delegatee = redel[r].by /\ scopes \subseteq deleg[p].scopes
            /\ deleg[p].depth + 1 < MaxDepth
        BY <3>4 DEF RedelegateRead, IsSubset, WithinDepth
      <4> DEFINE b == redel[r].by
                 q == [pc |-> "check", parent |-> p, by |-> b, to |-> to,
                       scopes |-> scopes, cnst |-> k, ttl |-> ttl]
      <4>5. redel' = [redel EXCEPT ![r] = q]
        BY <3>4 DEF RedelegateRead
      <4> HIDE DEF b, k
      <4>6. q \in Requests
        BY <4>1, <4>2, <4>3 DEF Requests, b
      <4>7. Fine(q)
        BY <4>1, <4>4, <4>6 DEF Fine, b
      <4> QED BY <4>5, <4>6, <4>7
    <3>5. ASSUME RedelegateCheck(r)
          PROVE  \E q \in Requests : Fine(q) /\ redel' = [redel EXCEPT ![r] = q]
      <4> DEFINE q == [redel[r] EXCEPT !.pc = "insert"]
      <4>1. redel[r].pc = "check" /\ redel[r] \in Requests /\ Fine(redel[r])
        BY <1>1, <3>5 DEF AllFine, RedelegateCheck
      <4>2. redel[r] \in [pc : {"check", "insert"}, parent : DOMAIN deleg, by : Agents,
                          to : Agents, scopes : SUBSET Scopes, cnst : ConstraintSets, ttl : Nat]
        BY <4>1 DEF Requests, Idle
      <4>3. /\ q \in Requests /\ q.pc = "insert" /\ q.parent = redel[r].parent
            /\ q.by = redel[r].by /\ q.to = redel[r].to /\ q.scopes = redel[r].scopes
            /\ q.cnst = redel[r].cnst /\ q.ttl = redel[r].ttl
        BY <4>2 DEF Requests
      <4>4. CASE /\ ~agentInChain(redel[r].parent, redel[r].to)
                 /\ MayReceive(redel[r].to, redel[r].parent)
        <5>1. redel' = [redel EXCEPT ![r] = q]
          BY <1>1, <3>5, <4>4 DEF RedelegateCheck, AllFine
        <5> HIDE DEF q
        <5>2. Fine(q)
          BY <4>1, <4>3, <4>4 DEF Fine, MayReceive
        <5> QED BY <4>3, <5>1, <5>2
      <4>5. CASE ~(/\ ~agentInChain(redel[r].parent, redel[r].to)
                   /\ MayReceive(redel[r].to, redel[r].parent))
        BY <3>2, <3>5, <4>5 DEF RedelegateCheck
      <4> QED BY <4>4, <4>5
    <3>6. CASE RedelegateInsert(r) \/ RedelegateAbort(r)
      BY <3>2, <3>6 DEF RedelegateInsert, RedelegateAbort
    <3> QED BY <3>1, <3>3, <3>4, <3>5, <3>6
  <2>2. CASE ~RedelegateStep
    <3>1. RootStep => redel' = redel
      BY DEF RootStep, GrantConsent, CreateDelegation
    <3>2. RevokeTreeOpen => redel' = redel
      BY DEF RevokeTreeOpen, RevokeTreeBegin, RevokeTreeAbort
    <3>3. \A a \in Agents : RevokeAgent(a) => redel' = redel
      BY DEF RevokeAgent
    <3>4. Tick => redel' = redel
      BY DEF Tick
    <3>5. \A v \in Revokers : RevokeTreeCommit(v) => redel' = redel
      BY DEF RevokeTreeCommit
    <3>6. \A d \in DOMAIN deleg : RevokeDelegation(d) => redel' = redel
      BY DEF RevokeDelegation
    <3> QED BY <2>2, <3>1, <3>2, <3>3, <3>4, <3>5, <3>6 DEF ChainNext, LocalStep
  <2> QED BY <2>1, <2>2
<1>3. redel' \in [Redelegators -> Requests] /\ \A r \in Redelegators : Fine(redel'[r])
  BY <1>1, <1>2 DEF AllFine
<1>4. \A q : Fine(q) => Fine(q)'
  BY <1>1, FineStays
<1>5. Requests \subseteq Requests'
  BY <1>1 DEF Requests, Keeps
<1> QED BY <1>3, <1>4, <1>5 DEF AllFine, Fine

LEMMA RevocationSteps ==
    ASSUME ChainInv, ChainNext
    PROVE  /\ RootsDoomed'
           /\ revtx' \in [Revokers -> {NotRevoking}
                \cup [pc : {"commit"}, root : DOMAIN deleg', rows : SUBSET (DOMAIN deleg')]]
<1> DEFINE Txs == {NotRevoking}
                   \cup [pc : {"commit"}, root : DOMAIN deleg, rows : SUBSET (DOMAIN deleg)]
           Ok(x) == x \in Txs /\ (x.pc = "commit" => x.root \in x.rows)
<1>1. revtx \in [Revokers -> Txs] /\ \A v \in Revokers : Ok(revtx[v])
  BY DEF ChainInv, ChainTypeOK, RootsDoomed
<1>2. DOMAIN deleg \subseteq DOMAIN deleg'
  BY TableSteps DEF TableStep, Keeps
<1>3. revtx' = revtx \/ \E v \in Revokers : \E x : Ok(x) /\ revtx' = [revtx EXCEPT ![v] = x]
  <2>1. Ok(NotRevoking)
    BY DEF NotRevoking
  <2>2. ASSUME NEW v \in Revokers, NEW d \in DOMAIN deleg, NEW user \in Users,
               RevokeTreeBegin(v, d, user)
        PROVE  \E x : Ok(x) /\ revtx' = [revtx EXCEPT ![v] = x]
    <3> DEFINE x == [pc |-> "commit", root |-> d, rows |-> Tree(deleg, d)]
    <3>1. d \in Tree(deleg, d) /\ Tree(deleg, d) \subseteq DOMAIN deleg
      BY TableTyped, ChainSelf DEF Tree, ChainInv, ChainTypeOK, Typed
    <3>2. Ok(x)
      BY <3>1
    <3>3. revtx' = [revtx EXCEPT ![v] = x]
      BY <2>2 DEF RevokeTreeBegin, RevokedRows
    <3> QED BY <3>2, <3>3
  <2>3. CASE RevokeTreeOpen
    BY <2>1, <2>2, <2>3 DEF RevokeTreeOpen, RevokeTreeAbort
  <2>4. CASE \E v \in Revokers : RevokeTreeCommit(v)
    BY <2>1, <2>4 DEF RevokeTreeCommit
  <2>5. RootStep \/ RedelegateStep => revtx' = revtx
    BY DEF RootStep, GrantConsent, CreateDelegation, RedelegateStep, RedelegateAuth,
           RedelegateRead, RedelegateCheck, RedelegateInsert, RedelegateAbort
  <2>6. Tick \/ (\E a \in Agents : RevokeAgent(a)) \/ (\E d \in DOMAIN deleg : RevokeDelegation(d))
           => revtx' = revtx
    BY DEF RevokeAgent, Tick, RevokeDelegation
  <2>7. \/ RootStep \/ RedelegateStep \/ RevokeTreeOpen \/ Tick
        \/ (\E a \in Agents : RevokeAgent(a))
        \/ (\E v \in Revokers : RevokeTreeCommit(v))
        \/ (\E d \in DOMAIN deleg : RevokeDelegation(d))
    BY DEF ChainNext, LocalStep
  <2> HIDE DEF Ok, Txs
  <2> QED BY <2>3, <2>4, <2>5, <2>6, <2>7
<1>4. revtx' \in [Revokers -> Txs] /\ \A v \in Revokers : Ok(revtx'[v])
  BY <1>1, <1>3
<1>5. Txs \subseteq {NotRevoking}
         \cup [pc : {"commit"}, root : DOMAIN deleg', rows : SUBSET (DOMAIN deleg')]
  BY <1>2
<1> QED BY <1>4, <1>5 DEF RootsDoomed

LEMMA OtherSteps ==
    ASSUME ChainInv, ChainNext
    PROVE  /\ revokedAgents' \subseteq Agents /\ now' \in Nat
           /\ now <= now' /\ now' <= MaxTime
<1> USE ChainsAssumption DEF ChainInv, ChainTypeOK, RequestsAsked
<1>1. RootStep \/ RedelegateStep \/ RevokeTreeOpen => UNCHANGED <<revokedAgents, now>>
  BY DEF RootStep, GrantConsent, CreateDelegation, RedelegateStep, RedelegateAuth,
         RedelegateRead, RedelegateCheck, RedelegateInsert, RedelegateAbort,
         RevokeTreeOpen, RevokeTreeBegin, RevokeTreeAbort
<1>2. (\E v \in Revokers : RevokeTreeCommit(v)) \/ (\E d \in DOMAIN deleg : RevokeDelegation(d))
         => UNCHANGED <<revokedAgents, now>>
  BY DEF RevokeTreeCommit, RevokeDelegation
<1>3. Tick => revokedAgents' = revokedAgents /\ now' = now + 1 /\ now < MaxTime
  BY DEF Tick
<1>4. (\E a \in Agents : RevokeAgent(a)) => revokedAgents' \subseteq Agents /\ now' = now
  BY DEF RevokeAgent
<1>5. \/ RootStep \/ RedelegateStep \/ RevokeTreeOpen \/ Tick
      \/ (\E a \in Agents : RevokeAgent(a))
      \/ (\E v \in Revokers : RevokeTreeCommit(v))
      \/ (\E d \in DOMAIN deleg : RevokeDelegation(d))
  BY DEF ChainNext, LocalStep
<1> QED BY <1>1, <1>2, <1>3, <1>4, <1>5

LEMMA DepthKept ==
    ASSUME ChainInv, ChainNext
    PROVE  StoredDepth'
<1>1. TableStep /\ Typed
  BY TableSteps DEF ChainInv, ChainTypeOK, Typed
<1>2. ASSUME NEW d \in DOMAIN deleg
      PROVE  deleg'[d].depth = Cardinality(Chain(deleg', d)) - 1 /\ deleg'[d].depth < MaxDepth
  BY <1>1, KeptChains DEF TableStep, Keeps, ChainInv, StoredDepth
<1>3. CASE DOMAIN deleg' = DOMAIN deleg
  BY <1>2, <1>3 DEF StoredDepth
<1>4. CASE Grown
  <2>1. PICK row \in Rows : (RootOf(row) \/ ChildOf(row)) /\ Grows(row)
    BY <1>4 DEF Grown
  <2>2. CASE RootOf(row)
    <3>1. row.parent = 0 /\ row.depth = 0 /\ Chain(deleg', New) = {New} /\ deleg'[New] = row
      BY <2>1, <2>2 DEF RootOf, Grows
    <3>2. Cardinality({New}) = 1
      BY FS_Singleton
    <3>3. deleg'[New].depth = Cardinality(Chain(deleg', New)) - 1 /\ deleg'[New].depth < MaxDepth
      BY <3>1, <3>2, ChainsAssumption
    <3> QED BY <1>2, <2>1, <3>3 DEF StoredDepth, Grows
  <2>3. CASE ChildOf(row)
    <3> DEFINE p == row.parent
    <3>1. /\ p \in DOMAIN deleg /\ p \in Nat \ {0} /\ row.depth = deleg[p].depth + 1
          /\ row.depth < MaxDepth
      BY <1>1, <2>3, TableTyped DEF ChildOf
    <3>2. /\ Chain(deleg', New) = Chain(deleg, p) \cup {New} /\ New \notin Chain(deleg, p)
          /\ deleg'[New] = row
      BY <2>1, <3>1 DEF Grows
    <3>3. /\ Cardinality(Chain(deleg, p) \cup {New}) = Cardinality(Chain(deleg, p)) + 1
          /\ Cardinality(Chain(deleg, p)) \in Nat
      BY <3>1, <3>2, ChainFinite, FS_AddElement, FS_CardinalityType
    <3>4. deleg[p].depth = Cardinality(Chain(deleg, p)) - 1
      BY <3>1 DEF ChainInv, StoredDepth
    <3>5. deleg'[New].depth = Cardinality(Chain(deleg', New)) - 1 /\ deleg'[New].depth < MaxDepth
      BY <3>1, <3>2, <3>3, <3>4
    <3> QED BY <1>2, <2>1, <3>5 DEF StoredDepth, Grows
  <2> QED BY <2>1, <2>2, <2>3
<1> QED BY <1>1, <1>3, <1>4 DEF TableStep

LEMMA TenantKept ==
    ASSUME ChainInv, ChainNext
    PROVE  OneTenant'
<1>1. TableStep /\ Typed
  BY TableSteps DEF ChainInv, ChainTypeOK, Typed
<1>2. ASSUME NEW d \in DOMAIN deleg, NEW l \in Chain(deleg', d)
      PROVE  orgOf[deleg'[l].delegatee] = deleg'[d].org
  <2>1. l \in Chain(deleg, d) /\ l \in DOMAIN deleg
    BY <1>1, <1>2, KeptChains DEF TableStep
  <2> QED BY <1>1, <2>1 DEF TableStep, Keeps, ChainInv, OneTenant
<1>3. CASE DOMAIN deleg' = DOMAIN deleg
  BY <1>2, <1>3 DEF OneTenant
<1>4. CASE Grown
  <2>1. PICK row \in Rows : (RootOf(row) \/ ChildOf(row)) /\ Grows(row)
    BY <1>4 DEF Grown
  <2>2. ASSUME NEW l \in Chain(deleg', New)
        PROVE  orgOf[deleg'[l].delegatee] = deleg'[New].org
    <3>1. CASE l = New
      BY <2>1, <3>1 DEF RootOf, ChildOf, Grows
    <3>2. CASE l # New
      <4>1. ChildOf(row) /\ row.parent # 0
        BY <1>1, <2>1, <2>2, <3>2, TableTyped DEF RootOf, ChildOf, Grows
      <4>2. row.parent \in DOMAIN deleg /\ l \in Chain(deleg, row.parent)
        BY <2>1, <2>2, <3>2, <4>1 DEF ChildOf, Grows
      <4>3. l \in DOMAIN deleg
        BY <1>1, <4>2, KeptChains DEF TableStep
      <4>4. orgOf[deleg[l].delegatee] = deleg[row.parent].org
        BY <4>2 DEF ChainInv, OneTenant
      <4> QED BY <2>1, <4>1, <4>3, <4>4 DEF ChildOf, Grows
    <3> QED BY <3>1, <3>2
  <2> QED BY <1>2, <2>1, <2>2 DEF OneTenant, Grows
<1> QED BY <1>1, <1>3, <1>4 DEF TableStep

LEMMA ChainInvariant == ChainSpec => []ChainInv
<1>1. ChainInit => ChainInv
  <2> SUFFICES ASSUME ChainInit PROVE ChainInv
    OBVIOUS
  <2>1. deleg = << >> /\ DOMAIN deleg = {} /\ deleg \in Seq(Rows)
    BY EmptySeq DEF ChainInit
  <2>2. ChainTypeOK
    BY <2>1 DEF ChainInit, ChainTypeOK, WellParented, Requests
  <2> QED BY <2>1, <2>2, ChainsAssumption
          DEF ChainInv, ChainInit, StoredDepth, OneTenant, ChecksStillHold, RequestsAsked,
              RootsDoomed, Idle, NotRevoking
<1>2. ChainInv /\ [ChainNext]_chainVars => ChainInv'
  <2>1. ASSUME ChainInv, ChainNext PROVE ChainInv'
    <3>1. ChainTypeOK'
      BY <2>1, TableSteps, RequestSteps, RevocationSteps, OtherSteps
         DEF ChainTypeOK, TableStep, Typed, AllFine
    <3>2. ChecksStillHold' /\ RequestsAsked'
      <4>1. AllFine' /\ now' <= MaxTime
        BY <2>1, RequestSteps, OtherSteps
      <4> QED BY <4>1 DEF AllFine, Fine, ChecksStillHold, RequestsAsked
    <3> QED BY <2>1, <3>1, <3>2, DepthKept, TenantKept, RevocationSteps DEF ChainInv
  <2>2. ASSUME ChainInv, UNCHANGED chainVars PROVE ChainInv'
    BY <2>2 DEF chainVars, ChainInv, ChainTypeOK, Requests, WellParented, StoredDepth,
                OneTenant, ChecksStillHold, agentInChain, RequestsAsked, RootsDoomed
  <2> QED BY <2>1, <2>2
<1> QED BY <1>1, <1>2, PTL DEF ChainSpec
-----------------------------------------------------------------------------
(* Rows and requests stay well typed.                                      *)
THEOREM ChainsTypeCorrect == ChainSpec => []ChainTypeOK
<1>1. ChainInv => ChainTypeOK
  BY DEF ChainInv
<1> QED BY <1>1, ChainInvariant, PTL

(* The depth a re-delegation computes from a row it read without a lock is *)
(* the row's true depth, below the limit.                                  *)
THEOREM DepthIsTrue == ChainSpec => []StoredDepth
<1>1. ChainInv => StoredDepth
  BY DEF ChainInv
<1> QED BY <1>1, ChainInvariant, PTL

(* No chain crosses organisations.                                         *)
THEOREM ChainsStayInTenant == ChainSpec => []OneTenant
<1>1. ChainInv => OneTenant
  BY DEF ChainInv
<1> QED BY <1>1, ChainInvariant, PTL

(* What Redelegate checked holds until it inserts, with nothing locked.    *)
THEOREM ChecksHold == ChainSpec => []ChecksStillHold
<1>1. ChainInv => ChecksStillHold
  BY DEF ChainInv
<1> QED BY <1>1, ChainInvariant, PTL

(* A chain that a revocation or an expiry broke is never whole again.      *)
THEOREM DeadChainsStayDead == ChainSpec => DeadStaysDead
<1> DEFINE Dead == <<deleg, now>>' # <<deleg, now>> =>
                      \A d \in DOMAIN deleg : ~Exercisable(d) => ~Exercisable(d)'
<1>1. ChainInv /\ [ChainNext]_chainVars => [Dead]_chainVars
  <2> SUFFICES ASSUME ChainInv, ChainNext, NEW d \in DOMAIN deleg, Exercisable(d)'
               PROVE  Exercisable(d)
    OBVIOUS
  <2>1. Typed /\ Keeps /\ now \in Nat /\ now' \in Nat /\ now <= now'
    BY TableSteps, OtherSteps DEF ChainInv, ChainTypeOK, Typed, TableStep
  <2>2. Chain(deleg', d) = Chain(deleg, d) /\ Chain(deleg, d) \subseteq DOMAIN deleg
    BY <2>1, KeptChains
  <2>3. ASSUME NEW l \in Chain(deleg, d) PROVE Usable(l)
    <3>1. Usable(l)'
      BY <2>2 DEF Exercisable
    <3>2. l \in DOMAIN deleg /\ deleg[l].exp \in Nat \cup {Absent}
      BY <2>1, <2>2, TableTyped DEF Rows
    <3> QED BY <2>1, <3>1, <3>2 DEF Usable, Keeps
  <2> QED BY <2>3 DEF Exercisable
<1> QED BY <1>1, ChainInvariant, PTL DEF ChainSpec, DeadStaysDead

(* A committed tree revocation leaves nothing below its root exercisable,  *)
(* the rows inserted between its statements included.                      *)
THEOREM TreeRevocationIsComplete == ChainSpec => TreeRevokeKillsSubtree
<1> DEFINE Kills == \A v \in Revokers : RevokeTreeCommit(v) =>
                      \A e \in Tree(deleg, revtx[v].root) : ~Exercisable(e)'
<1>1. ChainInv /\ [ChainNext]_chainVars => [Kills]_chainVars
  <2> SUFFICES ASSUME ChainInv, NEW v \in Revokers, RevokeTreeCommit(v),
                      NEW e \in Tree(deleg, revtx[v].root)
               PROVE  ~Exercisable(e)'
    OBVIOUS
  <2> DEFINE root == revtx[v].root
  <2>1. /\ revtx[v].pc = "commit" /\ Deactivate(revtx[v].rows) /\ root \in revtx[v].rows
        /\ root \in DOMAIN deleg /\ e \in DOMAIN deleg /\ root \in Chain(deleg, e)
    BY DEF RevokeTreeCommit, ChainInv, ChainTypeOK, RootsDoomed, NotRevoking, Tree
  <2>2. Typed
    BY DEF ChainInv, ChainTypeOK, Typed
  <2>3. Keeps /\ ~deleg'[root].active
    BY <2>1, <2>2, DeactivateRows
  <2>4. root \in Chain(deleg', e)
    BY <2>1, <2>2, <2>3, KeptChains
  <2> QED BY <2>3, <2>4 DEF Exercisable, Usable
<1> QED BY <1>1, ChainInvariant, PTL DEF ChainSpec, TreeRevokeKillsSubtree
-----------------------------------------------------------------------------
(* A row as a grant: AsGrants is the table of these.                       *)
View(row) ==
    [delegator |-> row.delegator, delegatee |-> row.delegatee, scopes |-> row.scopes,
     cnst |-> row.cnst, exp |-> row.exp, parent |-> row.parent]

LEMMA ViewTyped ==
    ASSUME Typed
    PROVE  /\ AsGrants \in Seq({View(r) : r \in Rows}) /\ Len(AsGrants) = Len(deleg)
           /\ DOMAIN AsGrants = DOMAIN deleg
           /\ \A d \in DOMAIN deleg : /\ AsGrants[d] = View(deleg[d])
                                     /\ AsGrants[d].parent = deleg[d].parent
                                     /\ Chain(AsGrants, d) = Chain(deleg, d)
<1> DEFINE V == {View(r) : r \in Rows}
<1>1. /\ Len(deleg) \in Nat /\ DOMAIN deleg = 1..Len(deleg)
      /\ \A d \in DOMAIN deleg : deleg[d] \in Rows /\ d \in Nat /\ 1..d \subseteq DOMAIN deleg
  BY TableTyped
<1>2. AsGrants = [d \in DOMAIN deleg |-> View(deleg[d])]
  BY DEF AsGrants, View
<1>3. AsGrants \in [1..Len(deleg) -> V]
  BY <1>1, <1>2
<1>4. AsGrants \in Seq(V)
  BY <1>1, <1>3, SeqDef
<1>5. Len(AsGrants) = Len(deleg)
  <2>1. 1..Len(AsGrants) = 1..Len(deleg) /\ Len(AsGrants) \in Nat
    BY <1>3, <1>4, LenProperties
  <2> QED BY <1>1, <2>1
<1>6. \A d \in DOMAIN deleg : AsGrants[d] = View(deleg[d]) /\ AsGrants[d].parent = deleg[d].parent
  BY <1>2 DEF View
<1>7. ASSUME NEW d \in DOMAIN deleg PROVE Chain(AsGrants, d) = Chain(deleg, d)
  BY <1>1, <1>6, ChainStable
<1> QED BY <1>2, <1>4, <1>5, <1>6, <1>7

LEMMA ViewAppends ==
    ASSUME Typed, NEW row \in Rows, row.parent \in 0..Len(deleg),
           deleg' = Append(deleg, row)
    PROVE  AsGrants' = Append(AsGrants, View(row))
<1> DEFINE V == {View(r) : r \in Rows}
           g == View(row)
<1>1. /\ AsGrants \in Seq(V) /\ Len(AsGrants) = Len(deleg) /\ Len(deleg) \in Nat
      /\ DOMAIN deleg = 1..Len(deleg)
      /\ \A d \in DOMAIN deleg : AsGrants[d] = View(deleg[d])
  BY ViewTyped, TableTyped
<1>2. g \in V
  OBVIOUS
<1>3. /\ New = Len(deleg) + 1 /\ DOMAIN deleg' = 1..New /\ deleg'[New] = row
      /\ \A d \in DOMAIN deleg : deleg'[d] = deleg[d]
  BY <1>1, AppendRow DEF Grows, New
<1>4. AsGrants' = [d \in 1..New |-> View(deleg'[d])]
  BY <1>3 DEF AsGrants, View
<1> HIDE DEF V, g
<1>5. /\ Append(AsGrants, g) \in Seq(V) /\ Len(Append(AsGrants, g)) = Len(AsGrants) + 1
      /\ \A d \in 1..Len(AsGrants) : Append(AsGrants, g)[d] = AsGrants[d]
      /\ Append(AsGrants, g)[Len(AsGrants) + 1] = g
  BY <1>1, <1>2, AppendProperties
<1>6. Append(AsGrants, g) \in [1..New -> V]
  BY <1>1, <1>3, <1>5, LenProperties
<1>7. ASSUME NEW d \in 1..New PROVE Append(AsGrants, g)[d] = View(deleg'[d])
  <2>1. CASE d = New
    BY <1>1, <1>3, <1>5, <2>1 DEF g
  <2>2. CASE d # New
    <3>1. d \in DOMAIN deleg
      BY <1>1, <1>3, <2>2
    <3> QED BY <1>1, <1>3, <1>5, <3>1
  <2> QED BY <2>1, <2>2
<1> QED BY <1>4, <1>6, <1>7 DEF g

LEMMA SameView ==
    ASSUME Typed, Keeps, DOMAIN deleg' = DOMAIN deleg
    PROVE  AsGrants' = AsGrants
BY DEF AsGrants, Keeps

(* GrantChain's copies of the operators both modules are built from.       *)
LEMMA SameCardinality == \A S : G!Cardinality(S) = Cardinality(S)
BY DEF G!Cardinality, Cardinality

LEMMA SameChain == \A tab, i : G!Chain(tab, i) = Chain(tab, i)
BY DEF G!Chain, G!ParentClosed, Chain, ParentClosed

LEMMA SameTighten == \A a, b : G!Tighten(a, b) = Tighten(a, b)
<1>1. \A a, b : G!intersectAllow(a, b) = intersectAllow(a, b)
  BY DEF G!intersectAllow, intersectAllow
<1>2. \A a, b : G!Smaller(a, b) = Smaller(a, b) /\ G!Larger(a, b) = Larger(a, b)
                 /\ G!intersectInts(a, b) = intersectInts(a, b)
  BY DEF G!Smaller, Smaller, G!Larger, Larger, G!intersectInts, intersectInts
<1>3. \A a, b : G!tightenCap(a, b) = tightenCap(a, b)
  BY <1>2 DEF G!tightenCap, tightenCap
<1>4. \A a, b : G!tightenWindow(a, b) = tightenWindow(a, b)
  BY <1>2 DEF G!tightenWindow, tightenWindow
<1> QED BY <1>1, <1>3, <1>4 DEF G!Tighten, Tighten, G!Dims, Dims

LEMMA RootImplements ==
    ASSUME ChainInv, RootStep
    PROVE  G!Next
<1>1. Typed /\ now \in Nat
  BY DEF ChainInv, ChainTypeOK, Typed
<1>2. G!RootsLeft
  <2>1. {d \in DOMAIN deleg : deleg[d].parent = 0}
           = {i \in DOMAIN AsGrants : AsGrants[i].parent = 0}
    BY <1>1, ViewTyped
  <2> QED BY <2>1, SameCardinality DEF RootStep, RootsLeft, G!RootsLeft
<1>3. ASSUME NEW user \in Users, NEW agent \in Agents, NEW scopes \in SUBSET Scopes,
             NEW c \in StoredInputs, c \in ConstraintSets,
             NEW e \in StoredExpiries, e \in Nat \cup {Absent},
             Insert(RootRow(user, agent, scopes, c, e))
      PROVE  G!Next
  <2> DEFINE row == RootRow(user, agent, scopes, c, e)
  <2>1. row \in Rows /\ row.parent \in 0..Len(deleg)
    BY <1>1, <1>3, RootRowTyped, TableTyped DEF RootOf
  <2>2. deleg' = Append(deleg, row) /\ Len(deleg) < MaxRows
    BY <1>3 DEF Insert
  <2>3. AsGrants' = Append(AsGrants, View(row)) /\ Len(AsGrants) < MaxRows
    BY <1>1, <2>1, <2>2, ViewAppends, ViewTyped
  <2>4. View(row) = [delegator |-> user, delegatee |-> agent, scopes |-> scopes,
                     cnst |-> c, exp |-> e, parent |-> 0]
    BY DEF View, RootRow
  <2>5. G!NewRootGrant(user, agent, scopes, c, e)
    BY <1>2, <2>3, <2>4 DEF G!NewRootGrant
  <2> QED BY <2>5 DEF G!Next
<1>4. PICK user \in Users, agent \in Agents, scopes \in SUBSET Scopes, c \in Inputs :
         \/ \E resource \in Resources \cup {Absent}, ttl \in TTLs :
               GrantConsent(user, agent, scopes, c, resource, ttl)
         \/ \E exp \in TTLs \cup {Absent} : CreateDelegation(user, agent, scopes, c, exp)
  BY DEF RootStep
<1>5. ASSUME NEW resource \in Resources \cup {Absent}, NEW ttl \in TTLs,
             GrantConsent(user, agent, scopes, c, resource, ttl)
      PROVE  G!Next
  <2> DEFINE k == canonicalizeConstraints(FoldResource(c, resource))
             e == IF ttl > 0 THEN now + ttl ELSE Absent
  <2>1. k \in ConstraintSets /\ k \in StoredInputs
    BY CanonicalTyped
  <2>2. e \in Nat \cup {Absent} /\ e \in StoredExpiries
    BY <1>1, ChainsAssumption DEF StoredExpiries, ChainInv, RequestsAsked
  <2>3. Insert(RootRow(user, agent, scopes, k, e))
    BY <1>5 DEF GrantConsent
  <2> HIDE DEF k, e
  <2> QED BY <1>3, <2>1, <2>2, <2>3
<1>6. ASSUME NEW exp \in TTLs \cup {Absent}, CreateDelegation(user, agent, scopes, c, exp)
      PROVE  G!Next
  <2>1. c \in StoredInputs /\ c \in ConstraintSets
    BY ChainsAssumption DEF StoredInputs
  <2>2. exp \in Nat \cup {Absent} /\ exp \in StoredExpiries
    BY ChainsAssumption DEF StoredExpiries
  <2>3. Insert(RootRow(user, agent, scopes, c, exp))
    BY <1>6 DEF CreateDelegation
  <2> QED BY <1>3, <2>1, <2>2, <2>3
<1> QED BY <1>4, <1>5, <1>6

LEMMA ChildImplements ==
    ASSUME ChainInv, NEW r \in Redelegators, RedelegateInsert(r), deleg' # deleg
    PROVE  G!Next
<1> DEFINE q == redel[r]
           p == redel[r].parent
           row == ChildRow(redel[r])
           e == now + redel[r].ttl
<1>1. Typed /\ now \in Nat /\ redel[r].pc = "insert" /\ now <= MaxTime
  BY DEF ChainInv, ChainTypeOK, Typed, RedelegateInsert, RequestsAsked
<1>2. row \in Rows /\ ChildOf(row) /\ Insert(row)
  BY <1>1, ChildRowTyped DEF RedelegateInsert
<1>3. /\ p \in DOMAIN deleg /\ q.by \in Agents /\ q.to \in Agents
      /\ q.scopes \in SUBSET Scopes /\ q.cnst \in StoredInputs /\ q.ttl \in TTLs
      /\ q.ttl \in Nat
  BY <1>1, ChainsAssumption DEF ChainInv, ChainTypeOK, Requests, Idle, RequestsAsked
<1>4. /\ deleg[p].delegatee = q.by /\ q.scopes \subseteq deleg[p].scopes
      /\ deleg[p].depth + 1 < MaxDepth /\ ~agentInChain(p, q.to)
  BY <1>1 DEF ChainInv, ChecksStillHold
<1>5. /\ p \in Nat \ {0} /\ deleg[p] \in Rows /\ deleg[p].exp \in Nat \cup {Absent}
      /\ p \in 0..Len(deleg) /\ Chain(deleg, p) \subseteq DOMAIN deleg
  BY <1>1, <1>3, TableTyped, ChainRange DEF Rows
<1>6. row.parent = p
  BY DEF ChildRow
<1>7. deleg' = Append(deleg, row) /\ Len(deleg) < MaxRows
  BY <1>2 DEF Insert
<1>8. AsGrants' = Append(AsGrants, View(row)) /\ Len(AsGrants) < MaxRows
  BY <1>1, <1>2, <1>5, <1>6, <1>7, ViewAppends, ViewTyped
<1>9. /\ DOMAIN AsGrants = DOMAIN deleg /\ Chain(AsGrants, p) = Chain(deleg, p)
      /\ \A d \in DOMAIN deleg :
            /\ AsGrants[d].delegatee = deleg[d].delegatee
            /\ AsGrants[d].scopes = deleg[d].scopes
            /\ AsGrants[d].cnst = deleg[d].cnst
            /\ AsGrants[d].exp = deleg[d].exp
  BY <1>1, <1>3, ViewTyped DEF AsGrants
<1>10. G!WithinDepth(p)
  <2>1. deleg[p].depth = Cardinality(Chain(deleg, p)) - 1
    BY <1>3 DEF ChainInv, StoredDepth
  <2>2. deleg[p].depth \in Nat /\ MaxDepth \in Nat /\ Cardinality(Chain(deleg, p)) \in Nat
    BY <1>5, ChainsAssumption, ChainCardinalityType DEF Rows
  <2>3. G!depth(p) = deleg[p].depth
    BY <1>9, <2>1, SameChain, SameCardinality DEF G!depth
  <2> QED BY <1>4, <2>3 DEF G!WithinDepth
<1>11. ~G!HeldOnChain(p, q.to)
  BY <1>4, <1>5, <1>9, SameChain DEF agentInChain, G!HeldOnChain
<1>12. e \in StoredExpiries /\ e \in Nat /\ e # Absent
  <2>1. now \in 0..MaxTime
    BY <1>1, ChainsAssumption
  <2> QED BY <1>3, <2>1, SentinelAssumption DEF StoredExpiries
<1>13. ChildExpiry(q.ttl, deleg[p].exp) = G!Clamp(e, AsGrants[p].exp)
  BY <1>3, <1>9, <1>12 DEF ChildExpiry, G!Clamp, G!After
<1>14. View(row) = G!Child(p, q.to, q.scopes, q.cnst, e)
  BY <1>3, <1>4, <1>9, <1>13, SameTighten DEF View, ChildRow, G!Child
<1>15. G!Delegate(p, q.to, q.scopes, q.cnst, e)
  BY <1>3, <1>4, <1>8, <1>9, <1>10, <1>11, <1>14 DEF G!Delegate, G!IsSubset
<1> HIDE DEF e, q, p
<1> QED BY <1>3, <1>9, <1>12, <1>15 DEF G!Next

(* The table of delegation chains, built by unlocked queries of concurrent *)
(* requests, implements the atomic chain of delegation.Grant.              *)
THEOREM ChainsImplementGrants == ChainSpec => ImplementsGrants
<1> DEFINE Maps == AsGrants' # AsGrants => G!Next
<1>1. ChainInit => G!Init
  <2> SUFFICES ASSUME ChainInit PROVE AsGrants = << >>
    BY DEF G!Init
  <2> QED BY DEF ChainInit, AsGrants
<1>2. ChainInv /\ [ChainNext]_chainVars => [Maps]_chainVars
  <2> SUFFICES ASSUME ChainInv, ChainNext, AsGrants' # AsGrants PROVE G!Next
    OBVIOUS
  <2>1. deleg' # deleg
    BY DEF AsGrants
  <2>2. Typed
    BY DEF ChainInv, ChainTypeOK, Typed
  <2>3. CASE RootStep
    BY <2>3, RootImplements
  <2>4. CASE RedelegateStep
    <3>1. PICK r \in Redelegators : RedelegateInsert(r)
      BY <2>1, <2>4 DEF RedelegateStep, RedelegateAuth, RedelegateRead, RedelegateCheck,
                        RedelegateAbort
    <3> QED BY <2>1, <3>1, ChildImplements
  <2>5. ~\E S : Deactivate(S)
    BY <2>2, DeactivateRows, SameView
  <2>6. CASE RevokeTreeOpen \/ Tick \/ \E a \in Agents : RevokeAgent(a)
    BY <2>1, <2>6 DEF RevokeTreeOpen, RevokeTreeBegin, RevokeTreeAbort, Tick, RevokeAgent
  <2>7. CASE \/ \E v \in Revokers : RevokeTreeCommit(v)
             \/ \E d \in DOMAIN deleg : RevokeDelegation(d)
    BY <2>5, <2>7 DEF RevokeTreeCommit, RevokeDelegation
  <2> QED BY <2>3, <2>4, <2>6, <2>7 DEF ChainNext, LocalStep
<1> QED BY <1>1, <1>2, ChainInvariant, PTL DEF ChainSpec, ImplementsGrants
-----------------------------------------------------------------------------
(* The exchange and the revocation paths.                                  *)

LEMMA StepsAreChainSteps ==
    ASSUME [Next]_vars
    PROVE  [ChainNext]_chainVars
<1>1. CASE ChainStep
  BY <1>1 DEF ChainStep, ChainNext
<1>2. CASE ExchangeStep \/ PruneTokens
  <2>1. UNCHANGED chainVars
    BY <1>2 DEF ExchangeStep, ExchangeAuth, ExchangeLeaf, ExchangeWalk, ExchangeMint,
                ExchangeBegin, ExchangeRecord, ExchangeAbort, PruneTokens, Go
  <2> QED BY <2>1
<1>3. CASE RevokeStep
  BY <1>3 DEF RevokeStep, RevokeTreeTokens, RevokeDelegationTree, HandlerRevokeDelegation,
              RevokeByDelegation, ChainNext
<1>4. CASE UNCHANGED vars
  BY <1>4 DEF vars, chainVars
<1> QED BY <1>1, <1>2, <1>3, <1>4 DEF Next

(* The exchange is one more client of the table: it implements the chains  *)
(* service, whose theorems hold of it.                                     *)
THEOREM ExchangeImplementsChains == Spec => ChainSpec
<1>1. Init => ChainInit
  BY DEF Init
<1> QED BY <1>1, StepsAreChainSteps, PTL DEF Spec, ChainSpec

LEMMA AlwaysChainInv == Spec => []ChainInv
BY ExchangeImplementsChains, ChainInvariant, PTL

(* What any step does to rows and chains there already were.               *)
Steady ==
    /\ Typed /\ Keeps /\ now \in Nat /\ now' \in Nat /\ now <= now'
    /\ \A d \in DOMAIN deleg :
          /\ deleg[d] \in Rows /\ d \in Nat \ {0} /\ d \in DOMAIN deleg'
          /\ Chain(deleg', d) = Chain(deleg, d) /\ d \in Chain(deleg, d)
          /\ Chain(deleg, d) \subseteq DOMAIN deleg
          /\ Usable(d)' => Usable(d)

LEMMA AlwaysSteady ==
    ASSUME ChainInv, [Next]_vars
    PROVE  Steady
<1>1. Typed /\ now \in Nat
  BY DEF ChainInv, ChainTypeOK, Typed
<1>2. Keeps /\ now' \in Nat /\ now <= now'
  <2>1. CASE ChainNext
    BY <2>1, TableSteps, OtherSteps DEF TableStep
  <2>2. CASE UNCHANGED chainVars
    BY <1>1, <2>2 DEF chainVars, Keeps
  <2> QED BY <2>1, <2>2, StepsAreChainSteps
<1>3. ASSUME NEW d \in DOMAIN deleg
      PROVE  /\ deleg[d] \in Rows /\ d \in Nat \ {0} /\ d \in DOMAIN deleg'
             /\ Chain(deleg', d) = Chain(deleg, d) /\ d \in Chain(deleg, d)
             /\ Chain(deleg, d) \subseteq DOMAIN deleg
             /\ Usable(d)' => Usable(d)
  <2>1. deleg[d] \in Rows /\ d \in Nat \ {0} /\ deleg[d].exp \in Nat \cup {Absent}
    BY <1>1, TableTyped DEF Rows
  <2> QED BY <1>1, <1>2, <2>1, KeptChains DEF Keeps, Usable
<1> QED BY <1>1, <1>2, <1>3 DEF Steady
-----------------------------------------------------------------------------
(* Every row is within each row above it, and a chain has one root.        *)
Lineage ==
    \A d \in DOMAIN deleg : \A l \in Chain(deleg, d) :
        /\ Within(deleg[d], deleg[l])
        /\ \A r \in Chain(deleg, d) : deleg[r].parent = 0 /\ deleg[l].parent = 0 => r = l

LEMMA WithinTransitive ==
    ASSUME NEW a \in Rows, NEW b \in Rows, NEW c \in Rows, Within(a, b), Within(b, c)
    PROVE  Within(a, c)
<1>1. ~G!After(a.exp, c.exp)
  <2>1. a.exp \in Nat \cup {Absent} /\ b.exp \in Nat \cup {Absent} /\ c.exp \in Nat \cup {Absent}
    BY DEF Rows
  <2> QED BY <2>1, SentinelAssumption DEF Within, G!After
<1> QED BY <1>1 DEF Within

LEMMA WithinReflexive ==
    ASSUME NEW a \in Rows
    PROVE  Within(a, a)
<1>1. a.exp \in Nat \cup {Absent}
  BY DEF Rows
<1> QED BY <1>1, SentinelAssumption DEF Within, G!After

LEMMA LineageInvariant == Spec => []Lineage
<1>1. Init => Lineage
  BY DEF Init, ChainInit, Lineage
<1>2. ChainInv /\ Lineage /\ [Next]_vars => Lineage'
  <2> SUFFICES ASSUME ChainInv, Lineage, [Next]_vars PROVE Lineage'
    OBVIOUS
  <2>1. Steady
    BY AlwaysSteady
  <2> DEFINE Good(d) == \A l \in Chain(deleg', d) :
                /\ Within(deleg'[d], deleg'[l])
                /\ \A r \in Chain(deleg', d) :
                      deleg'[r].parent = 0 /\ deleg'[l].parent = 0 => r = l
  <2>2. ASSUME NEW d \in DOMAIN deleg PROVE Good(d)
    BY <2>1 DEF Steady, Keeps, Lineage, Within
  <2>3. CASE DOMAIN deleg' = DOMAIN deleg
    <3> HIDE DEF Good
    <3>1. \A d \in DOMAIN deleg' : Good(d)
      BY <2>2, <2>3
    <3> QED BY <3>1 DEF Good, Lineage, Within
  <2>4. CASE Grown
    <3>1. PICK row \in Rows : (RootOf(row) \/ ChildOf(row)) /\ Grows(row)
      BY <2>4 DEF Grown
    <3>2. Within(row, row)
      BY WithinReflexive
    <3>3. Good(New)
      <4>1. CASE RootOf(row)
        BY <3>1, <3>2, <4>1 DEF RootOf, Grows
      <4>2. CASE ChildOf(row)
        <5> DEFINE p == row.parent
        <5>1. p \in DOMAIN deleg /\ p # 0 /\ Within(row, deleg[p])
          BY <2>1, <4>2 DEF ChildOf, Steady
        <5>2. /\ Chain(deleg', New) = Chain(deleg, p) \cup {New} /\ deleg'[New] = row
              /\ \A d \in DOMAIN deleg : deleg'[d] = deleg[d]
          BY <3>1, <5>1 DEF Grows
        <5>3. ASSUME NEW l \in Chain(deleg, p) PROVE Within(row, deleg'[l])
          <6>1. l \in DOMAIN deleg /\ deleg[p] \in Rows /\ deleg[l] \in Rows
            BY <2>1, <5>1 DEF Steady
          <6>2. Within(deleg[p], deleg[l])
            BY <5>1 DEF Lineage
          <6>3. Within(row, deleg[l])
            BY <5>1, <6>1, <6>2, WithinTransitive
          <6> QED BY <5>2, <6>1, <6>3
        <5>4. ASSUME NEW l \in Chain(deleg, p), NEW r \in Chain(deleg, p),
                     deleg'[r].parent = 0, deleg'[l].parent = 0
              PROVE  r = l
          <6>1. l \in DOMAIN deleg /\ r \in DOMAIN deleg
            BY <2>1, <5>1 DEF Steady
          <6> QED BY <5>1, <5>2, <5>4, <6>1 DEF Lineage
        <5> QED BY <3>2, <5>1, <5>2, <5>3, <5>4
      <4> QED BY <3>1, <4>1, <4>2
    <3> HIDE DEF Good
    <3>4. \A d \in DOMAIN deleg' : Good(d)
      BY <2>2, <3>1, <3>3 DEF Grows
    <3> QED BY <3>4 DEF Good, Lineage, Within
  <2>5. DOMAIN deleg' = DOMAIN deleg \/ Grown
    <3>1. CASE ChainNext
      BY <3>1, TableSteps DEF TableStep
    <3>2. CASE UNCHANGED chainVars
      BY <3>2 DEF chainVars
    <3> QED BY <3>1, <3>2, StepsAreChainSteps
  <2> QED BY <2>3, <2>4, <2>5
<1> QED BY <1>1, <1>2, AlwaysChainInv, PTL DEF Spec
-----------------------------------------------------------------------------
(* A non-empty set of naturals has a least element, and one bounded by n a *)
(* greatest: the row ExchangeLeaf chooses.                                 *)
LEMMA LeastOf ==
    ASSUME NEW S, S \subseteq Nat, S # {}
    PROVE  \E x \in S : \A y \in S : x <= y
<1> DEFINE R == {p \in Nat \X Nat : p[1] < p[2]}
<1>1. IsWellFoundedOn(R, Nat)
  BY NatLessThanWellFounded DEF OpToRel
<1>2. PICK x \in S : \A y \in S : ~(<<y, x>> \in R)
  <2> HIDE DEF R
  <2> QED BY <1>1, WFMin
<1>3. \A y \in S : ~(y < x)
  <2> SUFFICES ASSUME NEW y \in S, y < x PROVE FALSE
    OBVIOUS
  <2>1. <<y, x>> \in Nat \X Nat /\ <<y, x>>[1] < <<y, x>>[2]
    OBVIOUS
  <2> QED BY <1>2, <2>1
<1> QED BY <1>3

LEMMA GreatestOf ==
    ASSUME NEW n \in Nat, NEW S, S \subseteq 1..n, S # {}
    PROVE  \E x \in S : \A y \in S : y <= x
<1> DEFINE U == {m \in Nat : \A y \in S : y <= m}
<1>1. n \in U /\ U \subseteq Nat
  OBVIOUS
<1>2. PICK m \in U : \A u \in U : m <= u
  <2> HIDE DEF U
  <2> QED BY <1>1, LeastOf
<1>3. m \in S
  <2> SUFFICES ASSUME m \notin S PROVE FALSE
    OBVIOUS
  <2>1. m \in Nat /\ \A y \in S : y \in Nat \ {0} /\ y <= m /\ y # m
    OBVIOUS
  <2>2. m - 1 \in Nat /\ \A y \in S : y <= m - 1
    <3>1. PICK w \in S : TRUE
      OBVIOUS
    <3>2. m \in Nat \ {0}
      BY <2>1, <3>1
    <3>3. \A y \in S : y <= m - 1
      BY <2>1, <3>2
    <3> QED BY <3>2, <3>3
  <2>3. m - 1 \in U
    BY <2>2
  <2> HIDE DEF U
  <2> QED BY <1>2, <2>1, <2>3
<1> QED BY <1>3

LEMMA NewestIsOne ==
    ASSUME Typed, NEW S, S \subseteq DOMAIN deleg, S # {}
    PROVE  Newest(S) \in S
<1>1. \E d \in S : \A e \in S : e <= d
  BY TableTyped, GreatestOf
<1> QED BY <1>1 DEF Newest
-----------------------------------------------------------------------------
(* What an exchange holds at each stage.                                   *)
Asking == [pc : {"leaf"}, agent : Agents, user : Users, subj : SUBSET Scopes]
Walking == [pc : {"walk", "mint"}, agent : Agents, user : Users, subj : SUBSET Scopes,
            leaf : Nat, at : Nat, snap : SUBSET Nat]
Minting == [pc : {"begin"}, agent : Agents, user : Users, leaf : Nat, snap : SUBSET Nat,
            scopes : SUBSET Scopes, aud : Values, exp : Nat]
Recording == [pc : {"record"}, agent : Agents, user : Users, leaf : Nat, snap : SUBSET Nat,
              scopes : SUBSET Scopes, aud : Values, exp : Nat, txnow : Nat]
Exchanges == {Idle} \cup Asking \cup Walking \cup Minting \cup Recording

(* The user at the root of row d's chain.                                  *)
RootedAt(d, user) ==
    \E r \in Chain(deleg, d) : deleg[r].parent = 0 /\ deleg[r].delegator = user

(* The claims are ones row d lets a token have.                            *)
Claims(scopes, aud, exp, d) ==
    /\ scopes \subseteq deleg[d].scopes /\ ~G!After(exp, deleg[d].exp)
    /\ permitList(deleg[d].cnst.allow["resources"], aud)

(* Of an exchange that chose its leaf: a link it has passed was usable in  *)
(* its first query, and one it has yet to pass is so if it still is.       *)
Facts(q) ==
    q.pc \in {"walk", "mint", "begin", "record"} =>
        /\ q.leaf \in DOMAIN deleg /\ deleg[q.leaf].delegatee = q.agent
        /\ \A d \in Chain(deleg, q.leaf) : Usable(d) => d \in q.snap
        /\ q.pc = "walk" =>
              /\ q.at \in Chain(deleg, q.leaf)
              /\ \A d \in Chain(deleg, q.leaf) : d \in q.snap \/ d \in Chain(deleg, q.at)
        /\ q.pc # "walk" => Chain(deleg, q.leaf) \subseteq q.snap /\ RootedAt(q.leaf, q.user)
        /\ q.pc \in {"begin", "record"} => Claims(q.scopes, q.aud, q.exp, q.leaf)

Known == exch \in [Exchangers -> Exchanges] /\ \A x \in Exchangers : Facts(exch[x])

LEMMA FactsStay ==
    ASSUME Steady, NEW q, Facts(q)
    PROVE  Facts(q)'
<1> SUFFICES ASSUME q.pc \in {"walk", "mint", "begin", "record"} PROVE Facts(q)'
  BY DEF Facts
<1> DEFINE c == Chain(deleg, q.leaf)
<1>1. /\ q.leaf \in DOMAIN deleg /\ q.leaf \in DOMAIN deleg'
      /\ Chain(deleg', q.leaf) = c /\ c \subseteq DOMAIN deleg
  BY DEF Facts, Steady
<1>2. /\ deleg'[q.leaf].delegatee = q.agent
      /\ \A d \in c : Usable(d)' => d \in q.snap
  BY <1>1 DEF Facts, Steady, Keeps
<1>3. q.pc = "walk" => /\ q.at \in c /\ Chain(deleg', q.at) = Chain(deleg, q.at)
                       /\ \A d \in c : d \in q.snap \/ d \in Chain(deleg, q.at)
  BY <1>1 DEF Facts, Steady
<1>4. RootedAt(q.leaf, q.user) => RootedAt(q.leaf, q.user)'
  BY <1>1 DEF RootedAt, Steady, Keeps
<1>5. Claims(q.scopes, q.aud, q.exp, q.leaf) => Claims(q.scopes, q.aud, q.exp, q.leaf)'
  BY <1>1 DEF Claims, Steady, Keeps
<1> QED BY <1>1, <1>2, <1>3, <1>4, <1>5 DEF Facts

LEMMA ChainsHere ==
    ASSUME ChainInv
    PROVE  /\ Typed /\ now \in Nat
           /\ \A d \in DOMAIN deleg :
                 /\ deleg[d] \in Rows /\ d \in Nat \ {0} /\ d \in Chain(deleg, d)
                 /\ Chain(deleg, d) \subseteq DOMAIN deleg
                 /\ deleg[d].parent # 0 =>
                       /\ deleg[d].parent \in DOMAIN deleg
                       /\ Chain(deleg, d) = Chain(deleg, deleg[d].parent) \cup {d}
                 /\ deleg[d].parent = 0 => Chain(deleg, d) = {d}
<1>1. Typed /\ now \in Nat
  BY DEF ChainInv, ChainTypeOK, Typed
<1>2. ASSUME NEW d \in DOMAIN deleg
      PROVE  /\ deleg[d] \in Rows /\ d \in Nat \ {0} /\ d \in Chain(deleg, d)
             /\ Chain(deleg, d) \subseteq DOMAIN deleg
             /\ deleg[d].parent # 0 =>
                   /\ deleg[d].parent \in DOMAIN deleg
                   /\ Chain(deleg, d) = Chain(deleg, deleg[d].parent) \cup {d}
             /\ deleg[d].parent = 0 => Chain(deleg, d) = {d}
  <2>1. /\ deleg[d] \in Rows /\ d \in Nat \ {0} /\ 1..d \subseteq DOMAIN deleg
        /\ deleg[d].parent \in 0..(d - 1) /\ WellParented(deleg)
    BY <1>1, TableTyped DEF Typed
  <2>2. deleg[d].parent # 0 => deleg[d].parent \in 1..d
    BY <2>1
  <2> QED BY <2>1, <2>2, ChainSelf, ChainRange, ChainOfChild, ChainRoot
<1> QED BY <1>1, <1>2

(* The links already passed and the one just read are those of the chain   *)
(* but the ones above.                                                     *)
LEMMA WalkSteps ==
    ASSUME ChainInv, NEW q \in Walking, q.pc = "walk", Facts(q), LinkUsable(q.at)
    PROVE  /\ deleg[q.at].parent # 0 => /\ [q EXCEPT !.at = deleg[q.at].parent] \in Walking
                                        /\ Facts([q EXCEPT !.at = deleg[q.at].parent])
           /\ deleg[q.at].parent = 0 /\ deleg[q.at].delegator = q.user =>
                 [q EXCEPT !.pc = "mint"] \in Walking /\ Facts([q EXCEPT !.pc = "mint"])
<1> DEFINE c == Chain(deleg, q.leaf)
<1>1. /\ q.leaf \in DOMAIN deleg /\ deleg[q.leaf].delegatee = q.agent
      /\ \A d \in c : Usable(d) => d \in q.snap
      /\ q.at \in c /\ \A d \in c : d \in q.snap \/ d \in Chain(deleg, q.at)
  BY DEF Facts
<1>2. q.at \in DOMAIN deleg /\ q.at \in q.snap
  BY <1>1, ChainsHere DEF LinkUsable
<1>3. ASSUME deleg[q.at].parent # 0
      PROVE  /\ [q EXCEPT !.at = deleg[q.at].parent] \in Walking
             /\ Facts([q EXCEPT !.at = deleg[q.at].parent])
  <2> DEFINE p == deleg[q.at].parent
             n == [q EXCEPT !.at = p]
  <2>1. p \in DOMAIN deleg /\ p \in Nat /\ Chain(deleg, q.at) = Chain(deleg, p) \cup {q.at}
    BY <1>2, <1>3, ChainsHere
  <2>2. p \in c
    <3>1. WellParented(deleg) /\ 1..q.leaf \subseteq DOMAIN deleg /\ q.leaf \in Nat
      BY <1>1, ChainsHere, TableTyped DEF Typed
    <3> QED BY <1>1, <1>3, <3>1, ChainClosed DEF ParentClosed
  <2>3. \A d \in c : d \in q.snap \/ d \in Chain(deleg, p)
    BY <1>1, <1>2, <2>1
  <2> HIDE DEF p
  <2>4. /\ n \in Walking /\ n.pc = "walk" /\ n.leaf = q.leaf /\ n.agent = q.agent
        /\ n.snap = q.snap /\ n.at = p
    BY <2>1 DEF Walking
  <2> HIDE DEF n
  <2>5. Facts(n)
    BY <1>1, <2>2, <2>3, <2>4 DEF Facts
  <2> QED BY <2>4, <2>5 DEF n, p
<1>4. ASSUME deleg[q.at].parent = 0, deleg[q.at].delegator = q.user
      PROVE  [q EXCEPT !.pc = "mint"] \in Walking /\ Facts([q EXCEPT !.pc = "mint"])
  <2> DEFINE n == [q EXCEPT !.pc = "mint"]
  <2>1. c \subseteq q.snap
    BY <1>1, <1>2, <1>4, ChainsHere
  <2>2. RootedAt(q.leaf, q.user)
    BY <1>1, <1>4 DEF RootedAt
  <2>3. /\ n \in Walking /\ n.pc = "mint" /\ n.leaf = q.leaf /\ n.agent = q.agent
        /\ n.snap = q.snap /\ n.user = q.user
    BY DEF Walking
  <2> HIDE DEF n
  <2>4. Facts(n)
    BY <1>1, <2>1, <2>2, <2>3 DEF Facts
  <2> QED BY <2>3, <2>4 DEF n
<1> QED BY <1>3, <1>4

(* A signed token's claims are within its leaf.                            *)
LEMMA MintSteps ==
    ASSUME ChainInv, NEW q \in Walking, q.pc = "mint", Facts(q),
           NEW requested \in SUBSET Scopes, NEW resource \in Resources,
           CanonicalizeResource(resource) \in deleg[q.leaf].cnst.allow["resources"]
    PROVE  \E n \in Minting :
              Facts(n) /\ n = [pc |-> "begin", agent |-> q.agent, user |-> q.user,
                 leaf |-> q.leaf, snap |-> q.snap,
                 scopes |-> Attenuate(q.subj, Attenuate(deleg[q.leaf].scopes, requested)),
                 aud |-> CanonicalizeResource(resource), exp |-> TokenExpiry(q.leaf)]
<1> DEFINE s == Attenuate(q.subj, Attenuate(deleg[q.leaf].scopes, requested))
           a == CanonicalizeResource(resource)
           e == TokenExpiry(q.leaf)
           n == [pc |-> "begin", agent |-> q.agent, user |-> q.user, leaf |-> q.leaf,
                 snap |-> q.snap, scopes |-> s, aud |-> a, exp |-> e]
<1>1. /\ q.leaf \in DOMAIN deleg /\ deleg[q.leaf] \in Rows /\ now \in Nat
      /\ a \in Values /\ q.leaf \in Nat
  BY ChainsHere, ChainsAssumption DEF Facts
<1>2. s \in SUBSET Scopes /\ s \subseteq deleg[q.leaf].scopes
  BY <1>1 DEF Attenuate, Rows, Walking
<1>3. e \in Nat /\ ~G!After(e, deleg[q.leaf].exp)
  <2>1. deleg[q.leaf].exp \in Nat \cup {Absent}
    BY <1>1 DEF Rows
  <2> QED BY <1>1, <2>1, ExchangeAssumption, SentinelAssumption DEF TokenExpiry, G!After
<1>4. permitList(deleg[q.leaf].cnst.allow["resources"], a)
  <2>1. deleg[q.leaf].cnst.allow["resources"] \in AllowLists
    BY <1>1 DEF Rows, ConstraintSets, Dims
  <2>2. denyAll \notin deleg[q.leaf].cnst.allow["resources"]
    BY <1>1, <2>1, SentinelAssumption DEF AllowLists
  <2> QED BY <2>2 DEF permitList
<1> HIDE DEF s, a, e
<1>5. n \in Minting
  BY <1>1, <1>2, <1>3 DEF Minting, Walking
<1>6. Facts(n)
  BY <1>2, <1>3, <1>4 DEF Facts, Claims
<1> QED BY <1>5, <1>6 DEF s, a, e

LEMMA ExchangeSteps ==
    ASSUME ChainInv, Known, Next
    PROVE  exch' = exch \/ \E x \in Exchangers, q \in Exchanges :
                              Facts(q) /\ exch' = [exch EXCEPT ![x] = q]
<1> DEFINE Moves(x) == \E q \in Exchanges : Facts(q) /\ exch' = [exch EXCEPT ![x] = q]
<1>1. Idle \in Exchanges /\ Facts(Idle)
  BY DEF Exchanges, Facts, Idle
<1>2. ASSUME NEW x \in Exchangers,
             \/ \E agent \in Agents, user \in Users, subj \in SUBSET Scopes :
                   ExchangeAuth(x, agent, user, subj)
             \/ ExchangeLeaf(x)
             \/ ExchangeWalk(x)
             \/ \E requested \in SUBSET Scopes, resource \in Resources :
                   ExchangeMint(x, requested, resource)
             \/ ExchangeBegin(x) \/ ExchangeRecord(x) \/ ExchangeAbort(x)
      PROVE  Moves(x)
  <2> DEFINE e == exch[x]
  <2>1. e \in Exchanges /\ Facts(e)
    BY DEF Known
  <2>2. ASSUME NEW agent \in Agents, NEW user \in Users, NEW subj \in SUBSET Scopes,
               ExchangeAuth(x, agent, user, subj)
        PROVE  Moves(x)
    <3> DEFINE q == [pc |-> "leaf", agent |-> agent, user |-> user, subj |-> subj]
    <3>1. q \in Exchanges /\ Facts(q) /\ exch' = [exch EXCEPT ![x] = q]
      BY <2>2 DEF ExchangeAuth, Go, Exchanges, Asking, Facts
    <3> QED BY <3>1
  <2>3. CASE ExchangeLeaf(x)
    <3> DEFINE S == UsableTo(e.agent)
    <3>1. CASE S = {}
      BY <1>1, <2>3, <3>1 DEF ExchangeLeaf, Go
    <3>2. CASE S # {}
      <4> DEFINE d == Newest(S)
                 snap == {l \in DOMAIN deleg : Usable(l)}
                 q == [pc |-> "walk", agent |-> e.agent, user |-> e.user, subj |-> e.subj,
                       leaf |-> d, at |-> d, snap |-> snap]
      <4>1. d \in S /\ S \subseteq DOMAIN deleg
        BY <3>2, NewestIsOne, ChainsHere DEF UsableTo
      <4>2. d \in DOMAIN deleg /\ deleg[d].delegatee = e.agent /\ d \in Nat
        BY <4>1, ChainsHere DEF UsableTo
      <4>3. exch' = [exch EXCEPT ![x] = q]
        BY <2>3, <3>2 DEF ExchangeLeaf, Go
      <4>4. e \in Asking
        BY <2>1, <2>3 DEF Exchanges, Asking, Walking, Minting, Recording, Idle, ExchangeLeaf
      <4>5. snap \in SUBSET Nat /\ \A l \in Chain(deleg, d) : Usable(l) => l \in snap
        BY <4>2, ChainsHere
      <4> HIDE DEF d, snap, S
      <4>6. q \in Walking
        BY <4>2, <4>4, <4>5 DEF Walking, Asking
      <4>7. Facts(q)
        BY <4>2, <4>5, ChainsHere DEF Facts
      <4> QED BY <4>3, <4>6, <4>7 DEF Exchanges
    <3> QED BY <3>1, <3>2
  <2>4. CASE ExchangeWalk(x)
    <3>1. e \in Walking /\ e.pc = "walk"
      BY <2>1, <2>4 DEF Exchanges, Asking, Walking, Minting, Recording, Idle, ExchangeWalk
    <3>2. \/ LinkUsable(e.at) /\ deleg[e.at].parent # 0
             /\ exch' = [exch EXCEPT ![x] = [e EXCEPT !.at = deleg[e.at].parent]]
          \/ LinkUsable(e.at) /\ deleg[e.at].parent = 0 /\ deleg[e.at].delegator = e.user
             /\ exch' = [exch EXCEPT ![x] = [e EXCEPT !.pc = "mint"]]
          \/ exch' = [exch EXCEPT ![x] = Idle]
      BY <2>4 DEF ExchangeWalk, Go
    <3>3. ASSUME LinkUsable(e.at), deleg[e.at].parent # 0
          PROVE  /\ [e EXCEPT !.at = deleg[e.at].parent] \in Walking
                 /\ Facts([e EXCEPT !.at = deleg[e.at].parent])
      BY <2>1, <3>1, <3>3, WalkSteps
    <3>4. ASSUME LinkUsable(e.at), deleg[e.at].parent = 0, deleg[e.at].delegator = e.user
          PROVE  [e EXCEPT !.pc = "mint"] \in Walking /\ Facts([e EXCEPT !.pc = "mint"])
      BY <2>1, <3>1, <3>4, WalkSteps
    <3> HIDE DEF e
    <3> QED BY <1>1, <3>2, <3>3, <3>4 DEF Exchanges
  <2>5. ASSUME NEW requested \in SUBSET Scopes, NEW resource \in Resources,
               ExchangeMint(x, requested, resource)
        PROVE  Moves(x)
    <3> DEFINE q == [pc |-> "begin", agent |-> e.agent, user |-> e.user,
                 leaf |-> e.leaf, snap |-> e.snap,
                 scopes |-> Attenuate(e.subj, Attenuate(deleg[e.leaf].scopes, requested)),
                 aud |-> CanonicalizeResource(resource), exp |-> TokenExpiry(e.leaf)]
    <3>1. e \in Walking /\ e.pc = "mint"
      BY <2>1, <2>5 DEF Exchanges, Asking, Walking, Minting, Recording, Idle, ExchangeMint
    <3>2. /\ exch' = [exch EXCEPT ![x] = q]
          /\ CanonicalizeResource(resource) \in deleg[e.leaf].cnst.allow["resources"]
      BY <2>5 DEF ExchangeMint, Go
    <3>3. q \in Minting /\ Facts(q)
      BY <2>1, <3>1, <3>2, MintSteps
    <3> QED BY <3>2, <3>3 DEF Exchanges
  <2>6. CASE ExchangeBegin(x)
    <3> DEFINE q == [pc |-> "record", agent |-> e.agent, user |-> e.user, leaf |-> e.leaf,
                     snap |-> e.snap, scopes |-> e.scopes, aud |-> e.aud, exp |-> e.exp,
                     txnow |-> now]
    <3>1. e \in Minting /\ e.pc = "begin"
      BY <2>1, <2>6 DEF Exchanges, Asking, Walking, Minting, Recording, Idle, ExchangeBegin
    <3>2. exch' = [exch EXCEPT ![x] = q]
      BY <2>6 DEF ExchangeBegin, Go
    <3>3. q \in Recording
      BY <3>1, ChainsHere DEF Minting, Recording
    <3>4. Facts(q)
      BY <2>1, <3>1 DEF Facts
    <3> QED BY <3>2, <3>3, <3>4 DEF Exchanges
  <2>7. CASE ExchangeRecord(x) \/ ExchangeAbort(x)
    BY <1>1, <2>7 DEF ExchangeRecord, ExchangeAbort, Go
  <2> QED BY <1>2, <2>2, <2>3, <2>4, <2>5, <2>6, <2>7
<1>3. CASE ExchangeStep
  BY <1>2, <1>3 DEF ExchangeStep
<1>4. CASE ChainStep \/ RevokeStep \/ PruneTokens
  BY <1>4 DEF ChainStep, RevokeStep, RevokeTreeTokens, RevokeDelegationTree,
              HandlerRevokeDelegation, RevokeByDelegation, PruneTokens
<1> QED BY <1>3, <1>4 DEF Next

LEMMA KnownInvariant == Spec => []Known
<1>1. Init => Known
  BY DEF Init, Known, Exchanges, Facts, Idle
<1>2. ChainInv /\ Known /\ [Next]_vars => Known'
  <2> SUFFICES ASSUME ChainInv, Known, [Next]_vars PROVE Known'
    OBVIOUS
  <2>1. exch' = exch \/ \E x \in Exchangers, q \in Exchanges :
                           Facts(q) /\ exch' = [exch EXCEPT ![x] = q]
    BY ExchangeSteps DEF vars
  <2>2. exch' \in [Exchangers -> Exchanges] /\ \A x \in Exchangers : Facts(exch'[x])
    BY <2>1 DEF Known
  <2>3. \A q : Facts(q) => Facts(q)'
    BY AlwaysSteady, FactsStay
  <2> HIDE DEF Facts
  <2> QED BY <2>2, <2>3 DEF Known, Facts
<1> QED BY <1>1, <1>2, AlwaysChainInv, PTL DEF Spec

(* A chain that resolves was whole at one instant, though its links are    *)
(* read one query at a time while revocations commit.                      *)
THEOREM ChainsResolveWhole == Spec => []ResolvesWholeChain
<1>1. Known => ResolvesWholeChain
  BY DEF Known, Facts, RootedAt, ResolvesWholeChain, Resolved
<1> QED BY <1>1, KnownInvariant, PTL
-----------------------------------------------------------------------------
(* The table of tokens.  A token stays as it is but for two flags that are *)
(* only ever set.                                                          *)
TokensKept ==
    /\ DOMAIN tokens \subseteq DOMAIN tokens'
    /\ \A k \in DOMAIN tokens :
          /\ tokens[k].revoked => tokens'[k].revoked
          /\ tokens[k].pruned => tokens'[k].pruned
          /\ \A f \in {"deleg", "subject", "agent", "aud", "scopes", "exp", "issued", "late"} :
                tokens'[k][f] = tokens[k][f]

(* A token as its exchange left it: within its row, of the user at the     *)
(* root and the agent at the leaf.                                         *)
Genuine(t) ==
    /\ t \in Tokens /\ t.deleg \in DOMAIN deleg
    /\ t.agent = deleg[t.deleg].delegatee /\ RootedAt(t.deleg, t.subject)
    /\ Claims(t.scopes, t.aud, t.exp, t.deleg)

Recorded == tokens \in Seq(Tokens) /\ \A k \in DOMAIN tokens : Genuine(tokens[k])

NewToken == Len(tokens) + 1

(* The step records t, and nothing else.                                   *)
Records(t) ==
    /\ tokens \in Seq(Tokens) /\ tokens' = Append(tokens, t)
    /\ Genuine(t) /\ t.late = Late(t.deleg)
    /\ ~t.pruned /\ ~RateExceeded(t.deleg, t.issued)
    /\ UNCHANGED <<chainVars, cascade, killing>>

(* The step sets flags: the revoked one of the tokens K, and the pruned    *)
(* one of some.                                                            *)
Flags(K) ==
    /\ tokens' = [k \in DOMAIN tokens |-> tokens'[k]]
    /\ \A k \in DOMAIN tokens :
          \E p \in BOOLEAN :
             /\ tokens[k].pruned => p
             /\ tokens'[k] = [tokens[k] EXCEPT !.revoked = @ \/ k \in K, !.pruned = p]

LEMMA FlagsKeep ==
    ASSUME tokens \in Seq(Tokens), NEW K, Flags(K)
    PROVE  /\ tokens' \in Seq(Tokens) /\ DOMAIN tokens' = DOMAIN tokens /\ TokensKept
           /\ \A k \in K \cap DOMAIN tokens : tokens'[k].revoked
<1>1. \A k \in DOMAIN tokens : tokens[k] \in Tokens
  BY ElementOfSeq, LenProperties
<1>2. ASSUME NEW k \in DOMAIN tokens
      PROVE  /\ tokens'[k] \in Tokens /\ (k \in K => tokens'[k].revoked)
             /\ tokens[k].revoked => tokens'[k].revoked
             /\ tokens[k].pruned => tokens'[k].pruned
             /\ \A f \in {"deleg", "subject", "agent", "aud", "scopes", "exp", "issued", "late"} :
                   tokens'[k][f] = tokens[k][f]
  <2>1. PICK p \in BOOLEAN :
           /\ tokens[k].pruned => p
           /\ tokens'[k] = [tokens[k] EXCEPT !.revoked = @ \/ k \in K, !.pruned = p]
    BY DEF Flags
  <2> DEFINE t == tokens[k]
             r == t.revoked \/ k \in K
  <2>2. t \in Tokens /\ r \in BOOLEAN /\ tokens'[k] = [t EXCEPT !.revoked = r, !.pruned = p]
    BY <1>1, <2>1 DEF Tokens
  <2>3. (t.revoked => r) /\ (k \in K => r) /\ (t.pruned => p)
    BY <2>1
  <2> HIDE DEF t, r
  <2>4. /\ tokens'[k] \in Tokens /\ tokens'[k].revoked = r /\ tokens'[k].pruned = p
        /\ tokens'[k].deleg = t.deleg /\ tokens'[k].subject = t.subject
        /\ tokens'[k].agent = t.agent /\ tokens'[k].aud = t.aud
        /\ tokens'[k].scopes = t.scopes /\ tokens'[k].exp = t.exp
        /\ tokens'[k].issued = t.issued /\ tokens'[k].late = t.late
    BY <2>2 DEF Tokens
  <2> QED BY <2>3, <2>4 DEF t
<1>3. TokensKept
  BY <1>2 DEF TokensKept, Flags
<1>4. tokens' \in Seq(Tokens) /\ DOMAIN tokens' = DOMAIN tokens
  <2>1. DOMAIN tokens = 1..Len(tokens) /\ Len(tokens) \in Nat
    BY LenProperties
  <2>2. tokens' \in [1..Len(tokens) -> Tokens]
    BY <1>2, <2>1 DEF Flags
  <2> QED BY <2>1, <2>2, SeqDef
<1> QED BY <1>2, <1>3, <1>4

LEMMA RecordsKeep ==
    ASSUME NEW t, Records(t)
    PROVE  /\ tokens' \in Seq(Tokens) /\ TokensKept
           /\ DOMAIN tokens' = DOMAIN tokens \cup {NewToken} /\ NewToken \notin DOMAIN tokens
           /\ tokens'[NewToken] = t /\ \A k \in DOMAIN tokens : tokens'[k] = tokens[k]
<1>1. /\ tokens \in Seq(Tokens) /\ t \in Tokens /\ tokens' = Append(tokens, t)
      /\ DOMAIN tokens = 1..Len(tokens) /\ Len(tokens) \in Nat
  BY LenProperties DEF Records, Genuine
<1>2. /\ tokens' \in Seq(Tokens) /\ Len(tokens') = NewToken /\ tokens'[NewToken] = t
      /\ \A k \in 1..Len(tokens) : tokens'[k] = tokens[k]
  BY <1>1, AppendProperties DEF NewToken
<1>3. DOMAIN tokens' = 1..NewToken
  BY <1>2, LenProperties
<1>4. DOMAIN tokens' = DOMAIN tokens \cup {NewToken} /\ NewToken \notin DOMAIN tokens
  BY <1>1, <1>3 DEF NewToken
<1> QED BY <1>1, <1>2, <1>4 DEF TokensKept

(* What a step does to the tokens.                                         *)
LEMMA TokenSteps ==
    ASSUME ChainInv, Known, Recorded, Next
    PROVE  \/ tokens' = tokens
           \/ \E t \in Tokens : Records(t)
           \/ \E v \in Revokers : RevokeDelegationTree(v) /\ Flags(killing[v].toks)
           \/ \E d \in cascade : RevokeByDelegation(d) /\ Flags(TokensOf({d}))
           \/ PruneTokens /\ Flags({})
<1> DEFINE Typeds == \A k \in DOMAIN tokens : tokens[k] \in Tokens
<1>1. Typeds
  BY ElementOfSeq, LenProperties DEF Recorded
<1>2. ASSUME NEW K, Kill(K)
      PROVE  Flags(K)
  <2>1. tokens' = [k \in DOMAIN tokens |-> tokens'[k]]
    BY <1>2 DEF Kill
  <2>2. ASSUME NEW k \in DOMAIN tokens
        PROVE  \E p \in BOOLEAN :
                  /\ tokens[k].pruned => p
                  /\ tokens'[k] = [tokens[k] EXCEPT !.revoked = @ \/ k \in K, !.pruned = p]
    <3> DEFINE t == tokens[k]
    <3>1. t \in Tokens /\ tokens'[k] = IF k \in K THEN [t EXCEPT !.revoked = TRUE] ELSE t
      BY <1>1, <1>2, <2>2 DEF Kill
    <3> HIDE DEF t
    <3>2. /\ t.pruned \in BOOLEAN
          /\ tokens'[k] = [t EXCEPT !.revoked = @ \/ k \in K, !.pruned = t.pruned]
      BY <3>1 DEF Tokens
    <3> QED BY <3>2 DEF t
  <2> QED BY <2>1, <2>2 DEF Flags
<1>3. ASSUME PruneTokens
      PROVE  Flags({})
  <2>1. tokens' = [k \in DOMAIN tokens |-> tokens'[k]]
    BY <1>3 DEF PruneTokens
  <2>2. ASSUME NEW k \in DOMAIN tokens
        PROVE  \E p \in BOOLEAN :
                  /\ tokens[k].pruned => p
                  /\ tokens'[k] = [tokens[k] EXCEPT !.revoked = @ \/ k \in {}, !.pruned = p]
    <3> DEFINE t == tokens[k]
               p == t.pruned \/ t.exp + TokenGrace < now
    <3>1. t \in Tokens /\ tokens'[k] = [t EXCEPT !.pruned = p]
      BY <1>1, <1>3, <2>2 DEF PruneTokens
    <3>2. p \in BOOLEAN /\ (t.pruned => p)
      BY <3>1 DEF Tokens
    <3> HIDE DEF t, p
    <3>3. tokens'[k] = [t EXCEPT !.revoked = @ \/ k \in {}, !.pruned = p]
      BY <3>1 DEF Tokens
    <3> QED BY <3>2, <3>3 DEF t
  <2> QED BY <2>1, <2>2 DEF Flags
<1>4. ASSUME NEW x \in Exchangers, ExchangeRecord(x)
      PROVE  tokens' = tokens \/ \E t \in Tokens : Records(t)
  <2> DEFINE e == exch[x]
             l == Late(e.leaf)
             t == [deleg |-> e.leaf, subject |-> e.user, agent |-> e.agent, aud |-> e.aud,
                   scopes |-> e.scopes, exp |-> e.exp, issued |-> e.txnow,
                   revoked |-> FALSE, pruned |-> FALSE, late |-> l]
  <2>1. e \in Recording /\ Facts(e)
    BY <1>4 DEF Known, Exchanges, Asking, Walking, Minting, Recording, Idle, ExchangeRecord
  <2>2. \/ tokens' = tokens
        \/ tokens' = Append(tokens, t) /\ ~RateExceeded(t.deleg, t.issued)
    BY <1>4 DEF ExchangeRecord
  <2>3. UNCHANGED <<chainVars, cascade, killing>>
    BY <1>4 DEF ExchangeRecord
  <2>4. l \in BOOLEAN
    BY ChainsHere, <2>1 DEF Late, Facts, Recording, Rows
  <2> HIDE DEF l
  <2>5. t \in Tokens
    BY <2>1, <2>4 DEF Recording, Tokens
  <2>6. Genuine(t)
    BY <2>1, <2>5 DEF Genuine, Facts, Recording
  <2>7. t.late = Late(t.deleg) /\ ~t.pruned
    BY DEF l
  <2> HIDE DEF t, e
  <2> QED BY <2>2, <2>3, <2>5, <2>6, <2>7 DEF Records, Recorded
<1>5. CASE ExchangeStep
  <2>1. tokens' = tokens \/ \E x \in Exchangers : ExchangeRecord(x)
    BY <1>5 DEF ExchangeStep, ExchangeAuth, ExchangeLeaf, ExchangeWalk, ExchangeMint,
                ExchangeBegin, ExchangeAbort, Go
  <2> QED BY <1>4, <2>1
<1>6. CASE RevokeStep
  <2>1. \/ tokens' = tokens
        \/ \E v \in Revokers : RevokeDelegationTree(v)
        \/ \E d \in cascade : RevokeByDelegation(d)
    BY <1>6 DEF RevokeStep, RevokeTreeTokens, HandlerRevokeDelegation
  <2> QED BY <1>2, <2>1 DEF RevokeDelegationTree, RevokeByDelegation
<1>7. CASE ChainStep
  BY <1>7 DEF ChainStep
<1> QED BY <1>3, <1>5, <1>6, <1>7 DEF Next

LEMMA TokensAreKept ==
    ASSUME ChainInv, Known, Recorded, [Next]_vars
    PROVE  Recorded' /\ TokensKept
<1>1. ASSUME NEW t, Genuine(t) PROVE Genuine(t)'
  <2>1. Steady
    BY AlwaysSteady
  <2> QED BY <1>1, <2>1 DEF Genuine, Steady, Keeps, RootedAt, Claims
<1>2. CASE tokens' = tokens
  BY <1>1, <1>2 DEF Recorded, TokensKept
<1>3. ASSUME NEW t, Records(t)
      PROVE  Recorded' /\ TokensKept
  <2>1. Genuine(t)
    BY <1>3 DEF Records
  <2>2. \A k \in DOMAIN tokens' : Genuine(tokens'[k])
    BY <1>3, <2>1, RecordsKeep DEF Recorded
  <2> HIDE DEF Genuine
  <2> QED BY <1>1, <1>3, <2>2, RecordsKeep DEF Recorded
<1>4. ASSUME NEW K, Flags(K)
      PROVE  Recorded' /\ TokensKept
  <2>1. tokens' \in Seq(Tokens) /\ DOMAIN tokens' = DOMAIN tokens /\ TokensKept
    BY <1>4, FlagsKeep DEF Recorded
  <2>2. ASSUME NEW k \in DOMAIN tokens PROVE Genuine(tokens'[k])
    <3>1. tokens'[k] \in Tokens
      BY <2>1, ElementOfSeq, LenProperties
    <3> QED BY <2>1, <3>1 DEF Genuine, Recorded, TokensKept
  <2> HIDE DEF Genuine
  <2> QED BY <1>1, <2>1, <2>2 DEF Recorded
<1> QED BY <1>2, <1>3, <1>4, TokenSteps DEF vars

LEMMA RecordedInvariant == Spec => []Recorded
<1>1. Init => Recorded
  BY EmptySeq DEF Init, Recorded
<1>2. ChainInv /\ Known /\ Recorded /\ [Next]_vars => Recorded'
  BY TokensAreKept
<1> QED BY <1>1, <1>2, AlwaysChainInv, KnownInvariant, PTL DEF Spec

(* A token carries no more than any link of the chain it was minted from,  *)
(* and names the user at its root and the agent at its leaf.               *)
THEOREM TokensStayWithinChains == Spec => []TokenWithinChain
<1>1. ChainInv /\ Recorded /\ Lineage => TokenWithinChain
  <2> SUFFICES ASSUME ChainInv, Recorded, Lineage, NEW k \in DOMAIN tokens,
                      NEW l \in Chain(deleg, tokens[k].deleg)
               PROVE  /\ tokens[k].agent = deleg[tokens[k].deleg].delegatee
                      /\ tokens[k].scopes \subseteq deleg[l].scopes
                      /\ ~G!After(tokens[k].exp, deleg[l].exp)
                      /\ permitList(deleg[l].cnst.allow["resources"], tokens[k].aud)
                      /\ deleg[l].parent = 0 => deleg[l].delegator = tokens[k].subject
    <3>1. ChainInv /\ Recorded =>
             \A k \in DOMAIN tokens : tokens[k].agent = deleg[tokens[k].deleg].delegatee
      BY DEF Recorded, Genuine
    <3> QED BY <3>1 DEF TokenWithinChain
  <2> DEFINE t == tokens[k]
             d == tokens[k].deleg
  <2>1. Genuine(t) /\ d \in DOMAIN deleg /\ Within(deleg[d], deleg[l]) /\ t.exp \in Nat
    BY DEF Recorded, Genuine, Lineage, Tokens
  <2>2. l \in DOMAIN deleg
    BY <2>1, ChainsHere
  <2>3. deleg[d].exp \in Nat \cup {Absent} /\ deleg[l].exp \in Nat \cup {Absent}
    BY <2>1, <2>2, ChainsHere DEF Rows
  <2>4. ~G!After(t.exp, deleg[l].exp)
    BY <2>1, <2>3, SentinelAssumption DEF Genuine, Claims, Within, G!After
  <2>5. deleg[l].parent = 0 => deleg[l].delegator = t.subject
    BY <2>1 DEF Genuine, RootedAt, Lineage
  <2> QED BY <2>1, <2>4, <2>5 DEF Genuine, Claims, Within
<1> QED BY <1>1, AlwaysChainInv, RecordedInvariant, LineageInvariant, PTL

(* An inactive token stays inactive: no later write and no pruning of its  *)
(* row makes the store report it active.                                   *)
THEOREM InactiveForGood == Spec => InactiveStaysInactive
<1>1. ASSUME ChainInv, Known, Recorded, [Next]_vars, NEW k \in DOMAIN tokens, ~IsActive(k)
      PROVE  ~IsActive(k)'
  <2>1. /\ tokens[k].revoked => tokens'[k].revoked
        /\ tokens[k].pruned => tokens'[k].pruned
        /\ tokens'[k]["exp"] = tokens[k]["exp"]
    BY <1>1, TokensAreKept DEF TokensKept
  <2>2. now \in Nat /\ now' \in Nat /\ now <= now' /\ tokens[k].exp \in Nat
    BY <1>1, AlwaysSteady DEF Steady, Recorded, Genuine, Tokens
  <2> QED BY <1>1, <2>1, <2>2 DEF IsActive
<1>2. ChainInv /\ Known /\ Recorded /\ [Next]_vars
         => [\A k \in DOMAIN tokens : ~IsActive(k) => ~IsActive(k)']_vars
  BY <1>1
<1> QED BY <1>2, AlwaysChainInv, KnownInvariant, RecordedInvariant, PTL
        DEF Spec, InactiveStaysInactive
-----------------------------------------------------------------------------
(* What an open tree revocation (x of revtx, y of killing) has in hand: no *)
(* row above its root, and, once its second statement ran, every token of  *)
(* the subtree but those recorded meanwhile, which are late.               *)
Open(x, y) ==
    /\ x.pc = "commit" => x.rows \subseteq Tree(deleg, x.root)
    /\ \/ y = NotRevoking
       \/ /\ x.pc = "commit"
          /\ y \in [pc : {"tokens"}, toks : SUBSET (DOMAIN tokens)]
          /\ \A k \in DOMAIN tokens :
                tokens[k].deleg \in Tree(deleg, x.root) /\ ~tokens[k].late => k \in y.toks

Doomed == /\ cascade \subseteq DOMAIN deleg
          /\ killing = [v \in Revokers |-> killing[v]]
          /\ \A v \in Revokers : Open(revtx[v], killing[v])

Txs == {NotRevoking}
    \cup [pc : {"commit"}, root : DOMAIN deleg, rows : SUBSET (DOMAIN deleg)]

LEMMA TxsTyped == ChainInv => revtx \in [Revokers -> Txs]
BY DEF ChainInv, ChainTypeOK, Txs

(* An exchange or a sweep leaves the chains and the revocations alone.     *)
LEMMA ExchangesRevokeNothing ==
    ASSUME ExchangeStep \/ PruneTokens
    PROVE  UNCHANGED <<chainVars, cascade, killing>>
<1> DEFINE Quiet == UNCHANGED <<chainVars, cascade, killing>>
<1>1. \A x, rec : Go(x, rec) => Quiet
  BY DEF Go
<1> HIDE DEF Quiet
<1>2. PruneTokens => Quiet
  BY DEF PruneTokens, Quiet
<1>3. ASSUME NEW x \in Exchangers
      PROVE  /\ \A agent, user, subj : ExchangeAuth(x, agent, user, subj) => Quiet
             /\ ExchangeLeaf(x) => Quiet
             /\ ExchangeWalk(x) => Quiet
             /\ \A requested, resource : ExchangeMint(x, requested, resource) => Quiet
             /\ ExchangeBegin(x) => Quiet
             /\ ExchangeRecord(x) => Quiet
             /\ ExchangeAbort(x) => Quiet
  <2>1. \A agent, user, subj : ExchangeAuth(x, agent, user, subj) => Quiet
    BY <1>1 DEF ExchangeAuth
  <2>2. ExchangeLeaf(x) => Quiet
    BY <1>1 DEF ExchangeLeaf
  <2>3. ExchangeWalk(x) => Quiet
    BY <1>1 DEF ExchangeWalk
  <2>4. \A requested, resource : ExchangeMint(x, requested, resource) => Quiet
    BY <1>1 DEF ExchangeMint
  <2>5. ExchangeBegin(x) => Quiet
    BY <1>1 DEF ExchangeBegin
  <2>6. ExchangeRecord(x) => Quiet
    BY DEF ExchangeRecord, Quiet
  <2>7. ExchangeAbort(x) => Quiet
    BY <1>1 DEF ExchangeAbort
  <2> QED BY <2>1, <2>2, <2>3, <2>4, <2>5, <2>6, <2>7
<1> QED BY <1>2, <1>3 DEF ExchangeStep, Quiet

(* What a step does to the revocation in slot v.                           *)
LEMMA SlotSteps ==
    ASSUME ChainInv, Doomed, Next, NEW v \in Revokers
    PROVE  \/ revtx'[v] = revtx[v] /\ killing'[v] = killing[v]
           \/ revtx'[v] = NotRevoking /\ killing'[v] = NotRevoking
           \/ /\ killing'[v] = NotRevoking
              /\ \E d \in DOMAIN deleg :
                    revtx'[v] = [pc |-> "commit", root |-> d, rows |-> Tree(deleg, d)]
           \/ /\ revtx[v].pc = "commit" /\ UNCHANGED <<chainVars, tokens>>
              /\ killing'[v] = [pc |-> "tokens", toks |-> TokensOf(Tree(deleg, revtx[v].root))]
<1>1. revtx \in [Revokers -> Txs] /\ Open(revtx[v], killing[v])
  BY TxsTyped DEF Doomed
<1>2. revtx[v].pc # "commit" => revtx[v] = NotRevoking /\ killing[v] = NotRevoking
  BY <1>1 DEF Open, Txs
<1>3. killing = [u \in Revokers |-> killing[u]]
  BY DEF Doomed
<1>4. CASE ChainStep
  <2>1. LocalStep /\ killing'[v] = IF revtx'[v] = NotRevoking THEN NotRevoking ELSE killing[v]
    BY <1>4 DEF ChainStep
  <2>2. CASE RevokeTreeOpen
    <3>1. PICK u \in Revokers : \/ \E d \in DOMAIN deleg, user \in Users : RevokeTreeBegin(u, d, user)
                                \/ RevokeTreeAbort(u)
      BY <2>2 DEF RevokeTreeOpen
    <3>2. ASSUME NEW d \in DOMAIN deleg, NEW user \in Users, RevokeTreeBegin(u, d, user), u = v
          PROVE  /\ killing[v] = NotRevoking
                 /\ revtx'[v] = [pc |-> "commit", root |-> d, rows |-> Tree(deleg, d)]
      BY <1>1, <1>2, <3>2 DEF RevokeTreeBegin, RevokedRows
    <3>3. ASSUME RevokeTreeAbort(u), u = v
          PROVE  revtx'[v] = NotRevoking
      BY <1>1, <3>3 DEF RevokeTreeAbort
    <3>4. u # v => revtx'[v] = revtx[v]
      BY <1>1, <3>1 DEF RevokeTreeAbort, RevokeTreeBegin
    <3>5. NotRevoking.pc # "commit"
      BY DEF NotRevoking
    <3> QED BY <1>2, <2>1, <3>1, <3>2, <3>3, <3>4, <3>5
  <2>3. CASE ~RevokeTreeOpen
    <3>1. revtx' = revtx
      BY <2>1, <2>3 DEF LocalStep, RootStep, GrantConsent, CreateDelegation, RedelegateStep,
            RedelegateAuth, RedelegateRead, RedelegateCheck, RedelegateInsert,
            RedelegateAbort, RevokeAgent, Tick
    <3>2. NotRevoking.pc # "commit"
      BY DEF NotRevoking
    <3> QED BY <1>2, <2>1, <3>1, <3>2
  <2> QED BY <2>2, <2>3
<1>5. CASE ExchangeStep \/ PruneTokens
  BY <1>5, ExchangesRevokeNothing DEF chainVars
<1>6. CASE \E u \in Revokers : RevokeTreeTokens(u)
  BY <1>3, <1>6 DEF chainVars, RevokeTreeTokens
<1>7. CASE \E u \in Revokers : RevokeDelegationTree(u)
  BY <1>1, <1>3, <1>7 DEF RevokeDelegationTree, RevokeTreeCommit
<1>8. CASE \/ \E d \in DOMAIN deleg : HandlerRevokeDelegation(d)
           \/ \E d \in cascade : RevokeByDelegation(d)
  BY <1>8 DEF chainVars, HandlerRevokeDelegation, RevokeDelegation, RevokeByDelegation
<1> QED BY <1>4, <1>5, <1>6, <1>7, <1>8 DEF Next, RevokeStep

(* A tree is decided, for the rows there are, by chains that do not change. *)
LEMMA TreeKept ==
    ASSUME Steady, NEW r
    PROVE  \A d \in DOMAIN deleg : d \in Tree(deleg', r) <=> d \in Tree(deleg, r)
BY DEF Steady, Tree

LEMMA OpenStays ==
    ASSUME ChainInv, Known, Recorded, Doomed, Next, NEW v \in Revokers
    PROVE  Open(revtx[v], killing[v])'
<1>1. Steady /\ TokensKept /\ Recorded'
  BY AlwaysSteady, TokensAreKept
<1>2. revtx[v] \in Txs /\ Open(revtx[v], killing[v])
  BY TxsTyped DEF Doomed
<1>3. CASE revtx'[v] = NotRevoking /\ killing'[v] = NotRevoking
  BY <1>3 DEF Open, NotRevoking
<1>4. ASSUME killing'[v] = NotRevoking, NEW d \in DOMAIN deleg,
             revtx'[v] = [pc |-> "commit", root |-> d, rows |-> Tree(deleg, d)]
      PROVE  Open(revtx[v], killing[v])'
  <2>1. Tree(deleg, d) \subseteq Tree(deleg', d)
    BY <1>1, TreeKept DEF Tree
  <2> QED BY <1>4, <2>1 DEF Open
<1>5. CASE /\ revtx[v].pc = "commit" /\ UNCHANGED <<chainVars, tokens>>
           /\ killing'[v] = [pc |-> "tokens", toks |-> TokensOf(Tree(deleg, revtx[v].root))]
  BY <1>2, <1>5 DEF Open, TokensOf, chainVars
<1>6. CASE revtx'[v] = revtx[v] /\ killing'[v] = killing[v]
  <2> DEFINE x == revtx[v]
             y == killing[v]
  <2>1. x.pc = "commit" => x.rows \subseteq Tree(deleg', x.root)
    <3>1. x.pc = "commit" => x.rows \subseteq DOMAIN deleg
      BY <1>2 DEF Txs, NotRevoking
    <3> QED BY <1>1, <1>2, <3>1, TreeKept DEF Open
  <2>2. CASE y = NotRevoking
    BY <1>6, <2>1, <2>2 DEF Open
  <2>3. CASE y # NotRevoking
    <3>1. /\ x.pc = "commit"
          /\ y \in [pc : {"tokens"}, toks : SUBSET (DOMAIN tokens)]
          /\ \A k \in DOMAIN tokens :
                tokens[k].deleg \in Tree(deleg, x.root) /\ ~tokens[k].late => k \in y.toks
      BY <1>2, <2>3 DEF Open
    <3>2. y \in [pc : {"tokens"}, toks : SUBSET (DOMAIN tokens')]
      BY <1>1, <3>1 DEF TokensKept
    <3>3. ASSUME NEW k \in DOMAIN tokens, tokens'[k].deleg \in Tree(deleg', x.root),
                 ~tokens'[k].late
          PROVE  k \in y.toks
      <4>1. tokens'[k]["deleg"] = tokens[k]["deleg"] /\ tokens'[k]["late"] = tokens[k]["late"]
        BY <1>1 DEF TokensKept
      <4>2. tokens[k].deleg \in DOMAIN deleg
        BY DEF Recorded, Genuine
      <4> QED BY <1>1, <3>1, <3>3, <4>1, <4>2, TreeKept
    <3>4. ASSUME NEW k \in DOMAIN tokens' \ DOMAIN tokens,
                 tokens'[k].deleg \in Tree(deleg', x.root), ~tokens'[k].late
          PROVE  FALSE
      <4>1. PICK t \in Tokens : Records(t)
        <5>1. ASSUME NEW K, Flags(K) PROVE DOMAIN tokens' = DOMAIN tokens
          BY <5>1, FlagsKeep DEF Recorded
        <5> QED BY <3>4, <5>1, TokenSteps
      <4>2. tokens'[k] = t /\ t.late = Late(t.deleg) /\ deleg' = deleg
        BY <3>4, <4>1, RecordsKeep DEF Records, chainVars
      <4>3. t.deleg \in Tree(deleg, revtx[v].root) /\ killing[v].pc = "tokens"
        BY <3>1, <3>4, <4>2
      <4> QED BY <3>4, <4>2, <4>3 DEF Late
    <3> QED BY <1>6, <2>1, <3>1, <3>2, <3>3, <3>4 DEF Open
  <2> QED BY <2>2, <2>3
<1> QED BY <1>3, <1>4, <1>5, <1>6, SlotSteps

LEMMA DoomedInvariant == Spec => []Doomed
<1>1. Init => Doomed
  BY DEF Init, ChainInit, Doomed, Open, NotRevoking
<1>2. ASSUME ChainInv, Known, Recorded, Doomed, Next PROVE Doomed'
  <2>1. cascade' \subseteq DOMAIN deleg'
    <3>1. DOMAIN deleg \subseteq DOMAIN deleg'
      BY <1>2, AlwaysSteady DEF Steady, Keeps
    <3>2. cascade' \subseteq DOMAIN deleg
      BY <1>2 DEF Doomed, Next, ChainStep, ExchangeStep, ExchangeAuth, ExchangeLeaf, ExchangeWalk,
            ExchangeMint, ExchangeBegin, ExchangeRecord, ExchangeAbort, Go, RevokeStep,
            RevokeTreeTokens, RevokeDelegationTree, HandlerRevokeDelegation,
            RevokeByDelegation, PruneTokens
    <3> QED BY <3>1, <3>2
  <2>2. killing' = [v \in Revokers |-> killing'[v]]
    BY <1>2 DEF Doomed, Next, ChainStep, ExchangeStep, ExchangeAuth, ExchangeLeaf, ExchangeWalk,
          ExchangeMint, ExchangeBegin, ExchangeRecord, ExchangeAbort, Go, RevokeStep,
          RevokeTreeTokens, RevokeDelegationTree, HandlerRevokeDelegation,
          RevokeByDelegation, PruneTokens
  <2> QED BY <1>2, <2>1, <2>2, OpenStays DEF Doomed
<1>3. Doomed /\ UNCHANGED vars => Doomed'
  BY DEF vars, Doomed, Open
<1> QED BY <1>1, <1>2, <1>3, AlwaysChainInv, KnownInvariant, RecordedInvariant, PTL DEF Spec

(* Only the steps that revoke a row write to one there was.                *)
LEMMA LocalRows ==
    ASSUME ChainInv, LocalStep, NEW d \in DOMAIN deleg
    PROVE  deleg'[d] = deleg[d]
<1>1. Typed /\ DOMAIN deleg = 1..Len(deleg) /\ Len(deleg) \in Nat
  BY ChainsHere, TableTyped
<1>2. ASSUME NEW row, Insert(row) PROVE deleg'[d] = deleg[d]
  <2>1. deleg \in Seq(Rows \cup {row})
    <3>1. \A i \in 1..Len(deleg) : deleg[i] \in Rows \cup {row}
      BY <1>1, ElementOfSeq DEF Typed
    <3>2. deleg \in [1..Len(deleg) -> Rows \cup {row}]
      BY <1>1, <3>1, LenProperties DEF Typed
    <3> QED BY <1>1, <3>2, SeqDef
  <2> QED BY <1>1, <1>2, <2>1, AppendProperties DEF Insert
<1>3. deleg' = deleg \/ \E row : Insert(row)
  <2>1. CASE RootStep
    BY <2>1 DEF RootStep, GrantConsent, CreateDelegation
  <2>2. CASE RedelegateStep
    BY <2>2 DEF RedelegateStep, RedelegateAuth, RedelegateRead, RedelegateCheck,
                RedelegateInsert, RedelegateAbort
  <2>3. CASE ~RootStep /\ ~RedelegateStep
    BY <2>3 DEF LocalStep, RevokeTreeOpen, RevokeTreeBegin, RevokeTreeAbort, RevokeAgent, Tick
  <2> QED BY <2>1, <2>2, <2>3
<1> QED BY <1>2, <1>3

(* Both revocation paths reach every token recorded before them.           *)
THEOREM RevocationReachesTokens == Spec => []RecordedTokensDie
<1>1. Init => RecordedTokensDie
  BY DEF Init, RecordedTokensDie
<1>2. ASSUME ChainInv, Known, Recorded, Doomed, RecordedTokensDie, Next
      PROVE  RecordedTokensDie'
  <2> SUFFICES ASSUME NEW k \in DOMAIN tokens', IsActive(k)',
                      tokens'[k].deleg \notin cascade', ~tokens'[k].late
               PROVE  deleg'[tokens'[k].deleg].active
    BY DEF RecordedTokensDie
  <2>1. Steady /\ TokensKept
    BY <1>2, AlwaysSteady, TokensAreKept
  <2>2. CASE k \notin DOMAIN tokens
    <3>1. ASSUME NEW K, Flags(K) PROVE DOMAIN tokens' = DOMAIN tokens
      BY <1>2, <3>1, FlagsKeep DEF Recorded
    <3>2. PICK t \in Tokens : Records(t)
      BY <1>2, <2>2, <3>1, TokenSteps
    <3>3. tokens'[k] = t /\ t.late = Late(t.deleg) /\ deleg' = deleg
      BY <2>2, <3>2, RecordsKeep DEF Records, chainVars
    <3> QED BY <3>3 DEF Late
  <2>3. CASE k \in DOMAIN tokens
    <3> DEFINE d == tokens[k].deleg
    <3>1. /\ tokens'[k]["deleg"] = tokens[k]["deleg"] /\ tokens'[k]["late"] = tokens[k]["late"]
          /\ tokens'[k]["exp"] = tokens[k]["exp"]
          /\ tokens[k].revoked => tokens'[k].revoked
          /\ tokens[k].pruned => tokens'[k].pruned
      BY <2>1, <2>3 DEF TokensKept
    <3>2. d \in DOMAIN deleg /\ tokens[k].exp \in Nat /\ deleg[d].active \in BOOLEAN
      <4>1. d \in DOMAIN deleg /\ tokens[k].exp \in Nat
        BY <1>2, <2>3 DEF Recorded, Genuine, Tokens
      <4> QED BY <2>1, <4>1 DEF Steady, Rows
    <3>3. IsActive(k) /\ ~tokens'[k].revoked /\ ~tokens[k].late /\ d \notin cascade'
      BY <2>1, <3>1, <3>2 DEF IsActive, Steady
    <3>4. d \notin cascade => deleg[d].active
      BY <1>2, <2>3, <3>3 DEF RecordedTokensDie
    <3>5. CASE ChainStep
      <4>1. deleg'[d] = deleg[d] /\ d \notin cascade
        BY <1>2, <3>2, <3>3, <3>5, LocalRows DEF ChainStep
      <4> QED BY <3>1, <3>4, <4>1
    <3>6. CASE ExchangeStep \/ PruneTokens
      <4>1. deleg' = deleg /\ cascade' = cascade
        BY <3>6, ExchangesRevokeNothing DEF chainVars
      <4> QED BY <3>1, <3>3, <3>4, <4>1
    <3>7. ASSUME NEW v \in Revokers, RevokeTreeTokens(v)
          PROVE  deleg'[d].active
      BY <3>3, <3>4, <3>7 DEF RevokeTreeTokens, chainVars
    <3>8. ASSUME NEW v \in Revokers, RevokeDelegationTree(v)
          PROVE  deleg'[d].active
      <4>1. /\ killing[v].pc = "tokens" /\ cascade' = cascade
            /\ Deactivate(revtx[v].rows) /\ Kill(killing[v].toks)
        BY <3>8 DEF RevokeDelegationTree, RevokeTreeCommit
      <4>2. Open(revtx[v], killing[v])
        BY <1>2 DEF Doomed
      <4>3. k \notin killing[v].toks
        <5> DEFINE t == tokens[k]
        <5>1. t \in Tokens /\ (k \in killing[v].toks => tokens'[k] = [t EXCEPT !.revoked = TRUE])
          BY <1>2, <2>3, <4>1 DEF Kill, Recorded, Genuine
        <5> HIDE DEF t
        <5>2. [t EXCEPT !.revoked = TRUE].revoked
          BY <5>1 DEF Tokens
        <5> QED BY <3>3, <5>1, <5>2
      <4>4. d \notin revtx[v].rows
        BY <2>3, <3>3, <4>1, <4>2, <4>3 DEF Open, NotRevoking
      <4> QED BY <3>2, <3>3, <3>4, <4>1, <4>4 DEF Deactivate
    <3>9. ASSUME NEW e \in DOMAIN deleg, HandlerRevokeDelegation(e)
          PROVE  deleg'[d].active
      <4>1. Deactivate({e}) /\ cascade' = cascade \cup {e}
        BY <3>9 DEF HandlerRevokeDelegation, RevokeDelegation
      <4> QED BY <3>2, <3>3, <3>4, <4>1 DEF Deactivate
    <3>10. ASSUME NEW e \in cascade, RevokeByDelegation(e)
           PROVE  deleg'[d].active
      <4>1. Kill(TokensOf({e})) /\ cascade' = cascade \ {e} /\ deleg' = deleg
        BY <3>10 DEF RevokeByDelegation, chainVars
      <4>2. d # e
        <5> DEFINE t == tokens[k]
        <5>1. t \in Tokens /\ (d = e => tokens'[k] = [t EXCEPT !.revoked = TRUE])
          BY <1>2, <2>3, <4>1 DEF Kill, Recorded, Genuine, TokensOf
        <5> HIDE DEF t
        <5>2. [t EXCEPT !.revoked = TRUE].revoked
          BY <5>1 DEF Tokens
        <5> QED BY <3>3, <5>1, <5>2
      <4> QED BY <3>3, <3>4, <4>1, <4>2
    <3>11. deleg'[d].active
      BY <1>2, <3>1, <3>5, <3>6, <3>7, <3>8, <3>9, <3>10 DEF Next, RevokeStep
    <3> QED BY <3>1, <3>11
  <2> QED BY <2>2, <2>3
<1>3. RecordedTokensDie /\ UNCHANGED vars => RecordedTokensDie'
  BY DEF vars, RecordedTokensDie, IsActive
<1> QED BY <1>1, <1>2, <1>3, AlwaysChainInv, KnownInvariant, RecordedInvariant,
           DoomedInvariant, PTL DEF Spec

(* Tokens, exchanges and pending cascades stay well typed.                 *)
THEOREM ExchangeTypeCorrect == Spec => []TypeOK
<1>1. ChainInv /\ Known /\ Recorded /\ Doomed => TypeOK
  <2> SUFFICES ASSUME ChainInv, Known, Recorded, Doomed PROVE TypeOK
    OBVIOUS
  <2>1. \A x \in Exchangers : exch[x].pc \in {"idle", "leaf", "walk", "mint", "begin", "record"}
    BY DEF Known, Exchanges, Idle, Asking, Walking, Minting, Recording
  <2>2. killing \in [Revokers -> {NotRevoking}
           \cup [pc : {"tokens"}, toks : SUBSET (DOMAIN tokens)]]
    BY DEF Doomed, Open
  <2> QED BY <2>1, <2>2 DEF TypeOK, ChainInv, Recorded, Genuine, Doomed
<1> QED BY <1>1, AlwaysChainInv, KnownInvariant, RecordedInvariant, DoomedInvariant, PTL
-----------------------------------------------------------------------------
(* The rate cap.  A transaction that records a token takes now() when it   *)
(* begins, so tokens are not recorded in the order of issued; the cap      *)
(* holds since the count looks at every token after the window's start.    *)
(* It is a promise about tokens the table still has, hence this condition. *)
RetentionIsLong == TokenGrace >= MaxTime

Unpruned == \A k \in DOMAIN tokens : ~tokens[k].pruned

Within1Hour(k) == {j \in DOMAIN tokens :
                      /\ tokens[j].deleg = tokens[k].deleg
                      /\ tokens[j].issued <= tokens[k].issued
                      /\ tokens[j].issued + Hour > tokens[k].issued}

LEMMA UnprunedStays ==
    ASSUME RetentionIsLong, ChainInv, Known, Recorded, Unpruned, Next
    PROVE  Unpruned'
<1>1. ASSUME NEW K, Kill(K) PROVE Unpruned'
  <2>1. DOMAIN tokens' = DOMAIN tokens
    BY <1>1 DEF Kill
  <2>2. ASSUME NEW k \in DOMAIN tokens PROVE ~tokens'[k].pruned
    <3> DEFINE t == tokens[k]
    <3>1. t \in Tokens /\ ~t.pruned /\ (tokens'[k] = t \/ tokens'[k] = [t EXCEPT !.revoked = TRUE])
      BY <1>1, <2>2 DEF Kill, Recorded, Genuine, Unpruned
    <3> HIDE DEF t
    <3> QED BY <3>1 DEF Tokens
  <2> QED BY <2>1, <2>2 DEF Unpruned
<1>2. ~PruneTokens
  <2>1. now <= MaxTime /\ now \in Nat /\ MaxTime \in Nat /\ TokenGrace \in Nat
    BY ChainsHere, ChainsAssumption, ExchangeAssumption DEF ChainInv, RequestsAsked
  <2>2. \A k \in DOMAIN tokens : tokens[k].exp \in Nat
    BY DEF Recorded, Genuine, Tokens
  <2> QED BY <2>1, <2>2 DEF RetentionIsLong, PruneTokens
<1>3. ASSUME NEW t, Records(t) PROVE Unpruned'
  BY <1>3, RecordsKeep DEF Records, Unpruned
<1> QED BY <1>1, <1>2, <1>3, TokenSteps DEF RevokeDelegationTree, RevokeByDelegation, Unpruned

LEMMA RateStays ==
    ASSUME ChainInv, Known, Recorded, Unpruned, RateCap, Next
    PROVE  RateCap'
<1>1. /\ Recorded' /\ DOMAIN deleg \subseteq DOMAIN deleg'
      /\ \A d \in DOMAIN deleg : deleg'[d].cnst = deleg[d].cnst
  BY TokensAreKept, AlwaysSteady DEF Steady, Keeps
<1>2. ASSUME NEW k \in DOMAIN tokens
      PROVE  /\ tokens[k] \in Tokens /\ tokens[k].deleg \in DOMAIN deleg
             /\ tokens[k].issued \in Nat
  BY DEF Recorded, Genuine, Tokens
<1>3. \A d \in DOMAIN deleg : Limited(d)' <=> Limited(d)
  BY <1>1 DEF Limited
<1>4. ASSUME DOMAIN tokens' = DOMAIN tokens,
             \A k \in DOMAIN tokens : tokens'[k].deleg = tokens[k].deleg
                                      /\ tokens'[k].issued = tokens[k].issued
      PROVE  RateCap'
  <2>1. \A k \in DOMAIN tokens : Within1Hour(k)' = Within1Hour(k)
    BY <1>4 DEF Within1Hour
  <2> QED BY <1>1, <1>2, <1>4, <1>3, <2>1 DEF RateCap, Within1Hour
<1>5. ASSUME NEW K, Flags(K)
      PROVE  RateCap'
  <2>1. DOMAIN tokens' = DOMAIN tokens /\ TokensKept
    BY <1>5, FlagsKeep DEF Recorded
  <2>2. \A k \in DOMAIN tokens : /\ tokens'[k]["deleg"] = tokens[k]["deleg"]
                                 /\ tokens'[k]["issued"] = tokens[k]["issued"]
    BY <2>1 DEF TokensKept
  <2> QED BY <1>4, <2>1, <2>2
<1>6. ASSUME NEW t \in Tokens, Records(t)
      PROVE  RateCap'
  <2>1. /\ DOMAIN tokens' = DOMAIN tokens \cup {NewToken} /\ NewToken \notin DOMAIN tokens
        /\ tokens'[NewToken] = t /\ \A k \in DOMAIN tokens : tokens'[k] = tokens[k]
        /\ ~RateExceeded(t.deleg, t.issued) /\ t.issued \in Nat /\ deleg' = deleg
        /\ t.deleg \in DOMAIN deleg
    BY <1>6, RecordsKeep DEF Records, Tokens, chainVars, Genuine
  <2>2. IsFiniteSet(DOMAIN tokens)
    BY LenProperties, FS_Interval DEF Recorded
  <2> SUFFICES ASSUME NEW k \in DOMAIN tokens', Limited(tokens[k].deleg)'
               PROVE  Cardinality(Within1Hour(k)') <= deleg'[tokens'[k].deleg].cnst.rate
    BY DEF RateCap, Within1Hour
  <2>3. CASE NewToken \notin Within1Hour(k)'
    <3>1. k # NewToken
      BY <2>1, <2>3, ExchangeAssumption DEF Within1Hour
    <3>2. k \in DOMAIN tokens /\ Within1Hour(k)' = Within1Hour(k)
      BY <2>1, <2>3, <3>1 DEF Within1Hour
    <3> QED BY <1>1, <1>2, <1>3, <2>1, <3>2 DEF RateCap, Within1Hour
  <2>4. CASE NewToken \in Within1Hour(k)'
    <3> DEFINE d == t.deleg
               M == {j \in DOMAIN tokens : /\ tokens[j].deleg = d /\ ~tokens[j].pruned
                                           /\ tokens[j].issued + Hour > t.issued}
    <3>1. tokens'[k].deleg = d /\ t.issued <= tokens'[k].issued /\ tokens'[k].issued \in Nat
      <4>1. tokens'[k] \in Tokens
        BY <1>1 DEF Recorded, Genuine
      <4> QED BY <2>1, <2>4, <4>1 DEF Within1Hour, Tokens
    <3>2. Within1Hour(k)' \subseteq M \cup {NewToken}
      <4> SUFFICES ASSUME NEW j \in Within1Hour(k)', j # NewToken PROVE j \in M
        OBVIOUS
      <4>1. /\ j \in DOMAIN tokens /\ tokens'[j] = tokens[j] /\ tokens[j].deleg = d
            /\ tokens[j].issued + Hour > tokens'[k].issued
        BY <2>1, <3>1 DEF Within1Hour
      <4>2. ~tokens[j].pruned /\ tokens[j].issued \in Nat /\ Hour \in Nat
        BY <1>2, <4>1, ExchangeAssumption DEF Unpruned
      <4> QED BY <2>1, <3>1, <4>1, <4>2
    <3>3. /\ IsFiniteSet(M) /\ Cardinality(M) \in Nat /\ IsFiniteSet(M \cup {NewToken})
          /\ Cardinality(M \cup {NewToken}) <= Cardinality(M) + 1
      <4>1. M \in SUBSET DOMAIN tokens
        OBVIOUS
      <4> HIDE DEF M
      <4>2. IsFiniteSet(M)
        BY <2>2, <4>1, FS_Subset
      <4>3. Cardinality(M) \in Nat
        BY <4>2, FS_CardinalityType
      <4>4. /\ IsFiniteSet(M \cup {NewToken})
            /\ Cardinality(M \cup {NewToken})
                  = IF NewToken \in M THEN Cardinality(M) ELSE Cardinality(M) + 1
        BY <4>2, FS_AddElement
      <4> QED BY <4>2, <4>3, <4>4
    <3>4. Cardinality(Within1Hour(k)') <= Cardinality(M) + 1
      <4> HIDE DEF M
      <4>1. /\ Cardinality(Within1Hour(k)') <= Cardinality(M \cup {NewToken})
            /\ IsFiniteSet(Within1Hour(k)')
        BY <3>2, <3>3, FS_Subset
      <4>2. Cardinality(Within1Hour(k)') \in Nat /\ Cardinality(M \cup {NewToken}) \in Nat
        BY <3>3, <4>1, FS_CardinalityType
      <4> QED BY <3>3, <4>1, <4>2
    <3>5. Cardinality(M) < deleg[d].cnst.rate
      <4>1. Limited(d)
        BY <2>1, <3>1 DEF Limited
      <4>2. Minted(d, t.issued) = Cardinality(M)
        BY DEF Minted
      <4>3. deleg[d].cnst.rate \in Int
        BY <2>1, <4>1, ChainsHere DEF Rows, ConstraintSets, Limited
      <4> HIDE DEF M
      <4> QED BY <2>1, <3>3, <4>1, <4>2, <4>3 DEF RateExceeded
    <3>6. deleg[d].cnst.rate \in Int
      BY <2>1, <3>1, ChainsHere DEF Rows, ConstraintSets, Limited
    <3>7. Cardinality(Within1Hour(k)') \in Nat
      <4> HIDE DEF M
      <4> QED BY <3>2, <3>3, FS_Subset, FS_CardinalityType
    <3> HIDE DEF M
    <3> QED BY <2>1, <3>1, <3>3, <3>4, <3>5, <3>6, <3>7
  <2> QED BY <2>3, <2>4
<1> QED BY <1>4, <1>5, <1>6, TokenSteps

(* No window of an hour holds more tokens of a delegation than its cap,    *)
(* however many exchanges run at once.                                     *)
THEOREM RateCapHolds == RetentionIsLong => (Spec => []RateCap)
<1> SUFFICES ASSUME RetentionIsLong PROVE Spec => []RateCap
  OBVIOUS
<1>1. Init => Unpruned /\ RateCap
  BY DEF Init, Unpruned, RateCap
<1>2. ChainInv /\ Known /\ Recorded /\ Unpruned /\ RateCap /\ [Next]_vars => (Unpruned /\ RateCap)'
  <2>1. ASSUME UNCHANGED vars, Unpruned, RateCap PROVE (Unpruned /\ RateCap)'
    BY <2>1 DEF vars, chainVars, Unpruned, RateCap, Limited
  <2> QED BY <2>1, UnprunedStays, RateStays
<1> QED BY <1>1, <1>2, AlwaysChainInv, KnownInvariant, RecordedInvariant, PTL DEF Spec
=============================================================================
