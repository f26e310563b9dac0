--------------------------- MODULE TokenExchange ---------------------------
(***************************************************************************)
(* internal/auth/token_exchange.go and internal/revocation/store.go over   *)
(* the chains of DelegationChains: minting composite tokens, recording     *)
(* them by jti in exchanged_tokens, and revoking them.                     *)
(*                                                                         *)
(* An exchange resolves the chain in one query per link, then signs, then  *)
(* records the token in a transaction; it holds no lock while it resolves. *)
(* Token k is the k-th recorded.  Because only the active flag of a row    *)
(* ever changes, an exchange keeps the row's number instead of a copy.     *)
(***************************************************************************)
EXTENDS DelegationChains

CONSTANTS Exchangers,   \* slots of concurrent token-exchange requests
          TokenTTL,     \* lifetime of a minted token
          Hour,         \* the window of the rate cap
          TokenGrace,   \* how long retention keeps an expired token
          MaxTokens     \* bound on the tokens recorded

ASSUME ExchangeAssumption ==
    /\ TokenTTL \in Nat \ {0} /\ Hour \in Nat \ {0}
    /\ TokenGrace \in Nat /\ MaxTokens \in Nat

VARIABLES tokens,    \* the table exchanged_tokens
          exch,      \* what each exchange request holds
          cascade,   \* rows RevokeDelegation deactivated whose tokens have not followed
          killing    \* per open RevokeDelegationTree, the tokens it has revoked

vars == <<deleg, revokedAgents, now, redel, revtx, tokens, exch, cascade, killing>>

(* late is auxiliary: when the token was recorded its row was already      *)
(* deactivated, or about to be by a transaction done with the tokens.      *)
Tokens == [deleg : Nat, subject : Users, agent : Agents, aud : Values,
           scopes : SUBSET Scopes, exp : Nat, issued : Nat,
           revoked : BOOLEAN, pruned : BOOLEAN,
           late : BOOLEAN]

(* Mutant: an unknown jti is active.                                       *)
MutUnknownActive(k) == \/ tokens[k].pruned
                       \/ ~tokens[k].revoked /\ now <= tokens[k].exp

(* revocation.Store.IsActive: an unknown jti is not active.                *)
IsActive(k) == /\ ~tokens[k].pruned
               /\ ~tokens[k].revoked
               /\ now <= tokens[k].exp

Go(x, rec) == /\ exch' = [exch EXCEPT ![x] = rec]
              /\ UNCHANGED <<chainVars, tokens, cascade, killing>>
-----------------------------------------------------------------------------
(* Handle, up to the resolution of actor and subject token.                *)
ExchangeAuth(x, agent, user, subjectScopes) ==
    /\ exch[x].pc = "idle"
    /\ agent \notin revokedAgents
    /\ Go(x, [pc |-> "leaf", agent |-> agent, user |-> user, subj |-> subjectScopes])

(* ResolveGrantChain, first query: the newest usable row to the agent,     *)
(* whoever granted it.  snap is auxiliary: the rows usable at this instant.*)
UsableTo(agent) == {d \in DOMAIN deleg : deleg[d].delegatee = agent /\ Usable(d)}

Newest(S) == CHOOSE d \in S : \A e \in S : e <= d

ExchangeLeaf(x) ==
    /\ exch[x].pc = "leaf"
    /\ LET q == exch[x]
           candidates == UsableTo(q.agent)
       IN  IF candidates = {} THEN Go(x, Idle)
           ELSE Go(x, [pc |-> "walk", agent |-> q.agent, user |-> q.user,
                       subj |-> q.subj, leaf |-> Newest(candidates),
                       at |-> Newest(candidates),
                       snap |-> {d \in DOMAIN deleg : Usable(d)}])

(* Mutant: the walk reads ancestors without their active and expiry        *)
(* columns.                                                                *)
MutAnyLink(d) == TRUE

LinkUsable(d) == Usable(d)

(* ResolveGrantChain, one query per link; at the root, whose chain it is.  *)
ExchangeWalk(x) ==
    /\ exch[x].pc = "walk"
    /\ LET q == exch[x]
           row == deleg[q.at]
       IN  \/ LinkUsable(q.at) /\ row.parent # 0 /\ Go(x, [q EXCEPT !.at = row.parent])
           \/ /\ LinkUsable(q.at) /\ row.parent = 0
              /\ row.delegatorType = "user" /\ row.delegator = q.user
              /\ Go(x, [q EXCEPT !.pc = "mint"])
           \/ /\ \/ ~LinkUsable(q.at)
                 \/ row.parent = 0 /\ (row.delegatorType # "user" \/ row.delegator # q.user)
              /\ Go(x, Idle)

(* Scope ceiling, audience, lifetime, signature.  An empty resource list   *)
(* denies every audience, and IssueForGrant asks for the canonical         *)
(* spelling itself among those stored.                                     *)
(* Mutant: the lifetime is not clamped to the grant's.                     *)
MutUnclamped(leaf) == now + TokenTTL

TokenExpiry(leaf) ==
    IF deleg[leaf].exp # Absent /\ deleg[leaf].exp < now + TokenTTL
    THEN deleg[leaf].exp ELSE now + TokenTTL

ExchangeMint(x, requested, resource) ==
    /\ exch[x].pc = "mint"
    /\ LET q == exch[x]
           leaf == deleg[q.leaf]
           effective == Attenuate(q.subj, Attenuate(leaf.scopes, requested))
       IN  /\ effective # {}
           /\ resource.form # "invalid"
           /\ CanonicalizeResource(resource) \in leaf.cnst.allow["resources"]
           /\ TokenExpiry(q.leaf) > now
           /\ Go(x, [pc |-> "begin", agent |-> q.agent, user |-> q.user,
                     leaf |-> q.leaf, snap |-> q.snap, scopes |-> effective,
                     aud |-> CanonicalizeResource(resource),
                     exp |-> TokenExpiry(q.leaf)])

(* BEGIN fixes the transaction's now(), which issued_at and the count use. *)
ExchangeBegin(x) ==
    /\ exch[x].pc = "begin"
    /\ Go(x, [pc |-> "record", agent |-> exch[x].agent, user |-> exch[x].user,
              leaf |-> exch[x].leaf, snap |-> exch[x].snap,
              scopes |-> exch[x].scopes, aud |-> exch[x].aud,
              exp |-> exch[x].exp, txnow |-> now])

(* The exchange enforces a positive cap only.                              *)
Limited(d) == deleg[d].cnst.rate # Absent /\ deleg[d].cnst.rate > 0

Minted(d, t) ==
    Cardinality({k \in DOMAIN tokens : /\ tokens[k].deleg = d
                                       /\ ~tokens[k].pruned
                                       /\ tokens[k].issued + Hour > t})

(* Mutant: off by one.                                                     *)
MutRateExceeded(d, t) == Limited(d) /\ Minted(d, t) > deleg[d].cnst.rate

RateExceeded(d, t) == Limited(d) /\ Minted(d, t) >= deleg[d].cnst.rate

Late(d) == \/ ~deleg[d].active
           \/ \E v \in Revokers : /\ killing[v].pc = "tokens"
                                  /\ d \in Tree(deleg, revtx[v].root)

(* The rest of the transaction.  The advisory lock on the delegation makes *)
(* count and insert one step for the exchanges that count.                 *)
ExchangeRecord(x) ==
    /\ exch[x].pc = "record"
    /\ LET q == exch[x]
       IN  IF RateExceeded(q.leaf, q.txnow)
           THEN UNCHANGED tokens
           ELSE /\ Len(tokens) < MaxTokens
                /\ tokens' = Append(tokens,
                     [deleg |-> q.leaf, subject |-> q.user, agent |-> q.agent,
                      aud |-> q.aud, scopes |-> q.scopes, exp |-> q.exp,
                      issued |-> q.txnow, revoked |-> FALSE, pruned |-> FALSE,
                      late |-> Late(q.leaf)])
    /\ exch' = [exch EXCEPT ![x] = Idle]
    /\ UNCHANGED <<chainVars, cascade, killing>>

(* A refusal, a rolled-back transaction or a lost client.                  *)
ExchangeAbort(x) == exch[x].pc # "idle" /\ Go(x, Idle)
-----------------------------------------------------------------------------
TokensOf(S) == {k \in DOMAIN tokens : tokens[k].deleg \in S}

Kill(K) ==
    tokens' = [k \in DOMAIN tokens |->
                  IF k \in K THEN [tokens[k] EXCEPT !.revoked = TRUE] ELSE tokens[k]]

(* Mutant: only the tokens of the revoked row itself.                      *)
MutRootTokens(v) ==
    /\ revtx[v].pc = "commit" /\ killing[v] = NotRevoking
    /\ killing' = [killing EXCEPT ![v] =
           [pc |-> "tokens", toks |-> TokensOf({revtx[v].root})]]
    /\ UNCHANGED <<chainVars, tokens, exch, cascade>>

(* The second statement of RevokeDelegationTree, and, after the audit      *)
(* event, its commit.                                                      *)
RevokeTreeTokens(v) ==
    /\ revtx[v].pc = "commit" /\ killing[v] = NotRevoking
    /\ killing' = [killing EXCEPT ![v] =
           [pc |-> "tokens", toks |-> TokensOf(Tree(deleg, revtx[v].root))]]
    /\ UNCHANGED <<chainVars, tokens, exch, cascade>>

RevokeDelegationTree(v) ==
    /\ killing[v].pc = "tokens"
    /\ RevokeTreeCommit(v)
    /\ Kill(killing[v].toks)
    /\ killing' = [killing EXCEPT ![v] = NotRevoking]
    /\ UNCHANGED <<exch, cascade>>

(* The agent API deactivates the row, then, outside any transaction and    *)
(* ignoring an error, revokes the tokens minted from it.  When that fails, *)
(* or the process dies first, the row stays in cascade.                    *)
HandlerRevokeDelegation(d) ==
    /\ RevokeDelegation(d)
    /\ cascade' = cascade \cup {d}
    /\ UNCHANGED <<tokens, exch, killing>>

RevokeByDelegation(d) ==
    /\ d \in cascade
    /\ Kill(TokensOf({d}))
    /\ cascade' = cascade \ {d}
    /\ UNCHANGED <<chainVars, exch, killing>>

(* retention.Prune on exchanged_tokens.                                    *)
PruneTokens ==
    /\ \E k \in DOMAIN tokens : ~tokens[k].pruned /\ tokens[k].exp + TokenGrace < now
    /\ tokens' = [k \in DOMAIN tokens |->
           [tokens[k] EXCEPT !.pruned = @ \/ tokens[k].exp + TokenGrace < now]]
    /\ UNCHANGED <<chainVars, exch, cascade, killing>>
-----------------------------------------------------------------------------
Init == /\ ChainInit
        /\ tokens = << >>
        /\ exch = [x \in Exchangers |-> Idle]
        /\ cascade = {}
        /\ killing = [v \in Revokers |-> NotRevoking]

ExchangeStep ==
    \E x \in Exchangers :
        \/ \E agent \in Agents, user \in Users, subj \in SUBSET Scopes :
              ExchangeAuth(x, agent, user, subj)
        \/ ExchangeLeaf(x)
        \/ ExchangeWalk(x)
        \/ \E requested \in SUBSET Scopes, resource \in Resources :
              ExchangeMint(x, requested, resource)
        \/ ExchangeBegin(x)
        \/ ExchangeRecord(x)
        \/ ExchangeAbort(x)

RevokeStep ==
    \/ \E v \in Revokers : RevokeTreeTokens(v) \/ RevokeDelegationTree(v)
    \/ \E d \in DOMAIN deleg : HandlerRevokeDelegation(d)
    \/ \E d \in cascade : RevokeByDelegation(d)

(* A revocation that is rolled back takes its tokens with it.              *)
ChainStep ==
    /\ LocalStep
    /\ killing' = [v \in Revokers |->
                      IF revtx'[v] = NotRevoking THEN NotRevoking ELSE killing[v]]
    /\ UNCHANGED <<tokens, exch, cascade>>

Next == \/ ChainStep
        \/ ExchangeStep
        \/ RevokeStep
        \/ PruneTokens

Spec == Init /\ [][Next]_vars
-----------------------------------------------------------------------------
(* Every token and every request is of its type.                           *)
TypeOK ==
    /\ ChainTypeOK
    /\ tokens \in Seq(Tokens)
    /\ \A k \in DOMAIN tokens : tokens[k].deleg \in DOMAIN deleg
    /\ \A x \in Exchangers :
          exch[x].pc \in {"idle", "leaf", "walk", "mint", "begin", "record"}
    /\ cascade \subseteq DOMAIN deleg
    /\ killing \in [Revokers -> {NotRevoking}
          \cup [pc : {"tokens"}, toks : SUBSET (DOMAIN tokens)]]

Resolved(x) == exch[x].pc \in {"mint", "begin", "record"}

(* The links are read one query at a time while revocations commit, yet a  *)
(* chain that resolves was whole at one instant, the first query: nothing  *)
(* revoked or expired before the request resolved its leaf can mint.       *)
ResolvesWholeChain ==
    \A x \in Exchangers : Resolved(x) =>
        /\ Chain(deleg, exch[x].leaf) \subseteq exch[x].snap
        /\ \E r \in Chain(deleg, exch[x].leaf) :
              deleg[r].parent = 0 /\ deleg[r].delegator = exch[x].user

(* A token carries no more than any link of the chain it was minted from,  *)
(* and names the user at its root and the agent at its leaf.               *)
TokenWithinChain ==
    \A k \in DOMAIN tokens :
        /\ tokens[k].agent = deleg[tokens[k].deleg].delegatee
        /\ \A l \in Chain(deleg, tokens[k].deleg) :
              /\ tokens[k].scopes \subseteq deleg[l].scopes
              /\ ~G!After(tokens[k].exp, deleg[l].exp)
              /\ permitList(deleg[l].cnst.allow["resources"], tokens[k].aud)
              /\ deleg[l].parent = 0 => deleg[l].delegator = tokens[k].subject

(* The rate cap holds in every window of an hour, although exchanges run   *)
(* concurrently and take now() before they get the lock, as long as        *)
(* retention keeps a token for longer than a window and an exchange last.  *)
RateCap ==
    \A k \in DOMAIN tokens : Limited(tokens[k].deleg) =>
        Cardinality({j \in DOMAIN tokens :
              /\ tokens[j].deleg = tokens[k].deleg
              /\ tokens[j].issued <= tokens[k].issued
              /\ tokens[j].issued + Hour > tokens[k].issued})
          <= deleg[tokens[k].deleg].cnst.rate

(* A token the store once reported inactive never becomes active again:    *)
(* not by a later write, and not by its row being pruned.                  *)
InactiveStaysInactive ==
    [][\A k \in DOMAIN tokens : ~IsActive(k) => ~IsActive(k)']_vars

(* Both revocation paths reach every token recorded before them: an active *)
(* token of a deactivated row is one whose exchange was still in flight    *)
(* when the tokens were revoked, or whose cascade has not run.             *)
RecordedTokensDie ==
    \A k \in DOMAIN tokens :
        /\ IsActive(k)
        /\ tokens[k].deleg \notin cascade
        /\ ~tokens[k].late
        => deleg[tokens[k].deleg].active

(* What the revocation store says: when a delegation is revoked its tokens *)
(* die.  An exchange that resolved before the revocation records its token *)
(* after it.                                                               *)
RevokedDelegationHasNoActiveToken ==
    \A k \in DOMAIN tokens :
        IsActive(k) /\ tokens[k].deleg \notin cascade => deleg[tokens[k].deleg].active
=============================================================================
