----------------------------- MODULE Enforcement -----------------------------
(***************************************************************************)
(* What becomes of a grant's authority on its way to a tool: the token     *)
(* that delegation.Signer issues for it, the decision of the MCP gateway   *)
(* (internal/mcpgw) and the downstream token it mints, and the decision of *)
(* the resource server's SDK (sdk/verifier.go) on that token.  Every step  *)
(* is a pure function of a token and a request.                            *)
(*                                                                         *)
(* Signatures are ideal: a token is a record that only Legant's key makes. *)
(* Its act claim is the sequence of actors, the leaf first, and a nil cnst *)
(* claim is Absent.                                                        *)
(***************************************************************************)
EXTENDS GrantChain

CONSTANTS ToolNames,       \* names a tools/call may carry
          Audiences,       \* resource indicators a token can be bound to
          Canonical(_),    \* the canonical spelling of a resource indicator
          Upstreams,       \* MCP servers behind the gateway
          DownstreamTTL,   \* Gateway.downstreamTTL
          Nows             \* instants a token's expiry is compared with

UpstreamRecords ==
    [inboundAudience : Audiences, resourceID : Values,
     toolScopes : [ToolNames -> Scopes \cup {Absent}]]

ASSUME EnforcementAssumption ==
    /\ ToolNames \subseteq Values /\ Audiences \subseteq Values
    /\ Upstreams \subseteq UpstreamRecords
    /\ DownstreamTTL \in Nat /\ Nows \subseteq Nat
    /\ \A v \in Values : Canonical(v) \in Values
    /\ Absent \notin ConstraintSets
-----------------------------------------------------------------------------
(* internal/delegation: issuing and verifying.                             *)

RootDelegator(i) ==
    grants[CHOOSE r \in Chain(grants, i) : grants[r].parent = 0].delegator

(* The n-th actor is that of the link with n - 1 links above it.           *)
ActorChainRootToLeaf(i) ==
    [n \in 1..(depth(i) + 1) |->
       grants[CHOOSE g \in Chain(grants, i) : depth(g) = n - 1].delegatee]

Reverse(s) == [n \in DOMAIN s |-> s[Len(s) + 1 - n]]

IssueClaims(sub, act, scopes, aud, c, exp) ==
    [sub |-> sub, act |-> act, scopes |-> scopes, aud |-> aud,
     cnst |-> c, exp |-> exp]

(* A grant in memory always has an expiry.                                 *)
CanIssue(i, requested, aud) ==
    /\ grants[i].exp # Absent
    /\ Attenuate(grants[i].scopes, requested) # {}
    /\ LET res == grants[i].cnst.allow["resources"] IN res # {} => aud \in res

IssueForGrant(i, requested, aud) ==
    IssueClaims(RootDelegator(i), Reverse(ActorChainRootToLeaf(i)),
                Attenuate(grants[i].scopes, requested), aud,
                grants[i].cnst, grants[i].exp)

VerifyAny(tok, now) == now < tok.exp

Verify(tok, audience, now) == VerifyAny(tok, now) /\ tok.aud = audience

Authorize(claims, scope, a) ==
    /\ scope \in claims.scopes
    /\ claims.cnst # Absent => Permit(claims.cnst, a)
-----------------------------------------------------------------------------
(* internal/mcpgw: the gateway's decision and the token it mints.          *)

NoValue == [d \in Dims |-> Absent]
ToolAction(tool, at) == [amount |-> 0, value |-> [NoValue EXCEPT !["tools"] = tool],
                         at |-> at]

(* Mutant: the tool list of the inbound token is handed on as it is.       *)
MutAllTools(c, tool) ==
    IF c = Absent THEN Absent ELSE [c EXCEPT !.allow["resources"] = {}]

downstreamConstraints(c, tool) ==
    IF c = Absent THEN Absent
    ELSE [c EXCEPT !.allow["tools"] = {tool}, !.allow["resources"] = {}]

discoveryConstraints(c) ==
    IF c = Absent THEN Absent ELSE [c EXCEPT !.allow["resources"] = {}]

mint(up, claims, scopes, c, now) ==
    IssueClaims(claims.sub, claims.act, scopes, up.resourceID, c,
                Clamp(now + DownstreamTTL, claims.exp))

isPassthrough(method) ==
    method \in {"notifications/*", "initialize", "ping", "prompts/list",
                "resources/list", "resources/templates/list", "logging/setLevel"}

(* Whether a call of a tool passes the gateway, which is also whether      *)
(* tools/list shows the tool.                                              *)
ToolAllowed(up, claims, tool, at) ==
    /\ up.toolScopes[tool] # Absent
    /\ Authorize(claims, up.toolScopes[tool], ToolAction(tool, at))

(* The tools of an upstream's answer the caller gets to see; Absent is an  *)
(* answer that cannot be filtered and is not passed on.                    *)
filterToolsList(up, claims, answer, at) ==
    IF answer = Absent THEN Absent
    ELSE {tool \in answer : ToolAllowed(up, claims, tool, at)}

(* What the caller gets, and the token the upstream has seen.              *)
Refuse(status) == [status |-> status, token |-> Absent, shown |-> Absent]
Forward(token, answer) == [status |-> 200, token |-> token, shown |-> answer]

handleNonToolCall(up, r) ==
    LET token == mint(up, r.token, r.token.scopes,
                      discoveryConstraints(r.token.cnst), r.now)
        shown == filterToolsList(up, r.token, r.answer, r.at)
    IN  CASE isPassthrough(r.method) -> Forward(token, r.answer)
          [] r.method = "tools/list" ->
                 IF shown = Absent THEN [Refuse(502) EXCEPT !.token = token]
                 ELSE Forward(token, shown)
          [] OTHER -> Refuse(403)

(* A request is a token, whether the revocation check calls it active, the *)
(* shape of its body, a method, the tool it names, when it comes, and what *)
(* the upstream will answer.                                               *)
handle(up, r) ==
    CASE r.token = Absent -> Refuse(401)
      [] r.token # Absent /\ ~Verify(r.token, up.inboundAudience, r.now) -> Refuse(401)
      [] OTHER ->
    CASE ~r.active -> Refuse(401)
      [] r.active /\ r.body = "oversized" -> Refuse(413)
      [] r.active /\ r.body \in {"duplicate keys", "batch"} -> Refuse(400)
      [] r.active /\ r.body = "object" /\ r.method # "tools/call" ->
             handleNonToolCall(up, r)
      [] OTHER ->
    IF ~ToolAllowed(up, r.token, r.tool, r.at) THEN Refuse(403)
    ELSE Forward(mint(up, r.token, {up.toolScopes[r.tool]},
                      downstreamConstraints(r.token.cnst, r.tool), r.now),
                 r.answer)
-----------------------------------------------------------------------------
(* sdk: the resource server's decision.                                    *)

audienceMatches(aud, want) == Canonical(aud) = Canonical(want)

(* A token with no act claim is not a delegation; the feed is Absent or    *)
(* says which tokens are revoked and whether it is too old to trust.       *)
SDKVerify(tok, audience, feed, now) ==
    /\ VerifyAny(tok, now)
    /\ tok.act # << >>
    /\ audienceMatches(tok.aud, audience)
    /\ feed # Absent => ~feed.tooStale /\ tok \notin feed.revoked

SDKPermitList(d, allowed, value) ==
    \/ permitList(allowed, value)
    \/ /\ d = "resources" /\ value # Absent /\ denyAll \notin allowed
       /\ Canonical(value) \in {Canonical(v) : v \in allowed}

SDKAuthorize(claims, scope, a) ==
    /\ scope \in claims.scopes
    /\ claims.cnst # Absent =>
          /\ permitAmount(claims.cnst.maxAmount, a.amount)
          /\ \A d \in Dims : SDKPermitList(d, claims.cnst.allow[d], a.value[d])
          /\ permitWindow(claims.cnst.window, a.at)

(* Authenticate, then RequireAction.                                       *)
Respond(tok, audience, feed, scope, a, now) ==
    CASE tok = Absent -> 401
      [] tok # Absent /\ ~SDKVerify(tok, audience, feed, now) -> 401
      [] OTHER -> IF SDKAuthorize(tok, scope, a) THEN 200 ELSE 403
-----------------------------------------------------------------------------
(* Every grant of the chain lets its holder do a with the resource that    *)
(* the token is bound to.                                                  *)
Licensed(i, aud, scope, a, now) ==
    \A g \in Chain(grants, i) :
        /\ scope \in grants[g].scopes
        /\ Permit(grants[g].cnst, [a EXCEPT !.value["resources"] = aud])
        /\ grants[g].exp # Absent => now < grants[g].exp

(* The calls made with grant i's token, and the tokens an upstream can     *)
(* receive for them.                                                       *)
CallsWith(i, aud, method, tool) ==
    [token : {IssueForGrant(i, Scopes, aud)}, active : {TRUE}, body : {"object"},
     method : {method}, tool : {tool}, now : Nows, at : Instants, answer : {ToolNames}]

Downstream(i, up, aud, method, tool) ==
    {handle(up, r).token : r \in CallsWith(i, aud, method, tool)} \ {Absent}

(* The token an upstream receives, for a call or for discovery, reaches no *)
(* further than the delegation it stems from: whatever the upstream's SDK  *)
(* lets its holder do, and however much later, every grant of the chain    *)
(* permits with the one resource the inbound token was bound to, the chain *)
(* has not expired, the actors are those of the chain, and a tools/call    *)
(* token is good for the called tool only.  Dropping the resource list, as *)
(* downstreamConstraints does, is safe because IssueForGrant checked the   *)
(* audience against it.  (The newest grant is enough: each was once the    *)
(* newest.)                                                                *)
DownstreamNarrows ==
    \A i \in {Len(grants)} \ {0}, aud \in Audiences :
        CanIssue(i, Scopes, aud) =>
        \A up \in Upstreams, method \in {"tools/call", "tools/list"}, tool \in ToolNames :
        \A d \in Downstream(i, up, aud, method, tool) :
            /\ aud = up.inboundAudience
            /\ d.sub = RootDelegator(i) /\ Reverse(d.act) = ActorChainRootToLeaf(i)
            /\ \A a \in Probes, scope \in Scopes, later \in Nows :
                  Respond(d, up.resourceID, Absent, scope, a, later) = 200 =>
                     /\ Licensed(i, aud, scope, a, later)
                     /\ method = "tools/call" =>
                           /\ a.value["tools"] \in {tool, Absent}
                           /\ scope = up.toolScopes[tool]
=============================================================================
