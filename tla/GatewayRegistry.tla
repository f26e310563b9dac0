-------------------------- MODULE GatewayRegistry --------------------------
(***************************************************************************)
(* The upstream table of the MCP gateway (internal/mcpgw): a static base   *)
(* merged with the rows of gateway_upstreams, which administrators change  *)
(* and a background loop re-reads, while calls are on their way through.   *)
(* A row is a record of slug, audience, resource and url.  Whether a token *)
(* authorizes a tool is GrantChain and Enforcement; here a token is the    *)
(* audience it names.                                                      *)
(***************************************************************************)
EXTENDS Naturals, FiniteSets

CONSTANTS Static,       \* upstreams of the configuration file
          Rows,         \* upstreams administrators may ask to save
          Clients,      \* calls that can be in progress
          NoAudience,   \* the empty inbound_audience
          MaxEdits      \* bound on changes of the registry

VARIABLES store,     \* table gateway_upstreams
          listed,    \* what the running refresh has read, or {NoAudience} when none runs
          routes,    \* the live upstreams
          served,    \* every upstream that was ever live
          through,   \* calls on their way through the gateway
          edits

gatewayVars == <<store, listed, routes, served, through, edits>>

Waiting == [pc |-> "waiting"]
Slugs(S) == {u.slug : u \in S}
Audiences(S) == {u.audience : u \in S}
Isolated(S) == \A u, v \in S : u.slug = v.slug \/ u.audience = v.audience => u = v

(* buildUpstreamMap rejects an empty and a repeated audience; the process  *)
(* does not start with such a configuration.                               *)
ASSUME StaticAssumption ==
    Isolated(Static) /\ NoAudience \notin Audiences(Static)
-----------------------------------------------------------------------------
(* Mutant: the table lacks UNIQUE (inbound_audience).                      *)
MutUpsert(u) ==
    /\ edits < MaxEdits /\ edits' = edits + 1
    /\ store' = {r \in store : r.slug # u.slug} \cup {u}
    /\ UNCHANGED <<listed, routes, served, through>>

(* PUT /gateway/upstreams: a new row, or the one with that slug replaced;  *)
(* the UNIQUE constraint on inbound_audience rejects a collision.          *)
Upsert(u) ==
    LET rest == {r \in store : r.slug # u.slug}
    IN  /\ u.audience # NoAudience /\ u.audience \notin Audiences(rest)
        /\ edits < MaxEdits /\ edits' = edits + 1
        /\ store' = rest \cup {u}
        /\ UNCHANGED <<listed, routes, served, through>>

Delete(u) ==
    /\ u \in store /\ edits < MaxEdits /\ edits' = edits + 1
    /\ store' = store \ {u}
    /\ UNCHANGED <<listed, routes, served, through>>

(* RefreshUpstreams: List, then the merge, and the swap under the lock.  A *)
(* List that fails ends the refresh and changes nothing.                   *)
RefreshList ==
    /\ listed = {Waiting} /\ listed' = store
    /\ UNCHANGED <<store, routes, served, through, edits>>

(* Mutant: rows are skipped for a slug that is taken, not for an audience. *)
MutMerged(rows) ==
    Static \cup {r \in rows : r.audience # NoAudience /\ r.slug \notin Slugs(Static)}

merged(rows) ==
    Static \cup {r \in rows : /\ r.audience # NoAudience
                              /\ r.slug \notin Slugs(Static)
                              /\ r.audience \notin Audiences(Static)}

RefreshSwap ==
    /\ listed # {Waiting} /\ listed' = {Waiting}
    /\ routes' = merged(listed)
    /\ served' = served \cup merged(listed)
    /\ UNCHANGED <<store, through, edits>>
-----------------------------------------------------------------------------
(* One call: handle looks the upstream up once and keeps it.               *)
Arrive(c, u) ==
    /\ through[c] = Waiting /\ u \in routes
    /\ through' = [through EXCEPT ![c] = [pc |-> "verify", up |-> u]]
    /\ UNCHANGED <<store, listed, routes, served, edits>>

(* Mutant: each step looks the slug up again.                              *)
MutUpstream(c) ==
    IF through[c].up.slug \in Slugs(routes)
    THEN CHOOSE u \in routes : u.slug = through[c].up.slug ELSE through[c].up

upstream(c) == through[c].up

(* The token has to name the inbound audience of the upstream.             *)
Verify(c, audience) ==
    /\ through[c].pc = "verify"
    /\ through' = [through EXCEPT ![c] =
         IF audience = upstream(c).audience
         THEN [pc |-> "mint", up |-> @.up, audience |-> audience] ELSE Waiting]
    /\ UNCHANGED <<store, listed, routes, served, edits>>

(* A token for the upstream's resource, narrowed to the call.              *)
MintDownstream(c) ==
    /\ through[c].pc = "mint"
    /\ through' = [through EXCEPT ![c] =
         [pc |-> "forward", up |-> @.up, audience |-> @.audience, resource |-> upstream(c).resource]]
    /\ UNCHANGED <<store, listed, routes, served, edits>>

Forward(c) ==
    /\ through[c].pc = "forward"
    /\ through' = [through EXCEPT ![c] =
         [pc |-> "sent", audience |-> @.audience, resource |-> @.resource, url |-> upstream(c).url]]
    /\ UNCHANGED <<store, listed, routes, served, edits>>

(* The answer goes back, or an error did at any point.                     *)
Finish(c) ==
    /\ through[c] # Waiting
    /\ through' = [through EXCEPT ![c] = Waiting]
    /\ UNCHANGED <<store, listed, routes, served, edits>>
-----------------------------------------------------------------------------
RegistryInit ==
    /\ store = {} /\ listed = {Waiting}
    /\ routes = Static /\ served = Static
    /\ through = [c \in Clients |-> Waiting] /\ edits = 0

RegistryNext ==
    \/ \E u \in Rows : Upsert(u) \/ Delete(u)
    \/ RefreshList \/ RefreshSwap
    \/ \E c \in Clients :
         \/ \E u \in routes : Arrive(c, u)
         \/ \E a \in Audiences(served) : Verify(c, a)
         \/ MintDownstream(c) \/ Forward(c) \/ Finish(c)

RegistrySpec == RegistryInit /\ [][RegistryNext]_gatewayVars
-----------------------------------------------------------------------------
RegistryTypeOK ==
    /\ store \subseteq Rows /\ Isolated(store)
    /\ listed = {Waiting} \/ listed \subseteq Rows
    /\ Static \subseteq routes /\ routes \subseteq served

(* No two live upstreams share an inbound audience, whatever is saved, and *)
(* a call that has gone out was authorized for, given a token of and sent  *)
(* to one and the same upstream, even when the table was swapped, the slug *)
(* reused or the audience moved to another upstream on the way             *)
(* (RefreshUpstreams against handle).                                      *)
CallsStayIsolated ==
    /\ Isolated(routes)
    /\ \A c \in Clients : through[c].pc = "sent" =>
         \E u \in served : /\ u.audience = through[c].audience
                           /\ u.resource = through[c].resource
                           /\ u.url = through[c].url
=============================================================================
