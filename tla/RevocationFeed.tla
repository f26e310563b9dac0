--------------------------- MODULE RevocationFeed ---------------------------
(***************************************************************************)
(* How a revocation reaches a verifier that does not ask the store on      *)
(* every call: the signed feed of internal/revocation/feed.go, built by    *)
(* each server replica and pulled by sdk/revocation.go, and the            *)
(* revoked-set cache of internal/mcpgw.                                    *)
(*                                                                         *)
(* A token is its jti.  revoked and expired only grow, as RevokeByDelega-  *)
(* tion and time do.  A response travels for any time, and responses may   *)
(* overtake one another; a response that is lost, expired or not 200 is    *)
(* dropped.                                                                *)
(***************************************************************************)
EXTENDS Naturals

CONSTANTS Jtis,
          Replicas,     \* server processes that share the database
          Fetchers,     \* concurrent Refresh calls on one RevocationFeed
          MaxVersion    \* bound on the feed version sequence

ASSUME FeedAssumption == MaxVersion \in Nat

VARIABLES revoked, expired,  \* exchanged_tokens: revoked_at set; expires_at past
          version,    \* the sequence revocation_feed_version
          building,   \* per replica: the jtis read by a build not yet numbered
          cached,     \* per replica: the last signed feed, and whether it is reused
          inflight,   \* per fetcher: the response on its way
          sdk,        \* RevocationFeed: revoked set and version
          gwReading,  \* the gateway's query result not yet swapped in
          gw          \* revokedCache

store == <<revoked, expired>>
server == <<version, building, cached>>
client == <<inflight, sdk>>
gateway == <<gwReading, gw>>
vars == <<revoked, expired, version, building, cached, inflight, sdk, gwReading, gw>>

None == [pc |-> "none"]
Listed == revoked \ expired      \* revoked_at IS NOT NULL AND expires_at > now()
Feeds == [pc : {"feed"}, ver : Nat, jtis : SUBSET Jtis]
-----------------------------------------------------------------------------
(* The store.                                                              *)
Revoke(j) == /\ j \notin revoked
             /\ revoked' = revoked \cup {j}
             /\ UNCHANGED <<expired, server, client, gateway>>

Expire(j) == /\ j \notin expired
             /\ expired' = expired \cup {j}
             /\ UNCHANGED <<revoked, server, client, gateway>>
-----------------------------------------------------------------------------
(* Feed.Snapshot, under the replica's mutex: reuse the signed bytes while  *)
(* they are recent, else build: query, then nextval, then sign.            *)
BuildRead(r) ==
    /\ building[r].pc = "none" /\ ~cached[r].fresh
    /\ building' = [building EXCEPT ![r] = [pc |-> "read", jtis |-> Listed]]
    /\ UNCHANGED <<store, version, cached, client, gateway>>

BuildSign(r) ==
    /\ building[r].pc = "read"
    /\ version < MaxVersion
    /\ version' = version + 1
    /\ cached' = [cached EXCEPT ![r] =
           [fresh |-> TRUE,
            feed |-> [pc |-> "feed", ver |-> version + 1, jtis |-> building[r].jtis]]]
    /\ building' = [building EXCEPT ![r] = None]
    /\ UNCHANGED <<store, client, gateway>>

(* A query or the signature fails: the old bytes stay, not recent.         *)
BuildFail(r) ==
    /\ building[r].pc = "read"
    /\ building' = [building EXCEPT ![r] = None]
    /\ UNCHANGED <<store, version, cached, client, gateway>>

(* cacheFor has passed.                                                    *)
CacheAge(r) ==
    /\ cached[r].fresh
    /\ cached' = [cached EXCEPT ![r].fresh = FALSE]
    /\ UNCHANGED <<store, version, building, client, gateway>>

Respond(f, r) ==
    /\ inflight[f].pc = "none" /\ cached[r].fresh
    /\ inflight' = [inflight EXCEPT ![f] = cached[r].feed]
    /\ UNCHANGED <<store, server, sdk, gateway>>
-----------------------------------------------------------------------------
(* RevocationFeed.apply, under its mutex: refuse a regressing version,     *)
(* else swap the set.                                                      *)
(* Mutant: no check of the version.                                        *)
MutAcceptsAll(feed) == TRUE

Accepts(feed) == feed.ver >= sdk.version

Apply(f) ==
    /\ inflight[f].pc = "feed"
    /\ sdk' = IF Accepts(inflight[f])
              THEN [version |-> inflight[f].ver, revoked |-> inflight[f].jtis]
              ELSE sdk
    /\ inflight' = [inflight EXCEPT ![f] = None]
    /\ UNCHANGED <<store, server, gateway>>

Lose(f) ==
    /\ inflight[f].pc = "feed"
    /\ inflight' = [inflight EXCEPT ![f] = None]
    /\ UNCHANGED <<store, server, sdk, gateway>>
-----------------------------------------------------------------------------
(* Gateway.refreshRevoked, called once at start and then by one ticker     *)
(* goroutine.                                                              *)
RefreshRead ==
    /\ gwReading.pc = "none"
    /\ gwReading' = [pc |-> "read", jtis |-> Listed]
    /\ UNCHANGED <<store, server, client, gw>>

(* Mutant: the set is marked as loaded and not stored.                     *)
MutNoStore ==
    /\ gwReading.pc = "read"
    /\ gw' = [gw EXCEPT !.loaded = TRUE]
    /\ gwReading' = None
    /\ UNCHANGED <<store, server, client>>

RefreshSwap ==
    /\ gwReading.pc = "read"
    /\ gw' = [loaded |-> TRUE, set |-> gwReading.jtis]
    /\ gwReading' = None
    /\ UNCHANGED <<store, server, client>>

(* Mutant: a failed query empties the cache.                               *)
MutFailEmpties ==
    /\ gwReading.pc = "read"
    /\ gw' = [gw EXCEPT !.set = {}]
    /\ gwReading' = None
    /\ UNCHANGED <<store, server, client>>

RefreshFail ==
    /\ gwReading.pc = "read"
    /\ gwReading' = None
    /\ UNCHANGED <<store, server, client, gw>>

(* Gateway.tokenActive with the cache: closed until it has loaded.         *)
tokenActive(j) == gw.loaded /\ j \notin gw.set
-----------------------------------------------------------------------------
Init == /\ revoked = {} /\ expired = {}
        /\ version = 0
        /\ building = [r \in Replicas |-> None]
        /\ cached = [r \in Replicas |-> [fresh |-> FALSE, feed |-> None]]
        /\ inflight = [f \in Fetchers |-> None]
        /\ sdk = [version |-> 0, revoked |-> {}]
        /\ gwReading = None
        /\ gw = [loaded |-> FALSE, set |-> {}]

Next ==
    \/ \E j \in Jtis : Revoke(j) \/ Expire(j)
    \/ \E r \in Replicas : BuildRead(r) \/ BuildSign(r) \/ BuildFail(r) \/ CacheAge(r)
    \/ \E f \in Fetchers : \/ \E r \in Replicas : Respond(f, r)
                           \/ Apply(f)
                           \/ Lose(f)
    \/ RefreshRead \/ RefreshSwap \/ RefreshFail

Spec == Init /\ [][Next]_vars

(* The ticker keeps firing, and the database does not fail every query.    *)
GatewayFairness == WF_vars(RefreshRead) /\ SF_vars(RefreshSwap)

FairSpec == Spec /\ GatewayFairness
-----------------------------------------------------------------------------
(* Every variable is of its type.                                          *)
TypeOK ==
    /\ revoked \subseteq Jtis /\ expired \subseteq Jtis
    /\ version \in Nat
    /\ building \in [Replicas -> {None} \cup [pc : {"read"}, jtis : SUBSET Jtis]]
    /\ cached \in [Replicas -> [fresh : BOOLEAN, feed : {None} \cup Feeds]]
    /\ \A r \in Replicas : cached[r].fresh => cached[r].feed \in Feeds
    /\ inflight \in [Fetchers -> {None} \cup Feeds]
    /\ sdk \in [version : Nat, revoked : SUBSET Jtis]
    /\ gwReading \in {None} \cup [pc : {"read"}, jtis : SUBSET Jtis]
    /\ gw \in [loaded : BOOLEAN, set : SUBSET Jtis]

(* Nothing leaves set s, as s becomes t, but by expiring.                  *)
OnlyExpires(s, t) == s \ expired' \subseteq t

(* A token the SDK rejects stays rejected until it expires: no delayed,    *)
(* replayed or overtaken response un-revokes it.                           *)
NeverUnrevokes == [][OnlyExpires(sdk.revoked, sdk.revoked')]_vars

(* Likewise for the gateway's cache, which swaps in whatever it last read. *)
GatewayNeverUnrevokes == [][OnlyExpires(gw.set, gw.set')]_vars

(* A revoked token is eventually refused by a gateway in feed mode, or has *)
(* expired.                                                                *)
GatewayCatchesUp ==
    \A j \in Jtis : j \in revoked ~> (gw.loaded /\ ~tokenActive(j)) \/ j \in expired

(* Why no version regress un-revokes: of two feeds anywhere in the system  *)
(* the one with the higher version lists whatever the other lists and has  *)
(* not expired, and what is being built lists all of them.                 *)
Published == {cached[r].feed : r \in {q \in Replicas : cached[q].feed.pc = "feed"}}
             \cup {inflight[f] : f \in {g \in Fetchers : inflight[g].pc = "feed"}}
             \cup {[pc |-> "feed", ver |-> sdk.version, jtis |-> sdk.revoked]}

VersionsOrdered ==
    /\ \A a, b \in Published : a.ver <= b.ver => a.jtis \ expired \subseteq b.jtis
    /\ \A a \in Published :
          /\ a.ver <= version
          /\ a.jtis \subseteq revoked
          /\ \A r \in Replicas : building[r].pc = "read" =>
                a.jtis \ expired \subseteq building[r].jtis
=============================================================================
