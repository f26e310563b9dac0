------------------------- MODULE RevocationFeedProofs -------------------------
(***************************************************************************)
(* With one replica no feed and no refresh of the gateway's cache ever     *)
(* takes back a revocation, for any number of tokens, fetchers and         *)
(* versions.                                                               *)
(***************************************************************************)
EXTENDS RevocationFeed, TLAPS

(* Replicas count feeds by one sequence but read the store by themselves;  *)
(* with two of them the order below is lost.                               *)
OneReplica == \A r, s \in Replicas : r = s

(* TypeOK of RevocationFeed holds in every reachable state: in particular  *)
(* a recent cache holds a feed, whatever query or signature fails.         *)
THEOREM TypeCorrect == Spec => []TypeOK
<1>1. Init => TypeOK
  BY DEF Init, TypeOK, None
<1>2. TypeOK /\ [Next]_vars => TypeOK'
  <2> SUFFICES ASSUME TypeOK, [Next]_vars PROVE TypeOK'
    OBVIOUS
  <2> USE FeedAssumption DEF TypeOK, Feeds, None, store, server, client, gateway
  <2>1. ASSUME NEW j \in Jtis, Revoke(j) \/ Expire(j) PROVE TypeOK'
    BY <2>1 DEF Revoke, Expire
  <2>2. ASSUME NEW r \in Replicas, BuildRead(r) PROVE TypeOK'
    BY <2>2 DEF BuildRead, Listed
  <2>3. ASSUME NEW r \in Replicas, BuildSign(r) PROVE TypeOK'
    <3>1. building[r] \in [pc : {"read"}, jtis : SUBSET Jtis]
      BY <2>3 DEF BuildSign
    <3>2. [pc |-> "feed", ver |-> version + 1, jtis |-> building[r].jtis] \in Feeds
      BY <3>1
    <3> QED BY <2>3, <3>2 DEF BuildSign
  <2>4. ASSUME NEW r \in Replicas, BuildFail(r) PROVE TypeOK'
    BY <2>4 DEF BuildFail
  <2>4a. ASSUME NEW r \in Replicas, CacheAge(r) PROVE TypeOK'
    <3>1. cached[r] \in [fresh : BOOLEAN, feed : {None} \cup Feeds]
      OBVIOUS
    <3>2. /\ [cached[r] EXCEPT !.fresh = FALSE] \in [fresh : BOOLEAN, feed : {None} \cup Feeds]
          /\ [cached[r] EXCEPT !.fresh = FALSE].fresh = FALSE
      BY <3>1
    <3>3. cached' = [cached EXCEPT ![r] = [cached[r] EXCEPT !.fresh = FALSE]]
      BY <2>4a DEF CacheAge
    <3> HIDE DEF Feeds, None
    <3>4. /\ cached' \in [Replicas -> [fresh : BOOLEAN, feed : {None} \cup Feeds]]
          /\ \A s \in Replicas : cached'[s].fresh => cached'[s].feed \in Feeds
      BY <3>2, <3>3
    <3> QED BY <2>4a, <3>4 DEF CacheAge
  <2>5. ASSUME NEW f \in Fetchers, NEW r \in Replicas, Respond(f, r) PROVE TypeOK'
    BY <2>5 DEF Respond
  <2>6. ASSUME NEW f \in Fetchers, Apply(f) PROVE TypeOK'
    <3>1. inflight[f] \in Feeds
      BY <2>6 DEF Apply
    <3> QED BY <2>6, <3>1 DEF Apply
  <2>7. ASSUME NEW f \in Fetchers, Lose(f) PROVE TypeOK'
    BY <2>7 DEF Lose
  <2>8. CASE RefreshRead
    BY <2>8 DEF RefreshRead, Listed
  <2>9. CASE RefreshSwap
    <3>1. gwReading \in [pc : {"read"}, jtis : SUBSET Jtis]
      BY <2>9 DEF RefreshSwap
    <3> QED BY <2>9, <3>1 DEF RefreshSwap
  <2>10. CASE RefreshFail
    BY <2>10 DEF RefreshFail
  <2>11. CASE UNCHANGED vars
    BY <2>11 DEF vars
  <2> QED BY <2>1, <2>2, <2>3, <2>4, <2>5, <2>6, <2>7, <2>8, <2>9, <2>10, <2>11, <2>4a DEF Next
<1> QED BY <1>1, <1>2, PTL DEF Spec
-----------------------------------------------------------------------------
(* The gateway.  What it holds and what it has read are revoked, and what  *)
(* it has read is no older than what it holds.                             *)
GatewayOrdered ==
    /\ gw.set \subseteq revoked
    /\ gwReading.pc = "read" =>
          /\ gwReading.jtis \subseteq revoked
          /\ gw.set \ expired \subseteq gwReading.jtis

LEMMA GatewayStaysOrdered == Spec => []GatewayOrdered
<1>1. Init => GatewayOrdered
  BY DEF Init, GatewayOrdered, None
<1>2. TypeOK /\ GatewayOrdered /\ [Next]_vars => GatewayOrdered'
  <2> SUFFICES ASSUME TypeOK, GatewayOrdered, [Next]_vars PROVE GatewayOrdered'
    OBVIOUS
  <2> USE DEF GatewayOrdered, None, store, server, client, gateway
  <2>1. ASSUME NEW j \in Jtis, Revoke(j) \/ Expire(j) PROVE GatewayOrdered'
    BY <2>1 DEF Revoke, Expire
  <2>2. ASSUME NEW r \in Replicas, BuildRead(r) \/ BuildSign(r) \/ BuildFail(r) \/ CacheAge(r)
        PROVE GatewayOrdered'
    BY <2>2 DEF BuildRead, BuildSign, BuildFail, CacheAge
  <2>3. ASSUME NEW f \in Fetchers, (\E r \in Replicas : Respond(f, r)) \/ Apply(f) \/ Lose(f)
        PROVE GatewayOrdered'
    BY <2>3 DEF Respond, Apply, Lose
  <2>4. CASE RefreshRead
    BY <2>4 DEF RefreshRead, Listed
  <2>5. CASE RefreshSwap
    BY <2>5 DEF RefreshSwap, TypeOK
  <2>6. CASE RefreshFail
    BY <2>6 DEF RefreshFail
  <2>7. CASE UNCHANGED vars
    BY <2>7 DEF vars
  <2> QED BY <2>1, <2>2, <2>3, <2>4, <2>5, <2>6, <2>7 DEF Next
<1> QED BY <1>1, <1>2, TypeCorrect, PTL DEF Spec

(* A token the gateway's cache rejects stays rejected until it expires:    *)
(* one goroutine refreshes, so a result is never swapped in after a later  *)
(* one (GatewayNeverUnrevokes).                                            *)
THEOREM GatewayKeepsRevocations == Spec => GatewayNeverUnrevokes
<1>1. GatewayOrdered /\ [Next]_vars => [OnlyExpires(gw.set, gw.set')]_vars
  <2> SUFFICES ASSUME GatewayOrdered, Next PROVE OnlyExpires(gw.set, gw.set')
    OBVIOUS
  <2> USE DEF OnlyExpires, store, server, client, gateway
  <2>1. CASE RefreshSwap
    BY <2>1 DEF RefreshSwap, GatewayOrdered
  <2>2. CASE gw' = gw
    BY <2>2
  <2>3. RefreshSwap \/ gw' = gw
    BY DEF Next, Revoke, Expire, BuildRead, BuildSign, BuildFail, CacheAge, Respond, Apply, Lose,
           RefreshRead, RefreshFail
  <2> QED BY <2>1, <2>2, <2>3
<1> QED BY <1>1, GatewayStaysOrdered, PTL DEF Spec, GatewayNeverUnrevokes
-----------------------------------------------------------------------------
(* The feed.                                                               *)

BuildingRevoked ==
    \A r \in Replicas : building[r].pc = "read" => building[r].jtis \subseteq revoked

FeedInv == TypeOK /\ BuildingRevoked /\ VersionsOrdered

(* The feed that replica r has just numbered.                              *)
Signed(r) == [pc |-> "feed", ver |-> version + 1, jtis |-> building[r].jtis]

LEMMA PublishedGrows ==
    ASSUME TypeOK, Next
    PROVE  \/ Published' \subseteq Published
           \/ \E r \in Replicas : BuildSign(r) /\ Published' \subseteq Published \cup {Signed(r)}
<1> USE DEF Published, store, server, client, gateway
<1>1. ASSUME NEW r \in Replicas, BuildSign(r)
      PROVE  Published' \subseteq Published \cup {Signed(r)}
  BY <1>1 DEF BuildSign, TypeOK, Signed
<1>2. ASSUME NEW r \in Replicas, BuildRead(r) \/ BuildFail(r) \/ CacheAge(r)
      PROVE  Published' \subseteq Published
  BY <1>2 DEF BuildRead, BuildFail, CacheAge, TypeOK
<1>3. ASSUME NEW f \in Fetchers, NEW r \in Replicas, Respond(f, r)
      PROVE  Published' \subseteq Published
  BY <1>3 DEF Respond, TypeOK
<1>4. ASSUME NEW f \in Fetchers, Apply(f)
      PROVE  Published' \subseteq Published
  <2>1. inflight[f] \in Feeds
    BY <1>4 DEF Apply, TypeOK, None
  <2>2. inflight[f] = [pc |-> "feed", ver |-> inflight[f].ver, jtis |-> inflight[f].jtis]
    BY <2>1 DEF Feeds
  <2>3. [pc |-> "feed", ver |-> sdk'.version, jtis |-> sdk'.revoked] \in Published
    BY <1>4, <2>2 DEF Apply
  <2>4. \A g \in Fetchers : inflight'[g].pc = "feed" => inflight'[g] \in Published
    BY <1>4 DEF Apply, TypeOK, None
  <2> QED BY <1>4, <2>3, <2>4 DEF Apply
<1>5. ASSUME NEW f \in Fetchers, Lose(f)
      PROVE  Published' \subseteq Published
  BY <1>5 DEF Lose, TypeOK, None
<1>6. ASSUME \/ \E j \in Jtis : Revoke(j) \/ Expire(j)
             \/ RefreshRead \/ RefreshSwap \/ RefreshFail
      PROVE  Published' \subseteq Published
  BY <1>6 DEF Revoke, Expire, RefreshRead, RefreshSwap, RefreshFail
<1> QED BY <1>1, <1>2, <1>3, <1>4, <1>5, <1>6 DEF Next

(* A build lists what every feed so far lists, and the store everything    *)
(* that is being built: the order of the versions is the order of the      *)
(* reads.                                                                  *)
LEMMA FeedStep ==
    ASSUME OneReplica, FeedInv, Next
    PROVE  BuildingRevoked' /\ VersionsOrdered'
<1> USE DEF FeedInv, store, server, client, gateway
<1>v. version \in Nat /\ \A a \in Published : a.ver \in Nat
  BY DEF TypeOK, Published, Feeds, None
<1>1. ASSUME NEW r \in Replicas, BuildSign(r), Published' \subseteq Published \cup {Signed(r)}
      PROVE  BuildingRevoked' /\ VersionsOrdered'
  <2>1. building[r].pc = "read" /\ version' = version + 1 /\ UNCHANGED <<revoked, expired>>
    BY <1>1 DEF BuildSign
  <2>2. \A s \in Replicas : building'[s].pc # "read"
    BY <1>1 DEF BuildSign, OneReplica, TypeOK, None
  <2>3. /\ \A a \in Published : /\ a.ver < Signed(r).ver
                                /\ a.jtis \ expired \subseteq Signed(r).jtis
                                /\ a.jtis \subseteq revoked
        /\ Signed(r).jtis \subseteq revoked /\ Signed(r).ver = version'
    BY <2>1, <1>v DEF VersionsOrdered, BuildingRevoked, Signed
  <2>4. \A a, b \in Published' : a.ver <= b.ver => a.jtis \ expired \subseteq b.jtis
    <3> SUFFICES ASSUME NEW a \in Published', NEW b \in Published', a.ver <= b.ver
                 PROVE  a.jtis \ expired \subseteq b.jtis
      OBVIOUS
    <3>1. CASE a \in Published /\ b \in Published
      BY <3>1 DEF VersionsOrdered
    <3>2. CASE b = Signed(r)
      BY <3>2, <2>3, <1>1
    <3>3. CASE a = Signed(r) /\ b \in Published
      BY <3>3, <2>3, <1>v, <2>1
    <3> QED BY <3>1, <3>2, <3>3, <1>1
  <2>5. \A a \in Published' : a.ver <= version' /\ a.jtis \subseteq revoked
    BY <2>3, <2>1, <1>1, <1>v
  <2> QED BY <2>1, <2>2, <2>4, <2>5 DEF BuildingRevoked, VersionsOrdered
<1>2. ASSUME Published' \subseteq Published, \A r \in Replicas : ~BuildSign(r)
      PROVE  BuildingRevoked' /\ VersionsOrdered'
  <2>1. version' = version /\ revoked \subseteq revoked' /\ expired \subseteq expired'
    BY <1>2 DEF Next, Revoke, Expire, BuildRead, BuildFail, CacheAge, Respond, Apply, Lose,
                RefreshRead, RefreshSwap, RefreshFail
  <2>2. \A r \in Replicas : building'[r].pc = "read" =>
            building'[r].jtis = Listed \/ building'[r] = building[r]
    BY <1>2 DEF Next, Revoke, Expire, BuildRead, BuildFail, CacheAge, Respond, Apply, Lose,
                RefreshRead, RefreshSwap, RefreshFail, TypeOK, None
  <2>3. \A r \in Replicas : building'[r].pc = "read" => building'[r].jtis \subseteq revoked'
    BY <2>1, <2>2 DEF BuildingRevoked, Listed
  <2>4. \A a \in Published, r \in Replicas : building'[r].pc = "read" =>
            a.jtis \ expired' \subseteq building'[r].jtis
    BY <2>1, <2>2 DEF VersionsOrdered, Listed
  <2> QED BY <1>2, <2>1, <2>3, <2>4 DEF BuildingRevoked, VersionsOrdered
<1>3. CASE \E r \in Replicas : BuildSign(r) /\ Published' \subseteq Published \cup {Signed(r)}
  BY <1>1, <1>3
<1>4. CASE \E r \in Replicas : BuildSign(r) /\ Published' \subseteq Published
  BY <1>1, <1>4
<1>5. CASE Published' \subseteq Published /\ \A r \in Replicas : ~BuildSign(r)
  BY <1>2, <1>5
<1> QED BY <1>3, <1>4, <1>5, PublishedGrows

LEMMA FeedInvariant == OneReplica => (Spec => []FeedInv)
<1> SUFFICES ASSUME OneReplica PROVE Spec => []FeedInv
  OBVIOUS
<1>1. Init => BuildingRevoked /\ VersionsOrdered
  BY DEF Init, BuildingRevoked, VersionsOrdered, Published, None
<1>2. FeedInv /\ [Next]_vars => BuildingRevoked' /\ VersionsOrdered'
  <2>1. FeedInv /\ UNCHANGED vars => BuildingRevoked' /\ VersionsOrdered'
    BY DEF FeedInv, vars, BuildingRevoked, VersionsOrdered, Published
  <2> QED BY <2>1, FeedStep
<1> QED BY <1>1, <1>2, TypeCorrect, PTL DEF Spec, FeedInv

(* With one replica, of two feeds anywhere in the system the one with the  *)
(* higher version lists what the other lists and has not expired           *)
(* (Feed.build under the mutex of Snapshot).                               *)
THEOREM FeedsAreOrdered == OneReplica => (Spec => []VersionsOrdered)
BY FeedInvariant, PTL DEF FeedInv

(* With one replica, a token the SDK rejects stays rejected until it       *)
(* expires, whatever responses are lost, late or overtaken                 *)
(* (RevocationFeed.apply).                                                 *)
THEOREM FeedNeverUnrevokes == OneReplica => (Spec => NeverUnrevokes)
<1>1. FeedInv /\ [Next]_vars => [OnlyExpires(sdk.revoked, sdk.revoked')]_vars
  <2> SUFFICES ASSUME FeedInv, Next PROVE OnlyExpires(sdk.revoked, sdk.revoked')
    OBVIOUS
  <2> USE DEF OnlyExpires, store, server, client, gateway
  <2>1. ASSUME NEW f \in Fetchers, Apply(f) PROVE OnlyExpires(sdk.revoked, sdk.revoked')
    <3> DEFINE held == [pc |-> "feed", ver |-> sdk.version, jtis |-> sdk.revoked]
    <3>1. held \in Published /\ inflight[f] \in Published
      BY <2>1 DEF Apply, Published
    <3>2. Accepts(inflight[f]) => held.ver <= inflight[f].ver
      BY <2>1 DEF Accepts, Apply, FeedInv, TypeOK, Feeds, None
    <3>3. Accepts(inflight[f]) => held.jtis \ expired \subseteq inflight[f].jtis
      BY <3>1, <3>2 DEF FeedInv, VersionsOrdered
    <3> QED BY <2>1, <3>3 DEF Apply
  <2>2. CASE sdk' = sdk
    BY <2>2
  <2>3. (\E f \in Fetchers : Apply(f)) \/ sdk' = sdk
    BY DEF Next, Revoke, Expire, BuildRead, BuildSign, BuildFail, CacheAge, Respond, Lose,
           RefreshRead, RefreshSwap, RefreshFail
  <2> QED BY <2>1, <2>2, <2>3
<1> QED BY <1>1, FeedInvariant, PTL DEF Spec, NeverUnrevokes
=============================================================================
