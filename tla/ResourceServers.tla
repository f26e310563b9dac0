--------------------------- MODULE ResourceServers ---------------------------
(***************************************************************************)
(* Resource servers that embed the SDK, against the issuer's rotation of   *)
(* its keys.  A site fetches the JWKS once, when it starts; the same map   *)
(* verifies tokens and the signed revocation feed, which the site polls    *)
(* (sdk/verifier.go, sdk/revocation.go, the JWKS and feed handlers).       *)
(*                                                                         *)
(* The issuer's processes are those of Keystore.  Tokens of one key and    *)
(* one tick are revoked together.  A poll is a step, and its feed is new:  *)
(* feeds that overtake each other, and the five seconds for which a server *)
(* reuses one, are in RevocationFeed, and add to the time that             *)
(* StrictSitesStop bounds.  A poll without an answer, or whose answer      *)
(* pairs one key's id with another key, changes nothing and is no step.    *)
(***************************************************************************)
EXTENDS Keystore

CONSTANTS Sites,
          MaxStaleness,  \* argument of WithFeedFailClosed
          MaxRevoked     \* bound

ASSUME SitesAssumption == MaxStaleness \in Nat /\ MaxRevoked \in Nat

VARIABLES born,     \* when each key was inserted
          revoked,  \* live tokens that are revoked -> when they were
          site,     \* the SDK of each site
          told      \* live tokens of the feeds each site has been sent

siteVars == <<born, revoked, site, told>>

Off == [pc |-> "off"]
-----------------------------------------------------------------------------
(* What a server publishes.                                                *)

(* Mutant: only the key it signs with.                                     *)
MutActiveOnly(s) == {cache[s].active}

VerifierKeys(s) == cache[s].byKID

(* The feed lists the revoked tokens of the table and is signed with the   *)
(* newest key the server knows.                                            *)
Feed(s) == [kid |-> cache[s].active, jtis |-> DOMAIN revoked]
-----------------------------------------------------------------------------
FetchJWKS(x, s, strict) ==
    /\ site[x].pc = "off" /\ phase[s] = "up"
    /\ site' = [site EXCEPT ![x] = [pc |-> "keys", keys |-> VerifierKeys(s), at |-> now,
                                    strict |-> strict]]
    /\ UNCHANGED <<vars, born, revoked, told>>

(* apply: a feed under an unknown key leaves everything as it was.         *)
Known(x, feed) == feed.kid \in site[x].keys

Snapshot(x, feed) ==
    [pc |-> "up", keys |-> site[x].keys, at |-> site[x].at, strict |-> site[x].strict,
     revoked |-> feed.jtis, fetchedAt |-> now]

(* FetchRevocationFeed returns the first error, and the site ends.         *)
FetchRevocationFeed(x, s) ==
    /\ site[x].pc = "keys" /\ phase[s] = "up"
    /\ site' = [site EXCEPT ![x] = IF Known(x, Feed(s)) THEN Snapshot(x, Feed(s)) ELSE Off]
    /\ told' = [told EXCEPT ![x] = IF Known(x, Feed(s)) THEN Feed(s).jtis ELSE {}]
    /\ UNCHANGED <<vars, born, revoked>>

(* Mutants: the poll's answer is dropped; the clock of a feed that does    *)
(* not verify starts anew.                                                 *)
MutDropped(x, feed) == site[x]

MutRestarts(x, feed) ==
    IF Known(x, feed) THEN Snapshot(x, feed) ELSE [site[x] EXCEPT !.fetchedAt = now]

Applied(x, feed) == IF Known(x, feed) THEN Snapshot(x, feed) ELSE site[x]

(* An error of Refresh is passed to onError and the polling goes on.       *)
Refresh(x, s) ==
    /\ site[x].pc = "up" /\ phase[s] = "up"
    /\ site' = [site EXCEPT ![x] = Applied(x, Feed(s))]
    /\ told' = [told EXCEPT ![x] = @ \cup Feed(s).jtis]
    /\ UNCHANGED <<vars, born, revoked>>

Stale(x) == now > site[x].fetchedAt + MaxStaleness

(* Verifier.Verify, of a genuine token that has not expired.               *)
Accepts(x, t) ==
    /\ site[x].pc = "up"
    /\ t.kid \in site[x].keys
    /\ site[x].strict => ~Stale(x)
    /\ t \notin site[x].revoked

SiteEnds(x) ==
    /\ site[x].pc # "off"
    /\ site' = [site EXCEPT ![x] = Off]
    /\ told' = [told EXCEPT ![x] = {}]
    /\ UNCHANGED <<vars, born, revoked>>
-----------------------------------------------------------------------------
RevokeToken(t) ==
    /\ t \notin DOMAIN revoked /\ Cardinality(DOMAIN revoked) < MaxRevoked
    /\ revoked' = [u \in DOMAIN revoked \cup {t} |->
                      IF u = t THEN now ELSE revoked[u]]
    /\ UNCHANGED <<vars, born, site, told>>

(* A step of the issuer; tokens expire with the clock.                     *)
IssuerStep ==
    /\ Next
    /\ born' = [k \in DOMAIN keys' |-> IF k \in DOMAIN born THEN born[k] ELSE now]
    /\ revoked' = [t \in DOMAIN revoked \cap tokens' |-> revoked[t]]
    /\ told' = [x \in Sites |-> told[x] \cap tokens']
    /\ UNCHANGED site

SiteStep ==
    \E x \in Sites :
        \/ \E s \in Servers, strict \in BOOLEAN : FetchJWKS(x, s, strict)
        \/ \E s \in Servers : FetchRevocationFeed(x, s) \/ Refresh(x, s)
        \/ SiteEnds(x)

SiteInit ==
    /\ Init /\ born = << >> /\ revoked = [t \in {} |-> 0]
    /\ site = [x \in Sites |-> Off] /\ told = [x \in Sites |-> {}]

SiteNext == IssuerStep \/ SiteStep \/ \E t \in tokens : RevokeToken(t)

SiteSpec == SiteInit /\ [][SiteNext]_<<vars, siteVars>>
-----------------------------------------------------------------------------
SiteStates ==
    {Off}
    \cup [pc : {"keys"}, keys : SUBSET (DOMAIN keys), at : 0..now, strict : BOOLEAN]
    \cup [pc : {"up"}, keys : SUBSET (DOMAIN keys), at : 0..now, strict : BOOLEAN,
          revoked : SUBSET [kid : Nat, key : Nat, exp : Nat], fetchedAt : 0..now]

(* Every site and every record of a revocation is of its type.             *)
SiteTypeOK ==
    /\ DOMAIN born = DOMAIN keys /\ \A k \in DOMAIN keys : born[k] \in 0..now
    /\ DOMAIN revoked \subseteq tokens /\ \A t \in DOMAIN revoked : revoked[t] \in 0..now
    /\ site \in [Sites -> SiteStates]
    /\ told \in [Sites -> SUBSET tokens]

(* Key k may be too new for a site: it was inserted after the site took    *)
(* its keys, or less than a reload period before.                          *)
Later(k, x) == born[k] + ReloadEvery >= site[x].at

(* A site knows the key of every live token but those signed with a later  *)
(* key: one that starts more than a reload period after a rotation accepts *)
(* what the issuer signs, from whichever server's JWKS it started, and     *)
(* however servers, rotations and prunes interleave (FetchJWKS).           *)
FreshKeysServe ==
    \A x \in Sites, t \in tokens :
        site[x].pc # "off" => t.kid \in site[x].keys \/ Later(t.kid, x)

(* A site that fails closed accepts no token for longer than MaxStaleness  *)
(* after its revocation, also when a rotation has made every feed since    *)
(* then unreadable to it (WithFeedFailClosed).                             *)
StrictSitesStop ==
    \A x \in Sites, t \in DOMAIN revoked :
        Accepts(x, t) /\ site[x].strict => now <= revoked[t] + MaxStaleness

(* A site that accepts a token which a feed it was sent lists as revoked   *)
(* does so because the issuer has a later key: nothing else makes it deaf  *)
(* to the feed (RevocationFeed.apply, Rotate).                             *)
OnlyRotationDeafens ==
    \A x \in Sites : \A t \in told[x] :
        Accepts(x, t) => \E k \in DOMAIN keys : Later(k, x)
=============================================================================
