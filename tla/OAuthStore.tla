----------------------------- MODULE OAuthStore -----------------------------
(***************************************************************************)
(* The storage behind the OAuth endpoints (internal/auth/storage.go): the  *)
(* rows of authorization codes, PKCE and OIDC sessions, access and refresh *)
(* tokens.  All rows of one authorization share its request id, here a     *)
(* family.  The storage has no transactions: the OAuth library calls its   *)
(* methods one after the other, for the code grant, the refresh grant and  *)
(* a revocation, and any of those calls may fail and end the request.      *)
(***************************************************************************)
EXTENDS Naturals, FiniteSets

CONSTANTS Families,      \* request ids
          Requests,        \* requests that can run at the same time
          MaxPairs       \* bound on the token pairs issued

ASSUME OAuthAssumption == MaxPairs \in Nat

VARIABLES codes,     \* oauth2_auth_codes: no row, one whose code is not yet sent, or
                     \* sent, both active, or an inactive one
          oidc,      \* families with a row in oauth2_oidc_sessions
          pkce,      \* families with a row in oauth2_pkce
          access,    \* oauth2_access_tokens
          refresh,   \* oauth2_refresh_tokens, with the column active
          call,      \* the requests in progress
          pairs,     \* token pairs issued
          ended      \* families revoked while no other request was using them

oauthRows == <<codes, oidc, pkce, access, refresh, pairs>>
oauthVars == <<oauthRows, call, ended>>

Resting == [pc |-> "rest"]
Step(c, from, to) == /\ call[c].pc = from
                     /\ call' = [call EXCEPT ![c].pc = to]
Done(c) == call' = [call EXCEPT ![c] = Resting]
Family(c) == call[c].family
Using(f) == {c \in Requests : call[c] # Resting /\ Family(c) = f}
-----------------------------------------------------------------------------
(* GET /oauth2/authorize, for a session that exists.                       *)
AuthorizeHandler(c, f) ==
    /\ call[c] = Resting /\ codes[f] = "none"
    /\ codes' = [codes EXCEPT ![f] = "unsent"]
    /\ call' = [call EXCEPT ![c] = [pc |-> "pkce", family |-> f]]
    /\ UNCHANGED <<oidc, pkce, access, refresh, pairs, ended>>

CreatePKCERequestSession(c) ==
    /\ Step(c, "pkce", "oidc") /\ pkce' = pkce \cup {Family(c)}
    /\ UNCHANGED <<codes, oidc, access, refresh, pairs, ended>>

CreateOpenIDConnectSession(c) ==
    /\ call[c].pc = "oidc" /\ Done(c) /\ oidc' = oidc \cup {Family(c)}
    /\ codes' = [codes EXCEPT ![Family(c)] = "sent"]
    /\ UNCHANGED <<pkce, access, refresh, pairs, ended>>
-----------------------------------------------------------------------------
(* The code grant.  A code that was used makes the library revoke all that *)
(* was issued for it.                                                      *)
GetAuthorizeCodeSession(c, f) ==
    /\ call[c] = Resting /\ codes[f] \in {"sent", "used"}
    /\ call' = [call EXCEPT ![c] = [pc |-> IF codes[f] = "sent" THEN "verifier" ELSE "replay",
                                    family |-> f, grant |-> "code"]]
    /\ UNCHANGED <<oauthRows, ended>>

GetPKCERequestSession(c) ==
    /\ call[c].pc = "verifier"
    /\ IF Family(c) \in pkce THEN Step(c, "verifier", "verified") ELSE Done(c)
    /\ UNCHANGED <<oauthRows, ended>>

DeletePKCERequestSession(c) ==
    /\ Step(c, "verified", "invalidate") /\ pkce' = pkce \ {Family(c)}
    /\ UNCHANGED <<codes, oidc, access, refresh, pairs, ended>>

InvalidateAuthorizeCodeSession(c) ==
    /\ Step(c, "invalidate", "access")
    /\ codes' = [codes EXCEPT ![Family(c)] = "used"]
    /\ UNCHANGED <<oidc, pkce, access, refresh, pairs, ended>>

CreateAccessTokenSession(c) ==
    /\ Step(c, "access", "refresh") /\ pairs < MaxPairs
    /\ pairs' = pairs + 1
    /\ access' = access \cup {[family |-> Family(c), id |-> pairs']}
    /\ UNCHANGED <<codes, oidc, pkce, refresh, ended>>

CreateRefreshTokenSession(c) ==
    /\ call[c].pc = "refresh"
    /\ IF call[c].grant = "code" THEN Step(c, "refresh", "id_token") ELSE Done(c)
    /\ refresh' = refresh \cup {[family |-> Family(c), id |-> pairs, active |-> TRUE]}
    /\ UNCHANGED <<codes, oidc, pkce, access, pairs, ended>>

DeleteOpenIDConnectSession(c) ==
    /\ call[c].pc = "id_token" /\ Done(c) /\ oidc' = oidc \ {Family(c)}
    /\ UNCHANGED <<codes, pkce, access, refresh, pairs, ended>>
-----------------------------------------------------------------------------
(* The refresh grant.                                                      *)

(* Mutant: getTokenSession looks at the row and not at its active column.  *)
MutUsable(t) == TRUE

usable(t) == t.active

GetRefreshTokenSession(c, t) ==
    /\ call[c] = Resting /\ usable(t)
    /\ call' = [call EXCEPT ![c] = [pc |-> "rotate", family |-> t.family,
                                    grant |-> "refresh"]]
    /\ UNCHANGED <<oauthRows, ended>>

Deactivated(f) == {IF t.family = f THEN [t EXCEPT !.active = FALSE] ELSE t : t \in refresh}
Without(f) == {t \in access : t.family # f}

(* RotateRefreshToken: one statement, and then the other.                  *)
RotateRefreshToken(c) ==
    /\ Step(c, "rotate", "rotate_access") /\ refresh' = Deactivated(Family(c))
    /\ UNCHANGED <<codes, oidc, pkce, access, pairs, ended>>

RotateAccessTokens(c) ==
    /\ Step(c, "rotate_access", "access") /\ access' = Without(Family(c))
    /\ UNCHANGED <<codes, oidc, pkce, refresh, pairs, ended>>
-----------------------------------------------------------------------------
(* POST /oauth2/revoke with any token of the family, or a replayed code.   *)
RevokeHandler(c, f) ==
    /\ call[c] = Resting
    /\ \E t \in access \cup refresh : t.family = f
    /\ call' = [call EXCEPT ![c] = [pc |-> "revoke", family |-> f]]
    /\ UNCHANGED <<oauthRows, ended>>

Replay(c) ==
    /\ call[c].pc = "replay"
    /\ call' = [call EXCEPT ![c] = [pc |-> "revoke", family |-> Family(c)]]
    /\ UNCHANGED <<oauthRows, ended>>

RevokeRefreshToken(c) ==
    /\ call[c].pc = "revoke"
    /\ call' = [call EXCEPT ![c] = [pc |-> "revoke_access", family |-> Family(c),
                                    alone |-> Using(Family(c)) = {c}]]
    /\ refresh' = Deactivated(Family(c))
    /\ UNCHANGED <<codes, oidc, pkce, access, pairs, ended>>

RevokeAccessToken(c) ==
    /\ call[c].pc = "revoke_access" /\ Done(c)
    /\ access' = Without(Family(c))
    /\ ended' = ended \cup {f \in {Family(c)} : call[c].alone /\ Using(f) = {c}}
    /\ UNCHANGED <<codes, oidc, pkce, refresh, pairs>>

(* A failed statement, or a process that stops, ends the request there.    *)
Fail(c) ==
    /\ call[c] # Resting /\ Done(c)
    /\ UNCHANGED <<oauthRows, ended>>
-----------------------------------------------------------------------------
OAuthInit ==
    /\ codes = [f \in Families |-> "none"]
    /\ oidc = {} /\ pkce = {} /\ access = {} /\ refresh = {} /\ ended = {}
    /\ call = [c \in Requests |-> Resting]
    /\ pairs = 0

GrantCall(c) ==
    \/ \E f \in Families : AuthorizeHandler(c, f) \/ GetAuthorizeCodeSession(c, f)
    \/ \E t \in refresh : GetRefreshTokenSession(c, t)
    \/ CreatePKCERequestSession(c) \/ CreateOpenIDConnectSession(c)
    \/ GetPKCERequestSession(c) \/ DeletePKCERequestSession(c)
    \/ DeleteOpenIDConnectSession(c) \/ InvalidateAuthorizeCodeSession(c)
    \/ RotateRefreshToken(c) \/ RotateAccessTokens(c)
    \/ CreateAccessTokenSession(c) \/ CreateRefreshTokenSession(c)

RevokeCall(c) ==
    \/ \E f \in Families : RevokeHandler(c, f)
    \/ Replay(c) \/ RevokeRefreshToken(c) \/ RevokeAccessToken(c)

OAuthNext == \E c \in Requests : GrantCall(c) \/ RevokeCall(c) \/ Fail(c)

OAuthSpec == OAuthInit /\ [][OAuthNext]_oauthVars
-----------------------------------------------------------------------------
OAuthTypeOK ==
    /\ codes \in [Families -> {"none", "unsent", "sent", "used"}]
    /\ access \subseteq [family : Families, id : 1..MaxPairs]
    /\ refresh \subseteq [family : Families, id : 1..MaxPairs, active : BOOLEAN]
    /\ ended \subseteq Families

(* Once a revocation has run with no other request on the same family, no  *)
(* token of the family is live, ever: not after the failures between the   *)
(* statements of a rotation (RotateRefreshToken), between those of an      *)
(* exchange, or after later attempts with the old code or refresh tokens.  *)
LoneRevocationIsFinal ==
    \A f \in ended : /\ \A t \in refresh : t.family = f => ~t.active
                     /\ \A t \in access : t.family # f
=============================================================================
