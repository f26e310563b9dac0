---------------------------- MODULE ServerProofs ----------------------------
(***************************************************************************)
(* The stores of the server that share no state: OAuth tokens, gateway     *)
(* upstreams, rows that are read, merged and written back, accounts with   *)
(* what their callers change, the live console, and the metrics registry.  *)
(* One part each, every part with an inductive invariant of its own, and   *)
(* last the specification that puts them side by side with the offline     *)
(* trust domain and its guard.                                             *)
(***************************************************************************)
EXTENDS System, TrustProofs, FiniteSetTheorems, WellFoundedInduction

(* OAuth.  A revocation that ran alone is final.  A family with a token has *)
(* spent its code, for good; once its refresh tokens are deactivated with  *)
(* nobody else on it, the only calls that can still begin are replays of   *)
(* the code and further revocations (Quiet), and none of them inserts a    *)
(* row.                                                                    *)

Revoking == {"replay", "revoke", "revoke_access"}

(* The stages a request reaches only after the code was spent.             *)
Spending == Revoking \cup {"access", "refresh", "id_token", "rotate", "rotate_access"}

CallStates == {Resting}
    \cup [pc : {"pkce", "oidc", "revoke"}, family : Families]
    \cup [pc : {"verifier", "verified", "invalidate", "access", "refresh", "id_token",
                "rotate", "rotate_access", "replay"},
          family : Families, grant : {"code", "refresh"}]
    \cup [pc : {"revoke_access"}, family : Families, alone : BOOLEAN]

Spent(f) ==
    \/ \E t \in access \cup refresh : t.family = f
    \/ \E c \in Using(f) : call[c].pc \in Spending
    => codes[f] = "used"

(* A code is sent once, and by one request.                                *)
SentOnce(f) ==
    \A c \in Using(f) :
        /\ call[c].pc \in {"pkce", "oidc"} =>
              /\ codes[f] = "unsent"
              /\ \A d \in Using(f) : call[d].pc \in {"pkce", "oidc"} => d = c
        /\ call[c].pc \in {"verifier", "verified", "invalidate"} => codes[f] \in {"sent", "used"}

(* Nothing of the family can be used any more but its access tokens.       *)
Quiet(f) ==
    /\ codes[f] = "used"
    /\ \A t \in refresh : t.family = f => ~t.active
    /\ \A c \in Using(f) : call[c].pc \in Revoking

Barren(f) == \A t \in access : t.family # f

StoreInv ==
    /\ call \in [Requests -> CallStates]
    /\ codes = [f \in Families |-> codes[f]]
    /\ pairs \in Nat /\ refresh \subseteq [family : Families, id : Nat, active : BOOLEAN]
    /\ ended \subseteq Families
    /\ \A f \in Families : Spent(f) /\ SentOnce(f)
    /\ \A f \in Families, c \in Requests :
          call[c].pc = "revoke_access" /\ call[c].alone /\ call[c].family = f => Quiet(f)
    /\ \A f \in ended : Quiet(f) /\ Barren(f)

(* What a step of request c does to its own call.                          *)
LEMMA CallSteps ==
    ASSUME StoreInv, NEW c \in Requests, GrantCall(c) \/ RevokeCall(c) \/ Fail(c)
    PROVE  \E k \in CallStates : call' = [call EXCEPT ![c] = k]
<1>1. call[c] \in CallStates
  BY DEF StoreInv
<1>2. Resting \in CallStates
  BY DEF CallStates
<1>3. ASSUME NEW from, NEW to, Step(c, from, to),
             <<from, to>> \in {<<"pkce", "oidc">>, <<"verifier", "verified">>,
                <<"verified", "invalidate">>, <<"invalidate", "access">>,
                <<"access", "refresh">>, <<"refresh", "id_token">>,
                <<"rotate", "rotate_access">>, <<"rotate_access", "access">>}
      PROVE  \E k \in CallStates : call' = [call EXCEPT ![c] = k]
  <2> DEFINE k == [call[c] EXCEPT !.pc = to]
  <2>1. k \in CallStates
    BY <1>1, <1>3 DEF Step, CallStates, Resting
  <2>2. call' = [call EXCEPT ![c] = k]
    BY <1>3 DEF Step
  <2> QED BY <2>1, <2>2
<1>4. CASE GrantCall(c)
  <2>1. ASSUME NEW f \in Families, AuthorizeHandler(c, f) \/ GetAuthorizeCodeSession(c, f)
        PROVE  \E k \in CallStates : call' = [call EXCEPT ![c] = k]
    BY <2>1 DEF AuthorizeHandler, GetAuthorizeCodeSession, CallStates
  <2>2. ASSUME NEW t \in refresh, GetRefreshTokenSession(c, t)
        PROVE  \E k \in CallStates : call' = [call EXCEPT ![c] = k]
    BY <2>2 DEF GetRefreshTokenSession, CallStates, StoreInv
  <2>3. CASE CreatePKCERequestSession(c) \/ GetPKCERequestSession(c)
             \/ DeletePKCERequestSession(c) \/ InvalidateAuthorizeCodeSession(c)
    BY <1>2, <1>3, <2>3 DEF CreatePKCERequestSession, GetPKCERequestSession, Done,
          DeletePKCERequestSession, InvalidateAuthorizeCodeSession
  <2>4. CASE RotateRefreshToken(c) \/ RotateAccessTokens(c) \/ CreateAccessTokenSession(c)
             \/ CreateRefreshTokenSession(c)
    BY <1>2, <1>3, <2>4 DEF RotateRefreshToken, RotateAccessTokens,
                            CreateAccessTokenSession,
          CreateRefreshTokenSession, Done
  <2>5. CASE CreateOpenIDConnectSession(c) \/ DeleteOpenIDConnectSession(c)
    BY <1>2, <2>5 DEF CreateOpenIDConnectSession, DeleteOpenIDConnectSession, Done
  <2> QED BY <1>4, <2>1, <2>2, <2>3, <2>4, <2>5 DEF GrantCall
<1>5. CASE RevokeCall(c)
  <2>1. ASSUME NEW f \in Families, RevokeHandler(c, f)
        PROVE  \E k \in CallStates : call' = [call EXCEPT ![c] = k]
    BY <2>1 DEF RevokeHandler, CallStates
  <2>2. CASE Replay(c) \/ RevokeRefreshToken(c) \/ RevokeAccessToken(c)
    <3>1. call[c].pc \in {"replay", "revoke"} => Family(c) \in Families
      BY <1>1 DEF CallStates, Resting, Family
    <3> QED BY <1>2, <2>2, <3>1 DEF Replay, RevokeRefreshToken, RevokeAccessToken,
                                    Done, CallStates
  <2> QED BY <1>5, <2>1, <2>2 DEF RevokeCall
<1>6. CASE Fail(c)
  BY <1>2, <1>6 DEF Fail, Done
<1> QED BY <1>4, <1>5, <1>6

(* A family's invariant through a step.                                    *)
Follows(f) ==
    /\ Spent(f)' /\ SentOnce(f)'
    /\ Quiet(f) => Quiet(f)'
    /\ Quiet(f) /\ Barren(f) => Barren(f)'

LEMMA Deactivation ==
    ASSUME StoreInv, NEW g
    PROVE  /\ Deactivated(g) \subseteq [family : Families, id : Nat, active : BOOLEAN]
           /\ \A t \in Deactivated(g) : t.family = g => ~t.active
           /\ \A t \in Deactivated(g) : t.family # g => t \in refresh
           /\ \A t \in Deactivated(g) : \E s \in refresh : t.family = s.family
<1>1. ASSUME NEW t \in Deactivated(g)
      PROVE  /\ t \in [family : Families, id : Nat, active : BOOLEAN]
             /\ t.family = g => ~t.active
             /\ t.family # g => t \in refresh
             /\ \E s \in refresh : t.family = s.family
  <2>1. PICK s \in refresh : t = IF s.family = g THEN [s EXCEPT !.active = FALSE] ELSE s
    BY <1>1 DEF Deactivated
  <2>2. s \in [family : Families, id : Nat, active : BOOLEAN]
    BY DEF StoreInv
  <2> QED BY <2>1, <2>2
<1> QED BY <1>1

LEMMA FamilySteps ==
    ASSUME StoreInv, NEW c \in Requests, GrantCall(c) \/ RevokeCall(c) \/ Fail(c),
           NEW f \in Families
    PROVE  Follows(f)
<1>1. /\ call \in [Requests -> CallStates] /\ call[c] \in CallStates /\ Spent(f) /\ SentOnce(f)
      /\ DOMAIN codes = Families /\ \A t \in refresh : t.family \in Families
  BY DEF StoreInv
<1>2. PICK k \in CallStates : call' = [call EXCEPT ![c] = k]
  BY CallSteps
<1>3. /\ call'[c] = k /\ \A d \in Requests \ {c} : call'[d] = call[d]
      /\ Resting.pc = "rest"
  BY <1>1, <1>2 DEF Resting
<1> USE <1>1, <1>3 DEF Follows, Using, Family, Revoking, Spending, oauthRows
<1>4. ASSUME NEW g \in Families, AuthorizeHandler(c, g) PROVE Follows(f)
  <2>1. Spent(f)' /\ SentOnce(f)'
    BY <1>4 DEF AuthorizeHandler, Spent, SentOnce
  <2>2. ASSUME Quiet(f) PROVE Quiet(f)' /\ (Barren(f) => Barren(f)')
    BY <1>4, <2>2 DEF AuthorizeHandler, Quiet, Barren
  <2> QED BY <2>1, <2>2
<1>5. ASSUME NEW g \in Families, GetAuthorizeCodeSession(c, g) PROVE Follows(f)
  <2>1. Spent(f)' /\ SentOnce(f)'
    BY <1>5 DEF GetAuthorizeCodeSession, Spent, SentOnce
  <2>2. ASSUME Quiet(f) PROVE Quiet(f)' /\ (Barren(f) => Barren(f)')
    BY <1>5, <2>2 DEF GetAuthorizeCodeSession, Quiet, Barren
  <2> QED BY <2>1, <2>2
<1>6. ASSUME NEW t \in refresh, GetRefreshTokenSession(c, t) PROVE Follows(f)
  <2>1. Spent(f)' /\ SentOnce(f)'
    BY <1>6 DEF GetRefreshTokenSession, usable, Spent, SentOnce
  <2>2. ASSUME Quiet(f) PROVE Quiet(f)' /\ (Barren(f) => Barren(f)')
    BY <1>6, <2>2 DEF GetRefreshTokenSession, usable, Quiet, Barren
  <2> QED BY <2>1, <2>2
<1>7. ASSUME NEW g \in Families, RevokeHandler(c, g) PROVE Follows(f)
  <2>1. Spent(f)' /\ SentOnce(f)'
    BY <1>7 DEF RevokeHandler, Spent, SentOnce
  <2>2. ASSUME Quiet(f) PROVE Quiet(f)' /\ (Barren(f) => Barren(f)')
    BY <1>7, <2>2 DEF RevokeHandler, Quiet, Barren
  <2> QED BY <2>1, <2>2
<1>8. ASSUME CreatePKCERequestSession(c) PROVE Follows(f)
  <2>1. Spent(f)' /\ SentOnce(f)'
    BY <1>8 DEF CreatePKCERequestSession, Step, Spent, SentOnce
  <2>2. ASSUME Quiet(f) PROVE Quiet(f)' /\ (Barren(f) => Barren(f)')
    BY <1>8, <2>2 DEF CreatePKCERequestSession, Step, Quiet, Barren
  <2> QED BY <2>1, <2>2
<1>9. ASSUME CreateOpenIDConnectSession(c) PROVE Follows(f)
  <2>1. Spent(f)' /\ SentOnce(f)'
    BY <1>9 DEF CreateOpenIDConnectSession, Done, Spent, SentOnce
  <2>2. ASSUME Quiet(f) PROVE Quiet(f)' /\ (Barren(f) => Barren(f)')
    BY <1>9, <2>2 DEF CreateOpenIDConnectSession, Done, Quiet, Barren
  <2> QED BY <2>1, <2>2
<1>10. ASSUME GetPKCERequestSession(c) PROVE Follows(f)
  <2>1. CASE Family(c) \in pkce
    <3>0. /\ call[c].pc = "verifier" /\ call[c] # Resting /\ UNCHANGED oauthRows
          /\ k.pc = "verified" /\ k.family = call[c].family
      BY <1>10, <2>1 DEF GetPKCERequestSession, Step, CallStates
    <3>1. Spent(f)' /\ SentOnce(f)'
      BY <3>0 DEF Spent, SentOnce
    <3>2. ASSUME Quiet(f) PROVE Quiet(f)' /\ (Barren(f) => Barren(f)')
      BY <3>0, <3>2 DEF Quiet, Barren
    <3> QED BY <3>1, <3>2
  <2>2. CASE ~(Family(c) \in pkce)
    <3>1. Spent(f)' /\ SentOnce(f)'
      BY <1>10, <2>2 DEF GetPKCERequestSession, Step, Done, Spent, SentOnce
    <3>2. ASSUME Quiet(f) PROVE Quiet(f)' /\ (Barren(f) => Barren(f)')
      BY <1>10, <2>2, <3>2 DEF GetPKCERequestSession, Step, Done, Quiet, Barren
    <3> QED BY <3>1, <3>2
  <2> QED BY <2>1, <2>2
<1>11. ASSUME DeletePKCERequestSession(c) PROVE Follows(f)
  <2>1. Spent(f)' /\ SentOnce(f)'
    BY <1>11 DEF DeletePKCERequestSession, Step, Spent, SentOnce
  <2>2. ASSUME Quiet(f) PROVE Quiet(f)' /\ (Barren(f) => Barren(f)')
    BY <1>11, <2>2 DEF DeletePKCERequestSession, Step, Quiet, Barren
  <2> QED BY <2>1, <2>2
<1>12. ASSUME DeleteOpenIDConnectSession(c) PROVE Follows(f)
  <2>1. Spent(f)' /\ SentOnce(f)'
    BY <1>12 DEF DeleteOpenIDConnectSession, Done, Spent, SentOnce
  <2>2. ASSUME Quiet(f) PROVE Quiet(f)' /\ (Barren(f) => Barren(f)')
    BY <1>12, <2>2 DEF DeleteOpenIDConnectSession, Done, Quiet, Barren
  <2> QED BY <2>1, <2>2
<1>13. ASSUME InvalidateAuthorizeCodeSession(c) PROVE Follows(f)
  <2>1. Spent(f)' /\ SentOnce(f)'
    BY <1>13 DEF InvalidateAuthorizeCodeSession, Step, Spent, SentOnce
  <2>2. ASSUME Quiet(f) PROVE Quiet(f)' /\ (Barren(f) => Barren(f)')
    BY <1>13, <2>2 DEF InvalidateAuthorizeCodeSession, Step, Quiet, Barren
  <2> QED BY <2>1, <2>2
<1>14. ASSUME RotateRefreshToken(c) PROVE Follows(f)
  <2>0. /\ \A t \in refresh' : t.family = call[c].family => ~t.active
        /\ \A t \in refresh' : t.family # call[c].family => t \in refresh
        /\ \A t \in refresh' : \E s \in refresh : t.family = s.family
    BY <1>14, Deactivation DEF RotateRefreshToken
  <2>3. /\ call[c].pc = "rotate" /\ call[c] # Resting /\ UNCHANGED <<codes, access>>
        /\ k.pc = "rotate_access" /\ k.family = call[c].family
    BY <1>14 DEF RotateRefreshToken, Step, CallStates
  <2>1. Spent(f)' /\ SentOnce(f)'
    <3>1. \A d \in Using(f)' : d \in Using(f) /\ (d # c => call'[d] = call[d])
      BY <2>3
    <3>2. (\E t \in access' \cup refresh' : t.family = f)
             => \E t \in access \cup refresh : t.family = f
      BY <2>0, <2>3
    <3>3. c \in Using(f)' => codes[f] = "used"
      BY <2>3 DEF Spent
    <3>4. Spent(f)'
      BY <2>3, <3>1, <3>2, <3>3 DEF Spent
    <3>5. SentOnce(f)'
      BY <2>3, <3>1 DEF SentOnce
    <3> QED BY <3>4, <3>5
  <2>2. ASSUME Quiet(f) PROVE Quiet(f)' /\ (Barren(f) => Barren(f)')
    <3>1. \A d \in Using(f)' : d \in Using(f) /\ (d # c => call'[d] = call[d])
      BY <2>3
    <3>2. \A t \in refresh' : t.family = f => ~t.active
      BY <2>0, <2>2 DEF Quiet
    <3> QED BY <2>2, <2>3, <3>1, <3>2 DEF Quiet, Barren
  <2> QED BY <2>1, <2>2
<1>15. ASSUME RotateAccessTokens(c) PROVE Follows(f)
  <2>1. Spent(f)' /\ SentOnce(f)'
    BY <1>15 DEF RotateAccessTokens, Step, Without, Spent, SentOnce
  <2>2. ASSUME Quiet(f) PROVE Quiet(f)' /\ (Barren(f) => Barren(f)')
    BY <1>15, <2>2 DEF RotateAccessTokens, Step, Without, Quiet, Barren
  <2> QED BY <2>1, <2>2
<1>16. ASSUME CreateAccessTokenSession(c) PROVE Follows(f)
  <2>1. Spent(f)' /\ SentOnce(f)'
    BY <1>16 DEF CreateAccessTokenSession, Step, Spent, SentOnce
  <2>2. ASSUME Quiet(f) PROVE Quiet(f)' /\ (Barren(f) => Barren(f)')
    BY <1>16, <2>2 DEF CreateAccessTokenSession, Step, Quiet, Barren
  <2> QED BY <2>1, <2>2
<1>17. ASSUME CreateRefreshTokenSession(c) PROVE Follows(f)
  <2>1. CASE call[c].grant = "code"
    <3>0. /\ call[c].pc = "refresh" /\ call[c] # Resting /\ UNCHANGED <<codes, access>>
          /\ k.pc = "id_token" /\ k.family = call[c].family
          /\ refresh' = refresh \cup {[family |-> call[c].family, id |-> pairs, active |-> TRUE]}
      BY <1>17, <2>1 DEF CreateRefreshTokenSession, Step, CallStates
    <3>1. Spent(f)' /\ SentOnce(f)'
      BY <3>0 DEF Spent, SentOnce
    <3>2. ASSUME Quiet(f) PROVE Quiet(f)' /\ (Barren(f) => Barren(f)')
      BY <3>0, <3>2 DEF Quiet, Barren
    <3> QED BY <3>1, <3>2
  <2>2. CASE ~(call[c].grant = "code")
    <3>1. Spent(f)' /\ SentOnce(f)'
      BY <1>17, <2>2 DEF CreateRefreshTokenSession, Step, Done, Spent, SentOnce
    <3>2. ASSUME Quiet(f) PROVE Quiet(f)' /\ (Barren(f) => Barren(f)')
      BY <1>17, <2>2, <3>2 DEF CreateRefreshTokenSession, Step, Done, Quiet, Barren
    <3> QED BY <3>1, <3>2
  <2> QED BY <2>1, <2>2
<1>18. ASSUME Replay(c) PROVE Follows(f)
  <2>1. Spent(f)' /\ SentOnce(f)'
    BY <1>18 DEF Replay, Spent, SentOnce
  <2>2. ASSUME Quiet(f) PROVE Quiet(f)' /\ (Barren(f) => Barren(f)')
    BY <1>18, <2>2 DEF Replay, Quiet, Barren
  <2> QED BY <2>1, <2>2
<1>19. ASSUME RevokeRefreshToken(c) PROVE Follows(f)
  <2>0. /\ \A t \in refresh' : t.family = call[c].family => ~t.active
        /\ \A t \in refresh' : t.family # call[c].family => t \in refresh
        /\ \A t \in refresh' : \E s \in refresh : t.family = s.family
    BY <1>19, Deactivation DEF RevokeRefreshToken
  <2>3. /\ call[c].pc = "revoke" /\ call[c] # Resting /\ UNCHANGED <<codes, access>>
        /\ k.pc = "revoke_access" /\ k.family = call[c].family
    BY <1>19 DEF RevokeRefreshToken, CallStates
  <2>1. Spent(f)' /\ SentOnce(f)'
    <3>1. \A d \in Using(f)' : d \in Using(f) /\ (d # c => call'[d] = call[d])
      BY <2>3
    <3>2. (\E t \in access' \cup refresh' : t.family = f)
             => \E t \in access \cup refresh : t.family = f
      BY <2>0, <2>3
    <3>3. c \in Using(f)' => codes[f] = "used"
      BY <2>3 DEF Spent
    <3>4. Spent(f)'
      BY <2>3, <3>1, <3>2, <3>3 DEF Spent
    <3>5. SentOnce(f)'
      BY <2>3, <3>1 DEF SentOnce
    <3> QED BY <3>4, <3>5
  <2>2. ASSUME Quiet(f) PROVE Quiet(f)' /\ (Barren(f) => Barren(f)')
    <3>1. \A d \in Using(f)' : d \in Using(f) /\ (d # c => call'[d] = call[d])
      BY <2>3
    <3>2. \A t \in refresh' : t.family = f => ~t.active
      BY <2>0, <2>2 DEF Quiet
    <3> QED BY <2>2, <2>3, <3>1, <3>2 DEF Quiet, Barren
  <2> QED BY <2>1, <2>2
<1>20. ASSUME RevokeAccessToken(c) PROVE Follows(f)
  <2>1. Spent(f)' /\ SentOnce(f)'
    BY <1>20 DEF RevokeAccessToken, Done, Without, Spent, SentOnce
  <2>2. ASSUME Quiet(f) PROVE Quiet(f)' /\ (Barren(f) => Barren(f)')
    BY <1>20, <2>2 DEF RevokeAccessToken, Done, Without, Quiet, Barren
  <2> QED BY <2>1, <2>2
<1>21. ASSUME Fail(c) PROVE Follows(f)
  <2>1. Spent(f)' /\ SentOnce(f)'
    BY <1>21 DEF Fail, Done, Spent, SentOnce
  <2>2. ASSUME Quiet(f) PROVE Quiet(f)' /\ (Barren(f) => Barren(f)')
    BY <1>21, <2>2 DEF Fail, Done, Quiet, Barren
  <2> QED BY <2>1, <2>2
<1> QED BY <1>4, <1>5, <1>6, <1>7, <1>8, <1>9, <1>10, <1>11, <1>12, <1>13, <1>14,
           <1>15, <1>16, <1>17, <1>18, <1>19, <1>20, <1>21 DEF GrantCall, RevokeCall

(* What else the steps write.                                              *)
LEMMA RowSteps ==
    ASSUME StoreInv, NEW c \in Requests, GrantCall(c) \/ RevokeCall(c) \/ Fail(c)
    PROVE  /\ codes' = [f \in Families |-> codes'[f]]
           /\ pairs' \in Nat
           /\ refresh' \subseteq [family : Families, id : Nat, active : BOOLEAN]
           /\ ended' = ended \/ RevokeAccessToken(c)
<1> USE DEF oauthRows
<1>1. /\ codes = [f \in Families |-> codes[f]] /\ pairs \in Nat
      /\ refresh \subseteq [family : Families, id : Nat, active : BOOLEAN]
  BY DEF StoreInv
<1>2. CASE CreateRefreshTokenSession(c)
  <2>1. call[c] # Resting /\ call[c] \in CallStates /\ Family(c) \in Families
    BY <1>2 DEF CreateRefreshTokenSession, Resting, StoreInv, CallStates, Family
  <2>2. /\ UNCHANGED <<codes, pairs, ended>>
        /\ refresh' = refresh \cup {[family |-> Family(c), id |-> pairs, active |-> TRUE]}
    BY <1>2 DEF CreateRefreshTokenSession
  <2>3. [family |-> Family(c), id |-> pairs, active |-> TRUE]
           \in [family : Families, id : Nat, active : BOOLEAN]
    BY <1>1, <2>1
  <2>4. refresh' \subseteq [family : Families, id : Nat, active : BOOLEAN]
    BY <1>1, <2>2, <2>3
  <2> QED BY <1>1, <2>2, <2>4
<1>3. CASE RotateRefreshToken(c) \/ RevokeRefreshToken(c)
  BY <1>1, <1>3, Deactivation DEF RotateRefreshToken, RevokeRefreshToken
<1>4. CASE \/ Replay(c) \/ RevokeAccessToken(c) \/ Fail(c)
           \/ \E f \in Families : RevokeHandler(c, f)
  BY <1>1, <1>4 DEF Replay, RevokeAccessToken, Fail, RevokeHandler
<1>5. CASE \/ \E f \in Families : AuthorizeHandler(c, f) \/ GetAuthorizeCodeSession(c, f)
           \/ \E t \in refresh : GetRefreshTokenSession(c, t)
           \/ CreatePKCERequestSession(c) \/ CreateOpenIDConnectSession(c)
           \/ GetPKCERequestSession(c) \/ DeletePKCERequestSession(c)
           \/ DeleteOpenIDConnectSession(c) \/ InvalidateAuthorizeCodeSession(c)
           \/ RotateAccessTokens(c) \/ CreateAccessTokenSession(c)
  BY <1>1, <1>5 DEF AuthorizeHandler, GetAuthorizeCodeSession, GetRefreshTokenSession,
        CreatePKCERequestSession, CreateOpenIDConnectSession, GetPKCERequestSession,
        DeletePKCERequestSession, DeleteOpenIDConnectSession, RotateAccessTokens,
        InvalidateAuthorizeCodeSession, CreateAccessTokenSession
<1> QED BY <1>2, <1>3, <1>4, <1>5 DEF GrantCall, RevokeCall

(* A revocation that begins alone leaves the family quiet, and one that    *)
(* ends alone leaves it without tokens.                                    *)
LEMMA LoneSteps ==
    ASSUME StoreInv, NEW c \in Requests, GrantCall(c) \/ RevokeCall(c) \/ Fail(c),
           NEW d \in Requests, NEW f \in Families,
           call'[d].pc = "revoke_access", call'[d].alone, call'[d].family = f
    PROVE  Quiet(f)'
<1>1. call \in [Requests -> CallStates] /\ call[c] \in CallStates /\ DOMAIN codes = Families
  BY DEF StoreInv
<1>2. PICK k \in CallStates : call' = [call EXCEPT ![c] = k]
  BY CallSteps
<1>3. CASE call'[d] = call[d]
  <2>1. Quiet(f)
    BY <1>3 DEF StoreInv
  <2> QED BY <2>1, FamilySteps DEF Follows
<1>4. CASE call'[d] # call[d]
  <2>1. d = c /\ k.pc = "revoke_access" /\ call'[c] = k
    BY <1>1, <1>2, <1>4
  <2>2. RevokeRefreshToken(c)
    <3>1. \A from, to : Step(c, from, to) => to = "revoke_access"
      BY <1>1, <2>1 DEF Step, CallStates, Resting
    <3>2. ~Done(c)
      BY <1>1, <2>1 DEF Done, Resting
    <3>3. ~GrantCall(c)
      <4>1. \A g \in Families : ~AuthorizeHandler(c, g) /\ ~GetAuthorizeCodeSession(c, g)
        BY <1>1, <2>1 DEF AuthorizeHandler, GetAuthorizeCodeSession
      <4>2. \A t \in refresh : ~GetRefreshTokenSession(c, t)
        BY <1>1, <2>1 DEF GetRefreshTokenSession
      <4>3. /\ ~CreatePKCERequestSession(c) /\ ~CreateOpenIDConnectSession(c)
            /\ ~GetPKCERequestSession(c) /\ ~DeletePKCERequestSession(c)
            /\ ~DeleteOpenIDConnectSession(c) /\ ~InvalidateAuthorizeCodeSession(c)
        BY <3>1, <3>2 DEF CreatePKCERequestSession, CreateOpenIDConnectSession,
              GetPKCERequestSession, DeletePKCERequestSession, DeleteOpenIDConnectSession,
              InvalidateAuthorizeCodeSession
      <4>4. /\ ~RotateRefreshToken(c) /\ ~RotateAccessTokens(c)
            /\ ~CreateAccessTokenSession(c) /\ ~CreateRefreshTokenSession(c)
        BY <3>1, <3>2 DEF RotateRefreshToken, RotateAccessTokens,
                          CreateAccessTokenSession,
              CreateRefreshTokenSession
      <4> QED BY <4>1, <4>2, <4>3, <4>4 DEF GrantCall
    <3>4. ~Fail(c) /\ ~RevokeAccessToken(c)
      BY <3>2 DEF Fail, RevokeAccessToken
    <3>5. ~Replay(c) /\ \A g \in Families : ~RevokeHandler(c, g)
      BY <1>1, <2>1 DEF Replay, RevokeHandler
    <3> QED BY <3>3, <3>4, <3>5 DEF RevokeCall
  <2>3. /\ call[c].pc = "revoke" /\ call[c] # Resting /\ call[c].family = f
        /\ Using(f) = {c} /\ codes' = codes /\ refresh' = Deactivated(f)
    <3> DEFINE alone == Using(Family(c)) = {c}
    <3>1. /\ call[c].pc = "revoke" /\ codes' = codes /\ refresh' = Deactivated(Family(c))
          /\ call' = [call EXCEPT ![c] = [pc |-> "revoke_access", family |-> Family(c),
                                           alone |-> alone]]
      BY <2>2 DEF RevokeRefreshToken
    <3> HIDE DEF alone
    <3>2. k.family = Family(c) /\ k.alone = alone
      BY <1>1, <2>1, <3>1
    <3>3. alone /\ Family(c) = f
      BY <2>1, <3>2
    <3>4. call[c].pc = "revoke" /\ call[c] # Resting /\ call[c].family = f
      BY <3>1, <3>3 DEF Family, Resting
    <3> QED BY <3>1, <3>3, <3>4 DEF alone
  <2>4. codes[f] = "used"
    BY <2>3 DEF StoreInv, Spent, Spending, Revoking, Using
  <2>5. \A t \in refresh' : t.family = f => ~t.active
    BY <2>3, Deactivation
  <2>6. \A e \in Using(f)' : call'[e].pc \in Revoking
    BY <1>1, <1>2, <2>1, <2>3 DEF Using, Family, Revoking
  <2> HIDE DEF Using
  <2>7. codes'[f] = "used"
    BY <2>3, <2>4
  <2> QED BY <2>5, <2>6, <2>7 DEF Quiet
<1> QED BY <1>3, <1>4

LEMMA EndSteps ==
    ASSUME StoreInv, NEW c \in Requests, RevokeAccessToken(c),
           NEW f \in ended' \ ended
    PROVE  Quiet(f)' /\ Barren(f)' /\ f \in Families
<1>1. /\ f = Family(c) /\ call[c].pc = "revoke_access" /\ call[c].alone
      /\ access' = Without(f)
  BY DEF RevokeAccessToken
<1>2. Quiet(f) /\ f \in Families
  BY <1>1 DEF StoreInv, CallStates, Resting, Family
<1>3. Quiet(f)'
  BY <1>2, FamilySteps DEF Follows, RevokeCall
<1> QED BY <1>1, <1>2, <1>3 DEF Barren, Without

LEMMA StoreInvariant == OAuthSpec => []StoreInv
<1>1. OAuthInit => StoreInv
  BY DEF OAuthInit, StoreInv, CallStates, Resting, Spent, SentOnce, Using
<1>2. ASSUME StoreInv, NEW c \in Requests, GrantCall(c) \/ RevokeCall(c) \/ Fail(c)
      PROVE  StoreInv'
  <2>1. call' \in [Requests -> CallStates]
    BY <1>2, CallSteps DEF StoreInv
  <2>2. \A f \in Families : Spent(f)' /\ SentOnce(f)'
    BY <1>2, FamilySteps DEF Follows
  <2>3. \A f \in Families, d \in Requests :
           call'[d].pc = "revoke_access" /\ call'[d].alone /\ call'[d].family = f => Quiet(f)'
    BY <1>2, LoneSteps
  <2>4. ASSUME NEW f \in ended PROVE Quiet(f)' /\ Barren(f)' /\ f \in Families
    BY <1>2, FamilySteps DEF Follows, StoreInv
  <2>5. \A f \in ended' : Quiet(f)' /\ Barren(f)' /\ f \in Families
    BY <1>2, <2>4, EndSteps, RowSteps
  <2> QED BY <1>2, <2>1, <2>2, <2>3, <2>5, RowSteps DEF StoreInv
<1>3. StoreInv /\ UNCHANGED oauthVars => StoreInv'
  BY DEF StoreInv, oauthVars, oauthRows, Spent, SentOnce, Quiet, Barren, Using, Family
<1>4. StoreInv /\ [OAuthNext]_oauthVars => StoreInv'
  BY <1>2, <1>3 DEF OAuthNext
<1> QED BY <1>1, <1>4, PTL DEF OAuthSpec

(* Once a revocation has run with nobody else on its family, no token of   *)
(* the family is live again, whatever fails or is replayed later.          *)
THEOREM LoneRevocationsAreFinal == OAuthSpec => []LoneRevocationIsFinal
<1>1. StoreInv => LoneRevocationIsFinal
  BY DEF StoreInv, LoneRevocationIsFinal, Quiet, Barren
<1> QED BY <1>1, StoreInvariant, PTL

(* The pair a request is about to complete has been numbered.              *)
PairsInv ==
    /\ OAuthTypeOK /\ pairs \in 0..MaxPairs
    /\ \A c \in Requests : call[c].pc = "refresh" => pairs # 0

LEMMA PairsStep ==
    ASSUME StoreInv, PairsInv, [OAuthNext]_oauthVars
    PROVE  PairsInv'
<1> DEFINE Access == [family : Families, id : 1..MaxPairs]
           Refresh == [family : Families, id : 1..MaxPairs, active : BOOLEAN]
           Codes4 == {"none", "unsent", "sent", "used"}
           Counted == \A d \in Requests : call'[d].pc = "refresh" => pairs' # 0
<1>1. /\ codes \in [Families -> Codes4] /\ access \subseteq Access /\ refresh \subseteq Refresh
      /\ ended \subseteq Families /\ pairs \in 0..MaxPairs
      /\ \A d \in Requests : call[d].pc = "refresh" => pairs # 0
  BY DEF PairsInv, OAuthTypeOK
<1>2. CASE UNCHANGED oauthVars
  BY <1>2 DEF PairsInv, OAuthTypeOK, oauthVars, oauthRows
<1>3. ASSUME NEW c \in Requests, GrantCall(c) \/ RevokeCall(c) \/ Fail(c)
      PROVE  PairsInv'
  <2>1. call[c] \in CallStates /\ call \in [Requests -> CallStates]
    BY DEF StoreInv
  <2>2. call[c].pc # "rest" => Family(c) \in Families
    BY <2>1 DEF CallStates, Resting, Family
  <2>3. PICK k \in CallStates : call' = [call EXCEPT ![c] = k]
    BY <1>3, CallSteps
  <2>4. call'[c] = k /\ \A d \in Requests : d # c => call'[d] = call[d]
    BY <2>1, <2>3
  <2>5. \A g : Deactivated(g) \subseteq Refresh
    <3> SUFFICES ASSUME NEW g, NEW t \in Deactivated(g) PROVE t \in Refresh
      OBVIOUS
    <3>1. PICK s \in refresh : t = IF s.family = g THEN [s EXCEPT !.active = FALSE] ELSE s
      BY DEF Deactivated
    <3>2. s \in Refresh
      BY <1>1
    <3> QED BY <3>1, <3>2
  <2>6. ended' \subseteq Families
    BY <1>1, <1>3, <2>2 DEF GrantCall, RevokeCall, Fail, AuthorizeHandler,
       CreatePKCERequestSession, CreateOpenIDConnectSession, GetAuthorizeCodeSession,
       GetPKCERequestSession, DeletePKCERequestSession, InvalidateAuthorizeCodeSession,
       CreateAccessTokenSession, CreateRefreshTokenSession, DeleteOpenIDConnectSession,
       GetRefreshTokenSession, RotateRefreshToken, RotateAccessTokens, RevokeHandler,
       Replay, RevokeRefreshToken, RevokeAccessToken
  <2>7. CASE CreateAccessTokenSession(c)
    <3>1. pairs' = pairs + 1 /\ pairs < MaxPairs
      BY <2>7 DEF CreateAccessTokenSession
    <3>2. pairs' \in 1..MaxPairs /\ pairs' \in 0..MaxPairs /\ pairs' # 0
      BY <1>1, <3>1, OAuthAssumption
    <3>3. access' \subseteq Access
      BY <1>1, <2>2, <2>7, <3>2 DEF CreateAccessTokenSession, Step
    <3>4. UNCHANGED <<codes, refresh, ended>>
      BY <2>7 DEF CreateAccessTokenSession
    <3> QED BY <1>1, <3>2, <3>3, <3>4 DEF PairsInv, OAuthTypeOK
  <2>8. CASE ~CreateAccessTokenSession(c)
    <3>1. pairs' = pairs
      BY <1>3, <2>8 DEF GrantCall, RevokeCall, Fail, AuthorizeHandler, oauthRows,
         CreatePKCERequestSession, CreateOpenIDConnectSession, GetAuthorizeCodeSession,
         GetPKCERequestSession, DeletePKCERequestSession, InvalidateAuthorizeCodeSession,
         CreateRefreshTokenSession, DeleteOpenIDConnectSession,
         GetRefreshTokenSession, RotateRefreshToken, RotateAccessTokens, RevokeHandler,
         Replay, RevokeRefreshToken, RevokeAccessToken
    <3>2. call'[c].pc # "refresh"
      <4>1. ASSUME NEW from, NEW to, Step(c, from, to), to # "refresh"
            PROVE  call'[c].pc # "refresh"
        BY <2>1, <4>1 DEF Step, CallStates, Resting
      <4>2. Resting.pc # "refresh"
        BY DEF Resting
      <4>3. Done(c) => call'[c].pc # "refresh"
        BY <2>1, <4>2 DEF Done
      <4>4. GrantCall(c) => call'[c].pc # "refresh"
        BY <2>1, <2>8, <4>1, <4>3 DEF GrantCall, AuthorizeHandler,
           CreatePKCERequestSession, CreateOpenIDConnectSession, GetAuthorizeCodeSession,
           GetPKCERequestSession, DeletePKCERequestSession, InvalidateAuthorizeCodeSession,
           CreateRefreshTokenSession, DeleteOpenIDConnectSession,
           GetRefreshTokenSession, RotateRefreshToken, RotateAccessTokens
      <4>5. RevokeCall(c) => call'[c].pc # "refresh"
        BY <2>1, <4>3 DEF RevokeCall, RevokeHandler, Replay, RevokeRefreshToken,
           RevokeAccessToken
      <4> QED BY <1>3, <4>3, <4>4, <4>5 DEF Fail
    <3>3. Counted
      BY <1>1, <2>4, <3>1, <3>2
    <3>4. codes' \in [Families -> Codes4]
      BY <1>1, <1>3, <2>2 DEF GrantCall, RevokeCall, Fail, AuthorizeHandler, oauthRows, Step,
         CreatePKCERequestSession, CreateOpenIDConnectSession, GetAuthorizeCodeSession,
         GetPKCERequestSession, DeletePKCERequestSession, InvalidateAuthorizeCodeSession,
         CreateAccessTokenSession, CreateRefreshTokenSession, DeleteOpenIDConnectSession,
         GetRefreshTokenSession, RotateRefreshToken, RotateAccessTokens, RevokeHandler,
         Replay, RevokeRefreshToken, RevokeAccessToken
    <3>5. access' \subseteq Access
      <4>1. \A g : Without(g) \subseteq Access
        BY <1>1 DEF Without
      <4> HIDE DEF Access
      <4> QED BY <1>1, <1>3, <2>8, <4>1 DEF GrantCall, RevokeCall, Fail, AuthorizeHandler,
             oauthRows, CreatePKCERequestSession, CreateOpenIDConnectSession,
             GetAuthorizeCodeSession, GetPKCERequestSession, DeletePKCERequestSession,
             InvalidateAuthorizeCodeSession, CreateRefreshTokenSession,
             DeleteOpenIDConnectSession, GetRefreshTokenSession, RotateRefreshToken,
             RotateAccessTokens, RevokeHandler, Replay, RevokeRefreshToken, RevokeAccessToken
    <3>6. refresh' \subseteq Refresh
      <4>1. CASE CreateRefreshTokenSession(c)
        <5>1. call[c].pc = "refresh" /\ pairs \in 1..MaxPairs
          BY <1>1, <4>1 DEF CreateRefreshTokenSession
        <5>2. [family |-> Family(c), id |-> pairs, active |-> TRUE] \in Refresh
          BY <2>2, <5>1
        <5> QED BY <1>1, <4>1, <5>2 DEF CreateRefreshTokenSession
      <4>2. CASE ~CreateRefreshTokenSession(c)
        <5> HIDE DEF Refresh
        <5> QED BY <1>1, <1>3, <2>5, <2>8, <4>2 DEF GrantCall, RevokeCall, Fail,
               AuthorizeHandler, oauthRows, CreatePKCERequestSession,
               CreateOpenIDConnectSession, GetAuthorizeCodeSession, GetPKCERequestSession,
               DeletePKCERequestSession, InvalidateAuthorizeCodeSession,
               DeleteOpenIDConnectSession, GetRefreshTokenSession, RotateRefreshToken,
               RotateAccessTokens, RevokeHandler, Replay, RevokeRefreshToken, RevokeAccessToken
      <4> QED BY <4>1, <4>2
    <3> QED BY <1>1, <2>6, <3>1, <3>3, <3>4, <3>5, <3>6 DEF PairsInv, OAuthTypeOK
  <2> QED BY <2>7, <2>8
<1> QED BY <1>2, <1>3 DEF OAuthNext

(* OAuthTypeOK: every row of the storage belongs to an authorization, and  *)
(* carries the number of a pair that was issued, whichever statements of   *)
(* whichever requests fail in between.                                     *)
THEOREM OAuthTypeCorrect == OAuthSpec => []OAuthTypeOK
<1>1. OAuthInit => PairsInv
  BY OAuthAssumption DEF OAuthInit, PairsInv, OAuthTypeOK, Resting
<1>2. StoreInv /\ PairsInv /\ [OAuthNext]_oauthVars => PairsInv'
  BY PairsStep
<1>3. PairsInv => OAuthTypeOK
  BY DEF PairsInv
<1> QED BY <1>1, <1>2, <1>3, StoreInvariant, PTL DEF OAuthSpec

-----------------------------------------------------------------------------
(* The upstreams of the gateway.  A call keeps the upstream it was looked  *)
(* up with, so that what a reload does to the routes is nothing to it.     *)

(* A call keeps the upstream it was looked up with: what the token names,  *)
(* what was minted and where it went are of one upstream that was live.    *)
OfOneUpstream(r) ==
    \/ r = Waiting
    \/ \E u \in served :
         \/ r = [pc |-> "verify", up |-> u]
         \/ r = [pc |-> "mint", up |-> u, audience |-> u.audience]
         \/ r = [pc |-> "forward", up |-> u, audience |-> u.audience, resource |-> u.resource]
         \/ r = [pc |-> "sent", audience |-> u.audience, resource |-> u.resource, url |-> u.url]

RegistryInv ==
    /\ RegistryTypeOK
    /\ listed = {Waiting} \/ Isolated(listed)
    /\ Isolated(routes)
    /\ through = [c \in Clients |-> through[c]]
    /\ \A c \in Clients : OfOneUpstream(through[c])

(* The configuration file wins: what is merged with it collides with       *)
(* neither it nor another row.                                             *)
LEMMA MergedIsolated ==
    ASSUME NEW ups, Isolated(ups)
    PROVE  Isolated(merged(ups)) /\ Static \subseteq merged(ups)
<1>1. Isolated(Static)
  BY StaticAssumption
<1>2. Isolated(merged(ups))
  BY <1>1 DEF Isolated, merged, Slugs, Audiences
<1> QED BY <1>2 DEF merged

(* How far a call is tells what it holds.                                  *)
LEMMA StageOf ==
    ASSUME NEW r, OfOneUpstream(r)
    PROVE  /\ r.pc = "verify" => \E u \in served : r = [pc |-> "verify", up |-> u]
           /\ r.pc = "mint" => \E u \in served :
                r = [pc |-> "mint", up |-> u, audience |-> u.audience]
           /\ r.pc = "forward" => \E u \in served :
                r = [pc |-> "forward", up |-> u, audience |-> u.audience, resource |-> u.resource]
           /\ r.pc = "sent" => \E u \in served :
                r = [pc |-> "sent", audience |-> u.audience, resource |-> u.resource, url |-> u.url]
<1>1. CASE r = Waiting
  BY <1>1 DEF Waiting
<1>2. CASE r # Waiting
  <2>1. PICK u \in served :
         \/ r = [pc |-> "verify", up |-> u]
         \/ r = [pc |-> "mint", up |-> u, audience |-> u.audience]
         \/ r = [pc |-> "forward", up |-> u, audience |-> u.audience, resource |-> u.resource]
         \/ r = [pc |-> "sent", audience |-> u.audience, resource |-> u.resource, url |-> u.url]
    BY <1>2, Zenon DEF OfOneUpstream
  <2>2. CASE r = [pc |-> "verify", up |-> u]
    <3>1. r.pc = "verify"
      BY <2>2
    <3> QED BY <2>2, <3>1
  <2>3. CASE r = [pc |-> "mint", up |-> u, audience |-> u.audience]
    <3>1. r.pc = "mint"
      BY <2>3
    <3> QED BY <2>3, <3>1
  <2>4. CASE r = [pc |-> "forward", up |-> u, audience |-> u.audience, resource |-> u.resource]
    <3>1. r.pc = "forward"
      BY <2>4
    <3> QED BY <2>4, <3>1
  <2>5. CASE r = [pc |-> "sent", audience |-> u.audience, resource |-> u.resource, url |-> u.url]
    <3>1. r.pc = "sent"
      BY <2>5
    <3> QED BY <2>5, <3>1
  <2> QED BY <2>1, <2>2, <2>3, <2>4, <2>5
<1> QED BY <1>1, <1>2

LEMMA RegistryStep ==
    ASSUME RegistryInv, [RegistryNext]_gatewayVars
    PROVE  RegistryInv'
<1> DEFINE TableOK == RegistryTypeOK /\ (listed = {Waiting} \/ Isolated(listed)) /\ Isolated(routes)
           CallsOK == /\ through = [c \in Clients |-> through[c]]
                      /\ \A c \in Clients : OfOneUpstream(through[c])
<1>1. TableOK /\ CallsOK
  BY DEF RegistryInv
<1>2. ASSUME through' = through, served \subseteq served'
      PROVE  CallsOK'
  BY <1>1, <1>2 DEF OfOneUpstream
<1>3. ASSUME UNCHANGED <<store, listed, routes, served>>
      PROVE  TableOK'
  BY <1>1, <1>3 DEF RegistryTypeOK, Isolated
<1>4. ASSUME NEW u \in Rows, Upsert(u)
      PROVE  RegistryInv'
  <2>1. Isolated(store') /\ store' \subseteq Rows
    BY <1>1, <1>4 DEF Upsert, RegistryTypeOK, Isolated, Audiences
  <2> QED BY <1>1, <1>2, <1>4, <2>1 DEF Upsert, RegistryTypeOK, RegistryInv
<1>5. ASSUME NEW u \in Rows, Delete(u)
      PROVE  RegistryInv'
  <2>1. Isolated(store') /\ store' \subseteq Rows
    BY <1>1, <1>5 DEF Delete, RegistryTypeOK, Isolated
  <2> QED BY <1>1, <1>2, <1>5, <2>1 DEF Delete, RegistryTypeOK, RegistryInv
<1>6. CASE RefreshList
  BY <1>1, <1>2, <1>6 DEF RefreshList, RegistryTypeOK, RegistryInv
<1>7. CASE RefreshSwap
  <2>1. Isolated(listed)
    BY <1>1, <1>7 DEF RefreshSwap
  <2>2. Isolated(routes') /\ Static \subseteq routes' /\ routes' \subseteq served'
    BY <1>7, <2>1, MergedIsolated DEF RefreshSwap
  <2>3. CallsOK'
    BY <1>2, <1>7 DEF RefreshSwap
  <2> QED BY <1>1, <1>7, <2>2, <2>3 DEF RefreshSwap, RegistryTypeOK, RegistryInv
<1>8. ASSUME NEW c \in Clients,
             \/ \E u \in routes : Arrive(c, u)
             \/ \E a \in Audiences(served) : Verify(c, a)
             \/ MintDownstream(c) \/ Forward(c) \/ Finish(c)
      PROVE  RegistryInv'
  <2>1. UNCHANGED <<store, listed, routes, served>>
    BY <1>8 DEF Arrive, Verify, MintDownstream, Forward, Finish
  <2>2. OfOneUpstream(through[c])
    BY <1>1
  <2>3. \E r : OfOneUpstream(r) /\ through' = [through EXCEPT ![c] = r]
    <3>1. CASE \E u \in routes : Arrive(c, u)
      BY <1>1, <3>1 DEF Arrive, OfOneUpstream, RegistryTypeOK
    <3>2. CASE \E a \in Audiences(served) : Verify(c, a)
      <4>1. PICK a : Verify(c, a)
        BY <3>2
      <4>2. PICK u \in served : through[c] = [pc |-> "verify", up |-> u]
        BY <2>2, <4>1, StageOf DEF Verify
      <4>3. CASE a = u.audience
        <5>1. through' = [through EXCEPT ![c] = [pc |-> "mint", up |-> u, audience |-> u.audience]]
          BY <4>1, <4>2, <4>3 DEF Verify, upstream
        <5> QED BY <5>1 DEF OfOneUpstream
      <4>4. CASE a # u.audience
        <5>1. through' = [through EXCEPT ![c] = Waiting]
          BY <4>1, <4>2, <4>4 DEF Verify, upstream
        <5> QED BY <5>1 DEF OfOneUpstream
      <4> QED BY <4>3, <4>4
    <3>3. CASE MintDownstream(c)
      <4>1. PICK u \in served : through[c] = [pc |-> "mint", up |-> u, audience |-> u.audience]
        BY <2>2, <3>3, StageOf DEF MintDownstream
      <4>2. through' = [through EXCEPT ![c] = [pc |-> "forward", up |-> u,
                          audience |-> u.audience, resource |-> u.resource]]
        BY <3>3, <4>1 DEF MintDownstream, upstream
      <4> QED BY <4>2 DEF OfOneUpstream
    <3>4. CASE Forward(c)
      <4>1. PICK u \in served : through[c] = [pc |-> "forward", up |-> u,
                                   audience |-> u.audience, resource |-> u.resource]
        BY <2>2, <3>4, StageOf DEF Forward
      <4>2. through' = [through EXCEPT ![c] = [pc |-> "sent", audience |-> u.audience,
                          resource |-> u.resource, url |-> u.url]]
        BY <3>4, <4>1 DEF Forward, upstream
      <4> QED BY <4>2 DEF OfOneUpstream
    <3>5. CASE Finish(c)
      BY <3>5 DEF Finish, OfOneUpstream
    <3> QED BY <1>8, <3>1, <3>2, <3>3, <3>4, <3>5
  <2>4. CallsOK'
    <3>1. PICK r : OfOneUpstream(r) /\ through' = [through EXCEPT ![c] = r]
      BY <2>3
    <3>2. \A d \in Clients : through'[d] = IF d = c THEN r ELSE through[d]
      BY <1>1, <3>1
    <3>3. through' = [d \in Clients |-> through'[d]]
      BY <1>1, <3>1
    <3> QED BY <1>1, <2>1, <3>1, <3>2, <3>3 DEF OfOneUpstream
  <2> QED BY <1>3, <2>1, <2>4 DEF RegistryInv
<1>9. CASE UNCHANGED gatewayVars
  BY <1>2, <1>3, <1>9 DEF gatewayVars, RegistryInv
<1> QED BY <1>4, <1>5, <1>6, <1>7, <1>8, <1>9 DEF RegistryNext

LEMMA RegistryStart == RegistryInit => RegistryInv
<1> SUFFICES ASSUME RegistryInit PROVE RegistryInv
  OBVIOUS
<1>1. Isolated({}) /\ Isolated(Static)
  BY StaticAssumption DEF Isolated
<1> QED BY <1>1 DEF RegistryInit, RegistryInv, RegistryTypeOK, OfOneUpstream

(* No two live upstreams share an audience or a slug, whatever is saved,   *)
(* and a call that went out was authorized for, minted for and sent to one *)
(* and the same upstream, for any number of ups and calls (handle,        *)
(* RefreshUpstreams).                                                      *)
THEOREM RegistryIsolatesCalls == RegistrySpec => [](RegistryTypeOK /\ CallsStayIsolated)
<1>1. RegistryInv => RegistryTypeOK /\ CallsStayIsolated
  <2> SUFFICES ASSUME RegistryInv PROVE CallsStayIsolated
    BY DEF RegistryInv
  <2> SUFFICES ASSUME NEW c \in Clients, through[c].pc = "sent"
               PROVE  \E u \in served : /\ u.audience = through[c].audience
                                        /\ u.resource = through[c].resource
                                        /\ u.url = through[c].url
    BY DEF RegistryInv, CallsStayIsolated
  <2>1. OfOneUpstream(through[c])
    BY DEF RegistryInv
  <2>2. PICK u \in served : through[c] =
           [pc |-> "sent", audience |-> u.audience, resource |-> u.resource, url |-> u.url]
    BY <2>1, StageOf
  <2> QED BY <2>2
<1> QED BY <1>1, RegistryStart, RegistryStep, PTL DEF RegistrySpec
-----------------------------------------------------------------------------
(* Rows that are edited.  An update on its way holds, of every column not  *)
(* asked for since it read, a value that is right or was lost before it.   *)

Row(kind) == [Columns(kind) \cup {"status"} -> Nat]

(* A value that was not asked for stands only where an update overlapped.  *)
Overlapped(kind, c, value, wanted, by) ==
    value # wanted => \E e \in by : /\ e.kind = kind /\ c \notin e.fields
                                    /\ e.readAt < wanted /\ wanted < e.wroteAt

(* An update on its way holds, of every column not asked for since it      *)
(* read, a value that is right or was lost before.                         *)
Holding(e) ==
    /\ e.kind \in Kinds /\ e.readAt \in Nat /\ e.readAt <= now
    /\ e.fields \subseteq Columns(e.kind) /\ e.copy \in Row(e.kind)
    /\ rows[e.kind] \in Row(e.kind)
    /\ \A c \in Columns(e.kind) : asked[e.kind][c] <= e.readAt =>
          Overlapped(e.kind, c, e.copy[c], asked[e.kind][c], updates)

RowOK(kind) ==
    \/ rows[kind] = << >>
    \/ /\ rows[kind] \in Row(kind) /\ asked[kind] \in Row(kind)
       /\ rows[kind]["status"] = asked[kind]["status"]
       /\ \A c \in Columns(kind) \cup {"status"} :
             /\ asked[kind][c] <= now
             /\ Overlapped(kind, c, rows[kind][c], asked[kind][c], updates)

EditsInv ==
    /\ now \in Nat
    /\ rows = [k \in Kinds |-> rows[k]] /\ asked = [k \in Kinds |-> asked[k]]
    /\ \A k \in Kinds : RowOK(k)
    /\ \A e \in pending : Holding(e)

LEMMA StatusIsNoColumn == \A kind \in Kinds : "status" \notin Columns(kind)
  BY RowEditsAssumption DEF Columns, UserColumns, AgentColumns, OrgColumns, SSOColumns

LEMMA NoRow == \A kind \in Kinds : << >> \notin Row(kind)
<1> SUFFICES ASSUME NEW kind \in Kinds, << >> \in Row(kind) PROVE FALSE
  OBVIOUS
<1>1. DOMAIN << >> = Columns(kind) \cup {"status"}
  BY DEF Row
<1>2. DOMAIN << >> = {}
  OBVIOUS
<1> QED BY <1>1, <1>2

(* One statement replaces one row: what it asks for it writes, and what it *)
(* loses of the rest is explained by an update.                            *)
LEMMA Replaced ==
    ASSUME EditsInv, NEW kind \in Kinds, NEW columns, NEW new \in Row(kind), NEW want \in Row(kind),
           now' = now + 1, updates \subseteq updates', pending' \subseteq pending,
           rows' = [rows EXCEPT ![kind] = new], asked' = [asked EXCEPT ![kind] = want],
           new["status"] = want["status"],
           \A c \in Columns(kind) \cup {"status"} :
              IF c \in columns THEN want[c] = now' /\ new[c] = now'
              ELSE /\ rows[kind] \in Row(kind) /\ want[c] = asked[kind][c]
                   /\ Overlapped(kind, c, new[c], want[c], updates')
    PROVE  EditsInv'
<1> DEFINE all(k) == Columns(k) \cup {"status"}
<1>1. now \in Nat /\ now' \in Nat
  BY DEF EditsInv
<1>2. ASSUME NEW k, NEW c, NEW value, NEW wanted, Overlapped(k, c, value, wanted, updates)
      PROVE  Overlapped(k, c, value, wanted, updates')
  BY <1>2 DEF Overlapped
<1>3. /\ \A k \in Kinds : k # kind => rows'[k] = rows[k] /\ asked'[k] = asked[k]
      /\ rows'[kind] = new /\ asked'[kind] = want
      /\ rows' = [k \in Kinds |-> rows'[k]] /\ asked' = [k \in Kinds |-> asked'[k]]
  BY DEF EditsInv
<1>4. rows[kind] \in Row(kind) => \A c \in all(kind) : asked[kind][c] <= now /\ asked[kind][c] \in Nat
  BY NoRow DEF EditsInv, RowOK, Row
<1>5. ASSUME NEW k \in Kinds PROVE RowOK(k)'
  <2>1. CASE k = kind
    <3>1. ASSUME NEW c \in all(kind)
          PROVE  want[c] <= now' /\ Overlapped(kind, c, new[c], want[c], updates')
      BY <1>1, <1>4, <3>1 DEF Overlapped, Row
    <3> QED BY <1>3, <2>1, <3>1 DEF RowOK, Row
  <2>2. CASE k # kind
    <3>1. RowOK(k)
      BY DEF EditsInv
    <3>2. CASE rows[k] = << >>
      BY <1>3, <2>2, <3>2 DEF RowOK
    <3>3. CASE rows[k] # << >>
      <4>1. \A c \in all(k) : asked[k][c] <= now' /\ Overlapped(k, c, rows[k][c], asked[k][c], updates')
        BY <1>1, <1>2, <3>1, <3>3 DEF RowOK, Row
      <4> QED BY <1>3, <2>2, <3>1, <3>3, <4>1 DEF RowOK, Row
    <3> QED BY <3>2, <3>3
  <2> QED BY <2>1, <2>2
<1>6. ASSUME NEW e \in pending' PROVE Holding(e)'
  <2>1. Holding(e)
    BY DEF EditsInv
  <2>2. rows'[e.kind] \in Row(e.kind)
    BY <1>3, <2>1 DEF Holding
  <2>3. ASSUME NEW c \in Columns(e.kind), asked'[e.kind][c] <= e.readAt
        PROVE  Overlapped(e.kind, c, e.copy[c], asked'[e.kind][c], updates')
    <3>1. asked'[e.kind][c] = asked[e.kind][c]
      BY <1>1, <1>3, <2>1, <2>3 DEF Holding
    <3> QED BY <1>2, <2>1, <2>3, <3>1 DEF Holding
  <2>4. e.readAt <= now'
    BY <1>1, <2>1 DEF Holding
  <2> QED BY <2>1, <2>2, <2>3, <2>4 DEF Holding, Row
<1> QED BY <1>1, <1>3, <1>5, <1>6 DEF EditsInv

LEMMA SettingKeeps ==
    ASSUME EditsInv, NEW kind \in Kinds, HasRow(kind), NEW columns, SetColumns(kind, columns)
    PROVE  EditsInv'
<1> DEFINE change(old) == [c \in DOMAIN old |-> IF c \in columns THEN now' ELSE old[c]]
<1>1. /\ rows[kind] \in Row(kind) /\ asked[kind] \in Row(kind) /\ now' = now + 1 /\ now' \in Nat
      /\ rows[kind]["status"] = asked[kind]["status"]
  BY DEF EditsInv, RowOK, HasRow, SetColumns, Statement
<1>2. change(rows[kind]) \in Row(kind) /\ change(asked[kind]) \in Row(kind)
  BY <1>1 DEF Row
<1>3. \A c \in Columns(kind) \cup {"status"} :
         /\ change(rows[kind])[c] = IF c \in columns THEN now' ELSE rows[kind][c]
         /\ change(asked[kind])[c] = IF c \in columns THEN now' ELSE asked[kind][c]
  BY <1>1 DEF Row
<1>4. rows' = [rows EXCEPT ![kind] = change(rows[kind])] /\ asked' = [asked EXCEPT ![kind] = change(asked[kind])]
  BY DEF SetColumns
<1>5. updates' = updates /\ pending' = pending
  BY DEF SetColumns
<1>6. \A c \in Columns(kind) \cup {"status"} : Overlapped(kind, c, rows[kind][c], asked[kind][c], updates')
         \/ c \in columns
  BY <1>4, <1>5 DEF EditsInv, RowOK, HasRow, Overlapped
<1> HIDE DEF change
<1> QED BY <1>1, <1>2, <1>3, <1>4, <1>5, <1>6, Replaced

LEMMA CreatingKeeps ==
    ASSUME EditsInv, NEW kind \in Kinds, CreateRow(kind)
    PROVE  EditsInv'
<1> DEFINE new == [c \in Columns(kind) \cup {"status"} |-> now']
<1>1. now' = now + 1 /\ now' \in Nat /\ updates' = updates /\ pending' = pending
  BY DEF CreateRow, Statement, EditsInv
<1>2. new \in Row(kind) /\ \A c \in Columns(kind) \cup {"status"} : new[c] = now'
  BY <1>1 DEF Row
<1>3. rows' = [rows EXCEPT ![kind] = new]
  BY DEF CreateRow
<1>4. asked' = [asked EXCEPT ![kind] = new]
  BY <1>3 DEF CreateRow, EditsInv
<1> HIDE DEF new
<1> QED BY <1>1, <1>2, <1>3, <1>4, Replaced

LEMMA WritingKeeps ==
    ASSUME EditsInv, NEW e \in pending, WriteRow(e)
    PROVE  EditsInv'
<1> DEFINE kind == e.kind
           new == [c \in DOMAIN rows[kind] |-> IF c \in Columns(kind)
                     THEN IF c \in e.fields THEN now' ELSE Kept(e, c) ELSE rows[kind][c]]
           want == [c \in DOMAIN asked[kind] |-> IF c \in e.fields THEN now' ELSE asked[kind][c]]
           done == [kind |-> e.kind, fields |-> e.fields, readAt |-> e.readAt, wroteAt |-> now']
<1>1. Holding(e) /\ pending' \subseteq pending
  BY DEF EditsInv, WriteRow
<1>2. CASE UNCHANGED <<rows, asked, updates, now>>
  BY <1>1, <1>2 DEF EditsInv, RowOK, Holding, Overlapped
<1>3. CASE /\ HasRow(kind) /\ Statement
           /\ rows' = [rows EXCEPT ![kind] = new] /\ asked' = [asked EXCEPT ![kind] = want]
           /\ updates' = updates \cup {done}
  <2>1. /\ kind \in Kinds /\ now \in Nat /\ now' = now + 1 /\ now' \in Nat
        /\ rows[kind] \in Row(kind) /\ asked[kind] \in Row(kind)
        /\ rows[kind]["status"] = asked[kind]["status"]
        /\ \A c \in Columns(kind) : asked[kind][c] <= now
        /\ "status" \notin Columns(kind) /\ e.fields \subseteq Columns(kind)
        /\ e.copy \in Row(kind) /\ e.readAt \in Nat
    BY <1>1, <1>3, StatusIsNoColumn DEF Holding, Statement, HasRow, EditsInv, RowOK
  <2>2. \A c \in Columns(kind) \cup {"status"} :
          /\ new[c] = IF c \in Columns(kind) THEN IF c \in e.fields THEN now' ELSE e.copy[c]
                      ELSE rows[kind][c]
          /\ want[c] = IF c \in e.fields THEN now' ELSE asked[kind][c]
    BY <2>1 DEF Row, Kept
  <2>3. new \in Row(kind) /\ want \in Row(kind)
    BY <2>1 DEF Row, Kept
  <2>4. new["status"] = want["status"]
    BY <2>1, <2>2
  <2>5. ASSUME NEW c \in Columns(kind), c \notin e.fields
        PROVE  Overlapped(kind, c, e.copy[c], asked[kind][c], updates')
    <3>1. asked'[kind][c] = asked[kind][c]
      BY <1>3, <2>1, <2>2, <2>5 DEF EditsInv
    <3>2. CASE asked[kind][c] <= e.readAt
      <4>1. Overlapped(kind, c, e.copy[c], asked[kind][c], updates)
        BY <1>1, <3>2 DEF Holding
      <4> QED BY <1>3, <3>1, <4>1 DEF Overlapped
    <3>3. CASE e.readAt < asked[kind][c]
      <4>1. /\ done.kind = kind /\ c \notin done.fields /\ done.readAt < asked[kind][c]
            /\ asked[kind][c] < done.wroteAt /\ done \in updates'
        BY <1>3, <2>1, <2>5, <3>3 DEF Row
      <4> HIDE DEF done
      <4> QED BY <3>1, <4>1 DEF Overlapped
    <3> QED BY <2>1, <3>2, <3>3 DEF Row
  <2>6. updates \subseteq updates'
    BY <1>3
  <2>7. asked'[kind] = want
    BY <1>3, <2>1 DEF EditsInv
  <2>8. new["status"] = rows[kind]["status"] /\ want["status"] = asked[kind]["status"]
    BY <2>1, <2>2
  <2> HIDE DEF new, want, done
  <2>9. ASSUME NEW c \in Columns(kind) \cup {"status"}
        PROVE  IF c \in e.fields THEN want[c] = now' /\ new[c] = now'
               ELSE /\ rows[kind] \in Row(kind) /\ want[c] = asked[kind][c]
                    /\ Overlapped(kind, c, new[c], want[c], updates')
    <3>1. CASE c \in Columns(kind)
      BY <2>1, <2>2, <2>5, <2>7, <2>9, <3>1
    <3>2. CASE c = "status"
      BY <2>1, <2>2, <2>8, <3>2, <2>7 DEF Overlapped
    <3> QED BY <3>1, <3>2
  <2>10. /\ now' = now + 1 /\ pending' \subseteq pending
         /\ rows' = [rows EXCEPT ![kind] = new] /\ asked' = [asked EXCEPT ![kind] = want]
    BY <1>1, <1>3, <2>1
  <2> HIDE DEF kind
  <2> QED BY <2>1, <2>3, <2>4, <2>6, <2>9, <2>10, Replaced
<1> QED BY <1>2, <1>3 DEF WriteRow

LEMMA ReadingKeeps ==
    ASSUME EditsInv, NEW kind \in Kinds, NEW fields \in Requested(kind), ReadRow(kind, fields)
    PROVE  EditsInv'
<1> DEFINE read == [kind |-> kind, fields |-> fields, readAt |-> now', copy |-> rows[kind]]
<1>1. /\ now \in Nat /\ now' = now + 1 /\ rows' = rows /\ asked' = asked /\ updates' = updates
      /\ pending' = pending \cup {read} /\ rows[kind] \in Row(kind) /\ RowOK(kind) /\ rows[kind] # << >>
  BY DEF EditsInv, ReadRow, Statement, HasRow, RowOK
<1>2. \A k \in Kinds : RowOK(k)'
  <2> SUFFICES ASSUME NEW k \in Kinds, rows[k] # << >> PROVE RowOK(k)'
    BY <1>1 DEF RowOK
  <2>1. RowOK(k)
    BY DEF EditsInv
  <2>2. \A c \in Columns(k) \cup {"status"} : asked[k][c] <= now'
    BY <1>1, <2>1 DEF RowOK, Row
  <2> QED BY <1>1, <2>1, <2>2 DEF RowOK, Overlapped
<1>3. \A e \in pending : Holding(e)'
  BY <1>1 DEF EditsInv, Holding, Overlapped
<1>4. ASSUME NEW e, e = read PROVE Holding(e)'
  <2>1. fields \subseteq Columns(kind)
    BY DEF Requested
  <2>2. e.kind = kind /\ e.fields = fields /\ e.readAt = now' /\ e.copy = rows[kind]
    BY <1>4
  <2> QED BY <1>1, <2>1, <2>2 DEF Holding, RowOK
<1>5. \A e \in pending' : Holding(e)'
  BY <1>1, <1>3, <1>4
<1>6. rows' = [k \in Kinds |-> rows'[k]] /\ asked' = [k \in Kinds |-> asked'[k]] /\ now' \in Nat
  BY <1>1 DEF EditsInv
<1> QED BY <1>2, <1>5, <1>6 DEF EditsInv

LEMMA EditsStep ==
    ASSUME EditsInv, [RowsNext]_rowVars
    PROVE  EditsInv'
<1>1. CASE UNCHANGED rowVars
  BY <1>1 DEF rowVars, EditsInv, RowOK, Holding, Overlapped
<1>2. ASSUME NEW kind \in Kinds, CreateRow(kind) PROVE EditsInv'
  BY <1>2, CreatingKeeps
<1>3. ASSUME NEW kind \in Kinds, NEW fields \in Requested(kind), ReadRow(kind, fields)
      PROVE  EditsInv'
  BY <1>3, ReadingKeeps
<1>4. ASSUME NEW e \in pending, WriteRow(e) PROVE EditsInv'
  BY <1>4, WritingKeeps
<1>5. ASSUME NEW kind \in Kinds, NEW columns, HasRow(kind), SetColumns(kind, columns)
      PROVE  EditsInv'
  BY <1>5, SettingKeeps
<1>6. CASE "user" \in Kinds /\ UserStep
  BY <1>2, <1>3, <1>4, <1>5, <1>6
     DEF UserStep, CreateUserRow, ReplaceUser, SetRowStatus, PatchUser, GetUser, UpdateUser
<1>7. CASE "agent" \in Kinds /\ AgentStep
  BY <1>2, <1>3, <1>4, <1>5, <1>7 DEF AgentStep, CreateAgent, SetRowStatus, GetAgent,
                                      UpdateAgent
<1>8. CASE "org" \in Kinds /\ OrgStep
  BY <1>2, <1>3, <1>4, <1>5, <1>8 DEF OrgStep, CreateOrg, SetRowStatus, GetOrg,
                                      UpdateOrg
<1>9. CASE "sso" \in Kinds /\ SSOStep
  <2>1. CASE DeleteSSO
    <3>1. /\ now \in Nat /\ now' = now + 1 /\ updates' = updates
          /\ pending' = {e \in pending : e.kind # "sso"}
          /\ rows' = [rows EXCEPT !["sso"] = << >>] /\ asked' = [asked EXCEPT !["sso"] = << >>]
      BY <2>1 DEF DeleteSSO, Statement, EditsInv
    <3>2. /\ \A k \in Kinds : k # "sso" => rows'[k] = rows[k] /\ asked'[k] = asked[k]
          /\ rows'["sso"] = << >>
          /\ rows' = [k \in Kinds |-> rows'[k]] /\ asked' = [k \in Kinds |-> asked'[k]]
      BY <1>9, <3>1 DEF EditsInv
    <3>3. ASSUME NEW k \in Kinds, k # "sso", rows[k] # << >> PROVE RowOK(k)'
      <4>1. RowOK(k)
        BY DEF EditsInv
      <4>2. \A c \in Columns(k) \cup {"status"} : asked[k][c] <= now'
        BY <3>1, <3>3, <4>1 DEF RowOK, Row
      <4> QED BY <3>1, <3>2, <3>3, <4>1, <4>2 DEF RowOK, Overlapped
    <3>4. \A k \in Kinds : RowOK(k)'
      BY <3>2, <3>3 DEF RowOK
    <3>5. ASSUME NEW e \in pending' PROVE Holding(e)'
      <4>1. Holding(e) /\ e.kind # "sso"
        BY <3>1 DEF EditsInv
      <4>2. rows'[e.kind] = rows[e.kind] /\ asked'[e.kind] = asked[e.kind]
        BY <3>2, <4>1 DEF Holding
      <4> QED BY <3>1, <4>1, <4>2 DEF Holding
    <3> QED BY <3>1, <3>2, <3>4, <3>5 DEF EditsInv
  <2> QED BY <1>2, <1>3, <1>4, <1>9, <2>1 DEF SSOStep, CreateSSO, GetSSO, UpdateSSO
<1> QED BY <1>1, <1>6, <1>7, <1>8, <1>9 DEF RowsNext

(* An edit is lost only to an update that overlapped with it, and a        *)
(* suspension to none, for any number of updates in progress at once       *)
(* (user.Update, agent.Update, org.Update, UpdateSSOConnection).           *)
THEOREM EditsAreLostToOverlapOnly == RowsSpec => []OnlyOverlapLosesEdits
<1>1. RowsInit => EditsInv
  BY DEF RowsInit, EditsInv, RowOK
<1>2. EditsInv => OnlyOverlapLosesEdits
  <2> SUFFICES ASSUME EditsInv, NEW k \in Present, NEW c \in DOMAIN rows[k],
                      rows[k][c] # asked[k][c]
               PROVE  /\ c # "status"
                      /\ \E e \in updates : /\ e.kind = k /\ c \notin e.fields
                                            /\ e.readAt < asked[k][c] /\ asked[k][c] < e.wroteAt
    BY DEF OnlyOverlapLosesEdits
  <2>1. RowOK(k) /\ rows[k] # << >>
    BY DEF EditsInv, Present, HasRow
  <2>2. c \in Columns(k) \cup {"status"}
    BY <2>1 DEF RowOK, Row
  <2> QED BY <2>1, <2>2 DEF RowOK, Overlapped
<1> QED BY <1>1, <1>2, EditsStep, PTL DEF RowsSpec
-----------------------------------------------------------------------------
(* Accounts and organisations.  What a request has read of its caller, the *)
(* caller has been (Earned); a link or an invitation nobody shared and     *)
(* whose mark did not fail is held by one request at a time, and has let   *)
(* none through that could let another through (LinkOK, InviteOK).         *)

LinkStages == {"password_reset", "magic_link", "mark"}
InviteStages == {"join", "accept"}
Calling == {"user", "roles", "agent", "org", "principal", "issue", "consent", "grant", "done"}

(* What a request holds at each stage; its link and its invitation exist.  *)
Shaped(r, L, I) ==
    /\ r.pc \in {"password", "credential", "session", "end_sessions"} => r.user \in People
    /\ r.pc \in {"password", "credential"} => r.typed \in Passwords
    /\ r.pc \in LinkStages => "link" \in DOMAIN r /\ r.link \in L
    /\ r.pc \in InviteStages => "invite" \in DOMAIN r /\ r.invite \in I
    /\ r.pc = "join" => r.joins \in People
    /\ r.pc = "issue" => r.bot \in Bots
    /\ r.pc \in Calling => "who" \in DOMAIN r
    /\ r.pc \in {"user", "roles", "consent", "grant"} => r.who \in People
    /\ r.pc \in {"consent", "grant"} => r.org \in Companies
    /\ r.pc \in {"agent", "org"} => r.who \in Bots
    /\ r.pc = "principal" => r.who \in People \cup Bots

(* What a request has read of its caller, the caller has been.             *)
Earned(r, p) ==
    /\ r.pc \in {"roles", "org", "principal"} => <<"active">> \in p
    /\ r.pc \in {"agent", "org"} => <<"token">> \in p
    /\ r.pc = "principal" /\ r.who \in Bots => <<"token">> \in p
    /\ r.pc \in {"roles", "principal"} /\ r.super => <<"super">> \in p
    /\ r.pc = "principal" => \A o \in Companies :
          /\ r.roles[o] \in {"owner", "admin"} => <<"admin", o>> \in p
          /\ r.who \in People /\ r.roles[o] # "none" => <<"member", o>> \in p
    /\ r.pc = "issue" => \E n \in AsAdmin(r.bot) : n \subseteq p
    /\ r.pc = "grant" => <<"member", r.org>> \in p
    /\ r.pc = "done" => \E n \in r.needs : n \subseteq p

CallersInv ==
    /\ slot = [s \in Slots |-> slot[s]] /\ past = [s \in Slots |-> past[s]]
    /\ \A s \in Slots : Shaped(slot[s], DOMAIN links, DOMAIN invites) /\ Earned(slot[s], past[s])

LinkRows == [user : People, type : {"password_reset", "magic_link"}, used : BOOLEAN,
             expired : BOOLEAN, opened : Nat, lost : BOOLEAN]
InviteRows == [org : Companies, role : Roles, expired : BOOLEAN, opened : Nat, lost : BOOLEAN,
               status : {"pending", "accepted", "revoked", "expired"}]

UserRows == [status : {"none", "active", "suspended", "deleted"},
             super : BOOLEAN, pw : Passwords \cup {"none"}]
MemberRows == [Companies -> Roles \cup {"none"}]
Counts == 0..MaxSessions

TablesInv ==
    /\ users \in [People -> UserRows] /\ sessions \in [People -> Counts]
    /\ members \in [People -> MemberRows]
    /\ bots \in [Bots -> {"active", "revoked"}] /\ agentTokens \in [Bots -> Counts]
    /\ links \in Seq(LinkRows) /\ invites \in Seq(InviteRows)
    /\ regs \in [uses : Nat, clients : Nat]

HoldsLink(s, l) == slot[s].pc \in LinkStages /\ slot[s].link = l
HoldsInvite(s, i) == slot[s].pc \in InviteStages /\ slot[s].invite = i

(* A link nobody shared and whose mark did not fail: one request holds it, *)
(* and none does that has not let it through when it was let through.      *)
LinkOK(l) ==
    \/ links[l].lost \/ <<"link", l>> \in shared
    \/ /\ \A s, t \in Slots : HoldsLink(s, l) /\ HoldsLink(t, l) => s = t
       /\ \A s \in Slots : HoldsLink(s, l) /\ slot[s].pc # "mark" => links[l].opened = 0
       /\ ~links[l].used /\ (\A s \in Slots : ~HoldsLink(s, l)) => links[l].opened = 0
       /\ links[l].opened <= 1

LinkInv == \A l \in DOMAIN links : LinkOK(l)

InviteOK(i) ==
    \/ invites[i].lost \/ <<"invite", i>> \in shared
    \/ /\ \A s, t \in Slots : HoldsInvite(s, i) /\ HoldsInvite(t, i) => s = t
       /\ \A s \in Slots : HoldsInvite(s, i) /\ slot[s].pc = "join" => invites[i].opened = 0
       /\ invites[i].status = "pending" /\ (\A s \in Slots : ~HoldsInvite(s, i)) => invites[i].opened = 0
       /\ invites[i].opened <= 1

InviteInv == \A i \in DOMAIN invites : InviteOK(i)

(* Every use was claimed before the client it is for is inserted.          *)
Claiming == {s \in Slots : slot[s].pc = "client"}

RegInv ==
    /\ IsFiniteSet(Claiming)
    /\ Cardinality(Claiming) + regs.clients <= regs.uses
    /\ regs.uses <= MaxRegUses

TenancyInv == TablesInv /\ CallersInv /\ LinkInv /\ InviteInv /\ RegInv

-----------------------------------------------------------------------------
(* p holds what the tables say of w.                                       *)
Stands(w, p, U, M, B, T) ==
    /\ w \in People =>
         /\ U[w].status = "active" => <<"active">> \in p
         /\ U[w].super => <<"super">> \in p
         /\ \A o \in Companies :
              /\ M[w][o] # "none" => <<"member", o>> \in p
              /\ M[w][o] \in {"owner", "admin"} => <<"admin", o>> \in p
    /\ w \in Bots => /\ B[w] = "active" => <<"active">> \in p
                     /\ T[w] > 0 => <<"token">> \in p

LEMMA Standing == \A w : Stands(w, standing[w], users, members, bots, agentTokens)
<1> SUFFICES ASSUME NEW w \in People \cup Bots
             PROVE  Stands(w, standing[w], users, members, bots, agentTokens)
  BY DEF Stands
<1>1. CASE w \in People
  <2>1. w \notin Bots
    BY <1>1, AccountsAssumption
  <2>2. standing[w] = Flag("active", users[w].status = "active") \cup Flag("super", users[w].super)
            \cup {<<"member", o>> : o \in {c \in Companies : members[w][c] # "none"}}
            \cup {<<"admin", o>> : o \in {c \in Companies : members[w][c] \in {"owner", "admin"}}}
    BY <2>1 DEF standing
  <2> QED BY <2>1, <2>2 DEF Stands, Flag
<1>2. CASE w \in Bots
  <2>1. w \notin People
    BY <1>2, AccountsAssumption
  <2>2. standing[w] = Flag("active", bots[w] = "active") \cup Flag("token", agentTokens[w] > 0)
    BY <1>2 DEF standing
  <2> QED BY <2>1, <2>2 DEF Stands, Flag
<1> QED BY <1>1, <1>2

LEMMA StandingThen == (\A w : Stands(w, standing[w], users, members, bots, agentTokens))'
  BY Standing, PTL

LEMMA EarnedGrows ==
    ASSUME NEW r, NEW p, NEW q, p \subseteq q, Earned(r, p)
    PROVE  Earned(r, q)
  BY DEF Earned

(* Observe: a request keeps what its caller has been, and learns what he   *)
(* is; a link that two requests hold is shared, for good.                  *)
LEMMA Observed ==
    ASSUME Observe, CallersInv
    PROVE  /\ past' = [s \in Slots |-> past'[s]]
           /\ \A s \in Slots : "who" \in DOMAIN slot'[s] =>
                 past'[s] = past[s] \cup standing'[slot'[s].who]
           /\ shared \subseteq shared'
           /\ \A s, t \in Slots : s # t => Holds(slot'[s]) \cap Holds(slot'[t]) \subseteq shared'
<1>1. past' = [s \in Slots |-> IF "who" \in DOMAIN slot'[s]
                               THEN past[s] \cup standing'[slot'[s].who] ELSE {}]
  BY DEF Observe
<1>2. ASSUME NEW s \in Slots, NEW t \in Slots, s # t
      PROVE  Holds(slot'[s]) \cap Holds(slot'[t]) \subseteq shared'
  <2> DEFINE both(u, v) == Holds(slot'[u]) \cap Holds(slot'[v])
  <2>1. shared' = shared \cup UNION {UNION {both(u, v) : v \in Slots \ {u}} : u \in Slots}
    BY DEF Observe
  <2> HIDE DEF both
  <2>2. both(s, t) \subseteq shared'
    BY <1>2, <2>1
  <2> QED BY <2>2 DEF both
<1> QED BY <1>1, <1>2 DEF Observe

(* What a request earns at its next stage, from what its caller was and    *)
(* what he is after the step.                                              *)
Earns(r, before, U, M, B, T) ==
    "who" \in DOMAIN r =>
      \A p : before \subseteq p /\ Stands(r.who, p, U, M, B, T) => Earned(r, p)

(* One request moves to a stage it has earned, the others stay.            *)
LEMMA CallersStep ==
    ASSUME CallersInv, Observe, NEW s \in Slots, NEW r,
           slot' = [slot EXCEPT ![s] = r],
           DOMAIN links \subseteq DOMAIN links', DOMAIN invites \subseteq DOMAIN invites',
           Shaped(r, DOMAIN links', DOMAIN invites'),
           Earns(r, past[s], users', members', bots', agentTokens')
    PROVE  CallersInv'
<1>1. /\ slot' = [t \in Slots |-> slot'[t]] /\ slot'[s] = r
      /\ \A t \in Slots : t # s => slot'[t] = slot[t]
  BY DEF CallersInv
<1>2. ASSUME NEW t \in Slots
      PROVE  Shaped(slot'[t], DOMAIN links', DOMAIN invites') /\ Earned(slot'[t], past'[t])
  <2>1. Shaped(slot'[t], DOMAIN links', DOMAIN invites')
    BY <1>1 DEF CallersInv, Shaped
  <2>2. CASE "who" \notin DOMAIN slot'[t]
    BY <2>1, <2>2 DEF Shaped, Earned, Calling
  <2>3. CASE "who" \in DOMAIN slot'[t]
    <3>1. past'[t] = past[t] \cup standing'[slot'[t].who]
      BY <2>3, Observed
    <3>2. CASE t = s
      <4>1. Stands(r.who, standing'[r.who], users', members', bots', agentTokens')
        BY StandingThen
      <4>2. Stands(r.who, past'[s], users', members', bots', agentTokens')
        BY <1>1, <3>1, <3>2, <4>1 DEF Stands
      <4>3. past[s] \subseteq past'[s] /\ "who" \in DOMAIN r
        BY <1>1, <2>3, <3>1, <3>2
      <4>4. \A p : past[s] \subseteq p /\ Stands(r.who, p, users', members', bots', agentTokens')
                   => Earned(r, p)
        BY <4>3 DEF Earns
      <4>5. Earned(r, past'[s])
        BY <4>2, <4>3, <4>4
      <4> QED BY <1>1, <2>1, <3>2, <4>5
    <3>3. CASE t # s
      <4>1. Earned(slot[t], past[t]) /\ past[t] \subseteq past'[t]
        BY <3>1 DEF CallersInv
      <4>2. Earned(slot[t], past'[t])
        BY <4>1, EarnedGrows
      <4> QED BY <1>1, <2>1, <3>3, <4>2
    <3> QED BY <3>2, <3>3
  <2> QED BY <2>1, <2>2, <2>3
<1> QED BY <1>1, <1>2, Observed DEF CallersInv

(* Steps of nobody in particular.                                          *)
LEMMA CallersStay ==
    ASSUME CallersInv, Observe, slot' = slot,
           DOMAIN links \subseteq DOMAIN links', DOMAIN invites \subseteq DOMAIN invites'
    PROVE  CallersInv'
<1>1. ASSUME NEW t \in Slots
      PROVE  Shaped(slot[t], DOMAIN links', DOMAIN invites') /\ Earned(slot[t], past'[t])
  <2>1. Shaped(slot[t], DOMAIN links', DOMAIN invites')
    BY DEF CallersInv, Shaped
  <2>2. CASE "who" \notin DOMAIN slot[t]
    BY <2>1, <2>2 DEF Shaped, Earned, Calling
  <2>3. CASE "who" \in DOMAIN slot[t]
    <3>1. past'[t] = past[t] \cup standing'[slot[t].who]
      BY <2>3, Observed
    <3>2. Earned(slot[t], past[t]) /\ past[t] \subseteq past'[t]
      BY <3>1 DEF CallersInv
    <3> QED BY <2>1, <3>2, EarnedGrows
  <2> QED BY <2>1, <2>2, <2>3
<1> QED BY <1>1, Observed DEF CallersInv

-----------------------------------------------------------------------------
(* Steps that leave links, invitations or clients, and who holds them,     *)
(* alone.                                                                  *)
LEMMA LinkKept ==
    ASSUME NEW l, LinkOK(l), shared \subseteq shared',
           \A s \in Slots : /\ HoldsLink(s, l)' <=> HoldsLink(s, l)
                            /\ HoldsLink(s, l) => slot'[s].pc = slot[s].pc,
           /\ links'[l].lost = links[l].lost /\ links'[l].opened = links[l].opened
           /\ links'[l].used = links[l].used
    PROVE  LinkOK(l)'
  BY DEF LinkOK

LEMMA LinksStay ==
    ASSUME Observe, CallersInv, LinkInv, links' = links,
           \A s \in Slots : \/ slot'[s] = slot[s]
                            \/ (slot[s].pc \notin LinkStages /\ slot'[s].pc \notin LinkStages)
    PROVE  LinkInv'
<1>1. \A s \in Slots : \A l : /\ HoldsLink(s, l)' <=> HoldsLink(s, l)
                              /\ HoldsLink(s, l) => slot'[s].pc = slot[s].pc
  BY DEF HoldsLink
<1>2. shared \subseteq shared'
  BY Observed
<1>3. ASSUME NEW l \in DOMAIN links PROVE LinkOK(l)'
  BY <1>1, <1>2, LinkKept DEF LinkInv
<1> QED BY <1>3 DEF LinkInv

LEMMA InviteKept ==
    ASSUME NEW i, InviteOK(i), shared \subseteq shared',
           \A s \in Slots : /\ HoldsInvite(s, i)' <=> HoldsInvite(s, i)
                            /\ HoldsInvite(s, i) => slot'[s].pc = slot[s].pc,
           /\ invites'[i].lost = invites[i].lost /\ invites'[i].opened = invites[i].opened
           /\ invites'[i].status = invites[i].status
    PROVE  InviteOK(i)'
  BY DEF InviteOK

LEMMA InvitesStay ==
    ASSUME Observe, CallersInv, InviteInv, invites' = invites,
           \A s \in Slots : \/ slot'[s] = slot[s]
                            \/ (slot[s].pc \notin InviteStages /\ slot'[s].pc \notin InviteStages)
    PROVE  InviteInv'
<1>1. \A s \in Slots : \A i : /\ HoldsInvite(s, i)' <=> HoldsInvite(s, i)
                              /\ HoldsInvite(s, i) => slot'[s].pc = slot[s].pc
  BY DEF HoldsInvite
<1>2. shared \subseteq shared'
  BY Observed
<1>3. ASSUME NEW i \in DOMAIN invites PROVE InviteOK(i)'
  BY <1>1, <1>2, InviteKept DEF InviteInv
<1> QED BY <1>3 DEF InviteInv

LEMMA RegsStay ==
    ASSUME RegInv, regs' = regs,
           \A s \in Slots : (slot'[s].pc = "client") <=> (slot[s].pc = "client")
    PROVE  RegInv'
<1>1. Claiming' = Claiming
  BY DEF Claiming
<1> QED BY <1>1 DEF RegInv

(* A step of one request that is about none of the three.                  *)
Aside(r) == r.pc \notin LinkStages \cup InviteStages \cup {"client"}

LEMMA AsideStep ==
    ASSUME TenancyInv, Observe, NEW s \in Slots, NEW r,
           slot' = [slot EXCEPT ![s] = r], UNCHANGED <<links, invites, regs>>,
           Aside(slot[s]), Aside(r), Shaped(r, DOMAIN links, DOMAIN invites),
           Earns(r, past[s], users', members', bots', agentTokens'),
           TablesInv'
    PROVE  TenancyInv'
<1>1. CallersInv'
  BY CallersStep DEF TenancyInv
<1>2. \A t \in Slots : slot'[t] = slot[t] \/ (Aside(slot[t]) /\ Aside(slot'[t]))
  BY DEF TenancyInv, CallersInv
<1>3. LinkInv'
  <2>1. \A t \in Slots : \/ slot'[t] = slot[t]
                         \/ (slot[t].pc \notin LinkStages /\ slot'[t].pc \notin LinkStages)
    BY <1>2 DEF Aside
  <2> QED BY <2>1, LinksStay DEF TenancyInv
<1>4. InviteInv'
  <2>1. \A t \in Slots : \/ slot'[t] = slot[t]
                         \/ (slot[t].pc \notin InviteStages /\ slot'[t].pc \notin InviteStages)
    BY <1>2 DEF Aside
  <2> QED BY <2>1, InvitesStay DEF TenancyInv
<1>5. RegInv'
  <2>1. \A t \in Slots : (slot'[t].pc = "client") <=> (slot[t].pc = "client")
    BY <1>2 DEF Aside
  <2> QED BY <2>1, RegsStay DEF TenancyInv
<1> QED BY <1>1, <1>3, <1>4, <1>5 DEF TenancyInv

-----------------------------------------------------------------------------
LEMMA TablesSame == ASSUME TenancyInv, UNCHANGED tables PROVE TablesInv'
  BY DEF TenancyInv, TablesInv, tables

LEMMA CountedUp ==
    ASSUME NEW S, NEW f \in [S -> Counts], NEW x \in S
    PROVE  /\ f[x] < MaxSessions => [f EXCEPT ![x] = @ + 1] \in [S -> Counts]
           /\ f[x] > 0 => [f EXCEPT ![x] = @ - 1] \in [S -> Counts]
           /\ [f EXCEPT ![x] = 0] \in [S -> Counts]
<1>1. f[x] \in Counts
  OBVIOUS
<1>2. /\ f[x] < MaxSessions => f[x] + 1 \in Counts
      /\ f[x] > 0 => f[x] - 1 \in Counts
      /\ 0 \in Counts
  BY <1>1, AccountsAssumption DEF Counts
<1> QED BY <1>2

LEMMA SessionsCounted ==
    ASSUME TablesInv, NEW u \in People
    PROVE  /\ sessions[u] < MaxSessions => [sessions EXCEPT ![u] = @ + 1] \in [People -> Counts]
           /\ sessions[u] > 0 => [sessions EXCEPT ![u] = @ - 1] \in [People -> Counts]
           /\ [sessions EXCEPT ![u] = 0] \in [People -> Counts]
<1>1. sessions \in [People -> Counts]
  BY DEF TablesInv
<1> QED BY <1>1, CountedUp

LEMMA TokensCounted ==
    ASSUME TablesInv, NEW b \in Bots
    PROVE  /\ agentTokens[b] < MaxSessions => [agentTokens EXCEPT ![b] = @ + 1] \in [Bots -> Counts]
           /\ agentTokens[b] > 0 => [agentTokens EXCEPT ![b] = @ - 1] \in [Bots -> Counts]
<1>1. agentTokens \in [Bots -> Counts]
  BY DEF TablesInv
<1> QED BY <1>1, CountedUp

LEMMA MemberChanged ==
    ASSUME TablesInv, NEW u \in People, NEW o \in Companies, NEW role \in Roles \cup {"none"}
    PROVE  [members EXCEPT ![u][o] = role] \in [People -> MemberRows]
  BY DEF TablesInv, MemberRows

LEMMA UserChanged ==
    ASSUME TablesInv, NEW u \in People
    PROVE  /\ \A st \in {"active", "suspended", "deleted"} :
                [users EXCEPT ![u].status = st] \in [People -> UserRows]
           /\ \A p \in Passwords \cup {"none"} : [users EXCEPT ![u].pw = p] \in [People -> UserRows]
           /\ [users EXCEPT ![u].super = TRUE] \in [People -> UserRows]
  BY DEF TablesInv, UserRows

LEMMA LinkChanged ==
    ASSUME TablesInv, NEW l \in DOMAIN links, NEW row \in LinkRows
    PROVE  LET new == [links EXCEPT ![l] = row]
           IN  /\ new \in Seq(LinkRows) /\ DOMAIN new = DOMAIN links /\ new[l] = row
               /\ \A k \in DOMAIN links : k # l => new[k] = links[k]
  BY DEF TablesInv

LEMMA InviteChanged ==
    ASSUME TablesInv, NEW i \in DOMAIN invites, NEW row \in InviteRows
    PROVE  LET new == [invites EXCEPT ![i] = row]
           IN  /\ new \in Seq(InviteRows) /\ DOMAIN new = DOMAIN invites /\ new[i] = row
               /\ \A k \in DOMAIN invites : k # i => new[k] = invites[k]
  BY DEF TablesInv

LEMMA LoginSteps ==
    ASSUME TenancyInv, Observe, NEW s \in Slots,
           \/ \E u \in People, p \in Passwords : LoginSubmit(s, u, p) \/ RegisterSubmit(s, u, p)
           \/ VerifyPassword(s) \/ CreateSession(s) \/ StoreCredential(s) \/ DeleteSessions(s)
    PROVE  TenancyInv'
<1>1. /\ CallersInv /\ TablesInv /\ Shaped(slot[s], DOMAIN links, DOMAIN invites)
      /\ Earned(slot[s], past[s])
  BY DEF TenancyInv, CallersInv
<1>2. ASSUME NEW u \in People, NEW p \in Passwords, LoginSubmit(s, u, p)
      PROVE  TenancyInv'
  <2> DEFINE r == [pc |-> "password", user |-> u, typed |-> p]
  <2>1. slot' = [slot EXCEPT ![s] = r] /\ slot[s] = Free /\ UNCHANGED tables
    BY <1>2 DEF LoginSubmit, Goto, In
  <2>2. Shaped(r, DOMAIN links, DOMAIN invites) /\ Aside(r) /\ Aside(slot[s])
    BY <1>1, <1>2, <2>1 DEF Shaped, Aside, LinkStages, InviteStages, Calling, Free,
                            LoginSubmit, Goto, In
  <2>3. Earns(r, past[s], users', members', bots', agentTokens')
    BY DEF Earns, Free
  <2>4. TablesInv'
    BY <2>1, TablesSame
  <2> HIDE DEF r
  <2> QED BY <2>1, <2>2, <2>3, <2>4, AsideStep DEF tables
<1>3. ASSUME NEW u \in People, NEW p \in Passwords, RegisterSubmit(s, u, p)
      PROVE  TenancyInv'
  <2> DEFINE r == [pc |-> "credential", user |-> u, typed |-> p, then |-> "session"]
  <2>1. /\ slot' = [slot EXCEPT ![s] = r] /\ slot[s] = Free
        /\ UNCHANGED <<links, invites, regs>>
    BY <1>3 DEF RegisterSubmit, Goto, In
  <2>2. Shaped(r, DOMAIN links, DOMAIN invites) /\ Aside(r) /\ Aside(slot[s])
    BY <1>1, <1>3, <2>1 DEF Shaped, Aside, LinkStages, InviteStages, Calling, Free,
                            RegisterSubmit, Goto, In
  <2>3. Earns(r, past[s], users', members', bots', agentTokens')
    BY DEF Earns, Free
  <2>4. TablesInv'
    <3>1. users' \in [People -> UserRows]
      BY <1>1, <1>3, <2>1, UserChanged DEF TablesInv, RegisterSubmit, In, Sql, tables
    <3>2. UNCHANGED <<sessions, members, bots, agentTokens, links, invites, regs>>
      BY <1>3 DEF RegisterSubmit, tables
    <3> QED BY <1>1, <3>1, <3>2 DEF TablesInv
  <2> HIDE DEF r
  <2> QED BY <2>1, <2>2, <2>3, <2>4, AsideStep DEF tables
<1>4. ASSUME VerifyPassword(s) PROVE TenancyInv'
  <2> DEFINE r == IF users[slot[s].user].pw = slot[s].typed
                 THEN [pc |-> "session", user |-> slot[s].user] ELSE Free
  <2>1. slot' = [slot EXCEPT ![s] = r] /\ slot[s].pc = "password" /\ UNCHANGED tables
    BY <1>4 DEF VerifyPassword, Goto, In
  <2>2. Shaped(r, DOMAIN links, DOMAIN invites) /\ Aside(r) /\ Aside(slot[s])
    BY <1>1, <1>4, <2>1 DEF Shaped, Aside, LinkStages, InviteStages, Calling, Free,
                            VerifyPassword, Goto, In
  <2>3. Earns(r, past[s], users', members', bots', agentTokens')
    BY DEF Earns, Free
  <2>4. TablesInv'
    BY <2>1, TablesSame
  <2> HIDE DEF r
  <2> QED BY <2>1, <2>2, <2>3, <2>4, AsideStep DEF tables
<1>5. ASSUME CreateSession(s) PROVE TenancyInv'
  <2> DEFINE r == Free
  <2>1. /\ slot' = [slot EXCEPT ![s] = r] /\ slot[s].pc = "session"
        /\ UNCHANGED <<links, invites, regs>>
    BY <1>5 DEF CreateSession, Goto, In
  <2>2. Shaped(r, DOMAIN links, DOMAIN invites) /\ Aside(r) /\ Aside(slot[s])
    BY <1>1, <1>5, <2>1 DEF Shaped, Aside, LinkStages, InviteStages, Calling, Free,
                            CreateSession, Goto, In
  <2>3. Earns(r, past[s], users', members', bots', agentTokens')
    BY DEF Earns, Free
  <2>4. TablesInv'
    <3>0. slot[s].user \in People
      BY <1>1, <1>5, <2>1 DEF Shaped, CreateSession, In, Calling
    <3>1. sessions' \in [People -> Counts]
      BY <1>1, <1>5, <2>1, <3>0, SessionsCounted DEF TablesInv, CreateSession, In, Sql,
                                                     tables
    <3>2. UNCHANGED <<users, members, bots, agentTokens, links, invites, regs>>
      BY <1>5 DEF CreateSession, tables
    <3> QED BY <1>1, <3>1, <3>2 DEF TablesInv
  <2> HIDE DEF r
  <2> QED BY <2>1, <2>2, <2>3, <2>4, AsideStep DEF tables
<1>6. CASE StoreCredential(s)
  <2>1. PICK r \in {Free, [pc |-> "session", user |-> slot[s].user]} :
           /\ slot' = [slot EXCEPT ![s] = r] /\ slot[s].pc = "credential"
           /\ UNCHANGED <<links, invites, regs>>
    BY <1>6 DEF StoreCredential, Goto, In, tables
  <2>2. Shaped(r, DOMAIN links, DOMAIN invites) /\ Aside(r) /\ Aside(slot[s])
    BY <1>1, <2>1 DEF Shaped, Aside, LinkStages, InviteStages, Calling, Free
  <2>3. Earns(r, past[s], users', members', bots', agentTokens')
    BY <2>1 DEF Earns, Free
  <2>4. TablesInv'
    <3>1. users' \in [People -> UserRows]
      <4>1. slot[s].user \in People /\ slot[s].typed \in Passwords
        BY <1>1, <2>1 DEF Shaped
      <4>2. [users EXCEPT ![slot[s].user].pw = slot[s].typed] \in [People -> UserRows]
        BY <1>1, <4>1, UserChanged
      <4> QED BY <1>1, <1>6, <4>2 DEF TablesInv, StoreCredential, tables
    <3>2. UNCHANGED <<sessions, members, bots, agentTokens, links, invites, regs>>
      BY <1>6 DEF StoreCredential, tables
    <3> QED BY <1>1, <3>1, <3>2 DEF TablesInv
  <2> QED BY <2>1, <2>2, <2>3, <2>4, AsideStep
<1>7. ASSUME DeleteSessions(s) PROVE TenancyInv'
  <2> DEFINE r == Free
  <2>1. /\ slot' = [slot EXCEPT ![s] = r] /\ slot[s].pc = "end_sessions"
        /\ UNCHANGED <<links, invites, regs>>
    BY <1>7 DEF DeleteSessions, Goto, In
  <2>2. Shaped(r, DOMAIN links, DOMAIN invites) /\ Aside(r) /\ Aside(slot[s])
    BY <1>1, <1>7, <2>1 DEF Shaped, Aside, LinkStages, InviteStages, Calling, Free,
                            DeleteSessions, Goto, In
  <2>3. Earns(r, past[s], users', members', bots', agentTokens')
    BY DEF Earns, Free
  <2>4. TablesInv'
    <3>0. slot[s].user \in People
      BY <1>1, <1>7, <2>1 DEF Shaped, DeleteSessions, In, Calling
    <3>1. sessions' \in [People -> Counts]
      BY <1>1, <1>7, <2>1, <3>0, SessionsCounted DEF TablesInv, DeleteSessions, In,
                                                     Sql, tables
    <3>2. UNCHANGED <<users, members, bots, agentTokens, links, invites, regs>>
      BY <1>7 DEF DeleteSessions, tables
    <3> QED BY <1>1, <3>1, <3>2 DEF TablesInv
  <2> HIDE DEF r
  <2> QED BY <2>1, <2>2, <2>3, <2>4, AsideStep DEF tables
<1> QED BY <1>2, <1>3, <1>4, <1>5, <1>6, <1>7

LEMMA CallerSteps ==
    ASSUME TenancyInv, Observe, NEW s \in Slots, CallerStep(s)
    PROVE  TenancyInv'
<1>1. /\ CallersInv /\ TablesInv /\ Shaped(slot[s], DOMAIN links, DOMAIN invites)
      /\ Earned(slot[s], past[s])
  BY DEF TenancyInv, CallersInv
<1>2. ASSUME NEW u \in People, GetSession(s, u) PROVE TenancyInv'
  <2> DEFINE r == [pc |-> "user", who |-> u]
  <2>1. slot' = [slot EXCEPT ![s] = r] /\ slot[s] = Free /\ UNCHANGED tables
    BY <1>2 DEF GetSession, Goto, In
  <2>2. Shaped(r, DOMAIN links, DOMAIN invites) /\ Aside(r) /\ Aside(slot[s])
    BY <1>1, <1>2, <2>1 DEF Shaped, Aside, LinkStages, InviteStages, Calling, Free,
                            GetSession, Goto, In
  <2>3. Earns(r, past[s], users', members', bots', agentTokens')
    BY <1>1, <1>2, <2>1 DEF Earns, Earned, Stands, GetSession, In, tables 
  <2>4. TablesInv'
    BY <2>1, TablesSame
  <2> HIDE DEF r
  <2> QED BY <2>1, <2>2, <2>3, <2>4, AsideStep DEF tables
<1>3. ASSUME NEW b \in Bots, ReadToken(s, b) PROVE TenancyInv'
  <2> DEFINE r == [pc |-> "agent", who |-> b]
  <2>1. slot' = [slot EXCEPT ![s] = r] /\ slot[s] = Free /\ UNCHANGED tables
    BY <1>3 DEF ReadToken, Goto, In
  <2>2. Shaped(r, DOMAIN links, DOMAIN invites) /\ Aside(r) /\ Aside(slot[s])
    BY <1>1, <1>3, <2>1 DEF Shaped, Aside, LinkStages, InviteStages, Calling, Free,
                            ReadToken, Goto, In
  <2>3. Earns(r, past[s], users', members', bots', agentTokens')
    BY <1>1, <1>3, <2>1 DEF Earns, Earned, Stands, ReadToken, In, tables 
  <2>4. TablesInv'
    BY <2>1, TablesSame
  <2> HIDE DEF r
  <2> QED BY <2>1, <2>2, <2>3, <2>4, AsideStep DEF tables
<1>4. ASSUME ReadAgent(s) PROVE TenancyInv'
  <2> DEFINE r == IF AgentActive(slot[s].who) THEN [pc |-> "org", who |-> slot[s].who] ELSE Free
  <2>1. slot' = [slot EXCEPT ![s] = r] /\ slot[s].pc = "agent" /\ UNCHANGED tables
    BY <1>4 DEF ReadAgent, Goto, In
  <2>2. Shaped(r, DOMAIN links, DOMAIN invites) /\ Aside(r) /\ Aside(slot[s])
    BY <1>1, <1>4, <2>1 DEF Shaped, Aside, LinkStages, InviteStages, Calling, Free,
                            ReadAgent, Goto, In
  <2>3. Earns(r, past[s], users', members', bots', agentTokens')
    BY <1>1, <1>4, <2>1 DEF Earns, Earned, Stands, ReadAgent, In, tables, AgentActive,
                            Shaped, Calling, Free
  <2>4. TablesInv'
    BY <2>1, TablesSame
  <2> HIDE DEF r
  <2> QED BY <2>1, <2>2, <2>3, <2>4, AsideStep DEF tables
<1>5. ASSUME agentPrincipal(s) PROVE TenancyInv'
  <2> DEFINE r == [pc |-> "principal", who |-> slot[s].who, super |-> FALSE,
                 roles |-> [NoRole EXCEPT ![botOrg[slot[s].who]] = "agent"]]
  <2>1. slot' = [slot EXCEPT ![s] = r] /\ slot[s].pc = "org" /\ UNCHANGED tables
    BY <1>5 DEF agentPrincipal, Goto, In
  <2>2. Shaped(r, DOMAIN links, DOMAIN invites) /\ Aside(r) /\ Aside(slot[s])
    BY <1>1, <1>5, <2>1, AccountsAssumption DEF Shaped, Aside, LinkStages,
                                                InviteStages, Calling, Free,
                                                agentPrincipal, Goto, In
  <2>3. Earns(r, past[s], users', members', bots', agentTokens')
    BY <1>1, <1>5, <2>1, AccountsAssumption DEF Earns, Earned, Stands, agentPrincipal,
                                                In, tables, NoRole, Shaped, Calling
  <2>4. TablesInv'
    BY <2>1, TablesSame
  <2> HIDE DEF r
  <2> QED BY <2>1, <2>2, <2>3, <2>4, AsideStep DEF tables
<1>6. ASSUME LoadUser(s) PROVE TenancyInv'
  <2> DEFINE r == IF MayAct(slot[s].who)
                 THEN [pc |-> "roles", who |-> slot[s].who, super |-> users[slot[s].who].super]
                 ELSE Free
  <2>1. slot' = [slot EXCEPT ![s] = r] /\ slot[s].pc = "user" /\ UNCHANGED tables
    BY <1>6 DEF LoadUser, Goto, In
  <2>2. Shaped(r, DOMAIN links, DOMAIN invites) /\ Aside(r) /\ Aside(slot[s])
    BY <1>1, <1>6, <2>1 DEF Shaped, Aside, LinkStages, InviteStages, Calling, Free,
                            LoadUser, Goto, In
  <2>3. Earns(r, past[s], users', members', bots', agentTokens')
    BY <1>1, <1>6, <2>1 DEF Earns, Earned, Stands, LoadUser, In, tables, MayAct,
                            Shaped, Calling, Free
  <2>4. TablesInv'
    BY <2>1, TablesSame
  <2> HIDE DEF r
  <2> QED BY <2>1, <2>2, <2>3, <2>4, AsideStep DEF tables
<1>7. ASSUME LoadRoles(s) PROVE TenancyInv'
  <2> DEFINE r == [pc |-> "principal", who |-> slot[s].who, super |-> slot[s].super,
                 roles |-> members[slot[s].who]]
  <2>1. slot' = [slot EXCEPT ![s] = r] /\ slot[s].pc = "roles" /\ UNCHANGED tables
    BY <1>7 DEF LoadRoles, Goto, In
  <2>2. Shaped(r, DOMAIN links, DOMAIN invites) /\ Aside(r) /\ Aside(slot[s])
    BY <1>1, <1>7, <2>1, AccountsAssumption DEF Shaped, Aside, LinkStages,
                                                InviteStages, Calling, Free, LoadRoles,
                                                Goto, In
  <2>3. Earns(r, past[s], users', members', bots', agentTokens')
    BY <1>1, <1>7, <2>1, AccountsAssumption DEF Earns, Earned, Stands, LoadRoles, In,
                                                tables, Shaped, Calling
  <2>4. TablesInv'
    BY <2>1, TablesSame
  <2> HIDE DEF r
  <2> QED BY <2>1, <2>2, <2>3, <2>4, AsideStep DEF tables
<1>8. ASSUME Respond(s) PROVE TenancyInv'
  <2> DEFINE r == Free
  <2>1. slot' = [slot EXCEPT ![s] = r] /\ slot[s].pc = "done" /\ UNCHANGED tables
    BY <1>8 DEF Respond, Goto, In
  <2>2. Shaped(r, DOMAIN links, DOMAIN invites) /\ Aside(r) /\ Aside(slot[s])
    BY <1>1, <1>8, <2>1 DEF Shaped, Aside, LinkStages, InviteStages, Calling, Free,
                            Respond, Goto, In
  <2>3. Earns(r, past[s], users', members', bots', agentTokens')
    BY DEF Earns, Free
  <2>4. TablesInv'
    BY <2>1, TablesSame
  <2> HIDE DEF r
  <2> QED BY <2>1, <2>2, <2>3, <2>4, AsideStep DEF tables
<1>9. ASSUME Reject(s) PROVE TenancyInv'
  <2> DEFINE r == Free
  <2>1. slot' = [slot EXCEPT ![s] = r] /\ slot[s].pc = "principal" /\ UNCHANGED tables
    BY <1>9 DEF Reject, Goto, In
  <2>2. Shaped(r, DOMAIN links, DOMAIN invites) /\ Aside(r) /\ Aside(slot[s])
    BY <1>1, <1>9, <2>1 DEF Shaped, Aside, LinkStages, InviteStages, Calling, Free,
                            Reject, Goto, In
  <2>3. Earns(r, past[s], users', members', bots', agentTokens')
    BY DEF Earns, Free
  <2>4. TablesInv'
    BY <2>1, TablesSame
  <2> HIDE DEF r
  <2> QED BY <2>1, <2>2, <2>3, <2>4, AsideStep DEF tables
<1> QED BY <1>2, <1>3, <1>4, <1>5, <1>6, <1>7, <1>8, <1>9 DEF CallerStep

LEMMA UserSteps ==
    ASSUME TenancyInv, Observe, NEW s \in Slots, UserRoutes(s) \/ MemberRoutes(s)
    PROVE  TenancyInv'
<1>1. /\ CallersInv /\ TablesInv /\ Shaped(slot[s], DOMAIN links, DOMAIN invites)
      /\ Earned(slot[s], past[s])
  BY DEF TenancyInv, CallersInv
<1>2. ASSUME NEW u \in People, NEW st \in {"active", "suspended", "deleted"},
             SetStatus(s, u, st)
      PROVE  TenancyInv'
  <2> DEFINE r == [pc |-> "done", who |-> slot[s].who, needs |-> {AsSuper}]
  <2>1. /\ slot' = [slot EXCEPT ![s] = r] /\ slot[s].pc = "principal"
        /\ UNCHANGED <<links, invites, regs>>
    BY <1>2 DEF SetStatus, Goto, In, SuperCaller, Acted
  <2>2. Shaped(r, DOMAIN links, DOMAIN invites) /\ Aside(r) /\ Aside(slot[s])
    BY <1>1, <1>2, <2>1 DEF Shaped, Aside, LinkStages, InviteStages, Calling, Free,
                            SetStatus, Goto, In, SuperCaller, Acted
  <2>3. Earns(r, past[s], users', members', bots', agentTokens')
    BY <1>1, <1>2, <2>1 DEF Earns, Earned, Stands, SetStatus, In, tables, SuperCaller,
                            AsSuper, Shaped
  <2>4. TablesInv'
    <3>1. users' \in [People -> UserRows]
      BY <1>1, <1>2, <2>1, UserChanged DEF TablesInv, SetStatus, In, Sql, tables,
                                           SuperCaller, Acted
    <3>2. UNCHANGED <<sessions, members, bots, agentTokens, links, invites, regs>>
      BY <1>2 DEF SetStatus, tables, SuperCaller, Acted
    <3> QED BY <1>1, <3>1, <3>2 DEF TablesInv
  <2> HIDE DEF r
  <2> QED BY <2>1, <2>2, <2>3, <2>4, AsideStep DEF tables
<1>3. ASSUME NEW u \in People, Provision(s, u) PROVE TenancyInv'
  <2> DEFINE r == [pc |-> "done", who |-> slot[s].who, needs |-> {AsSuper}]
  <2>1. /\ slot' = [slot EXCEPT ![s] = r] /\ slot[s].pc = "principal"
        /\ UNCHANGED <<links, invites, regs>>
    BY <1>3 DEF Provision, Goto, In, SuperCaller, Acted
  <2>2. Shaped(r, DOMAIN links, DOMAIN invites) /\ Aside(r) /\ Aside(slot[s])
    BY <1>1, <1>3, <2>1 DEF Shaped, Aside, LinkStages, InviteStages, Calling, Free,
                            Provision, Goto, In, SuperCaller, Acted
  <2>3. Earns(r, past[s], users', members', bots', agentTokens')
    BY <1>1, <1>3, <2>1 DEF Earns, Earned, Stands, Provision, In, tables, SuperCaller,
                            AsSuper, Shaped
  <2>4. TablesInv'
    <3>1. users' \in [People -> UserRows]
      BY <1>1, <1>3, <2>1, UserChanged DEF TablesInv, Provision, In, Sql, tables,
                                           SuperCaller, Acted
    <3>2. UNCHANGED <<sessions, members, bots, agentTokens, links, invites, regs>>
      BY <1>3 DEF Provision, tables, SuperCaller, Acted
    <3> QED BY <1>1, <3>1, <3>2 DEF TablesInv
  <2> HIDE DEF r
  <2> QED BY <2>1, <2>2, <2>3, <2>4, AsideStep DEF tables
<1>4. ASSUME NEW u \in People, NEW p \in Passwords, CreateUser(s, u, p)
      PROVE  TenancyInv'
  <2> DEFINE r == [pc |-> "credential", user |-> u, typed |-> p, then |-> "free"]
  <2>1. /\ slot' = [slot EXCEPT ![s] = r] /\ slot[s].pc = "principal"
        /\ UNCHANGED <<links, invites, regs>>
    BY <1>4 DEF CreateUser, Goto, In, SuperCaller, Acted
  <2>2. Shaped(r, DOMAIN links, DOMAIN invites) /\ Aside(r) /\ Aside(slot[s])
    BY <1>1, <1>4, <2>1 DEF Shaped, Aside, LinkStages, InviteStages, Calling, Free,
                            CreateUser, Goto, In, SuperCaller, Acted
  <2>3. Earns(r, past[s], users', members', bots', agentTokens')
    BY DEF Earns, Free
  <2>4. TablesInv'
    <3>1. users' \in [People -> UserRows]
      BY <1>1, <1>4, <2>1, UserChanged DEF TablesInv, CreateUser, In, Sql, tables,
                                           SuperCaller, Acted
    <3>2. UNCHANGED <<sessions, members, bots, agentTokens, links, invites, regs>>
      BY <1>4 DEF CreateUser, tables, SuperCaller, Acted
    <3> QED BY <1>1, <3>1, <3>2 DEF TablesInv
  <2> HIDE DEF r
  <2> QED BY <2>1, <2>2, <2>3, <2>4, AsideStep DEF tables
<1>5. ASSUME NEW u \in People, NEW o \in Companies, NEW role \in Roles \cup {"none"},
             SetMember(s, u, o, role)
      PROVE  TenancyInv'
  <2> DEFINE r == [pc |-> "done", who |-> slot[s].who, needs |-> {AsSuper}]
  <2>1. /\ slot' = [slot EXCEPT ![s] = r] /\ slot[s].pc = "principal"
        /\ UNCHANGED <<links, invites, regs>>
    BY <1>5 DEF SetMember, Goto, In, SuperCaller, Acted
  <2>2. Shaped(r, DOMAIN links, DOMAIN invites) /\ Aside(r) /\ Aside(slot[s])
    BY <1>1, <1>5, <2>1 DEF Shaped, Aside, LinkStages, InviteStages, Calling, Free,
                            SetMember, Goto, In, SuperCaller, Acted
  <2>3. Earns(r, past[s], users', members', bots', agentTokens')
    BY <1>1, <1>5, <2>1 DEF Earns, Earned, Stands, SetMember, In, tables, SuperCaller,
                            AsSuper, Shaped
  <2>4. TablesInv'
    <3>1. members' \in [People -> MemberRows]
      BY <1>1, <1>5, <2>1, MemberChanged DEF TablesInv, SetMember, In, Sql, tables,
                                             SuperCaller, Acted
    <3>2. UNCHANGED <<users, sessions, bots, agentTokens, links, invites, regs>>
      BY <1>5 DEF SetMember, tables, SuperCaller, Acted
    <3> QED BY <1>1, <3>1, <3>2 DEF TablesInv
  <2> HIDE DEF r
  <2> QED BY <2>1, <2>2, <2>3, <2>4, AsideStep DEF tables
<1>6. RoleInputs \subseteq Roles /\ (CHOOSE p \in Passwords : TRUE) \in Passwords
  BY AccountsAssumption DEF Roles
<1>7. CASE UserRoutes(s)
  BY <1>2, <1>3, <1>4, <1>6, <1>7 DEF UserRoutes
<1>8. CASE MemberRoutes(s)
  BY <1>5, <1>6, <1>8 DEF MemberRoutes, NewMember, ChangeMember
<1> QED BY <1>7, <1>8

LEMMA AgentSteps ==
    ASSUME TenancyInv, Observe, NEW s \in Slots, AgentRoutes(s) \/ ConsentStep(s) \/ Redelegate(s)
    PROVE  TenancyInv'
<1>1. /\ CallersInv /\ TablesInv /\ Shaped(slot[s], DOMAIN links, DOMAIN invites)
      /\ Earned(slot[s], past[s])
  BY DEF TenancyInv, CallersInv
<1>2. \A b \in Bots : botOrg[b] \in Companies
  BY AccountsAssumption
<1>3. ASSUME NEW b \in Bots, RevokeAgent(s, b) PROVE TenancyInv'
  <2> DEFINE r == [pc |-> "done", who |-> slot[s].who, needs |-> AsAdmin(b)]
  <2>1. /\ slot' = [slot EXCEPT ![s] = r] /\ slot[s].pc = "principal"
        /\ UNCHANGED <<links, invites, regs>>
    BY <1>3 DEF RevokeAgent, Goto, In, requireAgentAccess, Acted
  <2>2. Shaped(r, DOMAIN links, DOMAIN invites) /\ Aside(r) /\ Aside(slot[s])
    BY <1>1, <1>3, <2>1, <1>2 DEF Shaped, Aside, LinkStages, InviteStages, Calling,
                                  Free, RevokeAgent, Goto, In, requireAgentAccess, Acted
  <2>3. Earns(r, past[s], users', members', bots', agentTokens')
    BY <1>1, <1>3, <2>1, <1>2 DEF Earns, Earned, Stands, RevokeAgent, In, tables,
                                  requireAgentAccess, IsOrgAdmin, AsAdmin, AsSuper,
                                  Shaped, Calling
  <2>4. TablesInv'
    <3>1. bots' \in [Bots -> {"active", "revoked"}]
      BY <1>1, <1>3, <2>1, AccountsAssumption DEF TablesInv, RevokeAgent, In, Sql,
                                                  tables, requireAgentAccess, Acted
    <3>2. UNCHANGED <<users, sessions, members, agentTokens, links, invites, regs>>
      BY <1>3 DEF RevokeAgent, tables, requireAgentAccess, Acted
    <3> QED BY <1>1, <3>1, <3>2 DEF TablesInv
  <2> HIDE DEF r
  <2> QED BY <2>1, <2>2, <2>3, <2>4, AsideStep DEF tables
<1>4. ASSUME NEW b \in Bots, RevokeToken(s, b) PROVE TenancyInv'
  <2> DEFINE r == [pc |-> "done", who |-> slot[s].who, needs |-> AsAdmin(b)]
  <2>1. /\ slot' = [slot EXCEPT ![s] = r] /\ slot[s].pc = "principal"
        /\ UNCHANGED <<links, invites, regs>>
    BY <1>4 DEF RevokeToken, Goto, In, requireAgentAccess, Acted
  <2>2. Shaped(r, DOMAIN links, DOMAIN invites) /\ Aside(r) /\ Aside(slot[s])
    BY <1>1, <1>4, <2>1, <1>2 DEF Shaped, Aside, LinkStages, InviteStages, Calling,
                                  Free, RevokeToken, Goto, In, requireAgentAccess, Acted
  <2>3. Earns(r, past[s], users', members', bots', agentTokens')
    BY <1>1, <1>4, <2>1, <1>2 DEF Earns, Earned, Stands, RevokeToken, In, tables,
                                  requireAgentAccess, IsOrgAdmin, AsAdmin, AsSuper,
                                  Shaped, Calling
  <2>4. TablesInv'
    <3>1. agentTokens' \in [Bots -> Counts]
      BY <1>1, <1>4, <2>1, TokensCounted DEF TablesInv, RevokeToken, In, Sql, tables,
                                             requireAgentAccess, Acted
    <3>2. UNCHANGED <<users, sessions, members, bots, links, invites, regs>>
      BY <1>4 DEF RevokeToken, tables, requireAgentAccess, Acted
    <3> QED BY <1>1, <3>1, <3>2 DEF TablesInv
  <2> HIDE DEF r
  <2> QED BY <2>1, <2>2, <2>3, <2>4, AsideStep DEF tables
<1>5. ASSUME NEW b \in Bots, CreateToken(s, b) PROVE TenancyInv'
  <2> DEFINE r == [pc |-> "issue", who |-> slot[s].who, bot |-> b]
  <2>1. slot' = [slot EXCEPT ![s] = r] /\ slot[s].pc = "principal" /\ UNCHANGED tables
    BY <1>5 DEF CreateToken, Goto, In, requireAgentAccess, Acted
  <2>2. Shaped(r, DOMAIN links, DOMAIN invites) /\ Aside(r) /\ Aside(slot[s])
    BY <1>1, <1>5, <2>1, <1>2 DEF Shaped, Aside, LinkStages, InviteStages, Calling,
                                  Free, CreateToken, Goto, In, requireAgentAccess, Acted
  <2>3. Earns(r, past[s], users', members', bots', agentTokens')
    BY <1>1, <1>5, <2>1, <1>2 DEF Earns, Earned, Stands, CreateToken, In, tables,
                                  requireAgentAccess, IsOrgAdmin, AsAdmin, AsSuper,
                                  Shaped, Calling
  <2>4. TablesInv'
    BY <2>1, TablesSame
  <2> HIDE DEF r
  <2> QED BY <2>1, <2>2, <2>3, <2>4, AsideStep DEF tables
<1>6. ASSUME InsertToken(s) PROVE TenancyInv'
  <2> DEFINE r == [pc |-> "done", who |-> slot[s].who, needs |-> AsAdmin(slot[s].bot)]
  <2>1. /\ slot' = [slot EXCEPT ![s] = r] /\ slot[s].pc = "issue"
        /\ UNCHANGED <<links, invites, regs>>
    BY <1>6 DEF InsertToken, Goto, In, Acted
  <2>2. Shaped(r, DOMAIN links, DOMAIN invites) /\ Aside(r) /\ Aside(slot[s])
    BY <1>1, <1>6, <2>1 DEF Shaped, Aside, LinkStages, InviteStages, Calling, Free,
                            InsertToken, Goto, In, Acted
  <2>3. Earns(r, past[s], users', members', bots', agentTokens')
    BY <1>1, <1>6, <2>1 DEF Earns, Earned, Stands, InsertToken, In, tables, Shaped,
                            Calling
  <2>4. TablesInv'
    <3>0. slot[s].bot \in Bots
      BY <1>1, <1>6, <2>1 DEF Shaped, InsertToken, In, Calling, Acted
    <3>1. agentTokens' \in [Bots -> Counts]
      BY <1>1, <1>6, <2>1, <3>0, TokensCounted DEF TablesInv, InsertToken, In, Sql,
                                                   tables, Acted
    <3>2. UNCHANGED <<users, sessions, members, bots, links, invites, regs>>
      BY <1>6 DEF InsertToken, tables, Acted
    <3> QED BY <1>1, <3>1, <3>2 DEF TablesInv
  <2> HIDE DEF r
  <2> QED BY <2>1, <2>2, <2>3, <2>4, AsideStep DEF tables
<1>7. ASSUME NEW b \in Bots, Delegate(s, b) PROVE TenancyInv'
  <2> DEFINE r == [pc |-> "done", who |-> slot[s].who, needs |-> {AsSuper, {<<"active">>, <<"member", botOrg[b]>>}}]
  <2>1. slot' = [slot EXCEPT ![s] = r] /\ slot[s].pc = "principal" /\ UNCHANGED tables
    BY <1>7 DEF Delegate, Goto, In, Acted
  <2>2. Shaped(r, DOMAIN links, DOMAIN invites) /\ Aside(r) /\ Aside(slot[s])
    BY <1>1, <1>7, <2>1, <1>2 DEF Shaped, Aside, LinkStages, InviteStages, Calling,
                                  Free, Delegate, Goto, In, Acted
  <2>3. Earns(r, past[s], users', members', bots', agentTokens')
    BY <1>1, <1>7, <2>1, <1>2 DEF Earns, Earned, Stands, Delegate, In, tables,
                                  CanAccessOrg, AsSuper, Shaped, Calling
  <2>4. TablesInv'
    BY <2>1, TablesSame
  <2> HIDE DEF r
  <2> QED BY <2>1, <2>2, <2>3, <2>4, AsideStep DEF tables
<1>8. ASSUME Redelegate(s) PROVE TenancyInv'
  <2> DEFINE r == [pc |-> "done", who |-> slot[s].who, needs |-> {{<<"active">>, <<"token">>}}]
  <2>1. slot' = [slot EXCEPT ![s] = r] /\ slot[s].pc = "principal" /\ UNCHANGED tables
    BY <1>8 DEF Redelegate, Goto, In, Acted
  <2>2. Shaped(r, DOMAIN links, DOMAIN invites) /\ Aside(r) /\ Aside(slot[s])
    BY <1>1, <1>8, <2>1 DEF Shaped, Aside, LinkStages, InviteStages, Calling, Free,
                            Redelegate, Goto, In, Acted
  <2>3. Earns(r, past[s], users', members', bots', agentTokens')
    BY <1>1, <1>8, <2>1 DEF Earns, Earned, Stands, Redelegate, In, tables, Shaped,
                            Calling
  <2>4. TablesInv'
    BY <2>1, TablesSame
  <2> HIDE DEF r
  <2> QED BY <2>1, <2>2, <2>3, <2>4, AsideStep DEF tables
<1>9. ASSUME NEW u \in People, NEW b \in Bots, ConsentAgent(s, u, b) PROVE TenancyInv'
  <2> DEFINE r == [pc |-> "consent", who |-> u, org |-> botOrg[b]]
  <2>1. slot' = [slot EXCEPT ![s] = r] /\ slot[s] = Free /\ UNCHANGED tables
    BY <1>9 DEF ConsentAgent, Goto, In
  <2>2. Shaped(r, DOMAIN links, DOMAIN invites) /\ Aside(r) /\ Aside(slot[s])
    BY <1>1, <1>9, <2>1, <1>2 DEF Shaped, Aside, LinkStages, InviteStages, Calling,
                                  Free, ConsentAgent, Goto, In
  <2>3. Earns(r, past[s], users', members', bots', agentTokens')
    BY <1>1, <1>9, <2>1, <1>2 DEF Earns, Earned, Stands, ConsentAgent, In, tables 
  <2>4. TablesInv'
    BY <2>1, TablesSame
  <2> HIDE DEF r
  <2> QED BY <2>1, <2>2, <2>3, <2>4, AsideStep DEF tables
<1>10. ASSUME ConsentMember(s) PROVE TenancyInv'
  <2> DEFINE r == IF members[slot[s].who][slot[s].org] # "none"
                 THEN [pc |-> "grant", who |-> slot[s].who, org |-> slot[s].org] ELSE Free
  <2>1. slot' = [slot EXCEPT ![s] = r] /\ slot[s].pc = "consent" /\ UNCHANGED tables
    BY <1>10 DEF ConsentMember, Goto, In
  <2>2. Shaped(r, DOMAIN links, DOMAIN invites) /\ Aside(r) /\ Aside(slot[s])
    BY <1>1, <1>10, <2>1 DEF Shaped, Aside, LinkStages, InviteStages, Calling, Free,
                             ConsentMember, Goto, In
  <2>3. Earns(r, past[s], users', members', bots', agentTokens')
    BY <1>1, <1>10, <2>1 DEF Earns, Earned, Stands, ConsentMember, In, tables, Shaped,
                             Calling, Free
  <2>4. TablesInv'
    BY <2>1, TablesSame
  <2> HIDE DEF r
  <2> QED BY <2>1, <2>2, <2>3, <2>4, AsideStep DEF tables
<1>11. ASSUME Consent(s) PROVE TenancyInv'
  <2> DEFINE r == [pc |-> "done", who |-> slot[s].who, needs |-> {{<<"member", slot[s].org>>}}]
  <2>1. slot' = [slot EXCEPT ![s] = r] /\ slot[s].pc = "grant" /\ UNCHANGED tables
    BY <1>11 DEF Consent, Goto, In, Acted
  <2>2. Shaped(r, DOMAIN links, DOMAIN invites) /\ Aside(r) /\ Aside(slot[s])
    BY <1>1, <1>11, <2>1 DEF Shaped, Aside, LinkStages, InviteStages, Calling, Free,
                             Consent, Goto, In, Acted
  <2>3. Earns(r, past[s], users', members', bots', agentTokens')
    BY <1>1, <1>11, <2>1 DEF Earns, Earned, Stands, Consent, In, tables, Shaped, Calling
  <2>4. TablesInv'
    BY <2>1, TablesSame
  <2> HIDE DEF r
  <2> QED BY <2>1, <2>2, <2>3, <2>4, AsideStep DEF tables
<1> QED BY <1>3, <1>4, <1>5, <1>6, <1>7, <1>8, <1>9, <1>10, <1>11 DEF AgentRoutes,
                                                                      ConsentStep

-----------------------------------------------------------------------------
(* Steps of no request.                                                    *)
LEMMA StaySteps ==
    ASSUME TenancyInv, Observe, slot' = slot, DOMAIN links \subseteq DOMAIN links',
           DOMAIN invites \subseteq DOMAIN invites', TablesInv', LinkInv', InviteInv', regs' = regs
    PROVE  TenancyInv'
<1>1. CallersInv'
  BY CallersStay DEF TenancyInv
<1>2. RegInv'
  BY RegsStay DEF TenancyInv
<1> QED BY <1>1, <1>2 DEF TenancyInv

LEMMA SystemSteps ==
    ASSUME TenancyInv, Observe,
           \/ \E u \in People : EndSession(u) \/ GrantSuperadmin(u)
           \/ \E u \in People, t \in {"password_reset", "magic_link"} : SendLink(u, t)
           \/ \E l \in DOMAIN links : ExpireLink(l)
           \/ \E i \in DOMAIN invites : ExpireInvitation(i)
           \/ \E b \in Bots : ExpireToken(b)
    PROVE  TenancyInv'
<1>1. /\ CallersInv /\ TablesInv /\ LinkInv /\ InviteInv
      /\ shared \subseteq shared'
  BY Observed DEF TenancyInv
<1>2. ASSUME slot' = slot, links' = links PROVE LinkInv'
  BY <1>1, <1>2, LinksStay
<1>3. ASSUME slot' = slot, invites' = invites PROVE InviteInv'
  BY <1>1, <1>3, InvitesStay
<1>4. ASSUME NEW u \in People, EndSession(u) PROVE TenancyInv'
  <2>1. sessions' \in [People -> Counts]
    BY <1>1, <1>4, SessionsCounted DEF EndSession
  <2>2. TablesInv'
    BY <1>1, <1>4, <2>1 DEF EndSession, TablesInv
  <2> QED BY <1>2, <1>3, <1>4, <2>2, StaySteps DEF EndSession
<1>5. ASSUME NEW u \in People, GrantSuperadmin(u) PROVE TenancyInv'
  <2>1. users' \in [People -> UserRows]
    BY <1>1, <1>5, UserChanged DEF GrantSuperadmin
  <2>2. TablesInv'
    BY <1>1, <1>5, <2>1 DEF GrantSuperadmin, TablesInv
  <2> QED BY <1>2, <1>3, <1>5, <2>2, StaySteps DEF GrantSuperadmin
<1>6. ASSUME NEW b \in Bots, ExpireToken(b) PROVE TenancyInv'
  <2>1. agentTokens' \in [Bots -> Counts]
    BY <1>1, <1>6, TokensCounted DEF ExpireToken
  <2>2. TablesInv'
    BY <1>1, <1>6, <2>1 DEF ExpireToken, TablesInv
  <2> QED BY <1>2, <1>3, <1>6, <2>2, StaySteps DEF ExpireToken
<1>7. ASSUME NEW u \in People, NEW t \in {"password_reset", "magic_link"}, SendLink(u, t)
      PROVE  TenancyInv'
  <2> DEFINE row == [user |-> u, type |-> t, used |-> FALSE,
                     expired |-> FALSE, opened |-> 0, lost |-> FALSE]
  <2>1. links \in Seq(LinkRows) /\ row \in LinkRows /\ row.opened = 0
    BY <1>1 DEF TablesInv, LinkRows
  <2>2. links' = Append(links, row) /\ slot' = slot
    BY <1>7 DEF SendLink
  <2> HIDE DEF row
  <2>3. PICK n : n = Len(links) + 1
    OBVIOUS
  <2>4. /\ links' \in Seq(LinkRows)
        /\ DOMAIN links' = DOMAIN links \cup {n} /\ n \notin DOMAIN links
        /\ \A l \in DOMAIN links : links'[l] = links[l]
        /\ links'[n] = row
    BY <2>1, <2>2, <2>3
  <2>5. \A s \in Slots : ~HoldsLink(s, n)
    BY <1>1, <2>4 DEF CallersInv, Shaped, HoldsLink
  <2>6. \A s \in Slots : \A l : HoldsLink(s, l)' <=> HoldsLink(s, l)
    BY <2>2 DEF HoldsLink
  <2>7. ASSUME NEW l \in DOMAIN links PROVE LinkOK(l)'
    BY <1>1, <2>2, <2>4, <2>6, LinkKept DEF LinkInv
  <2>8. LinkOK(n)'
    BY <2>1, <2>4, <2>5, <2>6 DEF LinkOK
  <2>10. TablesInv'
    BY <1>1, <1>7, <2>4 DEF SendLink, TablesInv
  <2>9. LinkInv'
    BY <2>4, <2>7, <2>8 DEF LinkInv
  <2> QED BY <1>3, <1>7, <2>4, <2>9, <2>10, StaySteps DEF SendLink
<1>8. ASSUME NEW l \in DOMAIN links, ExpireLink(l) PROVE TenancyInv'
  <2> DEFINE row == [links[l] EXCEPT !.expired = TRUE]
  <2>1. links[l] \in LinkRows
    BY <1>1, <1>8 DEF TablesInv
  <2>2. /\ row \in LinkRows /\ row.lost = links[l].lost /\ row.used = links[l].used
        /\ row.opened = links[l].opened
    BY <2>1 DEF LinkRows
  <2>3. links' = [links EXCEPT ![l] = row] /\ slot' = slot
    BY <1>8 DEF ExpireLink
  <2> HIDE DEF row
  <2>4. /\ links' \in Seq(LinkRows) /\ DOMAIN links' = DOMAIN links /\ links'[l] = row
        /\ \A k \in DOMAIN links : k # l => links'[k] = links[k]
    BY <1>1, <1>8, <2>2, <2>3, LinkChanged
  <2>5. TablesInv'
    BY <1>1, <1>8, <2>4 DEF ExpireLink, TablesInv
  <2>6. \A s \in Slots : \A k : HoldsLink(s, k)' <=> HoldsLink(s, k)
    BY <2>3 DEF HoldsLink
  <2>7. ASSUME NEW k \in DOMAIN links PROVE LinkOK(k)'
    <3>1. /\ links'[k].lost = links[k].lost /\ links'[k].opened = links[k].opened
          /\ links'[k].used = links[k].used
      BY <2>2, <2>4
    <3> QED BY <1>1, <2>3, <2>6, <3>1, LinkKept DEF LinkInv
  <2>8. LinkInv'
    BY <2>4, <2>7 DEF LinkInv
  <2> QED BY <1>3, <1>8, <2>4, <2>5, <2>8, StaySteps DEF ExpireLink
<1>9. ASSUME NEW i \in DOMAIN invites, ExpireInvitation(i) PROVE TenancyInv'
  <2> DEFINE row == [invites[i] EXCEPT !.expired = TRUE]
  <2>1. invites[i] \in InviteRows
    BY <1>1, <1>9 DEF TablesInv
  <2>2. /\ row \in InviteRows /\ row.lost = invites[i].lost /\ row.status = invites[i].status
        /\ row.opened = invites[i].opened
    BY <2>1 DEF InviteRows
  <2>3. invites' = [invites EXCEPT ![i] = row] /\ slot' = slot
    BY <1>9 DEF ExpireInvitation
  <2> HIDE DEF row
  <2>4. /\ invites' \in Seq(InviteRows) /\ DOMAIN invites' = DOMAIN invites /\ invites'[i] = row
        /\ \A k \in DOMAIN invites : k # i => invites'[k] = invites[k]
    BY <1>1, <1>9, <2>2, <2>3, InviteChanged
  <2>5. TablesInv'
    BY <1>1, <1>9, <2>4 DEF ExpireInvitation, TablesInv
  <2>6. \A s \in Slots : \A k : HoldsInvite(s, k)' <=> HoldsInvite(s, k)
    BY <2>3 DEF HoldsInvite
  <2>7. ASSUME NEW k \in DOMAIN invites PROVE InviteOK(k)'
    <3>1. /\ invites'[k].lost = invites[k].lost /\ invites'[k].opened = invites[k].opened
          /\ invites'[k].status = invites[k].status
      BY <2>2, <2>4
    <3> QED BY <1>1, <2>3, <2>6, <3>1, InviteKept DEF InviteInv
  <2>8. InviteInv'
    BY <2>4, <2>7 DEF InviteInv
  <2> QED BY <1>2, <1>9, <2>4, <2>5, <2>8, StaySteps DEF ExpireInvitation
<1> QED BY <1>4, <1>5, <1>6, <1>7, <1>8, <1>9

-----------------------------------------------------------------------------
(* Steps of one request on a link.                                         *)
LEMMA OneMoves ==
    ASSUME CallersInv, NEW s \in Slots, NEW r, slot' = [slot EXCEPT ![s] = r]
    PROVE  /\ slot'[s] = r
           /\ \A t \in Slots : t # s => slot'[t] = slot[t]
           /\ \A t \in Slots : \A k : t # s => (HoldsLink(t, k)' <=> HoldsLink(t, k))
           /\ \A t \in Slots : \A k : t # s => (HoldsInvite(t, k)' <=> HoldsInvite(t, k))
<1>1. /\ slot'[s] = r
      /\ \A t \in Slots : t # s => slot'[t] = slot[t]
  BY DEF CallersInv
<1> QED BY <1>1 DEF HoldsLink, HoldsInvite

LEMMA NowShared ==
    ASSUME Observe, CallersInv, CallersInv', NEW s \in Slots, NEW t \in Slots, s # t
    PROVE  /\ \A l : HoldsLink(s, l)' /\ HoldsLink(t, l)' => <<"link", l>> \in shared'
           /\ \A i : HoldsInvite(s, i)' /\ HoldsInvite(t, i)' => <<"invite", i>> \in shared'
<1>1. Holds(slot'[s]) \cap Holds(slot'[t]) \subseteq shared'
  BY Observed
<1>2. ASSUME NEW u \in Slots, NEW l, HoldsLink(u, l)'
      PROVE  <<"link", l>> \in Holds(slot'[u])
  BY <1>2 DEF CallersInv, Shaped, HoldsLink, Holds
<1>3. ASSUME NEW u \in Slots, NEW i, HoldsInvite(u, i)'
      PROVE  <<"invite", i>> \in Holds(slot'[u])
  BY <1>3 DEF CallersInv, Shaped, HoldsInvite, Holds
<1> QED BY <1>1, <1>2, <1>3

LEMMA UsersStep ==
    ASSUME CallersInv, Observe, NEW s \in Slots, NEW r, slot' = [slot EXCEPT ![s] = r],
           DOMAIN links' = DOMAIN links, DOMAIN invites' = DOMAIN invites,
           Shaped(r, DOMAIN links, DOMAIN invites), "who" \notin DOMAIN r
    PROVE  CallersInv'
<1>1. Earns(r, past[s], users', members', bots', agentTokens')
  BY DEF Earns
<1> QED BY <1>1, CallersStep

(* What is left of a step on a link: the link itself.                      *)
LEMMA OneLink ==
    ASSUME TenancyInv, Observe, NEW s \in Slots, NEW r, NEW l \in DOMAIN links,
           slot' = [slot EXCEPT ![s] = r], UNCHANGED <<invites, regs>>, TablesInv',
           \A k \in DOMAIN links : k # l => links'[k] = links[k],
           DOMAIN links' = DOMAIN links,
           slot[s].pc \notin InviteStages \cup {"client"}, r.pc \notin InviteStages \cup {"client"},
           \A k : HoldsLink(s, k) => k = l,
           r.pc \in LinkStages => r.link = l,
           CallersInv', LinkOK(l)'
    PROVE  TenancyInv'
<1>1. CallersInv'
  OBVIOUS
<1>2. CallersInv /\ LinkInv /\ shared \subseteq shared'
  BY Observed DEF TenancyInv
<1>3. ASSUME NEW k \in DOMAIN links, k # l PROVE LinkOK(k)'
  <2>1. \A t \in Slots : /\ HoldsLink(t, k)' <=> HoldsLink(t, k)
                         /\ HoldsLink(t, k) => slot'[t].pc = slot[t].pc
    BY <1>2, <1>3, OneMoves DEF HoldsLink
  <2> QED BY <1>2, <1>3, <2>1, LinkKept DEF LinkInv
<1>4. LinkInv'
  BY <1>1, <1>3 DEF LinkInv
<1>5. InviteInv'
  <2>1. \A t \in Slots : \/ slot'[t] = slot[t]
                         \/ (slot[t].pc \notin InviteStages /\ slot'[t].pc \notin InviteStages)
    BY <1>2, OneMoves
  <2> QED BY <2>1, InvitesStay DEF TenancyInv
<1>6. RegInv'
  <2>1. \A t \in Slots : (slot'[t].pc = "client") <=> (slot[t].pc = "client")
    BY <1>2, OneMoves
  <2> QED BY <2>1, RegsStay DEF TenancyInv
<1> QED BY <1>1, <1>4, <1>5, <1>6 DEF TenancyInv

LEMMA LinkSteps ==
    ASSUME TenancyInv, Observe, NEW s \in Slots,
           \/ \E l \in DOMAIN links : ReadLink(s, l)
           \/ \E p \in Passwords : UpdateCredential(s, p)
           \/ MarkUsed(s)
    PROVE  TenancyInv'
<1>1. /\ CallersInv /\ TablesInv /\ LinkInv /\ Shaped(slot[s], DOMAIN links, DOMAIN invites)
      /\ shared \subseteq shared' /\ links \in Seq(LinkRows)
  BY Observed DEF TenancyInv, CallersInv, TablesInv
<1>2. ASSUME NEW l \in DOMAIN links, ReadLink(s, l) PROVE TenancyInv'
  <2> DEFINE r == [pc |-> links[l].type, link |-> l]
  <2>1. /\ slot' = [slot EXCEPT ![s] = r] /\ slot[s] = Free /\ UNCHANGED tables
        /\ ~links[l].used
    BY <1>2 DEF ReadLink, Goto, opens
  <2>2. r.pc \in {"password_reset", "magic_link"} /\ r.link = l /\ "who" \notin DOMAIN r /\ "link" \in DOMAIN r
    <3>1. links[l] \in LinkRows
      BY <1>1
    <3>2. links[l].type \in {"password_reset", "magic_link"}
      BY <3>1 DEF LinkRows
    <3> QED BY <3>2
  <2> HIDE DEF r
  <2>3. Shaped(r, DOMAIN links, DOMAIN invites)
    BY <2>2 DEF Shaped, LinkStages, InviteStages, Calling
  <2>8. slot'[s] = r
    BY <1>1, <2>1, OneMoves
  <2>4. /\ \A k : ~HoldsLink(s, k)
        /\ \A k : HoldsLink(s, k)' <=> (k = l)
        /\ slot[s].pc \notin InviteStages \cup {"client"}
        /\ r.pc \notin InviteStages \cup {"client"}
    BY <2>1, <2>2, <2>8 DEF HoldsLink, LinkStages, InviteStages, Free
  <2>7. CallersInv'
    BY <1>1, <2>1, <2>2, <2>3, UsersStep DEF tables
  <2>5. LinkOK(l)'
    <3>1. CASE \E t \in Slots : t # s /\ HoldsLink(t, l)
      <4>1. PICK t \in Slots : t # s /\ HoldsLink(t, l)
        BY <3>1
      <4>2. HoldsLink(t, l)' /\ HoldsLink(s, l)'
        BY <1>1, <2>1, <2>4, <4>1, OneMoves
      <4>3. <<"link", l>> \in shared'
        BY <1>1, <2>7, <4>1, <4>2, NowShared
      <4> QED BY <4>3 DEF LinkOK
    <3>2. CASE \A t \in Slots : ~HoldsLink(t, l)
      <4>1. LinkOK(l) /\ links' = links
        BY <1>1, <2>1 DEF LinkInv, tables
      <4>2. \A t \in Slots : HoldsLink(t, l)' <=> (t = s)
        BY <1>1, <2>1, <2>4, <3>2, OneMoves
      <4> QED BY <1>1, <2>1, <3>2, <4>1, <4>2 DEF LinkOK
    <3> QED BY <2>4, <3>1, <3>2
  <2>6. TablesInv'
    BY <2>1, TablesSame
  <2> QED BY <2>1, <2>2, <2>4, <2>5, <2>6, <2>7, OneLink DEF tables
<1>3. ASSUME NEW p \in Passwords, UpdateCredential(s, p) PROVE TenancyInv'
  <2> DEFINE l == slot[s].link
             u == links[l].user
             r == [pc |-> "mark", link |-> l]
             row == [links[l] EXCEPT !.opened = @ + 1]
  <2>1. /\ slot' = [slot EXCEPT ![s] = r] /\ slot[s].pc = "password_reset"
        /\ links' = [links EXCEPT ![l] = row] /\ UNCHANGED <<sessions, invites, members, bots, agentTokens, regs>>
        /\ users' = [users EXCEPT ![u].pw = IF @ = "none" THEN @ ELSE p]
    BY <1>3 DEF UpdateCredential, Goto, In
  <2>2. l \in DOMAIN links
    BY <1>1, <2>1 DEF Shaped, LinkStages
  <2>3. links[l] \in LinkRows
    BY <1>1, <2>2
  <2>4. /\ row \in LinkRows /\ row.opened = links[l].opened + 1 /\ row.used = links[l].used
        /\ row.lost = links[l].lost /\ u \in People
    BY <2>3 DEF LinkRows
  <2>5. r.pc = "mark" /\ r.link = l /\ "who" \notin DOMAIN r /\ "link" \in DOMAIN r
    OBVIOUS
  <2>6. users' \in [People -> UserRows]
    <3>1. users[u].pw \in Passwords \cup {"none"}
      BY <1>1, <2>4 DEF TablesInv, UserRows
    <3>2. users' = [users EXCEPT ![u].pw = IF users[u].pw = "none" THEN users[u].pw ELSE p]
      BY <2>1
    <3> QED BY <1>1, <2>4, <3>1, <3>2, UserChanged
  <2> HIDE DEF r, row, l, u
  <2>7. /\ links' \in Seq(LinkRows) /\ DOMAIN links' = DOMAIN links /\ links'[l] = row
        /\ \A k \in DOMAIN links : k # l => links'[k] = links[k]
    BY <1>1, <2>1, <2>2, <2>4, LinkChanged
  <2>8. TablesInv'
    BY <1>1, <2>1, <2>6, <2>7 DEF TablesInv
  <2>9. Shaped(r, DOMAIN links, DOMAIN invites)
    BY <2>2, <2>5 DEF Shaped, LinkStages, InviteStages, Calling
  <2>10. /\ \A k : HoldsLink(s, k) <=> (k = l)
         /\ \A k : HoldsLink(s, k)' <=> (k = l)
         /\ slot[s].pc \notin InviteStages \cup {"client"}
         /\ r.pc \notin InviteStages \cup {"client"}
    BY <1>1, <2>1, <2>5, OneMoves DEF HoldsLink, LinkStages, InviteStages, l
  <2>11. PICK k \in DOMAIN links : k = l
    BY <2>2
  <2>12. LinkOK(k)'
    <3>1. LinkOK(k)
      BY <1>1 DEF LinkInv
    <3>2. \A t \in Slots : HoldsLink(t, k)' <=> HoldsLink(t, k)
      BY <1>1, <2>1, <2>10, <2>11, OneMoves
    <3>3. slot'[s].pc = "mark" /\ HoldsLink(s, k)
      BY <1>1, <2>1, <2>5, <2>10, <2>11, OneMoves
    <3>4. links'[k].opened = links[k].opened + 1 /\ links'[k].lost = links[k].lost
      BY <2>4, <2>7, <2>11
    <3> QED BY <1>1, <2>1, <3>1, <3>2, <3>3, <3>4 DEF LinkOK
  <2>13. CallersInv'
    BY <1>1, <2>1, <2>5, <2>7, <2>9, UsersStep
  <2> QED BY <2>1, <2>5, <2>7, <2>8, <2>10, <2>11, <2>12, <2>13, OneLink
<1>4. CASE MarkUsed(s)
  <2> DEFINE l == slot[s].link
             r == AfterMark(s)
             n == IF slot[s].pc = "magic_link" THEN links[l].opened + 1 ELSE links[l].opened
             done == [links[l] EXCEPT !.used = TRUE, !.opened = n]
             failed == [links[l] EXCEPT !.lost = TRUE, !.opened = n]
  <2>1. PICK row \in {done, failed} : links' = [links EXCEPT ![l] = row]
    BY <1>4 DEF MarkUsed, In
  <2>2. /\ slot' = [slot EXCEPT ![s] = r] /\ slot[s].pc \in {"magic_link", "mark"}
        /\ UNCHANGED <<users, sessions, invites, members, bots, agentTokens, regs>>
    BY <1>4 DEF MarkUsed, Goto
  <2>3. l \in DOMAIN links
    BY <1>1, <2>2 DEF Shaped, LinkStages
  <2>4. links[l] \in LinkRows /\ links[l].opened \in Nat /\ n \in Nat
    <3>1. links[l] \in LinkRows
      BY <1>1, <2>3
    <3>2. links[l].opened \in Nat
      BY <3>1 DEF LinkRows
    <3> QED BY <3>1, <3>2
  <2>5. row \in LinkRows
    BY <2>1, <2>4 DEF LinkRows
  <2>6. row.opened = n /\ (row.lost = TRUE \/ (row.used = TRUE /\ row.lost = links[l].lost))
    BY <2>1, <2>4 DEF LinkRows
  <2>7. /\ r.pc \in {"end_sessions", "session"} /\ r.user \in People /\ "who" \notin DOMAIN r
    BY <2>4 DEF AfterMark, LinkRows
  <2> HIDE DEF r, l, n, done, failed
  <2>8. /\ links' \in Seq(LinkRows) /\ DOMAIN links' = DOMAIN links /\ links'[l] = row
        /\ \A k \in DOMAIN links : k # l => links'[k] = links[k]
    BY <1>1, <2>1, <2>3, <2>5, LinkChanged
  <2>9. TablesInv'
    BY <1>1, <2>2, <2>8 DEF TablesInv
  <2>10. Shaped(r, DOMAIN links, DOMAIN invites)
    BY <2>7 DEF Shaped, LinkStages, InviteStages, Calling
  <2>11. /\ \A k : HoldsLink(s, k) <=> (k = l)
         /\ \A k : ~(HoldsLink(s, k)')
         /\ slot[s].pc \notin InviteStages \cup {"client"}
         /\ r.pc \notin InviteStages \cup LinkStages \cup {"client"}
    BY <1>1, <2>2, <2>7, OneMoves DEF HoldsLink, LinkStages, InviteStages, l
  <2>12. PICK k \in DOMAIN links : k = l
    BY <2>3
  <2>13. LinkOK(k)'
    <3>1. LinkOK(k) /\ HoldsLink(s, k)
      BY <1>1, <2>11, <2>12 DEF LinkInv
    <3>2. \A t \in Slots : HoldsLink(t, k)' => HoldsLink(t, k) /\ t # s
      BY <1>1, <2>2, <2>11, <2>12, OneMoves
    <3>3. links'[k] = row
      BY <2>8, <2>12
    <3>4. CASE row.lost = TRUE
      BY <3>3, <3>4 DEF LinkOK
    <3>5. CASE links[k].lost \/ <<"link", k>> \in shared
      <4>1. CASE <<"link", k>> \in shared
        BY <1>1, <4>1 DEF LinkOK
      <4>2. CASE links[k].lost
        BY <2>6, <2>12, <3>3, <4>2 DEF LinkOK
      <4> QED BY <3>5, <4>1, <4>2
    <3>6. CASE row.used = TRUE /\ ~links[k].lost /\ <<"link", k>> \notin shared
      <4>1. \A t \in Slots : ~(HoldsLink(t, k)')
        BY <3>1, <3>2, <3>6 DEF LinkOK
      <4>2. links[k].opened <= 1 /\ (slot[s].pc = "magic_link" => links[k].opened = 0)
        BY <2>2, <3>1, <3>6 DEF LinkOK
      <4>3. links'[k].opened <= 1
        BY <2>4, <2>6, <2>12, <3>3, <4>2 DEF n
      <4> QED BY <3>3, <3>6, <4>1, <4>3 DEF LinkOK
    <3> QED BY <2>6, <3>4, <3>5, <3>6
  <2>14. CallersInv'
    BY <1>1, <2>2, <2>7, <2>8, <2>10, UsersStep
  <2> QED BY <2>2, <2>7, <2>8, <2>9, <2>11, <2>12, <2>13, <2>14, OneLink
<1> QED BY <1>2, <1>3, <1>4

-----------------------------------------------------------------------------
(* Steps of one request on an invitation.                                  *)
LEMMA OneInvite ==
    ASSUME TenancyInv, Observe, NEW s \in Slots, NEW r, NEW i \in DOMAIN invites,
           slot' = [slot EXCEPT ![s] = r], UNCHANGED <<links, regs>>, TablesInv',
           \A k \in DOMAIN invites : k # i => invites'[k] = invites[k],
           DOMAIN invites' = DOMAIN invites,
           slot[s].pc \notin LinkStages \cup {"client"}, r.pc \notin LinkStages \cup {"client"},
           \A k : HoldsInvite(s, k) => k = i,
           r.pc \in InviteStages => r.invite = i,
           CallersInv', InviteOK(i)'
    PROVE  TenancyInv'
<1>1. CallersInv'
  OBVIOUS
<1>2. CallersInv /\ InviteInv /\ shared \subseteq shared'
  BY Observed DEF TenancyInv
<1>3. ASSUME NEW k \in DOMAIN invites, k # i PROVE InviteOK(k)'
  <2>1. \A t \in Slots : /\ HoldsInvite(t, k)' <=> HoldsInvite(t, k)
                         /\ HoldsInvite(t, k) => slot'[t].pc = slot[t].pc
    BY <1>2, <1>3, OneMoves DEF HoldsInvite
  <2> QED BY <1>2, <1>3, <2>1, InviteKept DEF InviteInv
<1>4. InviteInv'
  BY <1>1, <1>3 DEF InviteInv
<1>5. LinkInv'
  <2>1. \A t \in Slots : \/ slot'[t] = slot[t]
                         \/ (slot[t].pc \notin LinkStages /\ slot'[t].pc \notin LinkStages)
    BY <1>2, OneMoves
  <2> QED BY <2>1, LinksStay DEF TenancyInv
<1>6. RegInv'
  <2>1. \A t \in Slots : (slot'[t].pc = "client") <=> (slot[t].pc = "client")
    BY <1>2, OneMoves
  <2> QED BY <2>1, RegsStay DEF TenancyInv
<1> QED BY <1>1, <1>4, <1>5, <1>6 DEF TenancyInv

LEMMA InviteSteps ==
    ASSUME TenancyInv, Observe, NEW s \in Slots, AcceptStep(s)
    PROVE  TenancyInv'
<1>1. /\ CallersInv /\ TablesInv /\ InviteInv /\ Shaped(slot[s], DOMAIN links, DOMAIN invites)
      /\ shared \subseteq shared' /\ invites \in Seq(InviteRows)
  BY Observed DEF TenancyInv, CallersInv, TablesInv
<1>2. ASSUME NEW u \in People, NEW i \in DOMAIN invites, ReadInvitation(s, u, i)
      PROVE  TenancyInv'
  <2>1. slot[s] = Free /\ invites[i].status = "pending" /\ invites[i] \in InviteRows
    BY <1>1, <1>2 DEF ReadInvitation, Pending
  <2>2. CASE invites[i].expired
    <3> DEFINE row == [invites[i] EXCEPT !.status = "expired"]
    <3>1. /\ invites' = [invites EXCEPT ![i] = row] /\ slot' = slot
          /\ UNCHANGED <<users, sessions, links, members, bots, agentTokens, regs>>
      BY <1>2, <2>2 DEF ReadInvitation
    <3>2. /\ row \in InviteRows /\ row.lost = invites[i].lost /\ row.opened = invites[i].opened
          /\ row.status = "expired"
      BY <2>1 DEF InviteRows
    <3> HIDE DEF row
    <3>3. /\ invites' \in Seq(InviteRows) /\ DOMAIN invites' = DOMAIN invites /\ invites'[i] = row
          /\ \A k \in DOMAIN invites : k # i => invites'[k] = invites[k]
      BY <1>1, <1>2, <3>1, <3>2, InviteChanged
    <3>4. TablesInv'
      BY <1>1, <3>1, <3>3 DEF TablesInv
    <3>5. \A t \in Slots : \A k : HoldsInvite(t, k)' <=> HoldsInvite(t, k)
      BY <3>1 DEF HoldsInvite
    <3>6. ASSUME NEW k \in DOMAIN invites PROVE InviteOK(k)'
      <4>1. InviteOK(k)
        BY <1>1 DEF InviteInv
      <4>2. CASE k = i
        BY <1>1, <3>1, <3>2, <3>3, <3>5, <4>1, <4>2 DEF InviteOK
      <4>3. CASE k # i
        BY <1>1, <3>1, <3>3, <3>5, <4>1, <4>3, InviteKept
      <4> QED BY <4>2, <4>3
    <3>7. InviteInv'
      BY <3>3, <3>6 DEF InviteInv
    <3>8. LinkInv'
      BY <1>1, <3>1, LinksStay DEF TenancyInv
    <3> QED BY <3>1, <3>3, <3>4, <3>7, <3>8, StaySteps
  <2>3. CASE ~invites[i].expired
    <3> DEFINE r == [pc |-> "join", joins |-> u, invite |-> i]
    <3>1. slot' = [slot EXCEPT ![s] = r] /\ UNCHANGED tables
      BY <1>2, <2>3 DEF ReadInvitation, Goto
    <3>2. /\ r.pc = "join" /\ r.invite = i /\ "who" \notin DOMAIN r
          /\ Shaped(r, DOMAIN links, DOMAIN invites)
      BY DEF Shaped, LinkStages, InviteStages, Calling
    <3> HIDE DEF r
    <3>3. slot'[s] = r
      BY <1>1, <3>1, OneMoves
    <3>4. /\ \A k : ~HoldsInvite(s, k)
          /\ \A k : HoldsInvite(s, k)' <=> (k = i)
          /\ slot[s].pc \notin LinkStages \cup {"client"}
          /\ r.pc \notin LinkStages \cup {"client"}
      BY <2>1, <3>2, <3>3 DEF HoldsInvite, LinkStages, InviteStages, Free
    <3>5. CallersInv'
      BY <1>1, <3>1, <3>2, UsersStep DEF tables
    <3>6. InviteOK(i)'
      <4>1. CASE \E t \in Slots : t # s /\ HoldsInvite(t, i)
        <5>1. PICK t \in Slots : t # s /\ HoldsInvite(t, i)
          BY <4>1
        <5>2. HoldsInvite(t, i)' /\ HoldsInvite(s, i)'
          BY <1>1, <3>1, <3>4, <5>1, OneMoves
        <5>3. <<"invite", i>> \in shared'
          BY <1>1, <3>5, <5>1, <5>2, NowShared
        <5> QED BY <5>3 DEF InviteOK
      <4>2. CASE \A t \in Slots : ~HoldsInvite(t, i)
        <5>1. InviteOK(i) /\ invites' = invites
          BY <1>1, <3>1 DEF InviteInv, tables
        <5>2. \A t \in Slots : HoldsInvite(t, i)' <=> (t = s)
          BY <1>1, <3>1, <3>4, <4>2, OneMoves
        <5> QED BY <1>1, <2>1, <4>2, <5>1, <5>2 DEF InviteOK
      <4> QED BY <3>4, <4>1, <4>2
    <3>7. TablesInv'
      BY <3>1, TablesSame
    <3> QED BY <3>1, <3>2, <3>4, <3>5, <3>6, <3>7, OneInvite DEF tables
  <2> QED BY <2>2, <2>3
<1>3. CASE AddMember(s)
  <2> DEFINE u == slot[s].joins
             i == slot[s].invite
  <2>1. slot[s].pc = "join" /\ u \in People /\ i \in DOMAIN invites
    BY <1>1, <1>3 DEF AddMember, In, Shaped, InviteStages
  <2>2. invites[i] \in InviteRows
    BY <1>1, <2>1
  <2>3. PICK k \in DOMAIN invites : k = i
    BY <2>1
  <2>4. /\ \A j : HoldsInvite(s, j) <=> (j = k)
        /\ slot[s].pc \notin LinkStages \cup {"client"}
    BY <2>1, <2>3 DEF HoldsInvite, LinkStages, InviteStages
  <2>5. CASE members[u][invites[i].org] = "none"
    <3> DEFINE r == [pc |-> "accept", invite |-> i]
               row == [invites[i] EXCEPT !.opened = @ + 1]
    <3>1. /\ slot' = [slot EXCEPT ![s] = r] /\ invites' = [invites EXCEPT ![i] = row]
          /\ members' = [members EXCEPT ![u][invites[i].org] = invites[i].role]
          /\ UNCHANGED <<users, sessions, links, bots, agentTokens, regs>>
      BY <1>3, <2>5 DEF AddMember, Goto
    <3>2. /\ r.pc = "accept" /\ r.invite = k /\ "who" \notin DOMAIN r
          /\ Shaped(r, DOMAIN links, DOMAIN invites)
      BY <2>1, <2>3 DEF Shaped, LinkStages, InviteStages, Calling
    <3>3. /\ row \in InviteRows /\ row.opened = invites[k].opened + 1 /\ row.lost = invites[k].lost
          /\ invites[k].opened \in Nat
      BY <2>2, <2>3 DEF InviteRows
    <3>4. members' \in [People -> MemberRows]
      <4>1. invites[i].org \in Companies /\ invites[i].role \in Roles \cup {"none"}
        BY <2>2 DEF InviteRows
      <4> QED BY <1>1, <2>1, <3>1, <4>1, MemberChanged
    <3> HIDE DEF r, row, i, u
    <3>5. /\ invites' \in Seq(InviteRows) /\ DOMAIN invites' = DOMAIN invites /\ invites'[k] = row
          /\ \A j \in DOMAIN invites : j # k => invites'[j] = invites[j]
      BY <1>1, <2>3, <3>1, <3>3, InviteChanged
    <3>6. TablesInv'
      BY <1>1, <3>1, <3>4, <3>5 DEF TablesInv
    <3>7. slot'[s] = r /\ r.pc \notin LinkStages \cup {"client"}
      BY <1>1, <3>1, <3>2, OneMoves DEF LinkStages
    <3>8. \A j : HoldsInvite(s, j)' <=> (j = k)
      BY <3>2, <3>7 DEF HoldsInvite, InviteStages
    <3>9. CallersInv'
      BY <1>1, <3>1, <3>2, <3>5, UsersStep
    <3>10. InviteOK(k)'
      <4>1. InviteOK(k)
        BY <1>1 DEF InviteInv
      <4>2. \A t \in Slots : HoldsInvite(t, k)' <=> HoldsInvite(t, k)
        BY <1>1, <2>4, <3>1, <3>8, OneMoves
      <4>3. slot'[s].pc = "accept" /\ HoldsInvite(s, k)
        BY <2>4, <3>2, <3>7
      <4> QED BY <1>1, <2>1, <3>3, <3>5, <4>1, <4>2, <4>3 DEF InviteOK
    <3> QED BY <2>4, <3>1, <3>2, <3>5, <3>6, <3>7, <3>9, <3>10, OneInvite
  <2>6. CASE members[u][invites[i].org] # "none"
    <3>1. slot' = [slot EXCEPT ![s] = Free] /\ UNCHANGED tables
      BY <1>3, <2>6 DEF AddMember, Goto
    <3>2. /\ Free.pc = "free" /\ "who" \notin DOMAIN Free
          /\ Shaped(Free, DOMAIN links, DOMAIN invites)
      BY DEF Free, Shaped, LinkStages, InviteStages, Calling
    <3>3. slot'[s] = Free
      BY <1>1, <3>1, OneMoves
    <3>4. /\ \A j : ~(HoldsInvite(s, j)')
          /\ Free.pc \notin LinkStages \cup InviteStages \cup {"client"}
      BY <3>2, <3>3 DEF HoldsInvite, InviteStages, LinkStages
    <3>5. CallersInv'
      BY <1>1, <3>1, <3>2, UsersStep DEF tables
    <3>6. InviteOK(k)'
      <4>1. InviteOK(k) /\ invites' = invites
        BY <1>1, <3>1 DEF InviteInv, tables
      <4>2. \A t \in Slots : HoldsInvite(t, k)' => HoldsInvite(t, k) /\ t # s
        BY <1>1, <2>4, <3>1, <3>4, OneMoves
      <4> QED BY <1>1, <2>1, <2>4, <4>1, <4>2 DEF InviteOK
    <3>7. TablesInv'
      BY <3>1, TablesSame
    <3> HIDE DEF i, u
    <3> QED BY <2>4, <3>1, <3>4, <3>5, <3>6, <3>7, OneInvite DEF tables
  <2> QED BY <2>5, <2>6
<1>4. CASE MarkAccepted(s)
  <2> DEFINE i == slot[s].invite
             done == [invites[i] EXCEPT !.status = "accepted"]
             failed == [invites[i] EXCEPT !.lost = TRUE]
  <2>1. PICK row \in {done, failed} : invites' = [invites EXCEPT ![i] = row]
    BY <1>4 DEF MarkAccepted
  <2>2. /\ slot' = [slot EXCEPT ![s] = Free] /\ slot[s].pc = "accept"
        /\ UNCHANGED <<users, sessions, links, members, bots, agentTokens, regs>>
    BY <1>4 DEF MarkAccepted, Goto, In
  <2>3. i \in DOMAIN invites
    BY <1>1, <2>2 DEF Shaped, InviteStages
  <2>4. PICK k \in DOMAIN invites : k = i
    BY <2>3
  <2>5. invites[k] \in InviteRows
    BY <1>1
  <2>6. row \in InviteRows /\ row.opened = invites[k].opened
    BY <2>1, <2>4, <2>5 DEF InviteRows
  <2>7. row.lost = TRUE \/ (row.status = "accepted" /\ row.lost = invites[k].lost)
    BY <2>1, <2>4, <2>5 DEF InviteRows
  <2>8. /\ Free.pc = "free" /\ "who" \notin DOMAIN Free
        /\ Shaped(Free, DOMAIN links, DOMAIN invites)
    BY DEF Free, Shaped, LinkStages, InviteStages, Calling
  <2>9. /\ \A j : HoldsInvite(s, j) <=> (j = k)
        /\ slot[s].pc \notin LinkStages \cup {"client"}
    BY <2>2, <2>4 DEF HoldsInvite, LinkStages, InviteStages
  <2> HIDE DEF i, done, failed
  <2>10. /\ invites' \in Seq(InviteRows) /\ DOMAIN invites' = DOMAIN invites /\ invites'[k] = row
         /\ \A j \in DOMAIN invites : j # k => invites'[j] = invites[j]
    BY <1>1, <2>1, <2>4, <2>6, InviteChanged
  <2>11. TablesInv'
    BY <1>1, <2>2, <2>10 DEF TablesInv
  <2>12. slot'[s] = Free
    BY <1>1, <2>2, OneMoves
  <2>13. /\ \A j : ~(HoldsInvite(s, j)')
         /\ Free.pc \notin LinkStages \cup InviteStages \cup {"client"}
    BY <2>8, <2>12 DEF HoldsInvite, InviteStages, LinkStages
  <2>14. CallersInv'
    BY <1>1, <2>2, <2>8, <2>10, UsersStep
  <2>15. InviteOK(k)'
    <3>1. InviteOK(k) /\ HoldsInvite(s, k)
      BY <1>1, <2>9 DEF InviteInv
    <3>2. \A t \in Slots : HoldsInvite(t, k)' => HoldsInvite(t, k) /\ t # s
      BY <1>1, <2>2, <2>13, OneMoves
    <3>3. CASE row.lost = TRUE
      BY <2>10, <3>3 DEF InviteOK
    <3>4. CASE <<"invite", k>> \in shared
      BY <1>1, <3>4 DEF InviteOK
    <3>5. CASE invites[k].lost /\ row.lost = invites[k].lost
      BY <2>10, <3>5 DEF InviteOK
    <3>6. CASE row.status = "accepted" /\ ~invites[k].lost /\ <<"invite", k>> \notin shared
      <4>1. \A t \in Slots : ~(HoldsInvite(t, k)')
        BY <3>1, <3>2, <3>6 DEF InviteOK
      <4>2. invites[k].opened <= 1
        BY <3>1, <3>6 DEF InviteOK
      <4> QED BY <2>6, <2>10, <3>6, <4>1, <4>2 DEF InviteOK
    <3> QED BY <2>7, <3>3, <3>4, <3>5, <3>6
  <2> QED BY <2>2, <2>9, <2>10, <2>11, <2>13, <2>14, <2>15, OneInvite
<1> QED BY <1>2, <1>3, <1>4 DEF AcceptStep

LEMMA InvitationSteps ==
    ASSUME TenancyInv, Observe, NEW s \in Slots, InvitationRoutes(s)
    PROVE  TenancyInv'
<1> DEFINE r == [pc |-> "done", who |-> slot[s].who, needs |-> {AsSuper}]
<1>1. /\ CallersInv /\ TablesInv /\ InviteInv /\ Shaped(slot[s], DOMAIN links, DOMAIN invites)
      /\ Earned(slot[s], past[s]) /\ shared \subseteq shared' /\ invites \in Seq(InviteRows)
  BY Observed DEF TenancyInv, CallersInv, TablesInv
<1>2. /\ SuperCaller(s) /\ slot' = [slot EXCEPT ![s] = r]
      /\ UNCHANGED <<users, sessions, links, members, bots, agentTokens, regs>>
  BY DEF InvitationRoutes, CreateInvitation, RevokeInvitation, Acted, Goto
<1>3. Earns(r, past[s], users', members', bots', agentTokens')
  BY <1>1, <1>2 DEF Earns, Earned, SuperCaller, AsSuper, In
<1>4. \A I : Shaped(r, DOMAIN links, I)
  BY <1>1, <1>2 DEF Shaped, LinkStages, InviteStages, Calling, SuperCaller, In
<1>5. /\ r.pc \notin LinkStages \cup InviteStages \cup {"client"}
      /\ slot[s].pc \notin LinkStages \cup InviteStages \cup {"client"}
  BY <1>2 DEF LinkStages, InviteStages, SuperCaller, In
<1> HIDE DEF r
<1>6. slot'[s] = r
  BY <1>1, <1>2, OneMoves
<1>7. /\ \A k : ~HoldsInvite(s, k) /\ ~(HoldsInvite(s, k)')
      /\ \A t \in Slots : \A k : HoldsInvite(t, k)' <=> HoldsInvite(t, k)
      /\ \A t \in Slots : \A k : HoldsInvite(t, k) => slot'[t].pc = slot[t].pc
  <2>1. \A k : ~HoldsInvite(s, k) /\ ~(HoldsInvite(s, k)')
    BY <1>5, <1>6 DEF HoldsInvite
  <2> QED BY <1>1, <1>2, <2>1, OneMoves
<1>8. ASSUME NEW i \in DOMAIN invites, RevokeInvitation(s, i) PROVE TenancyInv'
  <2> DEFINE row == [invites[i] EXCEPT !.status = "revoked"]
  <2>1. invites[i] \in InviteRows
    BY <1>1, <1>8
  <2>2. /\ row \in InviteRows /\ row.lost = invites[i].lost /\ row.opened = invites[i].opened
        /\ row.status = "revoked"
    BY <2>1 DEF InviteRows
  <2>3. invites' = [invites EXCEPT ![i] = row]
    BY <1>8 DEF RevokeInvitation
  <2> HIDE DEF row
  <2>4. /\ invites' \in Seq(InviteRows) /\ DOMAIN invites' = DOMAIN invites /\ invites'[i] = row
        /\ \A j \in DOMAIN invites : j # i => invites'[j] = invites[j]
    BY <1>1, <1>8, <2>2, <2>3, InviteChanged
  <2>5. TablesInv'
    BY <1>1, <1>2, <2>4 DEF TablesInv
  <2>6. CallersInv'
    BY <1>1, <1>2, <1>3, <1>4, <2>4, CallersStep
  <2>7. InviteOK(i)'
    <3>1. InviteOK(i)
      BY <1>1 DEF InviteInv
    <3> QED BY <1>1, <1>7, <2>2, <2>4, <3>1 DEF InviteOK
  <2> QED BY <1>2, <1>5, <1>7, <2>4, <2>5, <2>6, <2>7, OneInvite
<1>9. ASSUME NEW o \in Companies, NEW role \in RoleInputs, CreateInvitation(s, o, role)
      PROVE  TenancyInv'
  <2> DEFINE row == Invitation(o, role)
  <2>1. row \in InviteRows /\ row.opened = 0 /\ invites' = Append(invites, row)
    BY <1>9, AccountsAssumption DEF Invitation, InviteRows, Roles, CreateInvitation
  <2>2. PICK n : n = Len(invites) + 1
    OBVIOUS
  <2> HIDE DEF row
  <2>3. /\ invites' \in Seq(InviteRows)
        /\ DOMAIN invites' = DOMAIN invites \cup {n} /\ n \notin DOMAIN invites
        /\ \A i \in DOMAIN invites : invites'[i] = invites[i]
        /\ invites'[n] = row
    BY <1>1, <2>1, <2>2
  <2>4. TablesInv'
    BY <1>1, <1>2, <2>3 DEF TablesInv
  <2>5. CallersInv'
    BY <1>1, <1>2, <1>3, <1>4, <2>3, CallersStep
  <2>6. \A t \in Slots : ~HoldsInvite(t, n)
    BY <1>1, <2>3 DEF CallersInv, Shaped, HoldsInvite
  <2>7. ASSUME NEW i \in DOMAIN invites PROVE InviteOK(i)'
    BY <1>1, <1>7, <2>3, InviteKept DEF InviteInv
  <2>8. InviteOK(n)'
    BY <1>7, <2>1, <2>3, <2>6 DEF InviteOK
  <2>9. InviteInv'
    BY <2>3, <2>7, <2>8 DEF InviteInv
  <2>10. LinkInv'
    <3>1. \A t \in Slots : \/ slot'[t] = slot[t]
                           \/ (slot[t].pc \notin LinkStages /\ slot'[t].pc \notin LinkStages)
      BY <1>1, <1>2, <1>5, OneMoves
    <3> QED BY <1>1, <1>2, <3>1, LinksStay DEF TenancyInv
  <2>11. RegInv'
    <3>1. \A t \in Slots : (slot'[t].pc = "client") <=> (slot[t].pc = "client")
      BY <1>1, <1>2, <1>5, OneMoves
    <3> QED BY <1>2, <3>1, RegsStay DEF TenancyInv
  <2> QED BY <2>4, <2>5, <2>9, <2>10, <2>11 DEF TenancyInv
<1> QED BY <1>8, <1>9 DEF InvitationRoutes

LEMMA RegSteps ==
    ASSUME TenancyInv, Observe, NEW s \in Slots, Register(s) \/ CreateClient(s)
    PROVE  TenancyInv'
<1>1. /\ CallersInv /\ TablesInv /\ RegInv /\ regs \in [uses : Nat, clients : Nat]
      /\ Shaped(slot[s], DOMAIN links, DOMAIN invites)
  BY DEF TenancyInv, TablesInv, CallersInv
<1>2. PICK r \in {Free, [pc |-> "client"]} :
         /\ slot' = [slot EXCEPT ![s] = r]
         /\ slot[s].pc = (IF r = Free THEN "client" ELSE "free")
         /\ UNCHANGED <<users, sessions, links, invites, members, bots, agentTokens>>
  BY DEF Register, CreateClient, Goto, In, Free
<1>3. /\ r.pc \in {"free", "client"} /\ (r = Free <=> r.pc = "free") /\ "who" \notin DOMAIN r
  BY DEF Free
<1>4. Shaped(r, DOMAIN links, DOMAIN invites)
  BY <1>3 DEF Shaped, LinkStages, InviteStages, Calling
<1>5. CallersInv'
  BY <1>1, <1>2, <1>3, <1>4, UsersStep
<1>6. r.pc \notin LinkStages \cup InviteStages /\ slot[s].pc \notin LinkStages \cup InviteStages
  BY <1>2, <1>3 DEF LinkStages, InviteStages
<1>7. LinkInv'
  <2>1. \A t \in Slots : \/ slot'[t] = slot[t]
                         \/ (slot[t].pc \notin LinkStages /\ slot'[t].pc \notin LinkStages)
    BY <1>1, <1>2, <1>6, OneMoves
  <2> QED BY <1>1, <1>2, <2>1, LinksStay DEF TenancyInv
<1>8. InviteInv'
  <2>1. \A t \in Slots : \/ slot'[t] = slot[t]
                         \/ (slot[t].pc \notin InviteStages /\ slot'[t].pc \notin InviteStages)
    BY <1>1, <1>2, <1>6, OneMoves
  <2> QED BY <1>1, <1>2, <2>1, InvitesStay DEF TenancyInv
<1>9. slot'[s] = r /\ \A t \in Slots : t # s => slot'[t] = slot[t]
  BY <1>1, <1>2, OneMoves
<1>10. /\ regs.uses \in Nat /\ regs.clients \in Nat /\ MaxRegUses \in Nat
       /\ IsFiniteSet(Claiming) /\ Cardinality(Claiming) \in Nat
       /\ Cardinality(Claiming) + regs.clients <= regs.uses /\ regs.uses <= MaxRegUses
  BY <1>1, AccountsAssumption, FS_CardinalityType DEF RegInv
<1>11. CASE r # Free
  <2>1. regs' = [regs EXCEPT !.uses = @ + 1] /\ regs.uses < MaxRegUses
    <3>1. Register(s)
      BY <1>2, <1>3, <1>11 DEF CreateClient, In
    <3> QED BY <3>1 DEF Register, Claimable
  <2>2. /\ regs'.uses = regs.uses + 1 /\ regs'.clients = regs.clients
        /\ regs' \in [uses : Nat, clients : Nat]
    BY <1>1, <2>1
  <2>3. Claiming' = Claiming \cup {s} /\ s \notin Claiming
    BY <1>2, <1>3, <1>9, <1>11 DEF Claiming
  <2>4. IsFiniteSet(Claiming') /\ Cardinality(Claiming') = Cardinality(Claiming) + 1
    BY <1>10, <2>3, FS_AddElement
  <2>5. RegInv'
    BY <1>10, <2>1, <2>2, <2>4 DEF RegInv
  <2>6. TablesInv'
    BY <1>1, <1>2, <2>2 DEF TablesInv
  <2> QED BY <1>5, <1>7, <1>8, <2>5, <2>6 DEF TenancyInv
<1>12. CASE r = Free
  <2>1. regs' = regs \/ regs' = [regs EXCEPT !.clients = @ + 1]
    <3>1. CreateClient(s)
      BY <1>2, <1>3, <1>12 DEF Register, Free
    <3> QED BY <3>1 DEF CreateClient
  <2>2. /\ regs'.uses = regs.uses /\ regs'.clients \in {regs.clients, regs.clients + 1}
        /\ regs' \in [uses : Nat, clients : Nat]
    BY <1>1, <2>1
  <2>3. Claiming' = Claiming \ {s} /\ s \in Claiming
    BY <1>2, <1>3, <1>9, <1>12 DEF Claiming
  <2>4. IsFiniteSet(Claiming') /\ Cardinality(Claiming') = Cardinality(Claiming) - 1
    BY <1>10, <2>3, FS_RemoveElement
  <2>5. RegInv'
    BY <1>10, <2>2, <2>4 DEF RegInv
  <2>6. TablesInv'
    BY <1>1, <1>2, <2>2 DEF TablesInv
  <2> QED BY <1>5, <1>7, <1>8, <2>5, <2>6 DEF TenancyInv
<1> QED BY <1>11, <1>12

LEMMA TenancyStart == AccountInit \/ TenantInit => TenancyInv
<1>1. ASSUME slot = [s \in Slots |-> Free], past = [s \in Slots |-> {}], links = << >>
      PROVE  CallersInv
  BY <1>1 DEF CallersInv, Shaped, Earned, Free, LinkStages, InviteStages, Calling
<1>2. ASSUME slot = [s \in Slots |-> Free], links = << >>, regs = [uses |-> 0, clients |-> 0],
             \A i \in DOMAIN invites : invites[i].opened = 0
      PROVE  LinkInv /\ InviteInv /\ RegInv
  <2>1. \A s \in Slots : \A i : ~HoldsInvite(s, i)
    BY <1>2 DEF HoldsInvite, InviteStages, Free
  <2>2. InviteInv
    BY <1>2, <2>1 DEF InviteInv, InviteOK
  <2>3. Claiming = {}
    BY <1>2 DEF Claiming, Free
  <2>4. RegInv
    BY <1>2, <2>3, AccountsAssumption, FS_EmptySet DEF RegInv
  <2> QED BY <1>2, <2>2, <2>4 DEF LinkInv
<1>3. /\ Root \in People /\ 0 \in Counts /\ 1 \in Counts /\ NoRole \in MemberRows
      /\ Rosters \subseteq MemberRows
  BY AccountsAssumption DEF Counts, NoRole, MemberRows, Roles
<1>4. PICK first \in Passwords : first = CHOOSE p \in Passwords : TRUE
  BY AccountsAssumption
<1>5. /\ NoUser \in UserRows
      /\ \A b \in BOOLEAN : [status |-> "active", super |-> b, pw |-> first] \in UserRows
  BY DEF NoUser, UserRows
<1>6. \A o \in Companies : Invitation(o, "admin") \in InviteRows /\ Invitation(o, "admin").opened = 0
  BY DEF Invitation, InviteRows, Roles
<1>7. << >> \in Seq(LinkRows) /\ << >> \in Seq(InviteRows)
  OBVIOUS
<1>8. [uses |-> 0, clients |-> 0] \in [uses : Nat, clients : Nat]
  OBVIOUS
<1>9. CASE AccountInit
  <2>1. users = [u \in People |-> IF u = Root THEN [status |-> "active", super |-> TRUE, pw |-> first]
                                  ELSE NoUser]
    BY <1>4, <1>9 DEF AccountInit
  <2>2. users \in [People -> UserRows]
    BY <1>5, <2>1
  <2>3. /\ sessions \in [People -> Counts] /\ agentTokens \in [Bots -> Counts]
        /\ bots \in [Bots -> {"active", "revoked"}]
    BY <1>3, <1>9 DEF AccountInit
  <2>4. members \in [People -> MemberRows]
    BY <1>3, <1>9 DEF AccountInit
  <2>5. TablesInv
    BY <1>7, <1>8, <1>9, <2>2, <2>3, <2>4 DEF AccountInit, TablesInv
  <2>6. CallersInv
    BY <1>1, <1>9 DEF AccountInit
  <2>7. LinkInv /\ InviteInv /\ RegInv
    BY <1>2, <1>9 DEF AccountInit
  <2> QED BY <2>5, <2>6, <2>7 DEF TenancyInv
<1>10. CASE TenantInit
  <2>1. PICK here \in SUBSET (People \ {Root}) :
           users = [u \in People |-> IF u \in here \cup {Root}
                                     THEN [status |-> "active", super |-> u = Root, pw |-> first]
                                     ELSE NoUser]
    <3> DEFINE pw == CHOOSE p \in Passwords : TRUE
    <3>1. \E here \in SUBSET (People \ {Root}) :
            users = [u \in People |-> IF u \in here \cup {Root}
                                      THEN [status |-> "active", super |-> u = Root, pw |-> pw]
                                      ELSE NoUser]
      BY <1>10, Zenon DEF TenantInit
    <3>2. pw = first
      BY <1>4
    <3> HIDE DEF pw
    <3> QED BY <3>1, <3>2, Zenon
  <2>2. users \in [People -> UserRows]
    <3>1. \A u : (u = Root) \in BOOLEAN
      OBVIOUS
    <3>2. \A u \in People : users[u] \in UserRows
      BY <1>5, <2>1, <3>1
    <3> QED BY <2>1, <3>2
  <2>3. members \in [People -> MemberRows]
    BY <1>3, <1>10 DEF TenantInit
  <2>4. /\ sessions \in [People -> Counts] /\ agentTokens \in [Bots -> Counts]
        /\ bots \in [Bots -> {"active", "revoked"}]
    BY <1>3, <1>10 DEF TenantInit
  <2>5. /\ invites \in Seq(InviteRows) /\ \A i \in DOMAIN invites : invites[i].opened = 0
    <3>1. CASE invites = << >>
      BY <1>7, <3>1
    <3>2. ASSUME NEW o \in Companies, invites = <<Invitation(o, "admin")>>
          PROVE  /\ invites \in Seq(InviteRows)
                 /\ \A i \in DOMAIN invites : invites[i].opened = 0
      <4> DEFINE row == Invitation(o, "admin")
      <4>1. row \in InviteRows /\ row.opened = 0 /\ invites = <<row>>
        BY <1>6, <3>2
      <4> HIDE DEF row
      <4> QED BY <4>1
    <3>3. invites = << >> \/ \E o \in Companies : invites = <<Invitation(o, "admin")>>
      BY <1>10, AccountsAssumption DEF TenantInit
    <3> QED BY <3>1, <3>2, <3>3
  <2>6. TablesInv
    BY <1>7, <1>8, <1>10, <2>2, <2>3, <2>4, <2>5 DEF TenantInit, TablesInv
  <2>7. CallersInv
    BY <1>1, <1>10 DEF TenantInit
  <2>8. LinkInv /\ InviteInv /\ RegInv
    BY <1>2, <1>10, <2>5 DEF TenantInit
  <2> QED BY <2>6, <2>7, <2>8 DEF TenancyInv
<1> QED BY <1>9, <1>10

LEMMA TenancyStep ==
    ASSUME TenancyInv, [AccountNext \/ TenantNext]_accountVars
    PROVE  TenancyInv'
<1>1. CASE UNCHANGED accountVars
  BY <1>1 DEF accountVars, tables, TenancyInv, TablesInv, CallersInv, LinkInv, LinkOK,
              InviteInv, InviteOK, RegInv, Claiming, HoldsLink, HoldsInvite
<1>2. ASSUME NEW s \in Slots, Observe, LoginStep(s) PROVE TenancyInv'
  BY <1>2, LoginSteps DEF LoginStep
<1>3. ASSUME NEW s \in Slots, Observe, LinkStep(s) PROVE TenancyInv'
  BY <1>3, LinkSteps, LoginSteps, RegSteps DEF LinkStep
<1>4. ASSUME NEW s \in Slots, Observe, AdminStep(s) PROVE TenancyInv'
  BY <1>4, UserSteps, InvitationSteps DEF AdminStep
<1>5. CASE AccountNext
  BY <1>2, <1>3, <1>5, SystemSteps DEF AccountNext
<1>6. CASE TenantNext
  <2>1. ASSUME NEW s \in Slots, StoreCredential(s) PROVE TenancyInv'
    BY <1>6, <2>1, LoginSteps DEF TenantNext
  <2> QED BY <1>4, <1>6, <2>1, CallerSteps, InviteSteps, AgentSteps,
             SystemSteps DEF TenantNext
<1> QED BY <1>1, <1>5, <1>6

LEMMA AlwaysTenancyInv == TenancySpec => []TenancyInv
  BY TenancyStart, TenancyStep, PTL DEF TenancySpec

LEMMA TenancyTypes == TenancyInv => AccountTypeOK
<1> SUFFICES ASSUME TenancyInv PROVE AccountTypeOK
  OBVIOUS
<1>1. \A l \in DOMAIN links : links[l].user \in People
  <2>1. \A l \in DOMAIN links : links[l] \in LinkRows
    BY DEF TenancyInv, TablesInv
  <2> QED BY <2>1 DEF LinkRows
<1>2. \A i \in DOMAIN invites : invites[i].org \in Companies
  <2>1. \A i \in DOMAIN invites : invites[i] \in InviteRows
    BY DEF TenancyInv, TablesInv
  <2> QED BY <2>1 DEF InviteRows
<1> QED BY <1>1, <1>2 DEF TenancyInv, TablesInv, AccountTypeOK, UserRows, MemberRows,
                          Counts

(* A change that ActsWithinAuthority is about is made for a caller who was *)
(* active, and had the role in the organisation, each at some moment of    *)
(* the request, for any number of users, organisations and requests in     *)
(* progress (authz and the handlers of internal/server).                   *)
THEOREM ChangesAreAuthorized == TenancySpec => [](AccountTypeOK /\ ActsWithinAuthority)
<1>1. TenancyInv => ActsWithinAuthority
  BY DEF TenancyInv, CallersInv, Earned, ActsWithinAuthority, In
<1> QED BY <1>1, TenancyTypes, AlwaysTenancyInv, PTL

(* A link or an invitation lets one request through, unless two had it     *)
(* open at once or its mark failed, and a registration token as many as it *)
(* is for (MarkUsed, AcceptInvitation, Register).                          *)
THEOREM LinksAreUsedOnce == TenancySpec => []UsesAreBounded
<1>1. TenancyInv => UsesAreBounded
  <2> SUFFICES ASSUME TenancyInv PROVE UsesAreBounded
    OBVIOUS
  <2>1. regs \in [uses : Nat, clients : Nat] /\ Cardinality(Claiming) \in Nat /\ MaxRegUses \in Nat
    BY AccountsAssumption, FS_CardinalityType DEF TenancyInv, TablesInv, RegInv
  <2>2. regs.clients <= MaxRegUses
    BY <2>1 DEF TenancyInv, RegInv
  <2> QED BY <2>2 DEF TenancyInv, LinkInv, LinkOK, InviteInv, InviteOK, UsesAreBounded
<1> QED BY <1>1, AlwaysTenancyInv, PTL
-----------------------------------------------------------------------------
(* The live console.  The notes of one emitter rise from its sequence through *)
(* its queue, the notification channel and the listener to the hub's ring; *)
(* from some note on, a console holds or is owed all but what it dropped.  *)

Notes == [from : Emitters, n : Nat, fits : BOOLEAN]

(* Per process, the events of s are in the order it published them, those  *)
(* of s come before those of t, and all of s have been published.          *)
Rising(s) == \A i, j \in DOMAIN s : i < j /\ s[i].from = s[j].from => s[i].n < s[j].n
Ahead(s, t) == \A i \in DOMAIN s, j \in DOMAIN t : s[i].from = t[j].from => s[i].n < t[j].n
Past(s, n) == \A i \in DOMAIN s : s[i].n <= n

OrderInv ==
    /\ Rising(published) /\ Rising(wire) /\ Ahead(published, wire)
    /\ Past(published, emitted) /\ Past(wire, emitted)
    /\ \A p \in Emitters :
         /\ \A i \in DOMAIN queue[p] : queue[p][i].from = p
         /\ Rising(queue[p]) /\ Past(queue[p], emitted)
         /\ Ahead(published, queue[p]) /\ Ahead(wire, queue[p])

Suffix(s, t) ==
    \E m \in 0..Len(t) : Len(s) = Len(t) - m /\ \A k \in DOMAIN s : s[k] = t[m + k]

Has(c) == ToSet(shown[c]) \cup ToSet(buffer[c])

(* From some event on a console has them all, but for what it dropped, and *)
(* it has none from before.                                                *)
HasFrom(m, P, has, lost) ==
    \A j \in DOMAIN P : IF j > m THEN P[j] \in has \cup lost ELSE P[j] \notin has

StreamInv(c) ==
    /\ c \in subs <=> console[c] \in {"subscribed", "streaming"}
    /\ c \notin subs => buffer[c] = << >> /\ dropped[c] = {}
    /\ console[c] # "streaming" => shown[c] = << >>
    /\ c \in subs => \E m \in 0..Len(published) : HasFrom(m, published, Has(c), dropped[c])

ConsoleTypes ==
    /\ emitted \in Nat /\ subs \subseteq Consoles
    /\ {published, ring, wire} \subseteq Seq(Notes)
    /\ queue \in [Emitters -> Seq(Notes)]
    /\ buffer \in [Consoles -> Seq(Notes)] /\ shown \in [Consoles -> Seq(Notes)]
    /\ dropped = [c \in Consoles |-> dropped[c]]
    /\ console \in [Consoles -> {"closed", "authorized", "subscribed", "streaming"}]

ConsoleInv ==
    /\ ConsoleTypes /\ OrderInv /\ Suffix(ring, published)
    /\ \A c \in Consoles : StreamInv(c)

-----------------------------------------------------------------------------
LEMMA SetOfAppend ==
    ASSUME NEW S, NEW s \in Seq(S), NEW e \in S
    PROVE  ToSet(Append(s, e)) = ToSet(s) \cup {e}
<1>1. /\ DOMAIN Append(s, e) = DOMAIN s \cup {Len(s) + 1} /\ Append(s, e)[Len(s) + 1] = e
      /\ \A i \in DOMAIN s : Append(s, e)[i] = s[i]
  OBVIOUS
<1> QED BY <1>1 DEF ToSet

LEMMA SetOfTail ==
    ASSUME NEW S, NEW s \in Seq(S), s # << >>
    PROVE  ToSet(s) = {Head(s)} \cup ToSet(Tail(s))
<1>1. /\ DOMAIN s = 1..Len(s) /\ Len(s) \in Nat \ {0} /\ Head(s) = s[1]
      /\ DOMAIN Tail(s) = 1..(Len(s) - 1) /\ \A i \in DOMAIN Tail(s) : Tail(s)[i] = s[i + 1]
  OBVIOUS
<1>2. \A i \in DOMAIN s : i = 1 \/ (i - 1 \in DOMAIN Tail(s) /\ s[i] = Tail(s)[i - 1])
  BY <1>1
<1>3. 1 \in DOMAIN s /\ \A i \in DOMAIN Tail(s) : i + 1 \in DOMAIN s
  BY <1>1
<1>4. PICK t : t = Tail(s)
  OBVIOUS
<1>5. ASSUME NEW x \in ToSet(s) PROVE x = s[1] \/ x \in ToSet(t)
  BY <1>2, <1>4 DEF ToSet
<1>6. ASSUME NEW x, x = s[1] \/ x \in ToSet(t) PROVE x \in ToSet(s)
  <2>1. CASE x = s[1]
    BY <1>3, <2>1 DEF ToSet
  <2>2. CASE x \in ToSet(t)
    BY <1>1, <1>3, <1>4, <2>2 DEF ToSet
  <2> QED BY <1>6, <2>1, <2>2
<1> QED BY <1>1, <1>4, <1>5, <1>6

LEMMA NewestIsSuffix ==
    ASSUME NEW S, NEW s \in Seq(S), NEW n \in Nat
    PROVE  newest(s, n) \in Seq(S) /\ Suffix(newest(s, n), s)
<1> DEFINE m == IF n < Len(s) THEN Len(s) - n ELSE 0
<1>1. m \in 0..Len(s) /\ Len(s) \in Nat
  OBVIOUS
<1>2. newest(s, n) = SubSeq(s, m + 1, Len(s))
  BY DEF newest
<1> HIDE DEF m
<1>3. /\ SubSeq(s, m + 1, Len(s)) \in Seq(S) /\ Len(SubSeq(s, m + 1, Len(s))) = Len(s) - m
      /\ \A k \in 1..(Len(s) - m) : SubSeq(s, m + 1, Len(s))[k] = s[m + k]
  BY <1>1
<1> QED BY <1>1, <1>2, <1>3 DEF Suffix

LEMMA SuffixTransitive ==
    ASSUME NEW S, NEW s \in Seq(S), NEW t \in Seq(S), NEW u \in Seq(S), Suffix(s, t), Suffix(t, u)
    PROVE  Suffix(s, u)
<1>1. PICK m \in 0..Len(t) : Len(s) = Len(t) - m /\ \A k \in DOMAIN s : s[k] = t[m + k]
  BY DEF Suffix
<1>2. PICK n \in 0..Len(u) : Len(t) = Len(u) - n /\ \A k \in DOMAIN t : t[k] = u[n + k]
  BY DEF Suffix
<1>3. /\ DOMAIN s = 1..Len(s) /\ DOMAIN t = 1..Len(t) /\ Len(s) \in Nat /\ Len(t) \in Nat /\ Len(u) \in Nat
  OBVIOUS
<1>4. n + m \in 0..Len(u) /\ Len(s) = Len(u) - (n + m)
  BY <1>1, <1>2, <1>3
<1>5. \A k \in DOMAIN s : m + k \in DOMAIN t /\ n + (m + k) = (n + m) + k
  BY <1>1, <1>3
<1>6. \A k \in DOMAIN s : s[k] = u[(n + m) + k]
  BY <1>1, <1>2, <1>5
<1> QED BY <1>4, <1>6 DEF Suffix

LEMMA SuffixAppended ==
    ASSUME NEW S, NEW s \in Seq(S), NEW t \in Seq(S), NEW e \in S, Suffix(s, t)
    PROVE  Suffix(Append(s, e), Append(t, e))
<1>1. PICK m \in 0..Len(t) : Len(s) = Len(t) - m /\ \A k \in DOMAIN s : s[k] = t[m + k]
  BY DEF Suffix
<1>2. /\ Len(Append(s, e)) = Len(s) + 1 /\ Len(Append(t, e)) = Len(t) + 1
      /\ DOMAIN Append(s, e) = 1..(Len(s) + 1) /\ DOMAIN s = 1..Len(s)
      /\ Append(s, e)[Len(s) + 1] = e /\ Append(t, e)[Len(t) + 1] = e
      /\ \A k \in 1..Len(s) : Append(s, e)[k] = s[k]
      /\ \A k \in 1..Len(t) : Append(t, e)[k] = t[k]
      /\ Len(s) \in Nat /\ Len(t) \in Nat
  OBVIOUS
<1>3. m \in 0..(Len(t) + 1) /\ Len(s) + 1 = (Len(t) + 1) - m /\ m + (Len(s) + 1) = Len(t) + 1
  BY <1>1, <1>2
<1>4. \A k \in 1..Len(s) : Append(s, e)[k] = Append(t, e)[m + k]
  <2>1. \A k \in 1..Len(s) : m + k \in 1..Len(t)
    BY <1>1, <1>2
  <2>2. \A k \in 1..Len(s) : Append(s, e)[k] = t[m + k]
    BY <1>1, <1>2
  <2>3. \A k \in 1..Len(s) : Append(t, e)[m + k] = t[m + k]
    BY <1>2, <2>1
  <2> QED BY <2>2, <2>3
<1>5. \A k \in 1..(Len(s) + 1) : k \in 1..Len(s) \/ k = Len(s) + 1
  BY <1>2
<1>6. \A k \in DOMAIN Append(s, e) : Append(s, e)[k] = Append(t, e)[m + k]
  BY <1>2, <1>3, <1>4, <1>5
<1> QED BY <1>2, <1>3, <1>6 DEF Suffix

(* Appending to a sequence, and taking its first element away.             *)
LEMMA Appending ==
    ASSUME NEW s \in Seq(Notes), NEW e \in Notes, Rising(s), Ahead(s, <<e>>)
    PROVE  /\ Rising(Append(s, e))
           /\ \A n \in Nat : Past(s, n) /\ e.n <= n => Past(Append(s, e), n)
           /\ \A t : Ahead(s, t) /\ Ahead(<<e>>, t) => Ahead(Append(s, e), t)
           /\ \A t : Ahead(t, s) /\ Ahead(t, <<e>>) => Ahead(t, Append(s, e))
<1>1. /\ DOMAIN Append(s, e) = DOMAIN s \cup {Len(s) + 1} /\ Append(s, e)[Len(s) + 1] = e
      /\ \A i \in DOMAIN s : Append(s, e)[i] = s[i] /\ i \in Nat /\ i <= Len(s)
      /\ Len(s) \in Nat
  OBVIOUS
<1>2. DOMAIN <<e>> = {1} /\ <<e>>[1] = e
  OBVIOUS
<1>3. Rising(Append(s, e))
  <2>1. \A i \in DOMAIN s : s[i].from = e.from => s[i].n < e.n
    BY <1>2 DEF Ahead
  <2> QED BY <1>1, <2>1 DEF Rising
<1>4. \A n \in Nat : Past(s, n) /\ e.n <= n => Past(Append(s, e), n)
  BY <1>1 DEF Past
<1>5. \A t : Ahead(s, t) /\ Ahead(<<e>>, t) => Ahead(Append(s, e), t)
  BY <1>1, <1>2 DEF Ahead
<1>6. \A t : Ahead(t, s) /\ Ahead(t, <<e>>) => Ahead(t, Append(s, e))
  BY <1>1, <1>2 DEF Ahead
<1> QED BY <1>3, <1>4, <1>5, <1>6

LEMMA Taking ==
    ASSUME NEW s \in Seq(Notes), s # << >>, Rising(s)
    PROVE  /\ Head(s) \in Notes /\ Tail(s) \in Seq(Notes) /\ Rising(Tail(s))
           /\ Ahead(<<Head(s)>>, Tail(s))
           /\ \A n \in Nat : Past(s, n) => Past(Tail(s), n) /\ Head(s).n <= n
           /\ \A t : Ahead(s, t) => Ahead(Tail(s), t) /\ Ahead(<<Head(s)>>, t)
           /\ \A t : Ahead(t, s) => Ahead(t, Tail(s)) /\ Ahead(t, <<Head(s)>>)
<1>1. /\ DOMAIN s = 1..Len(s) /\ Len(s) \in Nat \ {0} /\ Head(s) = s[1] /\ Head(s) \in Notes
      /\ Tail(s) \in Seq(Notes) /\ DOMAIN Tail(s) = 1..(Len(s) - 1)
      /\ \A i \in DOMAIN Tail(s) : Tail(s)[i] = s[i + 1]
  OBVIOUS
<1>2. /\ 1 \in DOMAIN s
      /\ \A i \in DOMAIN Tail(s) : i + 1 \in DOMAIN s /\ 1 < i + 1 /\ i \in Nat
      /\ \A i, j \in DOMAIN Tail(s) : i < j => i + 1 < j + 1
  BY <1>1
<1>3. DOMAIN <<Head(s)>> = {1} /\ <<Head(s)>>[1] = s[1]
  BY <1>1
<1>4. Rising(Tail(s))
  BY <1>1, <1>2 DEF Rising
<1>5. Ahead(<<Head(s)>>, Tail(s))
  BY <1>1, <1>2, <1>3 DEF Rising, Ahead
<1>6. \A n \in Nat : Past(s, n) => Past(Tail(s), n) /\ Head(s).n <= n
  BY <1>1, <1>2 DEF Past
<1>7. \A t : Ahead(s, t) => Ahead(Tail(s), t) /\ Ahead(<<Head(s)>>, t)
  BY <1>1, <1>2, <1>3 DEF Ahead
<1>8. \A t : Ahead(t, s) => Ahead(t, Tail(s)) /\ Ahead(t, <<Head(s)>>)
  BY <1>1, <1>2, <1>3 DEF Ahead
<1> QED BY <1>1, <1>4, <1>5, <1>6, <1>7, <1>8

-----------------------------------------------------------------------------
LEMMA OrderStays ==
    ASSUME OrderInv, UNCHANGED <<published, wire, queue, emitted>>
    PROVE  OrderInv'
BY DEF OrderInv, Rising, Ahead, Past

LEMMA StreamsStay ==
    ASSUME ConsoleInv, NEW c \in Consoles, subs' = subs, published' = published,
           console'[c] = console[c], shown'[c] = shown[c], buffer'[c] = buffer[c],
           dropped'[c] = dropped[c]
    PROVE  StreamInv(c)'
BY DEF ConsoleInv, StreamInv, Has, HasFrom

LEMMA EmitSteps ==
    ASSUME ConsoleInv, NEW p \in Emitters, NEW fits \in BOOLEAN, Emit(p, fits)
    PROVE  ConsoleInv'
<1> DEFINE e == Event(p, fits)
<1>1. /\ ConsoleTypes /\ OrderInv /\ queue[p] \in Seq(Notes) /\ emitted \in Nat
      /\ emitted' = emitted + 1 /\ emitted' \in Nat
      /\ UNCHANGED <<wire, published, ring, console, shown, subs, buffer, dropped>>
  BY DEF ConsoleInv, ConsoleTypes, Emit, listenVars, streamVars, hubVars
<1>2. e \in Notes /\ e.from = p /\ e.n = emitted + 1
  BY <1>1 DEF Event, Notes
<1>3. queue' = [queue EXCEPT ![p] = queue'[p]] /\ queue'[p] \in {queue[p], Append(queue[p], e)}
  BY <1>1 DEF Emit, ConsoleTypes
<1> HIDE DEF e
<1>4. queue'[p] \in Seq(Notes)
  BY <1>1, <1>2, <1>3
<1>5. queue' \in [Emitters -> Seq(Notes)] /\ \A q \in Emitters : q # p => queue'[q] = queue[q]
  BY <1>1, <1>3, <1>4 DEF ConsoleTypes
<1>6. ConsoleTypes'
  BY <1>1, <1>5 DEF ConsoleTypes
<1>7. \A s \in Seq(Notes) : Past(s, emitted) => Ahead(s, <<e>>) /\ Past(s, emitted')
  <2> SUFFICES ASSUME NEW s \in Seq(Notes), Past(s, emitted)
               PROVE  Ahead(s, <<e>>) /\ Past(s, emitted')
    OBVIOUS
  <2>1. \A i \in DOMAIN s : s[i].n <= emitted /\ s[i].n \in Nat
    <3>1. \A i \in DOMAIN s : s[i] \in Notes
      OBVIOUS
    <3> QED BY <3>1 DEF Past, Notes
  <2>2. \A i \in DOMAIN s : s[i].n <= emitted + 1 /\ s[i].n < e.n
    BY <1>1, <1>2, <2>1
  <2>3. DOMAIN <<e>> = {1} /\ <<e>>[1] = e
    OBVIOUS
  <2> QED BY <1>1, <2>2, <2>3 DEF Past, Ahead
<1>8. /\ Past(published, emitted) /\ Past(wire, emitted) /\ Ahead(published, wire)
      /\ Rising(published) /\ Rising(wire) /\ published \in Seq(Notes) /\ wire \in Seq(Notes)
  BY <1>1 DEF OrderInv, ConsoleTypes
<1>9. ASSUME NEW q \in Emitters
      PROVE  /\ \A i \in DOMAIN queue'[q] : queue'[q][i].from = q
             /\ Rising(queue'[q]) /\ Past(queue'[q], emitted')
             /\ Ahead(published, queue'[q]) /\ Ahead(wire, queue'[q])
  <2>1. /\ \A i \in DOMAIN queue[q] : queue[q][i].from = q
        /\ Rising(queue[q]) /\ Past(queue[q], emitted) /\ queue[q] \in Seq(Notes)
        /\ Ahead(published, queue[q]) /\ Ahead(wire, queue[q])
    BY <1>1 DEF OrderInv, ConsoleTypes
  <2>2. CASE queue'[q] = queue[q]
    BY <1>7, <2>1, <2>2
  <2>3. CASE queue'[q] = Append(queue[q], e) /\ q = p
    <3>1. /\ Ahead(queue[q], <<e>>) /\ Past(queue[q], emitted')
          /\ Ahead(published, <<e>>) /\ Ahead(wire, <<e>>) /\ e.n <= emitted'
      <4>1. e.n <= emitted'
        BY <1>1, <1>2
      <4>2. Ahead(queue[q], <<e>>) /\ Past(queue[q], emitted')
        BY <1>7, <2>1
      <4>3. Ahead(published, <<e>>) /\ Ahead(wire, <<e>>)
        BY <1>7, <1>8
      <4> QED BY <4>1, <4>2, <4>3
    <3>2. \A i \in DOMAIN Append(queue[q], e) : Append(queue[q], e)[i].from = q
      BY <1>2, <2>1, <2>3
    <3> QED BY <1>1, <1>2, <2>1, <2>3, <3>1, <3>2, Appending
  <2> QED BY <1>3, <1>5, <2>2, <2>3
<1>10. OrderInv'
  BY <1>1, <1>7, <1>8, <1>9 DEF OrderInv, Rising, Ahead, Past
<1>11. \A c \in Consoles : StreamInv(c)'
  BY <1>1, StreamsStay
<1>12. Suffix(ring', published')
  BY <1>1 DEF ConsoleInv
<1> QED BY <1>6, <1>10, <1>11, <1>12 DEF ConsoleInv

LEMMA NotifySteps ==
    ASSUME ConsoleInv, NEW p \in Emitters, Notify(p)
    PROVE  ConsoleInv'
<1>1. /\ ConsoleTypes /\ OrderInv /\ queue[p] \in Seq(Notes) /\ queue[p] # << >>
      /\ wire \in Seq(Notes) /\ published \in Seq(Notes) /\ emitted \in Nat
      /\ UNCHANGED <<emitted, published, ring, console, shown, subs, buffer, dropped>>
      /\ queue' = [queue EXCEPT ![p] = Tail(queue[p])]
      /\ wire' \in {wire, Append(wire, Head(queue[p]))}
  BY DEF ConsoleInv, ConsoleTypes, Notify, streamVars, hubVars
<1>2. /\ \A i \in DOMAIN queue[p] : queue[p][i].from = p
      /\ Rising(queue[p]) /\ Past(queue[p], emitted)
      /\ Ahead(published, queue[p]) /\ Ahead(wire, queue[p])
      /\ Rising(published) /\ Rising(wire) /\ Ahead(published, wire)
      /\ Past(published, emitted) /\ Past(wire, emitted)
  BY <1>1 DEF OrderInv
<1>3. PICK e, t : e = Head(queue[p]) /\ t = Tail(queue[p])
  OBVIOUS
<1>4. /\ e \in Notes /\ t \in Seq(Notes) /\ Rising(t) /\ Ahead(<<e>>, t) /\ Past(t, emitted)
      /\ e.n <= emitted /\ Ahead(published, t) /\ Ahead(published, <<e>>)
      /\ Ahead(wire, t) /\ Ahead(wire, <<e>>)
  BY <1>1, <1>2, <1>3, Taking
<1>5. e.from = p /\ \A i \in DOMAIN t : t[i].from = p
  BY <1>1, <1>2, <1>3
<1>6. /\ queue' \in [Emitters -> Seq(Notes)] /\ queue'[p] = t
      /\ \A q \in Emitters : q # p => queue'[q] = queue[q]
  BY <1>1, <1>3, <1>4 DEF ConsoleTypes
<1>7. wire' \in {wire, Append(wire, e)}
  BY <1>1, <1>3
<1>8. wire' \in Seq(Notes)
  <2>1. Append(wire, e) \in Seq(Notes)
    BY <1>1, <1>4
  <2> QED BY <1>1, <1>7, <2>1
<1>9. /\ Rising(wire') /\ Past(wire', emitted) /\ Ahead(published, wire') /\ Ahead(wire', t)
  BY <1>1, <1>2, <1>4, <1>7, Appending
<1>10. ASSUME NEW q \in Emitters, q # p PROVE Ahead(wire', queue[q])
  <2>1. Ahead(wire, queue[q]) /\ \A i \in DOMAIN queue[q] : queue[q][i].from = q
    BY <1>1 DEF OrderInv
  <2>2. Ahead(<<e>>, queue[q])
    <3>1. DOMAIN <<e>> = {1} /\ <<e>>[1] = e
      OBVIOUS
    <3> QED BY <1>5, <1>10, <2>1, <3>1 DEF Ahead
  <2> QED BY <1>1, <1>2, <1>4, <1>7, <2>1, <2>2, Appending
<1>11. ASSUME NEW q \in Emitters
      PROVE  /\ \A i \in DOMAIN queue'[q] : queue'[q][i].from = q
             /\ Rising(queue'[q]) /\ Past(queue'[q], emitted)
             /\ Ahead(published, queue'[q]) /\ Ahead(wire', queue'[q])
  <2>1. CASE q = p
    BY <1>4, <1>5, <1>6, <1>9, <2>1
  <2>2. CASE q # p
    BY <1>1, <1>6, <1>10, <2>2 DEF OrderInv
  <2> QED BY <2>1, <2>2
<1>12. OrderInv'
  BY <1>1, <1>2, <1>9, <1>11 DEF OrderInv
<1>13. ConsoleTypes'
  BY <1>1, <1>6, <1>8 DEF ConsoleTypes
<1>14. \A c \in Consoles : StreamInv(c)'
  BY <1>1, StreamsStay
<1>15. Suffix(ring', published')
  BY <1>1 DEF ConsoleInv
<1> QED BY <1>12, <1>13, <1>14, <1>15 DEF ConsoleInv

LEMMA ListenSteps ==
    ASSUME ConsoleInv, Connect \/ Disconnect \/ Demote
    PROVE  ConsoleInv'
<1>1. /\ wire' \in {wire, << >>}
      /\ UNCHANGED <<emitted, queue, published, ring, console, shown, subs, buffer, dropped>>
  BY DEF Connect, Disconnect, Demote, emitVars, listenVars, streamVars, hubVars
<1>2. ConsoleTypes'
  <2>1. << >> \in Seq(Notes)
    OBVIOUS
  <2> QED BY <1>1, <2>1 DEF ConsoleInv, ConsoleTypes
<1>3. OrderInv'
  <2>1. CASE wire' = wire
    BY <1>1, <2>1, OrderStays DEF ConsoleInv
  <2>2. CASE wire' = << >>
    BY <1>1, <2>2 DEF ConsoleInv, OrderInv, Rising, Ahead, Past
  <2> QED BY <1>1, <2>1, <2>2
<1>4. \A c \in Consoles : StreamInv(c)'
  BY <1>1, StreamsStay
<1>5. Suffix(ring', published')
  BY <1>1 DEF ConsoleInv
<1> QED BY <1>2, <1>3, <1>4, <1>5 DEF ConsoleInv

(* The hub takes the next notification, or throws it away.                 *)
LEMMA ReceiveSteps ==
    ASSUME ConsoleInv, Receive
    PROVE  ConsoleInv'
<1>1. /\ ConsoleTypes /\ OrderInv /\ wire \in Seq(Notes) /\ wire # << >>
      /\ published \in Seq(Notes) /\ ring \in Seq(Notes) /\ emitted \in Nat
      /\ UNCHANGED <<emitted, queue, console, shown>> /\ wire' = Tail(wire)
      /\ Suffix(ring, published)
  BY DEF ConsoleInv, ConsoleTypes, Receive, emitVars, streamVars
<1>2. /\ Rising(published) /\ Rising(wire) /\ Ahead(published, wire)
      /\ Past(published, emitted) /\ Past(wire, emitted)
  BY <1>1 DEF OrderInv
<1>3. PICK e, w : e = Head(wire) /\ w = Tail(wire)
  OBVIOUS
<1>4. /\ e \in Notes /\ w \in Seq(Notes) /\ wire' = w /\ Rising(w) /\ Past(w, emitted)
      /\ Ahead(<<e>>, w) /\ Ahead(published, w) /\ Ahead(published, <<e>>) /\ e.n <= emitted
  BY <1>1, <1>2, <1>3, Taking
<1>5. ASSUME NEW q \in Emitters
      PROVE  /\ \A i \in DOMAIN queue[q] : queue[q][i].from = q
             /\ Rising(queue[q]) /\ Past(queue[q], emitted)
             /\ Ahead(published, queue[q]) /\ Ahead(w, queue[q]) /\ Ahead(<<e>>, queue[q])
  <2>1. /\ \A i \in DOMAIN queue[q] : queue[q][i].from = q
        /\ Rising(queue[q]) /\ Past(queue[q], emitted)
        /\ Ahead(published, queue[q]) /\ Ahead(wire, queue[q])
    BY <1>1 DEF OrderInv
  <2> QED BY <1>1, <1>2, <1>3, <2>1, Taking
<1>6. CASE UNCHANGED hubVars
  <2>1. OrderInv'
    BY <1>1, <1>2, <1>4, <1>5, <1>6 DEF OrderInv, hubVars
  <2>2. ConsoleTypes' /\ Suffix(ring', published')
    BY <1>1, <1>4, <1>6 DEF ConsoleTypes, hubVars
  <2>3. \A c \in Consoles : StreamInv(c)'
    BY <1>1, <1>6, StreamsStay DEF hubVars
  <2> QED BY <2>1, <2>2, <2>3 DEF ConsoleInv
<1>7. CASE Publish(e)
  <2> DEFINE full == {c \in subs : Len(buffer[c]) = BufferCap}
  <2>1. /\ published' = Append(published, e) /\ ring' = newest(Append(ring, e), RingCap)
        /\ buffer' = [c \in Consoles |->
                        IF c \in subs \ full THEN Append(buffer[c], e) ELSE buffer[c]]
        /\ dropped' = [c \in Consoles |-> dropped[c] \cup (IF c \in full THEN {e} ELSE {})]
        /\ subs' = subs
    BY <1>7 DEF Publish
  <2>2. full \subseteq subs
    OBVIOUS
  <2> HIDE DEF full
  <2>3. published' \in Seq(Notes) /\ Append(ring, e) \in Seq(Notes)
    BY <1>1, <1>4, <2>1
  <2>4. ring' \in Seq(Notes) /\ Suffix(ring', published')
    <3>1. Suffix(Append(ring, e), published')
      BY <1>1, <1>4, <2>1, SuffixAppended
    <3>2. ring' \in Seq(Notes) /\ Suffix(ring', Append(ring, e))
      BY <2>1, <2>3, NewestIsSuffix, ConsoleAssumption
    <3> QED BY <2>3, <3>1, <3>2, SuffixTransitive
  <2>5. buffer' \in [Consoles -> Seq(Notes)]
    <3>1. \A c \in Consoles : buffer[c] \in Seq(Notes) /\ Append(buffer[c], e) \in Seq(Notes)
      BY <1>1, <1>4 DEF ConsoleTypes
    <3> QED BY <2>1, <3>1
  <2>6. ConsoleTypes'
    BY <1>1, <1>4, <2>1, <2>3, <2>4, <2>5 DEF ConsoleTypes
  <2>7. /\ Rising(published') /\ Past(published', emitted) /\ Ahead(published', w)
        /\ \A q \in Emitters : Ahead(published', queue[q])
    BY <1>1, <1>2, <1>4, <1>5, <2>1, Appending
  <2>8. OrderInv'
    BY <1>1, <1>4, <1>5, <2>7 DEF OrderInv
  <2>9. /\ DOMAIN published' = DOMAIN published \cup {Len(published) + 1}
        /\ \A j \in DOMAIN published : /\ published'[j] = published[j] /\ j \in Nat
                                       /\ j <= Len(published) /\ published[j] # e
        /\ published'[Len(published) + 1] = e /\ Len(published) \in Nat
        /\ Len(published') = Len(published) + 1
    <3>1. \A j \in DOMAIN published : published[j] # e
      <4>1. DOMAIN <<e>> = {1} /\ <<e>>[1] = e /\ e.n \in Nat
        BY <1>4 DEF Notes
      <4> QED BY <1>4, <4>1 DEF Ahead
    <3> QED BY <1>1, <1>4, <2>1, <3>1
  <2>10. ASSUME NEW c \in Consoles PROVE StreamInv(c)'
    <3>1. /\ StreamInv(c) /\ shown'[c] = shown[c] /\ buffer[c] \in Seq(Notes)
      BY <1>1 DEF ConsoleInv, ConsoleTypes
    <3>2. CASE c \notin subs
      BY <1>1, <2>1, <2>2, <3>1, <3>2 DEF StreamInv
    <3>3. CASE c \in subs
      <4>1. PICK m \in 0..Len(published) : HasFrom(m, published, Has(c), dropped[c])
        BY <3>1, <3>3 DEF StreamInv
      <4>2. PICK has, lost : has = Has(c)' /\ lost = dropped'[c]
        OBVIOUS
      <4>3. /\ Has(c) \subseteq has /\ has \subseteq Has(c) \cup {e}
            /\ dropped[c] \subseteq lost /\ e \in has \cup lost
        <5>1. ToSet(Append(buffer[c], e)) = ToSet(buffer[c]) \cup {e}
          BY <1>4, <3>1, SetOfAppend
        <5>2. CASE c \in full
          BY <2>1, <3>1, <4>2, <5>2 DEF Has
        <5>3. CASE c \notin full
          BY <2>1, <3>1, <3>3, <4>2, <5>1, <5>3 DEF Has
        <5> QED BY <5>2, <5>3
      <4>4. HasFrom(m, published', has, lost)
        BY <2>9, <4>1, <4>3 DEF HasFrom
      <4>5. m \in 0..Len(published')
        BY <2>9
      <4>6. \E k \in 0..Len(published') : HasFrom(k, published', Has(c)', dropped'[c])
        BY <4>2, <4>4, <4>5
      <4> QED BY <1>1, <2>1, <3>1, <3>3, <4>6 DEF StreamInv
    <3> QED BY <3>2, <3>3
  <2> QED BY <2>4, <2>6, <2>8, <2>10 DEF ConsoleInv
<1> QED BY <1>3, <1>6, <1>7 DEF Receive

(* A console's own steps leave the hub and the others as they are.         *)
LEMMA OneStream ==
    ASSUME ConsoleInv, NEW c \in Consoles,
           UNCHANGED <<emitted, queue, wire, published, ring>>, ConsoleTypes', StreamInv(c)',
           \A d \in Consoles : d # c =>
              /\ d \in subs' <=> d \in subs
              /\ console'[d] = console[d] /\ shown'[d] = shown[d]
              /\ buffer'[d] = buffer[d] /\ dropped'[d] = dropped[d]
    PROVE  ConsoleInv'
<1>1. OrderInv'
  BY OrderStays DEF ConsoleInv
<1>2. ASSUME NEW d \in Consoles PROVE StreamInv(d)'
  <2>1. CASE d = c
    BY <2>1
  <2>2. CASE d # c
    BY <2>2 DEF ConsoleInv, StreamInv, Has, HasFrom
  <2> QED BY <2>1, <2>2
<1> QED BY <1>1, <1>2 DEF ConsoleInv

LEMMA EventsSteps ==
    ASSUME ConsoleInv, NEW c \in Consoles, Events(c)
    PROVE  ConsoleInv'
<1>1. /\ ConsoleTypes /\ OrderInv /\ StreamInv(c) /\ Suffix(ring, published)
      /\ published \in Seq(Notes) /\ ring \in Seq(Notes) /\ << >> \in Seq(Notes)
      /\ buffer[c] \in Seq(Notes) /\ shown[c] \in Seq(Notes) /\ ToSet(<< >>) = {}
  BY DEF ConsoleInv, ConsoleTypes, ToSet
<1>2. UNCHANGED <<emitted, queue, wire, published, ring>>
  BY DEF Events, Authorize, Subscribe, ReplayRecent, Stream, Stop, emitVars,
         listenVars, hubVars
<1>3. CASE Authorize(c)
  <2>1. /\ console' = [console EXCEPT ![c] = "authorized"] /\ console[c] = "closed"
        /\ UNCHANGED <<subs, shown, buffer, dropped>>
    BY <1>3 DEF Authorize, Goes, hubVars
  <2>2. ConsoleTypes'
    BY <1>1, <1>2, <2>1 DEF ConsoleTypes
  <2>3. StreamInv(c)'
    BY <1>1, <2>1 DEF StreamInv, ConsoleTypes
  <2> QED BY <1>1, <1>2, <2>1, <2>2, <2>3, OneStream DEF ConsoleTypes
<1>4. CASE Subscribe(c)
  <2>1. /\ console' = [console EXCEPT ![c] = "subscribed"] /\ console[c] = "authorized"
        /\ subs' = subs \cup {c} /\ UNCHANGED <<shown, buffer, dropped>>
    BY <1>4 DEF Subscribe, Goes
  <2>2. ConsoleTypes'
    BY <1>1, <1>2, <2>1 DEF ConsoleTypes
  <2>3. buffer[c] = << >> /\ dropped[c] = {} /\ shown[c] = << >>
    BY <1>1, <2>1 DEF StreamInv
  <2>4. HasFrom(Len(published), published, Has(c)', dropped'[c])
    <3>1. Has(c)' = {}
      BY <1>1, <2>1, <2>3 DEF Has
    <3> QED BY <1>1, <3>1 DEF HasFrom
  <2>5. Len(published) \in 0..Len(published)
    BY <1>1
  <2>6. StreamInv(c)'
    BY <1>1, <1>2, <2>1, <2>3, <2>4, <2>5 DEF StreamInv, ConsoleTypes
  <2> QED BY <1>1, <1>2, <2>1, <2>2, <2>6, OneStream DEF ConsoleTypes
<1>5. CASE ReplayRecent(c)
  <2>1. /\ console' = [console EXCEPT ![c] = "streaming"] /\ console[c] = "subscribed"
        /\ shown' = [shown EXCEPT ![c] = newest(ring, ReplayTail)]
        /\ UNCHANGED <<subs, buffer, dropped>>
    BY <1>5 DEF ReplayRecent, Goes, hubVars
  <2>2. PICK tail \in Seq(Notes) : tail = newest(ring, ReplayTail) /\ Suffix(tail, published)
    <3>1. newest(ring, ReplayTail) \in Seq(Notes) /\ Suffix(newest(ring, ReplayTail), ring)
      BY <1>1, NewestIsSuffix, ConsoleAssumption
    <3> QED BY <1>1, <3>1, SuffixTransitive
  <2>3. shown' \in [Consoles -> Seq(Notes)] /\ shown'[c] = tail
    BY <1>1, <2>1, <2>2 DEF ConsoleTypes
  <2>4. ConsoleTypes'
    BY <1>1, <1>2, <2>1, <2>3 DEF ConsoleTypes
  <2>5. shown[c] = << >> /\ c \in subs
    BY <1>1, <2>1 DEF StreamInv
  <2>6. PICK m \in 0..Len(published) : HasFrom(m, published, Has(c), dropped[c])
    BY <1>1, <2>5 DEF StreamInv
  <2>7. PICK n \in 0..Len(published) :
           Len(tail) = Len(published) - n /\ \A k \in DOMAIN tail : tail[k] = published[n + k]
    BY <2>2 DEF Suffix
  <2>8. \A j \in DOMAIN published : published[j] \in ToSet(tail) <=> j > n
    <3>1. DOMAIN tail = 1..(Len(published) - n) /\ DOMAIN published = 1..Len(published)
          /\ Len(published) \in Nat
      BY <1>1, <2>7
    <3>2. ASSUME NEW j \in DOMAIN published, j > n PROVE published[j] \in ToSet(tail)
      <4>1. j - n \in DOMAIN tail /\ n + (j - n) = j
        BY <3>1, <3>2
      <4>2. tail[j - n] = published[j]
        BY <2>7, <4>1
      <4> QED BY <4>1, <4>2 DEF ToSet
    <3>3. ASSUME NEW j \in DOMAIN published, published[j] \in ToSet(tail) PROVE j > n
      <4>1. PICK k \in DOMAIN tail : published[j] = published[n + k]
        BY <2>7, <3>3 DEF ToSet
      <4>2. PICK i : i = n + k /\ i \in DOMAIN published /\ i > n /\ published[j] = published[i]
        BY <3>1, <4>1
      <4>3. \A x \in DOMAIN published : published[x].n \in Nat /\ x \in Nat
        <5>1. \A x \in DOMAIN published : published[x] \in Notes /\ x \in Nat
          BY <1>1
        <5> QED BY <5>1 DEF Notes
      <4>4. ~(j < i)
        <5>1. published[j].n \in Nat /\ ~(published[j].n < published[j].n)
          BY <4>3
        <5>2. j < i => published[j].n < published[i].n
          BY <1>1, <4>2 DEF OrderInv, Rising
        <5> QED BY <4>2, <5>1, <5>2
      <4> QED BY <3>1, <4>2, <4>4
    <3> QED BY <3>2, <3>3
  <2>9. PICK has : has = Has(c)'
    OBVIOUS
  <2>10. has = Has(c) \cup ToSet(tail)
    BY <1>1, <2>1, <2>3, <2>5, <2>9 DEF Has
  <2>11. PICK k \in {m, n} : k <= m /\ k <= n
    BY <2>6, <2>7
  <2>12. HasFrom(k, published, has, dropped[c])
    <3>1. m \in Nat /\ n \in Nat /\ \A j \in DOMAIN published : j \in Nat
      BY <1>1
    <3> QED BY <2>6, <2>8, <2>10, <2>11, <3>1 DEF HasFrom
  <2>13. StreamInv(c)'
    <3>1. \E x \in 0..Len(published') : HasFrom(x, published', Has(c)', dropped'[c])
      BY <1>2, <2>1, <2>9, <2>11, <2>12
    <3> QED BY <1>1, <2>1, <2>5, <3>1 DEF StreamInv, ConsoleTypes
  <2> QED BY <1>1, <1>2, <2>1, <2>4, <2>13, OneStream DEF ConsoleTypes
<1>6. CASE Stream(c)
  <2>1. /\ console[c] = "streaming" /\ buffer[c] # << >>
        /\ shown' = [shown EXCEPT ![c] = Append(shown[c], Head(buffer[c]))]
        /\ buffer' = [buffer EXCEPT ![c] = Tail(buffer[c])]
        /\ UNCHANGED <<console, subs, dropped>>
    BY <1>6 DEF Stream
  <2>2. /\ Append(shown[c], Head(buffer[c])) \in Seq(Notes) /\ Tail(buffer[c]) \in Seq(Notes)
        /\ Head(buffer[c]) \in Notes
    BY <1>1, <2>1
  <2>3. /\ shown' \in [Consoles -> Seq(Notes)] /\ shown'[c] = Append(shown[c], Head(buffer[c]))
        /\ buffer' \in [Consoles -> Seq(Notes)] /\ buffer'[c] = Tail(buffer[c])
    BY <2>1, <2>2, <1>1 DEF ConsoleTypes
  <2>4. ConsoleTypes'
    BY <1>1, <1>2, <2>1, <2>3 DEF ConsoleTypes
  <2>5. Has(c)' = Has(c)
    <3>1. ToSet(shown'[c]) = ToSet(shown[c]) \cup {Head(buffer[c])}
      BY <1>1, <2>2, <2>3, SetOfAppend
    <3>2. ToSet(buffer[c]) = {Head(buffer[c])} \cup ToSet(buffer'[c])
      BY <1>1, <2>1, <2>3, SetOfTail
    <3> QED BY <3>1, <3>2 DEF Has
  <2>6. StreamInv(c)'
    BY <1>1, <1>2, <2>1, <2>5 DEF StreamInv
  <2> QED BY <1>1, <1>2, <2>1, <2>4, <2>6, OneStream DEF ConsoleTypes
<1>7. CASE Stop(c)
  <2>1. /\ console' = [console EXCEPT ![c] = "closed"] /\ subs' = subs \ {c}
        /\ buffer' = [buffer EXCEPT ![c] = << >>] /\ dropped' = [dropped EXCEPT ![c] = {}]
        /\ shown' = [shown EXCEPT ![c] = << >>]
    BY <1>7 DEF Stop, Goes
  <2>2. ConsoleTypes'
    BY <1>1, <1>2, <2>1 DEF ConsoleTypes
  <2>3. StreamInv(c)'
    BY <1>1, <2>1 DEF StreamInv, ConsoleTypes
  <2> QED BY <1>1, <1>2, <2>1, <2>2, <2>3, OneStream DEF ConsoleTypes
<1> QED BY <1>3, <1>4, <1>5, <1>6, <1>7 DEF Events

LEMMA AlwaysConsoleInv == ConsoleSpec => []ConsoleInv
<1>1. ConsoleInit => ConsoleInv
  <2> SUFFICES ASSUME ConsoleInit PROVE ConsoleInv
    OBVIOUS
  <2>1. << >> \in Seq(Notes) /\ DOMAIN << >> = {} /\ Len(<< >>) = 0
    OBVIOUS
  <2>2. ConsoleTypes
    BY <2>1 DEF ConsoleInit, ConsoleTypes
  <2>3. OrderInv
    BY <2>1 DEF ConsoleInit, OrderInv, Rising, Ahead, Past
  <2>4. Suffix(ring, published)
    BY <2>1 DEF ConsoleInit, Suffix
  <2>5. \A c \in Consoles : StreamInv(c)
    BY DEF ConsoleInit, StreamInv
  <2> QED BY <2>2, <2>3, <2>4, <2>5 DEF ConsoleInv
<1>2. ASSUME ConsoleInv, [ConsoleNext]_consoleVars PROVE ConsoleInv'
  <2>1. CASE UNCHANGED consoleVars
    <3>1. UNCHANGED <<emitted, queue, wire, published, ring, subs, buffer, dropped, console, shown>>
      BY <2>1 DEF consoleVars, emitVars, listenVars, streamVars, hubVars
    <3>2. \A c \in Consoles : StreamInv(c)'
      BY <1>2, <3>1, StreamsStay
    <3>3. OrderInv'
      BY <1>2, <3>1, OrderStays DEF ConsoleInv
    <3>4. ConsoleTypes' /\ Suffix(ring', published')
      BY <1>2, <3>1 DEF ConsoleInv, ConsoleTypes
    <3> QED BY <3>2, <3>3, <3>4 DEF ConsoleInv
  <2>2. CASE ConsoleNext
    BY <1>2, <2>2, EmitSteps, NotifySteps, ListenSteps, ReceiveSteps, EventsSteps
       DEF ConsoleNext, Ingest
  <2> QED BY <1>2, <2>1, <2>2
<1> QED BY <1>1, <1>2, PTL DEF ConsoleSpec

(* A console misses nothing but what its own channel dropped, for any      *)
(* number of processes, consoles and events and any size of the queue, the *)
(* ring, the replay and the channel (Hub.publish, LiveHandler.Events).     *)
THEOREM ConsolesMissNothing == ConsoleSpec => []ConsoleHasNoGap
<1>1. ASSUME ConsoleInv PROVE ConsoleHasNoGap
  <2>1. \A i, j \in DOMAIN published :
           i < j /\ published[i].from = published[j].from => published[i].n < published[j].n
    BY <1>1 DEF ConsoleInv, OrderInv, Rising
  <2>2. ASSUME NEW c \in subs,
               NEW i \in DOMAIN published, NEW k \in DOMAIN published,
               published[i] \in Has(c), published[k] \in Has(c), NEW j \in i..k
        PROVE  j \in DOMAIN published /\ published[j] \in Has(c) \cup dropped[c]
    <3>1. c \in Consoles /\ StreamInv(c) /\ published \in Seq(Notes)
      BY <1>1 DEF ConsoleInv, ConsoleTypes
    <3>2. PICK m \in 0..Len(published) : HasFrom(m, published, Has(c), dropped[c])
      BY <3>1 DEF StreamInv
    <3>3. i > m
      BY <2>2, <3>2 DEF HasFrom
    <3>4. j \in DOMAIN published /\ j > m
      BY <3>1, <3>3
    <3> QED BY <3>2, <3>4 DEF HasFrom
  <2> QED BY <2>1, <2>2 DEF ConsoleHasNoGap, Has
<1> QED BY <1>1, AlwaysConsoleInv, PTL
-----------------------------------------------------------------------------
(* Metrics.  Induction over the naturals, in the form of a least element.  *)
LEMMA LeastOf ==
    ASSUME NEW S, S \subseteq Nat, S # {}
    PROVE  \E x \in S : \A y \in S : x <= y
<1> DEFINE R == {p \in Nat \X Nat : p[1] < p[2]}
<1>1. IsWellFoundedOn(R, Nat)
  BY NatLessThanWellFounded DEF OpToRel
<1>2. PICK x \in S : \A y \in S : ~(<<y, x>> \in R)
  <2> HIDE DEF R
  <2> QED BY <1>1, WFMin
<1>3. \A y \in S : ~(y < x)
  <2> SUFFICES ASSUME NEW y \in S, y < x PROVE FALSE
    OBVIOUS
  <2>1. <<y, x>> \in Nat \X Nat /\ <<y, x>>[1] < <<y, x>>[2]
    OBVIOUS
  <2> QED BY <1>2, <2>1
<1> QED BY <1>3

LEMMA Inductively ==
    ASSUME NEW G, 0 \in G, \A n \in Nat : n \in G => n + 1 \in G
    PROVE  Nat \subseteq G
<1> DEFINE B == Nat \ G
<1> SUFFICES ASSUME B # {} PROVE FALSE
  OBVIOUS
<1>1. PICK x \in B : \A y \in B : x <= y
  <2>1. B \subseteq Nat
    OBVIOUS
  <2> HIDE DEF B
  <2> QED BY <2>1, LeastOf
<1>2. x \in Nat /\ x # 0 /\ x - 1 \in Nat /\ x = (x - 1) + 1 /\ ~(x <= x - 1)
  BY <1>1
<1>3. x - 1 \in G
  BY <1>1, <1>2
<1> QED BY <1>1, <1>2, <1>3

(* The definition of FlattenSeq, which is recursive, has a solution.       *)
Flattens(g, seqs, n) ==
    g = [i \in 1..n |-> IF i = 1 THEN seqs[i] ELSE g[i - 1] \o seqs[i]]

LEMMA FlattensExists ==
    ASSUME NEW seqs, NEW n \in Nat
    PROVE  \E g : Flattens(g, seqs, n)
<1> DEFINE G == {m \in Nat : \E g : Flattens(g, seqs, m)}
<1>1. 0 \in G
  <2> DEFINE g == [i \in 1..0 |-> seqs[i]]
  <2>1. Flattens(g, seqs, 0)
    BY DEF Flattens
  <2> QED BY <2>1
<1>2. ASSUME NEW m \in Nat, m \in G PROVE m + 1 \in G
  <2>1. PICK g : Flattens(g, seqs, m)
    BY <1>2
  <2> DEFINE step(h, i) == IF i = 1 THEN seqs[i] ELSE h[i - 1] \o seqs[i]
             h == [i \in 1..(m + 1) |-> IF i = m + 1 THEN step(g, i) ELSE g[i]]
  <2>2. g = [i \in 1..m |-> step(g, i)]
    BY <2>1 DEF Flattens
  <2>3. \A i \in 1..(m + 1) : i # m + 1 => i \in 1..m
    OBVIOUS
  <2>4. ASSUME NEW i \in 1..(m + 1) PROVE h[i] = step(g, i)
    <3>1. CASE i = m + 1
      BY <3>1
    <3>2. CASE i # m + 1
      <4>1. i \in 1..m /\ h[i] = g[i]
        BY <2>3, <3>2
      <4> HIDE DEF h
      <4> QED BY <2>2, <4>1
    <3> QED BY <3>1, <3>2
  <2>5. ASSUME NEW i \in 1..(m + 1) PROVE step(g, i) = step(h, i)
    <3>1. i = 1 \/ (i - 1 \in 1..(m + 1) /\ i - 1 # m + 1)
      OBVIOUS
    <3>2. i # 1 => h[i - 1] = g[i - 1]
      BY <3>1
    <3> QED BY <3>2
  <2>6. h = [i \in 1..(m + 1) |-> step(h, i)]
    <3>1. h = [i \in 1..(m + 1) |-> h[i]]
      OBVIOUS
    <3>2. \A i \in 1..(m + 1) : h[i] = step(h, i)
      BY <2>4, <2>5
    <3> HIDE DEF h, step
    <3> QED BY <3>1, <3>2
  <2>7. Flattens(h, seqs, m + 1)
    BY <2>6 DEF Flattens
  <2> HIDE DEF h
  <2> QED BY <2>7
<1> HIDE DEF G
<1>3. n \in G
  BY <1>1, <1>2, Inductively
<1> QED BY <1>3 DEF G

LEMMA FlattenSeqIs ==
    ASSUME NEW seqs, Len(seqs) \in Nat \ {0}
    PROVE  \E g : Flattens(g, seqs, Len(seqs)) /\ FlattenSeq(seqs) = g[Len(seqs)]
<1> DEFINE g == CHOOSE h : Flattens(h, seqs, Len(seqs))
<1>1. Flattens(g, seqs, Len(seqs))
  BY FlattensExists
<1>2. FlattenSeq(seqs) = g[Len(seqs)]
  BY DEF FlattenSeq, Flattens
<1> QED BY <1>1, <1>2

(* Its elements are those of the sequences.                                *)
LEMMA FlattenSeqHas ==
    ASSUME NEW S, NEW seqs \in Seq(Seq(S))
    PROVE  /\ FlattenSeq(seqs) \in Seq(S)
           /\ \A i \in DOMAIN seqs : ToSet(seqs[i]) \subseteq ToSet(FlattenSeq(seqs))
<1>1. CASE Len(seqs) = 0
  <2>1. seqs = << >>
    BY <1>1, EmptySeq
  <2> QED BY <1>1, <2>1 DEF FlattenSeq
<1>2. CASE Len(seqs) # 0
  <2> DEFINE n == Len(seqs)
  <2>1. n \in Nat \ {0} /\ DOMAIN seqs = 1..n /\ \A i \in 1..n : seqs[i] \in Seq(S)
    BY <1>2
  <2>2. PICK g : Flattens(g, seqs, n) /\ FlattenSeq(seqs) = g[n]
    BY <2>1, FlattenSeqIs
  <2> HIDE DEF n
  <2> DEFINE Ok(m) == /\ g[m] \in Seq(S)
                      /\ \A i \in 1..m : ToSet(seqs[i]) \subseteq ToSet(g[m])
             G == {m \in Nat : m \in 1..n => Ok(m)}
  <2>3. \A m \in 1..n : g[m] = IF m = 1 THEN seqs[m] ELSE g[m - 1] \o seqs[m]
    BY <2>2 DEF Flattens
  <2>4. 0 \in G
    OBVIOUS
  <2>5. ASSUME NEW m \in Nat, m \in G PROVE m + 1 \in G
    <3> SUFFICES ASSUME m + 1 \in 1..n PROVE Ok(m + 1)
      OBVIOUS
    <3>1. CASE m = 0
      <4>1. g[1] = seqs[1]
        BY <2>1, <2>3
      <4>2. g[1] \in Seq(S) /\ \A i \in 1..1 : ToSet(seqs[i]) \subseteq ToSet(g[1])
        BY <2>1, <4>1
      <4> QED BY <3>1, <4>2
    <3>2. CASE m # 0
      <4>1. m \in 1..n /\ m + 1 # 1 /\ (m + 1) - 1 = m
        BY <2>1, <3>2
      <4>2. Ok(m)
        BY <2>5, <4>1
      <4>3. g[m + 1] = g[m] \o seqs[m + 1]
        BY <2>3, <4>1
      <4> DEFINE s == g[m]  t == seqs[m + 1]
      <4>4. s \in Seq(S) /\ t \in Seq(S)
        BY <2>1, <4>2
      <4> HIDE DEF s, t
      <4>5. s \o t \in Seq(S) /\ ToSet(s) \subseteq ToSet(s \o t) /\ ToSet(t) \subseteq ToSet(s \o t)
        <5>1. /\ s \o t \in Seq(S) /\ Len(s) \in Nat /\ Len(t) \in Nat
              /\ DOMAIN s = 1..Len(s) /\ DOMAIN t = 1..Len(t) /\ DOMAIN (s \o t) = 1..(Len(s) + Len(t))
              /\ \A k \in 1..Len(s) : (s \o t)[k] = s[k]
              /\ \A k \in 1..Len(t) : (s \o t)[Len(s) + k] = t[k]
          BY <4>4
        <5> DEFINE u == s \o t
        <5> HIDE DEF u
        <5>2. /\ \A k \in 1..Len(s) : k \in 1..(Len(s) + Len(t))
              /\ \A k \in 1..Len(t) : Len(s) + k \in 1..(Len(s) + Len(t))
          BY <5>1
        <5>3. ToSet(s) \subseteq ToSet(u) /\ ToSet(t) \subseteq ToSet(u)
          BY <5>1, <5>2 DEF ToSet, u
        <5> QED BY <5>1, <5>3 DEF u
      <4>6. \A i \in 1..(m + 1) : i \in 1..m \/ i = m + 1
        OBVIOUS
      <4> QED BY <4>2, <4>3, <4>5, <4>6 DEF s, t
    <3> QED BY <3>1, <3>2
  <2> HIDE DEF G
  <2>6. n \in G
    BY <2>1, <2>4, <2>5, Inductively
  <2>7. Ok(n)
    BY <2>1, <2>6 DEF G
  <2> QED BY <2>1, <2>2, <2>7
<1> QED BY <1>1, <1>2

(* A set in some order.                                                    *)
LEMMA SetToSeqHas ==
    ASSUME NEW S, IsFiniteSet(S)
    PROVE  SetToSeq(S) \in Seq(S) /\ ToSet(SetToSeq(S)) = S
<1> DEFINE n == Cardinality(S)
           s == SetToSeq(S)
<1>1. n \in Nat /\ ExistsBijection(1..n, S)
  BY FS_CardinalityType
<1>2. \E f \in [1..n -> S] : IsInjective(f)
  <2>1. PICK f \in [1..n -> S] : \A a, b \in 1..n : f[a] = f[b] => a = b
    BY <1>1 DEF ExistsBijection, Bijection, Injection, IsInjective
  <2> QED BY <2>1 DEF IsInjective
<1>3. s \in [1..n -> S] /\ IsInjective(s)
  BY <1>2 DEF SetToSeq
<1> HIDE DEF s
<1>4. s \in Injection(1..n, S)
  BY <1>3 DEF Injection, IsInjective
<1>5. Cardinality(1..n) = n
  BY <1>1, FS_Interval
<1> HIDE DEF n
<1>6. s \in Surjection(1..n, S)
  BY <1>1, <1>4, <1>5, FS_Injection DEF n
<1>7. ToSet(s) = S
  BY <1>3, <1>6 DEF Surjection, ToSet
<1>8. s \in Seq(S)
  BY <1>1, <1>3
<1> QED BY <1>7, <1>8 DEF s

LEMMA Prefix3 ==
    ASSUME NEW a, NEW b, NEW c, NEW d
    PROVE  SubSeq(<<a, b, c, d>>, 1, 3) = <<a, b, c>>
<1> DEFINE S == {a, b, c, d}
           s == <<a, b, c, d>>
           u == SubSeq(s, 1, 3)
           w == <<a, b, c>>
<1>1. s \in Seq(S) /\ Len(s) = 4 /\ s[1] = a /\ s[2] = b /\ s[3] = c
  OBVIOUS
<1>2. w \in Seq(S) /\ Len(w) = 3 /\ w[1] = a /\ w[2] = b /\ w[3] = c
  OBVIOUS
<1> HIDE DEF s, S, w
<1>3. u \in Seq(S) /\ Len(u) = 3 /\ \A i \in 1..3 : u[i] = s[i]
  BY <1>1
<1> HIDE DEF u
<1>4. \A i \in 1..3 : u[i] = w[i]
  <2>1. \A i \in 1..3 : i = 1 \/ i = 2 \/ i = 3
    OBVIOUS
  <2> QED BY <1>1, <1>2, <1>3, <2>1
<1>5. u = w
  BY <1>2, <1>3, <1>4, SeqEqual
<1> QED BY <1>5 DEF u, s, w

-----------------------------------------------------------------------------
Families3 == {"total", "inflight", "duration"}
FieldSet(f) == IF f = "duration" THEN {"fast", "slow", "count"} ELSE {"value"}
Gauge == <<"inflight", << >>, "value">>

Cells == [{"fast", "slow", "count"} -> Int] \cup [{"value"} -> Int]
Servings == [next : 1..6, stage : {"find", "create", "serve", "add", "done"}, cell : Nat,
             method : Methods, code : Codes, bucket : {"fast", "slow"}]

(* The numbers there are cells for, and what loading them reads.           *)
Names(m) == UNION {UNION {{<<f, l, x>> : x \in FieldSet(f)} : l \in DOMAIN m[f]} : f \in Families3}
Loads(m) ==
    UNION {UNION {{<<f, l, x, m[f][l]>> : x \in FieldSet(f)} : l \in DOMAIN m[f]} : f \in Families3}

Within(s) == {r \in Handlers : s[r].next \in 2..5}

(* No two series share a cell.                                             *)
SeriesInv(m, cs) ==
    /\ m = [f \in Families3 |-> m[f]] /\ cs \in Seq(Cells)
    /\ \A f \in Families3 :
         /\ IsFiniteSet(DOMAIN m[f])
         /\ \A l \in DOMAIN m[f] : m[f][l] \in DOMAIN cs /\ cs[m[f][l]] \in [FieldSet(f) -> Int]
    /\ \A f, g \in Families3 : \A l \in DOMAIN m[f], k \in DOMAIN m[g] :
          m[f][l] = m[g][k] => f = g /\ l = k

Counting(c) == \A n \in DOMAIN c : c[n] \in Nat

(* A counter is what was added to it, and the gauge what is in flight.     *)
CountsInv(m, cs, c, s) ==
    /\ DOMAIN c \subseteq Names(m) /\ Counting(c)
    /\ \A f \in Families3 : f # "inflight" =>
         \A l \in DOMAIN m[f] : \A x \in FieldSet(f) : cs[m[f][l]][x] = Times(c, <<f, l, x>>)
    /\ IF << >> \in DOMAIN m["inflight"]
       THEN cs[m["inflight"][<< >>]]["value"] = Cardinality(Within(s))
       ELSE Within(s) = {}

(* A request that is about to add has the cell of its series.              *)
StageInv(r) ==
    /\ serving[r].stage = "serve" => serving[r].next = 2
    /\ serving[r].stage \in {"find", "create", "add"} => serving[r].next \in 1..5
    /\ serving[r].stage = "add" =>
         /\ Labels(r) \in DOMAIN series[FamilyOf(r)]
         /\ serving[r].cell = series[FamilyOf(r)][Labels(r)]

Seen(S, n) == \/ \E v \in S.read : v[1] = n
              \/ \E l \in ToSet(S.loads) : <<l[1], l[2], l[3]>> = n

(* What a scrape has read lies between what it began with and what there   *)
(* is now; of what it began with it has missed nothing in the families it  *)
(* is done with, but for what it still has to load.                        *)
ScrapeInv(S, m, c, s) ==
    /\ S = [family |-> S.family, loads |-> S.loads, read |-> S.read, before |-> S.before,
            steady |-> S.steady, met |-> S.met, runs |-> S.runs]
    /\ S.family \in 0..4 /\ S.loads \in Seq(Loads(m))
    /\ S.steady \subseteq Within(s) /\ Within(s) \subseteq S.met /\ IsFiniteSet(S.met)
    /\ Counting(S.before) /\ DOMAIN S.before \subseteq DOMAIN c
    /\ \A n \in DOMAIN S.before : S.before[n] <= c[n]
    /\ \A v \in S.read :
         /\ v[1][1] # "inflight" => v[2] \in Times(S.before, v[1])..Times(c, v[1])
         /\ v[1] = Gauge => v[2] \in Cardinality(S.steady)..Cardinality(S.met)
    /\ \A n \in DOMAIN S.before : n[1] # "inflight" =>
         \A j \in 1..3 : j < S.family /\ n[1] = RenderOrder[j] => Seen(S, n)
    /\ 2 < S.family => Seen(S, Gauge) \/ S.steady = {}

MetricsInv ==
    /\ serving \in [Handlers -> Servings]
    /\ SeriesInv(series, cells) /\ CountsInv(series, cells, added, serving)
    /\ \A r \in Handlers : StageInv(r)
    /\ ScrapeInv(scrape, series, added, serving)

LEMMA FieldsHave ==
    ASSUME NEW f \in Families3
    PROVE  /\ ToSet(Fields(f)) = FieldSet(f) /\ DOMAIN Fields(f) = 1..Len(Fields(f))
           /\ Len(Fields(f)) \in Nat
           /\ [x \in FieldSet(f) |-> 0] \in Cells \cap [FieldSet(f) -> Int]
<1>1. CASE f = "duration"
  <2>1. Fields(f) = <<"fast", "slow", "count">> /\ FieldSet(f) = {"fast", "slow", "count"}
    BY <1>1 DEF Fields, FieldSet
  <2>2. DOMAIN <<"fast", "slow", "count">> = 1..3 /\ Len(<<"fast", "slow", "count">>) = 3
    OBVIOUS
  <2>3. \A i \in 1..3 : i = 1 \/ i = 2 \/ i = 3
    OBVIOUS
  <2>4. ToSet(<<"fast", "slow", "count">>) = {"fast", "slow", "count"}
    BY <2>2, <2>3 DEF ToSet
  <2> QED BY <2>1, <2>2, <2>4 DEF Cells
<1>2. CASE f # "duration"
  <2>1. Fields(f) = <<"value">> /\ FieldSet(f) = {"value"}
    BY <1>2 DEF Fields, FieldSet
  <2>2. DOMAIN <<"value">> = 1..1 /\ Len(<<"value">>) = 1
    OBVIOUS
  <2>3. ToSet(<<"value">>) = {"value"}
    BY <2>2 DEF ToSet
  <2> QED BY <2>1, <2>2, <2>3 DEF Cells
<1> QED BY <1>1, <1>2

LEMMA TheKinds ==
    /\ Len(RenderOrder) = 3 /\ DOMAIN RenderOrder = 1..3 /\ ToSet(RenderOrder) = Families3
    /\ \A j \in 1..3 : RenderOrder[j] \in Families3
    /\ RenderOrder[2] = "inflight" /\ RenderOrder[1] = "total" /\ RenderOrder[3] = "duration"
<1>1. \A i \in 1..3 : i = 1 \/ i = 2 \/ i = 3
  OBVIOUS
<1>2. DOMAIN RenderOrder = 1..3 /\ Len(RenderOrder) = 3
  BY DEF RenderOrder
<1>3. RenderOrder[2] = "inflight" /\ RenderOrder[1] = "total" /\ RenderOrder[3] = "duration"
  BY DEF RenderOrder
<1> QED BY <1>1, <1>2, <1>3 DEF ToSet, Families3

(* What a request adds next.                                               *)
IsAddition(n, a) ==
    /\ a = <<a[1], a[2], a[3], a[4]>> /\ a[1] \in Families3 /\ a[3] \in FieldSet(a[1])
    /\ a[1] = "inflight" => a[2] = << >> /\ a[3] = "value" /\ n \in {1, 5}
                            /\ a[4] = IF n = 1 THEN 1 ELSE -1
    /\ a[1] # "inflight" => a[4] = 1 /\ n \in 2..4

LEMMA AddsIs ==
    ASSUME NEW r \in Handlers, serving[r] \in Servings, serving[r].next \in 1..5
    PROVE  IsAddition(serving[r].next, Adds(r))
<1> DEFINE c == serving[r]
           o == << >>
           m == normalizeMethod(c.method)
           k == <<m, c.code>>
           j == <<m>>
<1>1. Additions(r) = << <<"inflight", o, "value", 1>>, <<"total", k, "value", 1>>,
                        <<"duration", j, c.bucket, 1>>, <<"duration", j, "count", 1>>,
                        <<"inflight", o, "value", -1>> >>
  BY DEF Additions
<1>2. c.bucket \in {"fast", "slow"} /\ c.next \in 1..5
  BY DEF Servings
<1> HIDE DEF o, m, k, j
<1>3. CASE c.next = 1
  <2>1. Adds(r) = <<"inflight", o, "value", 1>>
    BY <1>1, <1>3 DEF Adds
  <2> QED BY <1>3, <2>1 DEF IsAddition, Families3, FieldSet, o
<1>4. CASE c.next = 2
  <2>1. Adds(r) = <<"total", k, "value", 1>>
    BY <1>1, <1>4 DEF Adds
  <2> QED BY <1>4, <2>1 DEF IsAddition, Families3, FieldSet
<1>5. CASE c.next = 3
  <2>1. Adds(r) = <<"duration", j, c.bucket, 1>>
    BY <1>1, <1>5 DEF Adds
  <2> QED BY <1>2, <1>5, <2>1 DEF IsAddition, Families3, FieldSet
<1>6. CASE c.next = 4
  <2>1. Adds(r) = <<"duration", j, "count", 1>>
    BY <1>1, <1>6 DEF Adds
  <2> QED BY <1>6, <2>1 DEF IsAddition, Families3, FieldSet
<1>7. CASE c.next = 5
  <2>1. Adds(r) = <<"inflight", o, "value", -1>>
    BY <1>1, <1>7 DEF Adds
  <2> QED BY <1>7, <2>1 DEF IsAddition, Families3, FieldSet, o
<1> QED BY <1>2, <1>3, <1>4, <1>5, <1>6, <1>7

LEMMA NamesHave ==
    ASSUME NEW m, NEW n
    PROVE  n \in Names(m) <=>
             \E f \in Families3 : \E l \in DOMAIN m[f] : \E x \in FieldSet(f) : n = <<f, l, x>>
<1> QED BY DEF Names

LEMMA LoadsHave ==
    ASSUME NEW m, NEW n
    PROVE  n \in Loads(m) <=>
             \E f \in Families3 : \E l \in DOMAIN m[f] : \E x \in FieldSet(f) :
                n = <<f, l, x, m[f][l]>>
<1> QED BY DEF Loads

LEMMA TimesGrow ==
    ASSUME NEW c, NEW d, Counting(c), Counting(d), DOMAIN c \subseteq DOMAIN d,
           \A n \in DOMAIN c : c[n] <= d[n]
    PROVE  \A n : Times(c, n) \in Nat /\ Times(d, n) \in Nat /\ Times(c, n) <= Times(d, n)
<1> SUFFICES ASSUME NEW n
             PROVE  Times(c, n) \in Nat /\ Times(d, n) \in Nat /\ Times(c, n) <= Times(d, n)
  OBVIOUS
<1>1. Times(d, n) \in Nat
  BY DEF Times, Counting
<1>2. CASE n \in DOMAIN c
  BY <1>2 DEF Times, Counting
<1>3. CASE n \notin DOMAIN c
  BY <1>1, <1>3 DEF Times
<1> QED BY <1>2, <1>3

Grows(c, d) == DOMAIN c \subseteq DOMAIN d /\ \A n \in DOMAIN c : c[n] <= d[n]

(* Any step of a request: the counts and the series only grow.             *)
LEMMA ScrapeSurvives ==
    ASSUME NEW S, NEW T, NEW m, NEW n, NEW c, NEW d, NEW s, NEW t,
           ScrapeInv(S, m, c, s), Counting(c), Counting(d), Grows(c, d),
           Loads(m) \subseteq Loads(n), IsFiniteSet(Within(t)),
           T = [S EXCEPT !.steady = S.steady \cap Within(t), !.met = S.met \cup Within(t)]
    PROVE  ScrapeInv(T, n, d, t)
<1>1. /\ T = [family |-> S.family, loads |-> S.loads, read |-> S.read, before |-> S.before,
              steady |-> S.steady \cap Within(t), met |-> S.met \cup Within(t), runs |-> S.runs]
      /\ IsFiniteSet(S.met) /\ S.steady \subseteq S.met
  BY DEF ScrapeInv
<1>2. T.loads \in Seq(Loads(n))
  BY <1>1 DEF ScrapeInv
<1>3. /\ IsFiniteSet(T.met) /\ IsFiniteSet(S.steady) /\ T.steady \subseteq S.steady
      /\ S.met \subseteq T.met
  BY <1>1, FS_Union, FS_Subset
<1>4. /\ Cardinality(T.steady) \in Nat /\ Cardinality(S.steady) \in Nat
      /\ Cardinality(T.met) \in Nat /\ Cardinality(S.met) \in Nat
      /\ Cardinality(T.steady) <= Cardinality(S.steady)
      /\ Cardinality(S.met) <= Cardinality(T.met)
  BY <1>1, <1>3, FS_Subset, FS_CardinalityType
<1>5. \A x : Times(c, x) \in Nat /\ Times(d, x) \in Nat /\ Times(c, x) <= Times(d, x)
  BY TimesGrow DEF Grows
<1>6. \A x : Times(S.before, x) \in Nat
  BY DEF ScrapeInv, Counting, Times
<1>7. ASSUME NEW v \in T.read
      PROVE  /\ v[1][1] # "inflight" => v[2] \in Times(T.before, v[1])..Times(d, v[1])
             /\ v[1] = Gauge => v[2] \in Cardinality(T.steady)..Cardinality(T.met)
  <2>1. v \in S.read /\ T.before = S.before
    BY <1>1
  <2>2. /\ v[1][1] # "inflight" => v[2] \in Times(S.before, v[1])..Times(c, v[1])
        /\ v[1] = Gauge => v[2] \in Cardinality(S.steady)..Cardinality(S.met)
    BY <2>1 DEF ScrapeInv
  <2> DEFINE lo == Times(S.before, v[1])  hi == Times(c, v[1])  top == Times(d, v[1])
  <2>3. lo \in Nat /\ hi \in Nat /\ top \in Nat /\ hi <= top
    BY <1>5, <1>6
  <2> HIDE DEF lo, hi, top
  <2>4. v[2] \in lo..hi => v[2] \in lo..top
    BY <2>3
  <2>5. v[2] \in Cardinality(S.steady)..Cardinality(S.met)
            => v[2] \in Cardinality(T.steady)..Cardinality(T.met)
    BY <1>4
  <2> QED BY <2>1, <2>2, <2>4, <2>5 DEF lo, hi, top
<1>8. \A x : Seen(T, x) <=> Seen(S, x)
  BY <1>1 DEF Seen
<1>9. \A x \in DOMAIN S.before : S.before[x] <= d[x]
  <2> SUFFICES ASSUME NEW x \in DOMAIN S.before PROVE S.before[x] <= d[x]
    OBVIOUS
  <2>1. x \in DOMAIN c /\ x \in DOMAIN d /\ S.before[x] <= c[x] /\ c[x] <= d[x]
    BY DEF ScrapeInv, Grows
  <2>2. S.before[x] \in Nat /\ c[x] \in Nat /\ d[x] \in Nat
    BY <2>1 DEF ScrapeInv, Counting
  <2> QED BY <2>1, <2>2
<1>10. /\ \A x \in DOMAIN T.before : x[1] # "inflight" =>
             \A j \in 1..3 : j < T.family /\ x[1] = RenderOrder[j] => Seen(T, x)
       /\ 2 < T.family => Seen(T, Gauge) \/ T.steady = {}
  BY <1>1, <1>8 DEF ScrapeInv
<1>11. /\ T.family \in 0..4 /\ T.steady \subseteq Within(t) /\ Within(t) \subseteq T.met
       /\ Counting(T.before) /\ DOMAIN T.before \subseteq DOMAIN d
  BY <1>1 DEF ScrapeInv, Grows
<1>12. T = [family |-> T.family, loads |-> T.loads, read |-> T.read, before |-> T.before,
            steady |-> T.steady, met |-> T.met, runs |-> T.runs]
  BY <1>1
<1>13. \A x \in DOMAIN T.before : T.before[x] <= d[x]
  BY <1>1, <1>9
<1> QED BY <1>2, <1>3, <1>7, <1>10, <1>11, <1>12, <1>13 DEF ScrapeInv

LEMMA StartScrape ==
    ASSUME MetricsInv, RenderStart
    PROVE  ScrapeInv(scrape', series, added, serving)
<1>1. scrape' = [scrape EXCEPT !.family = 1, !.runs = @ + 1, !.read = {}, !.before = added,
                    !.steady = Within(serving), !.met = Within(serving)]
  BY DEF RenderStart, Within
<1>2. scrape' = [family |-> 1, loads |-> scrape.loads, read |-> {}, before |-> added,
                 steady |-> Within(serving), met |-> Within(serving), runs |-> scrape.runs + 1]
  BY <1>1 DEF MetricsInv, ScrapeInv
<1>3. IsFiniteSet(Within(serving))
  BY FS_Subset DEF MetricsInv, ScrapeInv
<1>4. Counting(added) /\ \A n \in DOMAIN added : added[n] <= added[n]
  BY DEF MetricsInv, CountsInv, Counting
<1>5. scrape.loads \in Seq(Loads(series))
  BY DEF MetricsInv, ScrapeInv
<1>6. \A j \in 1..3 : ~(j < 1)
  OBVIOUS
<1> QED BY <1>2, <1>3, <1>4, <1>5, <1>6 DEF ScrapeInv

(* The copy has every number there is a cell for.                          *)
LEMMA CopyHas ==
    ASSUME NEW f \in Families3, NEW m, IsFiniteSet(DOMAIN m[f]), NEW q,
           q = FlattenSeq([i \in DOMAIN SetToSeq(DOMAIN m[f]) |->
                 [j \in DOMAIN Fields(f) |->
                    <<f, SetToSeq(DOMAIN m[f])[i], Fields(f)[j], m[f][SetToSeq(DOMAIN m[f])[i]]>>]])
    PROVE  /\ q \in Seq(Loads(m))
           /\ \A l \in DOMAIN m[f], x \in FieldSet(f) : <<f, l, x, m[f][l]>> \in ToSet(q)
<1> DEFINE order == SetToSeq(DOMAIN m[f])
           F == Fields(f)
           loadsOf(l) == [j \in DOMAIN F |-> <<f, l, F[j], m[f][l]>>]
           loads == [i \in DOMAIN order |-> loadsOf(order[i])]
<1>1. order \in Seq(DOMAIN m[f]) /\ ToSet(order) = DOMAIN m[f]
  BY SetToSeqHas
<1>2. DOMAIN F = 1..Len(F) /\ Len(F) \in Nat /\ ToSet(F) = FieldSet(f)
  BY FieldsHave
<1>3. q = FlattenSeq(loads)
  OBVIOUS
<1> HIDE DEF order, F
<1>4. ASSUME NEW l \in DOMAIN m[f] PROVE loadsOf(l) \in Seq(Loads(m))
  <2>1. \A j \in DOMAIN F : F[j] \in FieldSet(f)
    BY <1>2 DEF ToSet
  <2>2. \A j \in 1..Len(F) : <<f, l, F[j], m[f][l]>> \in Loads(m)
    BY <1>2, <2>1, LoadsHave
  <2> DEFINE e(j) == <<f, l, F[j], m[f][l]>>
  <2>3. \A j \in 1..Len(F) : e(j) \in Loads(m)
    BY <2>2
  <2> HIDE DEF e
  <2>4. [j \in 1..Len(F) |-> e(j)] \in Seq(Loads(m))
    BY <1>2, <2>3
  <2> QED BY <1>2, <2>4 DEF e
<1>5. \A i \in DOMAIN order : order[i] \in DOMAIN m[f]
  BY <1>1 DEF ToSet
<1>6. loads \in Seq(Seq(Loads(m)))
  <2>1. DOMAIN order = 1..Len(order) /\ Len(order) \in Nat
    BY <1>1
  <2> HIDE DEF loadsOf
  <2>2. [i \in 1..Len(order) |-> loadsOf(order[i])] \in Seq(Seq(Loads(m)))
    BY <1>4, <1>5, <2>1
  <2> QED BY <2>1, <2>2
<1>7. DOMAIN loads = DOMAIN order
  OBVIOUS
<1>8. q \in Seq(Loads(m)) /\ \A i \in DOMAIN order : ToSet(loads[i]) \subseteq ToSet(q)
  <2> HIDE DEF loads
  <2> QED BY <1>3, <1>6, <1>7, FlattenSeqHas
<1>9. ASSUME NEW l \in DOMAIN m[f], NEW x \in FieldSet(f)
      PROVE  <<f, l, x, m[f][l]>> \in ToSet(q)
  <2>1. PICK i \in DOMAIN order : order[i] = l
    BY <1>1 DEF ToSet
  <2>2. PICK j \in DOMAIN F : F[j] = x
    BY <1>2 DEF ToSet
  <2>3. loads[i] = loadsOf(l)
    BY <2>1
  <2>4. DOMAIN loadsOf(l) = DOMAIN F /\ loadsOf(l)[j] = <<f, l, x, m[f][l]>>
    BY <2>2
  <2> HIDE DEF loadsOf, loads
  <2>5. loadsOf(l)[j] \in ToSet(loadsOf(l))
    BY <2>4 DEF ToSet
  <2> QED BY <1>8, <2>3, <2>4, <2>5
<1> QED BY <1>8, <1>9

LEMMA CopyCells ==
    ASSUME MetricsInv, WriteCopy
    PROVE  ScrapeInv(scrape', series, added, serving)
<1> DEFINE f == RenderOrder[scrape.family]
           q == FlattenSeq([i \in DOMAIN SetToSeq(DOMAIN series[f]) |->
                  [j \in DOMAIN Fields(f) |->
                     <<f, SetToSeq(DOMAIN series[f])[i], Fields(f)[j],
                       series[f][SetToSeq(DOMAIN series[f])[i]]>>]])
<1>1. scrape.family \in 1..3 /\ f \in Families3 /\ scrape.loads = << >>
  BY TheKinds DEF WriteCopy
<1>2. scrape' = [scrape EXCEPT !.family = @ + 1, !.loads = q]
  BY DEF WriteCopy
<1>3. IsFiniteSet(DOMAIN series[f])
  BY <1>1 DEF MetricsInv, SeriesInv
<1>4. /\ q \in Seq(Loads(series))
      /\ \A l \in DOMAIN series[f], x \in FieldSet(f) : <<f, l, x, series[f][l]>> \in ToSet(q)
  <2> HIDE DEF q, f
  <2> QED BY <1>1, <1>3, CopyHas DEF q
<1> HIDE DEF q
<1>5. scrape' = [family |-> scrape.family + 1, loads |-> q, read |-> scrape.read,
                 before |-> scrape.before, steady |-> scrape.steady, met |-> scrape.met,
                 runs |-> scrape.runs]
  BY <1>2 DEF MetricsInv, ScrapeInv
<1>6. ASSUME NEW n, Seen(scrape, n) PROVE Seen(scrape', n)
  <2>1. ToSet(scrape.loads) = {}
    <3> DEFINE o == << >>
    <3>1. DOMAIN o = {}
      OBVIOUS
    <3> HIDE DEF o
    <3>2. ToSet(o) = {}
      BY <3>1 DEF ToSet
    <3> QED BY <1>1, <3>2 DEF o
  <2>2. PICK v \in scrape.read : v[1] = n
    BY <1>6, <2>1 DEF Seen
  <2>3. v \in scrape'.read
    BY <1>5
  <2> QED BY <2>2, <2>3 DEF Seen
<1>7. ASSUME NEW n \in Names(series), n[1] = f PROVE Seen(scrape', n)
  <2>1. PICK g, l, x : /\ g \in Families3 /\ l \in DOMAIN series[g] /\ x \in FieldSet(g)
                       /\ n = <<g, l, x>>
    BY <1>7, NamesHave
  <2>2. g = f
    BY <1>7, <2>1
  <2>3. <<g, l, x, series[g][l]>> \in ToSet(scrape'.loads)
    BY <1>4, <1>5, <2>1, <2>2
  <2> DEFINE e == <<g, l, x, series[g][l]>>
  <2>4. e \in ToSet(scrape'.loads) /\ <<e[1], e[2], e[3]>> = n
    BY <2>1, <2>3
  <2> HIDE DEF e
  <2> QED BY <2>4 DEF Seen
<1>8. ASSUME NEW n \in DOMAIN scrape'.before, n[1] # "inflight", NEW j \in 1..3,
             j < scrape'.family, n[1] = RenderOrder[j]
      PROVE  Seen(scrape', n)
  <2>1. n \in DOMAIN scrape.before /\ n \in Names(series)
    BY <1>5, <1>8 DEF MetricsInv, ScrapeInv, CountsInv
  <2>2. CASE j = scrape.family
    BY <1>7, <1>8, <2>1, <2>2
  <2>3. CASE j # scrape.family
    <3>1. j < scrape.family
      BY <1>1, <1>5, <1>8, <2>3
    <3>2. Seen(scrape, n)
      BY <1>8, <2>1, <3>1 DEF MetricsInv, ScrapeInv
    <3> QED BY <1>6, <3>2
  <2> QED BY <2>2, <2>3
<1>9. ASSUME 2 < scrape'.family PROVE Seen(scrape', Gauge) \/ scrape'.steady = {}
  <2>1. CASE scrape.family = 2
    <3>1. f = "inflight" /\ "inflight" \in Families3
      BY <2>1, TheKinds DEF Families3
    <3> DEFINE o == << >>
    <3>2. CASE o \in DOMAIN series["inflight"]
      <4>1. "value" \in FieldSet("inflight")
        BY DEF FieldSet
      <4>2. Gauge = <<"inflight", o, "value">>
        BY DEF Gauge
      <4> HIDE DEF o
      <4>3. Gauge \in Names(series) /\ Gauge[1] = f
        BY <3>1, <3>2, <4>1, <4>2, NamesHave
      <4> QED BY <1>7, <4>3
    <3>3. CASE o \notin DOMAIN series["inflight"]
      <4>1. Within(serving) = {}
        BY <3>3 DEF MetricsInv, CountsInv
      <4>2. scrape.steady = {}
        BY <4>1 DEF MetricsInv, ScrapeInv
      <4> QED BY <1>5, <4>2
    <3> QED BY <3>2, <3>3
  <2>2. CASE scrape.family # 2
    <3>1. 2 < scrape.family
      BY <1>1, <1>5, <1>9, <2>2
    <3>2. Seen(scrape, Gauge) \/ scrape.steady = {}
      BY <3>1 DEF MetricsInv, ScrapeInv
    <3> QED BY <1>5, <1>6, <3>2
  <2> QED BY <2>1, <2>2
<1>10. scrape'.family \in 0..4 /\ scrape'.loads \in Seq(Loads(series))
  BY <1>1, <1>4, <1>5
<1>11. /\ scrape' = [family |-> scrape'.family, loads |-> scrape'.loads, read |-> scrape'.read,
                     before |-> scrape'.before, steady |-> scrape'.steady, met |-> scrape'.met,
                     runs |-> scrape'.runs]
       /\ scrape'.steady = scrape.steady /\ scrape'.met = scrape.met
       /\ scrape'.before = scrape.before /\ scrape'.read = scrape.read
  BY <1>5
<1>12. ScrapeInv(scrape, series, added, serving)
  BY DEF MetricsInv
<1> HIDE DEF f
<1>13. /\ \A n \in DOMAIN scrape'.before : n[1] # "inflight" =>
             \A j \in 1..3 : j < scrape'.family /\ n[1] = RenderOrder[j] => Seen(scrape', n)
       /\ 2 < scrape'.family => Seen(scrape', Gauge) \/ scrape'.steady = {}
  BY <1>8, <1>9
<1> QED BY <1>10, <1>11, <1>12, <1>13 DEF ScrapeInv

(* What a load reads is what was added to the number, or what is in flight *)
LEMMA LoadReads ==
    ASSUME MetricsInv, NEW l \in Loads(series)
    PROVE  /\ l = <<l[1], l[2], l[3], l[4]>>
           /\ l[1] # "inflight" => cells[l[4]][l[3]] = Times(added, <<l[1], l[2], l[3]>>)
           /\ <<l[1], l[2], l[3]>> = Gauge => cells[l[4]][l[3]] = Cardinality(Within(serving))
<1>1. PICK f, k, x : /\ f \in Families3 /\ k \in DOMAIN series[f] /\ x \in FieldSet(f)
                     /\ l = <<f, k, x, series[f][k]>>
  BY LoadsHave
<1>2. l = <<l[1], l[2], l[3], l[4]>> /\ l[1] = f /\ l[2] = k /\ l[3] = x /\ l[4] = series[f][k]
  BY <1>1
<1>3. f # "inflight" => cells[series[f][k]][x] = Times(added, <<f, k, x>>)
  BY <1>1 DEF MetricsInv, CountsInv
<1> DEFINE o == << >>
<1>4. o \in DOMAIN series["inflight"]
        => cells[series["inflight"][o]]["value"] = Cardinality(Within(serving))
  BY DEF MetricsInv, CountsInv
<1>5. Gauge = <<"inflight", o, "value">>
  BY DEF Gauge
<1> HIDE DEF o
<1>6. <<f, k, x>> = Gauge => f = "inflight" /\ k = o /\ x = "value"
  BY <1>5
<1>7. <<f, k, x>> = Gauge => cells[series[f][k]][x] = Cardinality(Within(serving))
  BY <1>1, <1>4, <1>6
<1> QED BY <1>2, <1>3, <1>7

LEMMA LoadCell ==
    ASSUME MetricsInv, WriteLoad
    PROVE  ScrapeInv(scrape', series, added, serving)
<1> DEFINE l == Head(scrape.loads)
           n == <<l[1], l[2], l[3]>>
           w == cells[l[4]][l[3]]
<1>1. ScrapeInv(scrape, series, added, serving)
  BY DEF MetricsInv
<1>2. /\ scrape.loads \in Seq(Loads(series)) /\ scrape.loads # << >>
      /\ l \in Loads(series) /\ Tail(scrape.loads) \in Seq(Loads(series))
  BY <1>1 DEF WriteLoad, ScrapeInv
<1>3. ToSet(scrape.loads) \subseteq {l} \cup ToSet(Tail(scrape.loads))
  <2> DEFINE s == scrape.loads  t == Tail(s)
  <2>1. /\ Len(s) \in Nat \ {0} /\ DOMAIN s = 1..Len(s) /\ DOMAIN t = 1..(Len(s) - 1) /\ s[1] = l
        /\ \A i \in 1..(Len(s) - 1) : t[i] = s[i + 1]
    BY <1>2
  <2> HIDE DEF s, t, l
  <2>2. ASSUME NEW i \in 1..Len(s), i # 1 PROVE s[i] \in ToSet(t)
    <3>1. i - 1 \in 1..(Len(s) - 1) /\ (i - 1) + 1 = i
      BY <2>1, <2>2
    <3>2. t[i - 1] = s[i]
      BY <2>1, <3>1
    <3> QED BY <2>1, <3>1, <3>2 DEF ToSet
  <2>3. ToSet(s) \subseteq {l} \cup ToSet(t)
    BY <2>1, <2>2 DEF ToSet
  <2> QED BY <2>3 DEF s, t
<1>4. SubSeq(l, 1, 3) = n
  <2>1. l = <<l[1], l[2], l[3], l[4]>>
    BY <1>2, LoadReads
  <2>2. SubSeq(<<l[1], l[2], l[3], l[4]>>, 1, 3) = <<l[1], l[2], l[3]>>
    BY Prefix3
  <2> HIDE DEF l
  <2> QED BY <2>1, <2>2
<1>5. scrape' = [scrape EXCEPT !.loads = Tail(@), !.read = @ \cup {<<n, w>>}]
  BY <1>4 DEF WriteLoad
<1>6. /\ l[1] # "inflight" => w = Times(added, n)
      /\ n = Gauge => w = Cardinality(Within(serving))
  BY <1>2, LoadReads
<1>7. n[1] = l[1]
  OBVIOUS
<1> HIDE DEF l, n, w
<1>8. scrape' = [family |-> scrape.family, loads |-> Tail(scrape.loads),
                 read |-> scrape.read \cup {<<n, w>>},
                 before |-> scrape.before, steady |-> scrape.steady, met |-> scrape.met,
                 runs |-> scrape.runs]
  BY <1>1, <1>5 DEF ScrapeInv
<1>9. ASSUME NEW x, Seen(scrape, x) PROVE Seen(scrape', x)
  <2>1. CASE \E v \in scrape.read : v[1] = x
    BY <1>8, <2>1 DEF Seen
  <2>2. CASE \E e \in ToSet(scrape.loads) : <<e[1], e[2], e[3]>> = x
    <3>1. PICK e \in ToSet(scrape.loads) : <<e[1], e[2], e[3]>> = x
      BY <2>2
    <3>2. CASE e = l
      <4>1. n = x /\ <<n, w>>[1] = x /\ <<n, w>> \in scrape'.read
        BY <1>8, <3>1, <3>2 DEF n
      <4> QED BY <4>1 DEF Seen
    <3>3. CASE e # l
      <4>1. e \in ToSet(scrape'.loads)
        BY <1>3, <1>8, <3>1, <3>3
      <4> QED BY <3>1, <4>1 DEF Seen
    <3> QED BY <3>2, <3>3
  <2> QED BY <1>9, <2>1, <2>2 DEF Seen
<1>10. /\ \A x : Times(scrape.before, x) \in Nat /\ Times(added, x) \in Nat
                   /\ Times(scrape.before, x) <= Times(added, x)
  <2>1. Counting(scrape.before) /\ Counting(added)
    BY <1>1 DEF MetricsInv, CountsInv, ScrapeInv
  <2>2. DOMAIN scrape.before \subseteq DOMAIN added
         /\ \A x \in DOMAIN scrape.before : scrape.before[x] <= added[x]
    BY <1>1 DEF ScrapeInv
  <2> QED BY <2>1, <2>2, TimesGrow
<1>11. Cardinality(Within(serving)) \in Cardinality(scrape.steady)..Cardinality(scrape.met)
  <2>1. /\ IsFiniteSet(scrape.met) /\ Within(serving) \subseteq scrape.met
        /\ scrape.steady \subseteq Within(serving)
    BY <1>1 DEF ScrapeInv
  <2>2. IsFiniteSet(Within(serving)) /\ Cardinality(Within(serving)) <= Cardinality(scrape.met)
    BY <2>1, FS_Subset
  <2>3. /\ IsFiniteSet(scrape.steady)
        /\ Cardinality(scrape.steady) <= Cardinality(Within(serving))
    BY <2>1, <2>2, FS_Subset
  <2>4. /\ Cardinality(scrape.met) \in Nat /\ Cardinality(scrape.steady) \in Nat
        /\ Cardinality(Within(serving)) \in Nat
    BY <2>1, <2>2, <2>3, FS_CardinalityType
  <2> QED BY <2>2, <2>3, <2>4
<1>12. ASSUME NEW v \in scrape'.read
       PROVE  /\ v[1][1] # "inflight" => v[2] \in Times(scrape.before, v[1])..Times(added, v[1])
              /\ v[1] = Gauge => v[2] \in Cardinality(scrape.steady)..Cardinality(scrape.met)
  <2>1. CASE v \in scrape.read
    BY <1>1, <2>1 DEF ScrapeInv
  <2>2. CASE v = <<n, w>>
    <3>1. v[1] = n /\ v[2] = w
      BY <2>2
    <3>2. n[1] # "inflight" => w \in Times(scrape.before, n)..Times(added, n)
      <4> DEFINE lo == Times(scrape.before, n)  hi == Times(added, n)
      <4>1. lo \in Nat /\ hi \in Nat /\ lo <= hi
        BY <1>10
      <4>2. n[1] # "inflight" => w = hi
        BY <1>6, <1>7
      <4> HIDE DEF lo, hi
      <4>3. n[1] # "inflight" => w \in lo..hi
        BY <4>1, <4>2
      <4> QED BY <4>3 DEF lo, hi
    <3> QED BY <1>6, <1>11, <3>1, <3>2
  <2> QED BY <1>8, <2>1, <2>2
<1>13. /\ scrape' = [family |-> scrape'.family, loads |-> scrape'.loads, read |-> scrape'.read,
                     before |-> scrape'.before, steady |-> scrape'.steady, met |-> scrape'.met,
                     runs |-> scrape'.runs]
       /\ scrape'.steady = scrape.steady /\ scrape'.met = scrape.met
       /\ scrape'.before = scrape.before /\ scrape'.family = scrape.family
       /\ scrape'.loads \in Seq(Loads(series))
  BY <1>2, <1>8
<1>14. /\ \A x \in DOMAIN scrape'.before : x[1] # "inflight" =>
             \A j \in 1..3 : j < scrape'.family /\ x[1] = RenderOrder[j] => Seen(scrape', x)
       /\ 2 < scrape'.family => Seen(scrape', Gauge) \/ scrape'.steady = {}
  BY <1>1, <1>9, <1>13 DEF ScrapeInv
<1> QED BY <1>1, <1>12, <1>13, <1>14 DEF ScrapeInv

(* Series are never dropped, and never moved to another cell.              *)
Keeps(m, n) == \A f \in Families3 : \A l \in DOMAIN m[f] : l \in DOMAIN n[f] /\ n[f][l] = m[f][l]

LEMMA LoadsKept ==
    ASSUME NEW m, NEW n, Keeps(m, n)
    PROVE  Names(m) \subseteq Names(n) /\ Loads(m) \subseteq Loads(n)
<1>1. ASSUME NEW e \in Names(m) PROVE e \in Names(n)
  <2>1. PICK f, l, x : f \in Families3 /\ l \in DOMAIN m[f] /\ x \in FieldSet(f) /\ e = <<f, l, x>>
    BY <1>1, NamesHave
  <2>2. l \in DOMAIN n[f]
    BY <2>1 DEF Keeps
  <2> QED BY <2>1, <2>2, NamesHave
<1>2. ASSUME NEW e \in Loads(m) PROVE e \in Loads(n)
  <2>1. PICK f, l, x : /\ f \in Families3 /\ l \in DOMAIN m[f] /\ x \in FieldSet(f)
                       /\ e = <<f, l, x, m[f][l]>>
    BY <1>2, LoadsHave
  <2>2. l \in DOMAIN n[f] /\ e = <<f, l, x, n[f][l]>>
    BY <2>1 DEF Keeps
  <2> QED BY <2>1, <2>2, LoadsHave
<1> QED BY <1>1, <1>2

(* A new series, in a cell of its own.                                     *)
IsNewSeries(f, l, m, n, cs, ds) ==
    /\ n = [m EXCEPT ![f] = [k \in DOMAIN m[f] \cup {l} |-> IF k = l THEN Len(cs) + 1 ELSE m[f][k]]]
    /\ ds = Append(cs, [x \in FieldSet(f) |-> 0])

IsAppended(f, l, m, n, cs, ds) ==
    /\ l \in DOMAIN n[f] /\ n[f][l] = Len(cs) + 1
    /\ Len(cs) + 1 \in DOMAIN ds /\ ds[Len(cs) + 1] = [x \in FieldSet(f) |-> 0]
    /\ \A i \in DOMAIN cs : i \in DOMAIN ds /\ ds[i] = cs[i] /\ i # Len(cs) + 1
    /\ \A g \in Families3 : \A k \in DOMAIN n[g] :
          (g = f /\ k = l) \/ (k \in DOMAIN m[g] /\ n[g][k] = m[g][k])

LEMMA NewSeries ==
    ASSUME NEW f \in Families3, NEW l, NEW m, NEW n, NEW cs, NEW ds,
           SeriesInv(m, cs), l \notin DOMAIN m[f], IsNewSeries(f, l, m, n, cs, ds)
    PROVE  SeriesInv(n, ds) /\ Keeps(m, n) /\ IsAppended(f, l, m, n, cs, ds)
<1> DEFINE N == Len(cs)
           new == [x \in FieldSet(f) |-> 0]
           mf == [k \in DOMAIN m[f] \cup {l} |-> IF k = l THEN N + 1 ELSE m[f][k]]
<1>1. cs \in Seq(Cells) /\ N \in Nat /\ DOMAIN cs = 1..N
  BY DEF SeriesInv
<1>2. new \in Cells /\ new \in [FieldSet(f) -> Int]
  BY FieldsHave
<1> HIDE DEF new
<1>3. ds = Append(cs, new)
  BY DEF IsNewSeries, new
<1>4. /\ ds \in Seq(Cells) /\ DOMAIN ds = 1..(N + 1) /\ ds[N + 1] = new
      /\ \A i \in 1..N : ds[i] = cs[i]
  BY <1>1, <1>2, <1>3
<1>5. m = [g \in Families3 |-> m[g]] /\ n = [m EXCEPT ![f] = mf]
  BY DEF SeriesInv, IsNewSeries
<1>6. /\ DOMAIN mf = DOMAIN m[f] \cup {l} /\ mf[l] = N + 1
      /\ \A k \in DOMAIN m[f] : mf[k] = m[f][k]
  OBVIOUS
<1> HIDE DEF mf
<1>7. n = [g \in Families3 |-> n[g]] /\ n[f] = mf /\ \A g \in Families3 : g # f => n[g] = m[g]
  BY <1>5
<1>8. Keeps(m, n)
  BY <1>6, <1>7 DEF Keeps
<1>9. \A i \in 1..N : i \in 1..(N + 1) /\ i # N + 1
  BY <1>1
<1> HIDE DEF N
<1>10. \A g \in Families3 : \A k \in DOMAIN n[g] :
          (g = f /\ k = l) \/ (k \in DOMAIN m[g] /\ n[g][k] = m[g][k])
  BY <1>6, <1>7
<1>11. n[f][l] = N + 1 /\ l \in DOMAIN n[f] /\ N + 1 \in 1..(N + 1)
  BY <1>1, <1>6, <1>7
<1>12. \A g \in Families3 : \A k \in DOMAIN m[g] :
          m[g][k] \in 1..N /\ cs[m[g][k]] \in [FieldSet(g) -> Int]
  BY <1>1 DEF SeriesInv
<1>13. ASSUME NEW g \in Families3
       PROVE  /\ IsFiniteSet(DOMAIN n[g])
              /\ \A k \in DOMAIN n[g] : n[g][k] \in DOMAIN ds /\ ds[n[g][k]] \in [FieldSet(g) -> Int]
  <2>1. IsFiniteSet(DOMAIN m[g])
    BY DEF SeriesInv
  <2>2. IsFiniteSet(DOMAIN n[g])
    <3>1. CASE g = f
      BY <1>6, <1>7, <2>1, <3>1, FS_AddElement
    <3>2. CASE g # f
      BY <1>7, <2>1, <3>2
    <3> QED BY <3>1, <3>2
  <2>3. ASSUME NEW k \in DOMAIN n[g]
        PROVE  n[g][k] \in DOMAIN ds /\ ds[n[g][k]] \in [FieldSet(g) -> Int]
    <3>1. CASE g = f /\ k = l
      BY <1>2, <1>4, <1>11, <3>1
    <3>2. CASE k \in DOMAIN m[g] /\ n[g][k] = m[g][k]
      BY <1>4, <1>9, <1>12, <3>2
    <3> QED BY <1>10, <3>1, <3>2
  <2> QED BY <2>2, <2>3
<1>14. ASSUME NEW g \in Families3, NEW h \in Families3, NEW k \in DOMAIN n[g], NEW j \in DOMAIN n[h],
              n[g][k] = n[h][j]
       PROVE  g = h /\ k = j
  <2>1. (g = f /\ k = l) \/ (k \in DOMAIN m[g] /\ n[g][k] = m[g][k])
    BY <1>10
  <2>2. (h = f /\ j = l) \/ (j \in DOMAIN m[h] /\ n[h][j] = m[h][j])
    BY <1>10
  <2>3. CASE k \in DOMAIN m[g] /\ n[g][k] = m[g][k] /\ j \in DOMAIN m[h] /\ n[h][j] = m[h][j]
    <3>1. \A x \in DOMAIN m[g], y \in DOMAIN m[h] : m[g][x] = m[h][y] => g = h /\ x = y
      BY DEF SeriesInv
    <3>2. m[g][k] = m[h][j]
      BY <1>14, <2>3
    <3> QED BY <2>3, <3>1, <3>2
  <2>4. CASE g = f /\ k = l /\ ~(h = f /\ j = l)
    BY <1>9, <1>11, <1>12, <1>14, <2>2, <2>4
  <2>5. CASE ~(g = f /\ k = l) /\ h = f /\ j = l
    BY <1>9, <1>11, <1>12, <1>14, <2>1, <2>5
  <2> QED BY <2>1, <2>2, <2>3, <2>4, <2>5
<1>15. SeriesInv(n, ds)
  BY <1>4, <1>7, <1>13, <1>14 DEF SeriesInv
<1>16. IsAppended(f, l, m, n, cs, ds)
  BY <1>1, <1>4, <1>9, <1>10, <1>11 DEF IsAppended, N, new
<1> QED BY <1>8, <1>15, <1>16

(* It counts nothing yet.                                                  *)
LEMMA NewCounts ==
    ASSUME NEW f \in Families3, NEW l, NEW m, NEW n, NEW cs, NEW ds, NEW c, NEW s,
           SeriesInv(m, cs), SeriesInv(n, ds), Keeps(m, n), l \notin DOMAIN m[f],
           f = "inflight" => l = << >>,
           IsAppended(f, l, m, n, cs, ds), CountsInv(m, cs, c, s)
    PROVE  CountsInv(n, ds, c, s)
<1> DEFINE o == << >>
           io == "inflight"
           cell == n[io][o]
<1>1. DOMAIN c \subseteq Names(m) /\ DOMAIN c \subseteq Names(n) /\ Counting(c)
  BY LoadsKept DEF CountsInv
<1>2. \A x : <<f, l, x>> \notin Names(m)
  <2> SUFFICES ASSUME NEW x, <<f, l, x>> \in Names(m) PROVE FALSE
    OBVIOUS
  <2>1. PICK g, k, y : g \in Families3 /\ k \in DOMAIN m[g] /\ y \in FieldSet(g)
                       /\ <<f, l, x>> = <<g, k, y>>
    BY NamesHave
  <2> QED BY <2>1
<1>3. \A g \in Families3 : \A k \in DOMAIN m[g] : m[g][k] \in DOMAIN cs
  BY DEF SeriesInv
<1>4. ASSUME NEW g \in Families3, g # io, NEW k \in DOMAIN n[g], NEW x \in FieldSet(g)
      PROVE  ds[n[g][k]][x] = Times(c, <<g, k, x>>)
  <2>1. CASE g = f /\ k = l
    <3>1. <<g, k, x>> \notin DOMAIN c
      BY <1>1, <1>2, <2>1
    <3>2. ds[n[g][k]][x] = 0
      BY <2>1 DEF IsAppended
    <3> QED BY <3>1, <3>2 DEF Times
  <2>2. CASE k \in DOMAIN m[g] /\ n[g][k] = m[g][k]
    <3>1. ds[n[g][k]] = cs[m[g][k]]
      BY <1>3, <2>2 DEF IsAppended
    <3>2. cs[m[g][k]][x] = Times(c, <<g, k, x>>)
      BY <1>4, <2>2 DEF CountsInv
    <3> QED BY <3>1, <3>2
  <2> QED BY <2>1, <2>2 DEF IsAppended
<1>5. io \in Families3 /\ "value" \in FieldSet(io)
  BY DEF Families3, FieldSet
<1>6. IF o \in DOMAIN m[io] THEN cs[m[io][o]]["value"] = Cardinality(Within(s)) ELSE Within(s) = {}
  BY DEF CountsInv
<1>7. f = io => l = o
  OBVIOUS
<1> HIDE DEF o, io
<1>8. IF o \in DOMAIN n[io] THEN ds[n[io][o]]["value"] = Cardinality(Within(s)) ELSE Within(s) = {}
  <2>1. CASE o \in DOMAIN m[io]
    <3>1. o \in DOMAIN n[io] /\ n[io][o] = m[io][o] /\ m[io][o] \in DOMAIN cs
      BY <1>3, <1>5, <2>1 DEF Keeps
    <3>2. ds[n[io][o]] = cs[m[io][o]]
      BY <3>1 DEF IsAppended
    <3> QED BY <1>6, <2>1, <3>1, <3>2
  <2>2. CASE o \notin DOMAIN m[io] /\ o \in DOMAIN n[io]
    <3>1. io = f /\ o = l
      BY <1>5, <2>2 DEF IsAppended
    <3>2. ds[n[io][o]]["value"] = 0
      BY <1>5, <3>1 DEF IsAppended
    <3>3. Cardinality(Within(s)) = 0
      BY <1>6, <2>2, FS_EmptySet
    <3> QED BY <2>2, <3>2, <3>3
  <2>3. CASE o \notin DOMAIN m[io] /\ o \notin DOMAIN n[io]
    BY <1>6, <2>3
  <2> QED BY <2>1, <2>2, <2>3
<1> QED BY <1>1, <1>4, <1>8 DEF CountsInv, o, io

IsCounted(a, c, d) ==
    d = [n \in DOMAIN c \cup {a} |-> Times(c, n) + (IF n = a THEN 1 ELSE 0)]

(* One addition to a number of a cell, and to the count of the additions.  *)
IsAddedTo(f, l, x, v, m, cs, ds, c, d) ==
    /\ ds = [cs EXCEPT ![m[f][l]] = [cs[m[f][l]] EXCEPT ![x] = cs[m[f][l]][x] + v]]
    /\ IsCounted(<<f, l, x>>, c, d)

LEMMA AddedCells ==
    ASSUME NEW f \in Families3, NEW m, NEW l \in DOMAIN m[f], NEW x \in FieldSet(f), NEW v \in Int,
           NEW cs, NEW ds, NEW c, NEW d, SeriesInv(m, cs), IsAddedTo(f, l, x, v, m, cs, ds, c, d)
    PROVE  /\ SeriesInv(m, ds)
           /\ \A g \in Families3 : \A k \in DOMAIN m[g] : \A y \in FieldSet(g) :
                ds[m[g][k]][y] = cs[m[g][k]][y] + (IF g = f /\ k = l /\ y = x THEN v ELSE 0)
<1> DEFINE i == m[f][l]
           e == [cs[i] EXCEPT ![x] = cs[i][x] + v]
<1>1. \A g \in Families3 : \A k \in DOMAIN m[g] :
          m[g][k] \in DOMAIN cs /\ cs[m[g][k]] \in [FieldSet(g) -> Int]
  BY DEF SeriesInv
<1>2. i \in DOMAIN cs /\ cs[i] \in [FieldSet(f) -> Int]
  BY <1>1
<1>3. e \in [FieldSet(f) -> Int] /\ e[x] = cs[i][x] + v /\ \A y \in FieldSet(f) : y # x => e[y] = cs[i][y]
  BY <1>2
<1>4. [FieldSet(f) -> Int] \subseteq Cells
  BY DEF Cells, Families3, FieldSet
<1>5. \A g \in Families3 : \A k \in DOMAIN m[g] : m[g][k] = i => g = f /\ k = l
  BY DEF SeriesInv
<1>6. cs \in Seq(Cells)
  BY DEF SeriesInv
<1>7. ds = [cs EXCEPT ![i] = e]
  BY DEF IsAddedTo
<1> HIDE DEF i, e
<1>8. /\ ds \in Seq(Cells) /\ DOMAIN ds = DOMAIN cs /\ ds[i] = e
      /\ \A j \in DOMAIN cs : j # i => ds[j] = cs[j]
  BY <1>2, <1>3, <1>4, <1>6, <1>7
<1>9. ASSUME NEW g \in Families3, NEW k \in DOMAIN m[g]
      PROVE  /\ ds[m[g][k]] \in [FieldSet(g) -> Int]
             /\ \A y \in FieldSet(g) :
                  ds[m[g][k]][y] = cs[m[g][k]][y] + (IF g = f /\ k = l /\ y = x THEN v ELSE 0)
  <2>1. CASE g = f /\ k = l
    <3>1. ds[m[g][k]] = e /\ cs[m[g][k]] = cs[i]
      BY <1>8, <2>1 DEF i
    <3>2. \A y \in FieldSet(f) : e[y] = cs[i][y] + (IF y = x THEN v ELSE 0)
      <4> SUFFICES ASSUME NEW y \in FieldSet(f)
                   PROVE  e[y] = cs[i][y] + (IF y = x THEN v ELSE 0)
        OBVIOUS
      <4>1. cs[i][y] \in Int
        BY <1>2
      <4>2. CASE y = x
        BY <1>3, <4>2
      <4>3. CASE y # x
        BY <1>3, <4>1, <4>3
      <4> QED BY <4>2, <4>3
    <3> QED BY <1>3, <2>1, <3>1, <3>2
  <2>2. CASE ~(g = f /\ k = l)
    <3>1. m[g][k] # i /\ m[g][k] \in DOMAIN cs /\ cs[m[g][k]] \in [FieldSet(g) -> Int]
      BY <1>1, <1>5, <2>2
    <3>2. ds[m[g][k]] = cs[m[g][k]]
      BY <1>8, <3>1
    <3>3. \A y \in FieldSet(g) : cs[m[g][k]][y] \in Int /\ cs[m[g][k]][y] + 0 = cs[m[g][k]][y]
      BY <3>1
    <3> QED BY <2>2, <3>1, <3>2, <3>3
  <2> QED BY <2>1, <2>2
<1>10. SeriesInv(m, ds)
  BY <1>1, <1>8, <1>9 DEF SeriesInv
<1> QED BY <1>9, <1>10

LEMMA AddedTimes ==
    ASSUME NEW c, NEW d, NEW a, Counting(c), IsCounted(a, c, d)
    PROVE  /\ Counting(d) /\ Grows(c, d)
           /\ \A n : Times(d, n) = Times(c, n) + (IF n = a THEN 1 ELSE 0)
<1>1. \A n : Times(c, n) \in Nat
  BY DEF Times, Counting
<1> DEFINE g(n) == Times(c, n) + (IF n = a THEN 1 ELSE 0)
<1>2. \A n : g(n) \in Nat /\ Times(c, n) <= g(n) /\ (n # a => g(n) = Times(c, n))
  BY <1>1
<1>3. \A n \in DOMAIN c : Times(c, n) = c[n]
  BY DEF Times
<1>4. \A n : n \notin DOMAIN c => Times(c, n) = 0
  BY DEF Times
<1>5. d = [n \in DOMAIN c \cup {a} |-> g(n)]
  BY DEF IsCounted
<1> HIDE DEF g
<1>6. DOMAIN d = DOMAIN c \cup {a} /\ \A n \in DOMAIN d : d[n] = g(n)
  BY <1>5
<1>7. Counting(d) /\ Grows(c, d)
  BY <1>2, <1>3, <1>6 DEF Counting, Grows
<1>8. \A n : Times(d, n) = g(n)
  <2> SUFFICES ASSUME NEW n PROVE Times(d, n) = g(n)
    OBVIOUS
  <2>1. CASE n \in DOMAIN d
    BY <1>6, <2>1 DEF Times
  <2>2. CASE n \notin DOMAIN d
    BY <1>2, <1>4, <1>6, <2>2 DEF Times
  <2> QED BY <2>1, <2>2
<1> QED BY <1>7, <1>8 DEF g

(* The counters stay equal to their counts, and the gauge to what is in    *)
(* flight when its addition is that of the request itself.                 *)
LEMMA AddedCounts ==
    ASSUME NEW f \in Families3, NEW m, NEW l \in DOMAIN m[f], NEW x \in FieldSet(f), NEW v \in Int,
           NEW cs, NEW ds, NEW c, NEW d, NEW s, NEW t,
           SeriesInv(m, cs), CountsInv(m, cs, c, s), IsAddedTo(f, l, x, v, m, cs, ds, c, d),
           f # "inflight" => v = 1 /\ Within(t) = Within(s),
           f = "inflight" => l = << >> /\ x = "value",
           f = "inflight" => Cardinality(Within(t)) = Cardinality(Within(s)) + v
    PROVE  CountsInv(m, ds, d, t)
<1> DEFINE o == << >>
           io == "inflight"
<1>1. \A g \in Families3 : \A k \in DOMAIN m[g] : \A y \in FieldSet(g) :
         ds[m[g][k]][y] = cs[m[g][k]][y] + (IF g = f /\ k = l /\ y = x THEN v ELSE 0)
  BY AddedCells
<1>2. Counting(c) /\ DOMAIN c \subseteq Names(m)
  BY DEF CountsInv
<1>3. /\ Counting(d)
      /\ \A n : Times(d, n) = Times(c, n) + (IF n = <<f, l, x>> THEN 1 ELSE 0)
  <2> DEFINE a == <<f, l, x>>
  <2>1. IsCounted(a, c, d)
    BY DEF IsAddedTo
  <2> HIDE DEF a
  <2>2. Counting(d) /\ \A n : Times(d, n) = Times(c, n) + (IF n = a THEN 1 ELSE 0)
    BY <1>2, <2>1, AddedTimes
  <2> QED BY <2>2 DEF a
<1>4. DOMAIN d \subseteq Names(m)
  <2>1. <<f, l, x>> \in Names(m)
    BY NamesHave
  <2> QED BY <1>2, <2>1 DEF IsAddedTo, IsCounted
<1>5. ASSUME NEW g \in Families3, g # io, NEW k \in DOMAIN m[g], NEW y \in FieldSet(g)
      PROVE  ds[m[g][k]][y] = Times(d, <<g, k, y>>)
  <2>1. cs[m[g][k]][y] = Times(c, <<g, k, y>>)
    BY <1>5 DEF CountsInv
  <2>2. (g = f /\ k = l /\ y = x) <=> <<g, k, y>> = <<f, l, x>>
    OBVIOUS
  <2>3. (g = f) => v = 1
    BY <1>5
  <2> DEFINE a == <<g, k, y>>  b == <<f, l, x>>  u == cs[m[g][k]][y]  w == ds[m[g][k]][y]
  <2>4. w = u + (IF a = b THEN v ELSE 0)
    BY <1>1, <2>2
  <2>5. a = b => v = 1
    BY <2>2, <2>3
  <2>6. Times(d, a) = Times(c, a) + (IF a = b THEN 1 ELSE 0) /\ u = Times(c, a)
    BY <1>3, <2>1
  <2> HIDE DEF a, b, u, w
  <2>7. w = Times(d, a)
    BY <2>4, <2>5, <2>6
  <2> QED BY <2>7 DEF w, a
<1>6. io \in Families3 /\ "value" \in FieldSet(io)
  BY DEF Families3, FieldSet
<1>7. IF o \in DOMAIN m[io] THEN cs[m[io][o]]["value"] = Cardinality(Within(s)) ELSE Within(s) = {}
  BY DEF CountsInv
<1>8. \A k \in DOMAIN m[io] : cs[m[io][k]]["value"] \in Int
  <2> SUFFICES ASSUME NEW k \in DOMAIN m[io] PROVE cs[m[io][k]]["value"] \in Int
    OBVIOUS
  <2>1. cs[m[io][k]] \in [FieldSet(io) -> Int]
    BY <1>6 DEF SeriesInv
  <2> QED BY <1>6, <2>1
<1>9. f = io => l = o /\ x = "value"
  OBVIOUS
<1>10. /\ f # io => Within(t) = Within(s)
       /\ f = io => Cardinality(Within(t)) = Cardinality(Within(s)) + v
  OBVIOUS
<1> HIDE DEF o, io
<1>11. IF o \in DOMAIN m[io] THEN ds[m[io][o]]["value"] = Cardinality(Within(t)) ELSE Within(t) = {}
  <2>1. CASE o \in DOMAIN m[io]
    <3>1. ds[m[io][o]]["value"] = cs[m[io][o]]["value"]
                                     + (IF io = f /\ o = l /\ "value" = x THEN v ELSE 0)
      BY <1>1, <1>6, <2>1
    <3>2. CASE f = io
      BY <1>7, <1>9, <1>10, <2>1, <3>1, <3>2
    <3>3. CASE f # io
      BY <1>7, <1>8, <1>10, <2>1, <3>1, <3>3
    <3> QED BY <3>2, <3>3
  <2>2. CASE o \notin DOMAIN m[io]
    <3>1. f # io
      BY <1>9, <2>2
    <3> QED BY <1>7, <1>10, <2>2, <3>1
  <2> QED BY <2>1, <2>2
<1> QED BY <1>3, <1>4, <1>5, <1>11 DEF CountsInv, o, io

(* A step of one request.                                                  *)
LEMMA MoveServing ==
    ASSUME MetricsInv, NEW r \in Handlers, NEW c \in Servings, Move(r, c)
    PROVE  /\ serving' \in [Handlers -> Servings] /\ serving'[r] = c
           /\ \A q \in Handlers : q # r => serving'[q] = serving[q]
           /\ Within(serving') = {q \in Handlers : IF q = r THEN c.next \in 2..5
                                                   ELSE serving[q].next \in 2..5}
           /\ IsFiniteSet(Within(serving)) /\ IsFiniteSet(Within(serving'))
           /\ (c.next \in 2..5 <=> serving[r].next \in 2..5) => Within(serving') = Within(serving)
<1>1. serving' = [serving EXCEPT ![r] = c] /\ serving \in [Handlers -> Servings]
  BY DEF Move, MetricsInv
<1>2. /\ serving' \in [Handlers -> Servings] /\ serving'[r] = c
      /\ \A q \in Handlers : q # r => serving'[q] = serving[q]
  BY <1>1
<1>3. Within(serving') = {q \in Handlers : IF q = r THEN c.next \in 2..5
                                           ELSE serving[q].next \in 2..5}
  BY <1>2 DEF Within
<1>4. IsFiniteSet(Within(serving))
  BY FS_Subset DEF MetricsInv, ScrapeInv
<1>5. IsFiniteSet(Within(serving) \cup {r}) /\ Within(serving') \subseteq Within(serving) \cup {r}
  BY <1>3, <1>4, FS_AddElement DEF Within
<1>6. IsFiniteSet(Within(serving'))
  BY <1>5, FS_Subset
<1>7. (c.next \in 2..5 <=> serving[r].next \in 2..5) => Within(serving') = Within(serving)
  BY <1>3 DEF Within
<1> QED BY <1>2, <1>3, <1>4, <1>6, <1>7

LEMMA MoveScrape ==
    ASSUME MetricsInv, NEW r \in Handlers, NEW c \in Servings, Move(r, c),
           Counting(added'), Grows(added, added'), Loads(series) \subseteq Loads(series')
    PROVE  ScrapeInv(scrape', series', added', serving')
<1>1. ScrapeInv(scrape, series, added, serving) /\ Counting(added)
  BY DEF MetricsInv, CountsInv
<1>2. IsFiniteSet(Within(serving'))
  BY MoveServing
<1>3. scrape' = [scrape EXCEPT !.steady = scrape.steady \cap Within(serving'),
                               !.met = scrape.met \cup Within(serving')]
  BY DEF Move, Scraped, InFlight, Within
<1> QED BY <1>1, <1>2, <1>3, ScrapeSurvives

LEMMA AddedSame ==
    ASSUME MetricsInv, UNCHANGED added
    PROVE  Counting(added') /\ Grows(added, added')
<1>1. Counting(added)
  BY DEF MetricsInv, CountsInv
<1>2. \A n \in DOMAIN added : added[n] <= added[n]
  BY <1>1 DEF Counting
<1> QED BY <1>1, <1>2 DEF Grows

(* The others keep their cells.                                            *)
LEMMA OthersStay ==
    ASSUME MetricsInv, NEW r \in Handlers, serving'[r] = serving[r], Keeps(series, series')
    PROVE  StageInv(r)'
<1>1. Adds(r)' = Adds(r) /\ FamilyOf(r)' = FamilyOf(r) /\ Labels(r)' = Labels(r)
  BY DEF Adds, Additions, FamilyOf, Labels
<1>2. serving[r] \in Servings /\ StageInv(r)
  BY DEF MetricsInv
<1>3. CASE serving[r].stage = "add"
  <2>1. serving[r].next \in 1..5
    BY <1>2, <1>3 DEF StageInv
  <2>2. FamilyOf(r) \in Families3
    BY <1>2, <2>1, AddsIs DEF IsAddition, FamilyOf
  <2>3. Labels(r) \in DOMAIN series[FamilyOf(r)] /\ serving[r].cell = series[FamilyOf(r)][Labels(r)]
    BY <1>2, <1>3 DEF StageInv
  <2>4. /\ Labels(r) \in DOMAIN series'[FamilyOf(r)]
        /\ series'[FamilyOf(r)][Labels(r)] = series[FamilyOf(r)][Labels(r)]
    BY <2>2, <2>3 DEF Keeps
  <2> QED BY <1>1, <1>3, <2>1, <2>3, <2>4 DEF StageInv
<1>4. CASE serving[r].stage # "add"
  BY <1>2, <1>4 DEF StageInv
<1> QED BY <1>3, <1>4

(* A request that changes nothing but its own stage.                       *)
LEMMA StageStep ==
    ASSUME MetricsInv, NEW r \in Handlers, NEW c \in Servings, Move(r, c),
           UNCHANGED <<series, cells, added>>,
           c.next \in 2..5 <=> serving[r].next \in 2..5, StageInv(r)'
    PROVE  MetricsInv'
<1>1. /\ serving' \in [Handlers -> Servings] /\ Within(serving') = Within(serving)
      /\ \A q \in Handlers : q # r => serving'[q] = serving[q]
  BY MoveServing
<1>2. Keeps(series, series') /\ Loads(series) \subseteq Loads(series')
  BY DEF Keeps
<1>3. ScrapeInv(scrape', series', added', serving')
  <2>1. Counting(added') /\ Grows(added, added')
    BY AddedSame
  <2> QED BY <1>2, <2>1, MoveScrape
<1>4. \A q \in Handlers : StageInv(q)'
  BY <1>1, <1>2, OthersStay
<1>5. SeriesInv(series', cells')
  BY DEF MetricsInv
<1>6. CountsInv(series', cells', added', serving')
  <2>1. CountsInv(series, cells, added, serving)
    BY DEF MetricsInv
  <2> QED BY <1>1, <2>1 DEF CountsInv
<1> QED BY <1>1, <1>3, <1>4, <1>5, <1>6 DEF MetricsInv

LEMMA SameAdds ==
    ASSUME NEW r \in Handlers, serving'[r].next = serving[r].next, serving'[r].code = serving[r].code,
           serving'[r].method = serving[r].method, serving'[r].bucket = serving[r].bucket
    PROVE  FamilyOf(r)' = FamilyOf(r) /\ Labels(r)' = Labels(r)
<1>1. Additions(r)' = Additions(r)
  BY DEF Additions
<1> QED BY <1>1 DEF Adds, FamilyOf, Labels

LEMMA FindStep ==
    ASSUME MetricsInv, NEW r \in Handlers, FindCell(r)
    PROVE  MetricsInv'
<1>1. serving[r] \in Servings /\ StageInv(r) /\ serving[r].stage = "find"
  BY DEF MetricsInv, FindCell, AtStage
<1>2. serving[r].next \in 1..5
  BY <1>1 DEF StageInv
<1>3. FamilyOf(r) \in Families3
  BY <1>1, <1>2, AddsIs DEF IsAddition, FamilyOf
<1> DEFINE f == FamilyOf(r)  l == Labels(r)
<1>4. CASE l \in DOMAIN series[f]
  <2> DEFINE c == [serving[r] EXCEPT !.stage = "add", !.cell = series[f][l]]
  <2>1. series[f][l] \in Nat
    <3>1. series[f][l] \in DOMAIN cells /\ cells \in Seq(Cells)
      BY <1>3, <1>4 DEF MetricsInv, SeriesInv
    <3> QED BY <3>1
  <2> HIDE DEF f, l
  <2>2. /\ c \in Servings /\ c.next = serving[r].next /\ c.stage = "add" /\ c.cell = series[f][l]
        /\ c.code = serving[r].code /\ c.method = serving[r].method /\ c.bucket = serving[r].bucket
    BY <1>1, <2>1 DEF Servings
  <2>3. Move(r, c) /\ UNCHANGED <<series, cells, added>>
    BY <1>4 DEF FindCell, f, l
  <2> HIDE DEF c
  <2>4. serving'[r] = c
    BY <2>2, <2>3, MoveServing
  <2>5. FamilyOf(r)' = f /\ Labels(r)' = l
    BY <2>2, <2>4, SameAdds DEF f, l
  <2>6. StageInv(r)'
    BY <1>2, <1>4, <2>2, <2>3, <2>4, <2>5 DEF StageInv
  <2> QED BY <2>2, <2>3, <2>6, StageStep
<1>5. CASE l \notin DOMAIN series[f]
  <2> DEFINE c == [serving[r] EXCEPT !.stage = "create"]
  <2>1. c \in Servings /\ c.next = serving[r].next /\ c.stage = "create"
    BY <1>1 DEF Servings
  <2>2. Move(r, c) /\ UNCHANGED <<series, cells, added>>
    BY <1>5 DEF FindCell
  <2> HIDE DEF c
  <2>3. serving'[r] = c
    BY <2>1, <2>2, MoveServing
  <2>4. StageInv(r)'
    BY <1>2, <2>1, <2>3 DEF StageInv
  <2> QED BY <2>1, <2>2, <2>4, StageStep
<1> QED BY <1>4, <1>5

LEMMA ServeStep ==
    ASSUME MetricsInv, NEW r \in Handlers, ServeHTTP(r)
    PROVE  MetricsInv'
<1>1. serving[r] \in Servings /\ serving[r].next = 2
  BY DEF MetricsInv, ServeHTTP, AtStage, StageInv
<1>2. PICK code \in Codes, body \in BOOLEAN, b \in {"fast", "slow"} :
         Move(r, [serving[r] EXCEPT !.stage = "find", !.bucket = b,
                                    !.code = IF body THEN 200 ELSE code])
  BY DEF ServeHTTP
<1> DEFINE c == [serving[r] EXCEPT !.stage = "find", !.bucket = b,
                                   !.code = IF body THEN 200 ELSE code]
<1>3. c \in Servings /\ c.next = 2 /\ c.stage = "find"
  BY <1>1, MetricsAssumption DEF Servings
<1>4. Move(r, c) /\ UNCHANGED <<series, cells, added>>
  BY <1>2 DEF ServeHTTP
<1> HIDE DEF c
<1>5. serving'[r] = c
  BY <1>3, <1>4, MoveServing
<1>6. StageInv(r)'
  BY <1>3, <1>5 DEF StageInv
<1>7. c.next \in 2..5 <=> serving[r].next \in 2..5
  BY <1>1, <1>3
<1> QED BY <1>3, <1>4, <1>6, <1>7, StageStep

LEMMA AbortStep ==
    ASSUME MetricsInv, NEW r \in Handlers, Abort(r)
    PROVE  MetricsInv'
<1>1. serving[r] \in Servings /\ serving[r].next = 2
  BY DEF MetricsInv, Abort, AtStage, StageInv
<1> DEFINE c == [serving[r] EXCEPT !.next = 5, !.stage = "find"]
<1>2. c \in Servings /\ c.next = 5 /\ c.stage = "find"
  <2>1. 5 \in 1..6
    OBVIOUS
  <2> DEFINE five == 5
  <2>2. five \in 1..6
    BY <2>1
  <2> DEFINE e == [serving[r] EXCEPT !.next = five, !.stage = "find"]
  <2> HIDE DEF five
  <2>3. e \in Servings /\ e.next = five /\ e.stage = "find"
    BY <1>1, <2>2 DEF Servings
  <2> QED BY <2>3 DEF five
<1>3. Move(r, c) /\ UNCHANGED <<series, cells, added>>
  BY DEF Abort
<1> HIDE DEF c
<1>4. serving'[r] = c
  BY <1>2, <1>3, MoveServing
<1>5. StageInv(r)'
  BY <1>2, <1>4 DEF StageInv
<1>6. c.next \in 2..5 <=> serving[r].next \in 2..5
  BY <1>1, <1>2
<1> QED BY <1>2, <1>3, <1>5, <1>6, StageStep

LEMMA CreateStep ==
    ASSUME MetricsInv, NEW r \in Handlers, CreateCell(r)
    PROVE  MetricsInv'
<1>1. serving[r] \in Servings /\ StageInv(r) /\ serving[r].stage = "create"
  BY DEF MetricsInv, CreateCell, AtStage
<1>2. serving[r].next \in 1..5
  BY <1>1 DEF StageInv
<1> DEFINE f == FamilyOf(r)  l == Labels(r)  N == Len(cells) + 1
<1>3. f \in Families3 /\ (f = "inflight" => l = << >>)
  BY <1>1, <1>2, AddsIs DEF IsAddition, FamilyOf, Labels
<1>4. UNCHANGED added
  BY DEF CreateCell
<1>5. CASE l \in DOMAIN series[f]
  <2> DEFINE c == [serving[r] EXCEPT !.stage = "add", !.cell = series[f][l]]
  <2>1. series[f][l] \in Nat
    <3>1. series[f][l] \in DOMAIN cells /\ cells \in Seq(Cells)
      BY <1>3, <1>5 DEF MetricsInv, SeriesInv
    <3> QED BY <3>1
  <2>2. Move(r, c) /\ UNCHANGED <<series, cells, added>>
    BY <1>5 DEF CreateCell, HasCell
  <2> HIDE DEF f, l
  <2>3. /\ c \in Servings /\ c.next = serving[r].next /\ c.stage = "add" /\ c.cell = series[f][l]
        /\ c.code = serving[r].code /\ c.method = serving[r].method /\ c.bucket = serving[r].bucket
    BY <1>1, <2>1 DEF Servings
  <2> HIDE DEF c
  <2>4. serving'[r] = c
    BY <2>2, <2>3, MoveServing
  <2>5. FamilyOf(r)' = f /\ Labels(r)' = l
    BY <2>3, <2>4, SameAdds DEF f, l
  <2>6. StageInv(r)'
    BY <1>2, <1>5, <2>2, <2>3, <2>4, <2>5 DEF StageInv
  <2> QED BY <2>2, <2>3, <2>6, StageStep
<1>6. CASE l \notin DOMAIN series[f]
  <2> DEFINE c == [serving[r] EXCEPT !.stage = "add", !.cell = N]
  <2>1. /\ Move(r, c) /\ cells' = Append(cells, [x \in ToSet(Fields(f)) |-> 0])
        /\ series' = [series EXCEPT ![f] = [k \in DOMAIN series[f] \cup {l} |->
                          IF k = l THEN Len(cells) + 1 ELSE series[f][k]]]
    BY <1>6 DEF CreateCell, HasCell
  <2>2. SeriesInv(series, cells) /\ CountsInv(series, cells, added, serving)
    BY DEF MetricsInv
  <2>3. N \in Nat
    BY <2>2 DEF SeriesInv
  <2> HIDE DEF f, l, N
  <2>4. /\ c \in Servings /\ c.next = serving[r].next /\ c.stage = "add" /\ c.cell = N
        /\ c.code = serving[r].code /\ c.method = serving[r].method /\ c.bucket = serving[r].bucket
    BY <1>1, <2>3 DEF Servings
  <2> HIDE DEF c
  <2>5. IsNewSeries(f, l, series, series', cells, cells')
    <3>1. ToSet(Fields(f)) = FieldSet(f)
      BY <1>3, FieldsHave
    <3> QED BY <2>1, <3>1 DEF IsNewSeries
  <2>6. /\ SeriesInv(series', cells') /\ Keeps(series, series')
        /\ IsAppended(f, l, series, series', cells, cells')
    BY <1>3, <1>6, <2>2, <2>5, NewSeries
  <2>7. CountsInv(series', cells', added, serving)
    BY <1>3, <1>6, <2>2, <2>6, NewCounts
  <2>8. /\ serving' \in [Handlers -> Servings] /\ serving'[r] = c
        /\ Within(serving') = Within(serving)
        /\ \A q \in Handlers : q # r => serving'[q] = serving[q]
    BY <2>1, <2>4, MoveServing
  <2>9. CountsInv(series', cells', added', serving')
    BY <1>4, <2>7, <2>8 DEF CountsInv
  <2>10. FamilyOf(r)' = f /\ Labels(r)' = l
    BY <2>4, <2>8, SameAdds DEF f, l
  <2>11. l \in DOMAIN series'[f] /\ series'[f][l] = N
    BY <2>6 DEF IsAppended, N
  <2>12. StageInv(r)'
    BY <1>2, <2>4, <2>8, <2>10, <2>11 DEF StageInv
  <2>13. \A q \in Handlers : StageInv(q)'
    BY <2>6, <2>8, <2>12, OthersStay
  <2>14. ScrapeInv(scrape', series', added', serving')
    <3>1. Counting(added') /\ Grows(added, added')
      BY <1>4, AddedSame
    <3>2. Loads(series) \subseteq Loads(series')
      BY <2>6, LoadsKept
    <3> QED BY <2>1, <2>4, <3>1, <3>2, MoveScrape
  <2> QED BY <2>6, <2>8, <2>9, <2>13, <2>14 DEF MetricsInv
<1> QED BY <1>5, <1>6

(* The gauge's additions are the ones that move a request in and out.      *)
LEMMA GaugeMoves ==
    ASSUME MetricsInv, NEW r \in Handlers, NEW c \in Servings, Move(r, c),
           serving[r].next \in 1..5, c.next = serving[r].next + 1
    PROVE  /\ serving[r].next \in 2..4 => Within(serving') = Within(serving)
           /\ serving[r].next = 1
                => Cardinality(Within(serving')) = Cardinality(Within(serving)) + 1
           /\ serving[r].next = 5
                => Cardinality(Within(serving')) = Cardinality(Within(serving)) + (-1)
<1>1. /\ IsFiniteSet(Within(serving))
      /\ Within(serving') = {q \in Handlers : IF q = r THEN c.next \in 2..5
                                              ELSE serving[q].next \in 2..5}
      /\ (c.next \in 2..5 <=> serving[r].next \in 2..5) => Within(serving') = Within(serving)
  BY MoveServing
<1>2. serving[r].next \in 2..4 => Within(serving') = Within(serving)
  BY <1>1
<1>3. ASSUME serving[r].next = 1
      PROVE  Cardinality(Within(serving')) = Cardinality(Within(serving)) + 1
  <2>1. r \notin Within(serving) /\ c.next = 2 /\ 2 \in 2..5
    BY <1>3 DEF Within
  <2>2. Within(serving') = Within(serving) \cup {r}
    BY <1>1, <2>1 DEF Within
  <2> QED BY <1>1, <2>1, <2>2, FS_AddElement
<1>4. ASSUME serving[r].next = 5
      PROVE  Cardinality(Within(serving')) = Cardinality(Within(serving)) + (-1)
  <2>1. r \in Within(serving) /\ c.next = 6 /\ 6 \notin 2..5
    BY <1>4 DEF Within
  <2>2. Within(serving') = Within(serving) \ {r}
    BY <1>1, <2>1 DEF Within
  <2>3. Cardinality(Within(serving')) = Cardinality(Within(serving)) - 1
    BY <1>1, <2>1, <2>2, FS_RemoveElement
  <2>4. Cardinality(Within(serving)) \in Nat
    BY <1>1, FS_CardinalityType
  <2> QED BY <2>3, <2>4
<1> QED BY <1>2, <1>3, <1>4

(* Observe's second addition is to the cell of the first.                  *)
LEMMA SameSeries ==
    ASSUME NEW r \in Handlers, serving[r].next = 3, serving'[r].next = 4,
           serving'[r].method = serving[r].method
    PROVE  FamilyOf(r)' = FamilyOf(r) /\ Labels(r)' = Labels(r)
<1> DEFINE o == << >>
           k(c) == <<normalizeMethod(c.method), c.code>>
           j(c) == <<normalizeMethod(c.method)>>
           all(c) == << <<"inflight", o, "value", 1>>, <<"total", k(c), "value", 1>>,
                        <<"duration", j(c), c.bucket, 1>>, <<"duration", j(c), "count", 1>>,
                        <<"inflight", o, "value", -1>> >>
<1>1. Additions(r) = all(serving[r]) /\ Additions(r)' = all(serving'[r])
  BY DEF Additions
<1>2. j(serving[r]) = j(serving'[r])
  OBVIOUS
<1> HIDE DEF o, k, j
<1>3. all(serving[r])[3] = <<"duration", j(serving[r]), serving[r].bucket, 1>>
  OBVIOUS
<1>4. all(serving'[r])[4] = <<"duration", j(serving'[r]), "count", 1>>
  OBVIOUS
<1> HIDE DEF all
<1>5. Adds(r) = <<"duration", j(serving[r]), serving[r].bucket, 1>>
  BY <1>1, <1>3 DEF Adds
<1>6. Adds(r)' = <<"duration", j(serving'[r]), "count", 1>>
  BY <1>1, <1>4 DEF Adds
<1> QED BY <1>2, <1>5, <1>6 DEF FamilyOf, Labels

LEMMA AddStep ==
    ASSUME MetricsInv, NEW r \in Handlers, AddTo(r)
    PROVE  MetricsInv'
<1> DEFINE n == serving[r].next
           a == Adds(r)
           f == a[1]  l == a[2]  x == a[3]  v == a[4]
           c == [serving[r] EXCEPT !.next = n + 1, !.stage = NextStage(n + 1)]
<1>1. serving[r] \in Servings /\ StageInv(r) /\ serving[r].stage = "add"
  BY DEF MetricsInv, AddTo, AtStage
<1>2. n \in 1..5
  BY <1>1 DEF StageInv
<1>3. IsAddition(n, a)
  BY <1>1, <1>2, AddsIs
<1>4. /\ a = <<f, l, x, v>> /\ f \in Families3 /\ x \in FieldSet(f) /\ v \in Int
      /\ f = "inflight" => l = << >> /\ x = "value"
      /\ f # "inflight" => v = 1
  <2> HIDE DEF a
  <2> QED BY <1>3 DEF IsAddition
<1>5. FamilyOf(r) = f /\ Labels(r) = l
  BY DEF FamilyOf, Labels
<1>6. l \in DOMAIN series[f] /\ serving[r].cell = series[f][l]
  BY <1>1, <1>5 DEF StageInv
<1>7. SubSeq(a, 1, 3) = <<f, l, x>>
  <2>1. SubSeq(<<f, l, x, v>>, 1, 3) = <<f, l, x>>
    BY Prefix3
  <2> HIDE DEF a
  <2> QED BY <1>4, <2>1
<1>8. /\ cells' = [cells EXCEPT ![serving[r].cell] =
                       [cells[serving[r].cell] EXCEPT ![x] = cells[serving[r].cell][x] + v]]
      /\ IsCounted(SubSeq(a, 1, 3), added, added')
      /\ Move(r, c) /\ UNCHANGED series
  BY DEF AddTo, IsCounted
<1>9. /\ c \in Servings /\ c.next = n + 1 /\ c.stage = NextStage(n + 1) /\ c.cell = serving[r].cell
       /\ c.method = serving[r].method
  <2> DEFINE p == n + 1  st == NextStage(n + 1)
  <2>1. p \in 1..6 /\ st \in {"find", "create", "serve", "add", "done"}
    BY <1>2 DEF NextStage
  <2> DEFINE e == [serving[r] EXCEPT !.next = p, !.stage = st]
  <2>2. c = e
    OBVIOUS
  <2> HIDE DEF p, st, c
  <2>3. e \in Servings /\ e.next = p /\ e.stage = st /\ e.cell = serving[r].cell
        /\ e.method = serving[r].method
    BY <1>1, <2>1 DEF Servings
  <2> HIDE DEF e
  <2> QED BY <2>2, <2>3 DEF p, st
<1>10. IsAddedTo(f, l, x, v, series, cells, cells', added, added')
  <2> HIDE DEF a, f, l, x, v, c, n
  <2>1. cells' = [cells EXCEPT ![series[f][l]] =
                     [cells[series[f][l]] EXCEPT ![x] = cells[series[f][l]][x] + v]]
    <3> DEFINE to(k) == [cells EXCEPT ![k] = [cells[k] EXCEPT ![x] = cells[k][x] + v]]
    <3>1. cells' = to(serving[r].cell)
      BY <1>8
    <3> HIDE DEF to
    <3>2. cells' = to(series[f][l])
      BY <1>6, <3>1
    <3> QED BY <3>2 DEF to
  <2>2. IsCounted(<<f, l, x>>, added, added')
    BY <1>7, <1>8
  <2> QED BY <2>1, <2>2 DEF IsAddedTo
<1>11. SeriesInv(series, cells) /\ CountsInv(series, cells, added, serving) /\ Counting(added)
  BY DEF MetricsInv, CountsInv
<1>12. /\ f # "inflight" => Within(serving') = Within(serving)
       /\ f = "inflight" => Cardinality(Within(serving')) = Cardinality(Within(serving)) + v
  <2> HIDE DEF a, c
  <2>1. /\ n \in 2..4 => Within(serving') = Within(serving)
        /\ n = 1 => Cardinality(Within(serving')) = Cardinality(Within(serving)) + 1
        /\ n = 5 => Cardinality(Within(serving')) = Cardinality(Within(serving)) + (-1)
    BY <1>2, <1>8, <1>9, GaugeMoves
  <2>2. /\ f # "inflight" => n \in 2..4
        /\ f = "inflight" => n \in {1, 5} /\ v = IF n = 1 THEN 1 ELSE -1
    BY <1>3 DEF IsAddition
  <2>3. f = "inflight" => (n = 1 /\ v = 1) \/ (n = 5 /\ v = -1)
    BY <2>2
  <2> HIDE DEF n, f, v
  <2> QED BY <2>1, <2>2, <2>3
<1> HIDE DEF a, f, l, x, v, c
<1>13. SeriesInv(series, cells')
  BY <1>4, <1>6, <1>10, <1>11, AddedCells
<1>14. CountsInv(series, cells', added', serving')
  BY <1>4, <1>6, <1>10, <1>11, <1>12, AddedCounts
<1>15. Counting(added') /\ Grows(added, added')
  <2>1. IsCounted(<<f, l, x>>, added, added')
    BY <1>10 DEF IsAddedTo
  <2> QED BY <1>11, <2>1, AddedTimes
<1>16. ScrapeInv(scrape', series', added', serving')
  <2>1. Loads(series) \subseteq Loads(series')
    BY <1>8
  <2> QED BY <1>8, <1>9, <1>15, <2>1, MoveScrape
<1>17. /\ serving' \in [Handlers -> Servings] /\ serving'[r] = c
       /\ \A q \in Handlers : q # r => serving'[q] = serving[q]
  BY <1>8, <1>9, MoveServing
<1>18. StageInv(r)'
  <2>1. CASE n = 3
    <3>1. c.next = 4 /\ c.stage = "add"
      BY <1>9, <2>1 DEF NextStage
    <3>2. FamilyOf(r)' = f /\ Labels(r)' = l
      BY <1>5, <1>9, <1>17, <2>1, <3>1, SameSeries
    <3> HIDE DEF n
    <3>3. serving'[r].next \in 1..5 /\ serving'[r].stage = "add"
      BY <1>17, <3>1
    <3>4. Labels(r)' \in DOMAIN series'[FamilyOf(r)'] /\ serving'[r].cell = series'[FamilyOf(r)'][Labels(r)']
      BY <1>6, <1>8, <1>9, <1>17, <3>2
    <3> QED BY <3>3, <3>4 DEF StageInv
  <2>2. CASE n # 3
    <3>1. \/ c.stage = "serve" /\ c.next = 2
          \/ c.stage = "find" /\ c.next \in 1..5
          \/ c.stage = "done"
      BY <1>2, <1>9, <2>2 DEF NextStage
    <3>2. \/ serving'[r].stage = "serve" /\ serving'[r].next = 2
          \/ serving'[r].stage = "find" /\ serving'[r].next \in 1..5
          \/ serving'[r].stage = "done"
      BY <1>17, <3>1
    <3> QED BY <3>2 DEF StageInv
  <2> QED BY <2>1, <2>2
<1>19. Keeps(series, series')
  BY <1>8 DEF Keeps
<1>20. \A q \in Handlers : StageInv(q)'
  BY <1>17, <1>18, <1>19, OthersStay
<1> QED BY <1>8, <1>13, <1>14, <1>16, <1>17, <1>20 DEF MetricsInv

LEMMA MetricsInitially == MetricsInit => MetricsInv
<1> SUFFICES ASSUME MetricsInit PROVE MetricsInv
  OBVIOUS
<1> DEFINE o == << >>
<1>1. /\ series = [f \in Families3 |-> o] /\ cells = o /\ added = [x \in {} |-> 0]
      /\ scrape = [family |-> 0, loads |-> o, read |-> {}, before |-> [x \in {} |-> 0],
                   steady |-> {}, met |-> {}, runs |-> 0]
  BY TheKinds DEF MetricsInit
<1>2. DOMAIN o = {} /\ o \in Seq(Cells) /\ o \in Seq(Loads(series))
  OBVIOUS
<1> HIDE DEF o
<1>3. /\ serving \in [Handlers -> Servings]
      /\ \A r \in Handlers : serving[r].next = 1 /\ serving[r].stage = "find"
  <2> DEFINE I == {[next |-> 1, stage |-> "find", cell |-> 0, method |-> m, code |-> 200,
                    bucket |-> "fast"] : m \in Methods}
  <2>1. \A c \in I : c \in Servings /\ c.next = 1 /\ c.stage = "find"
    BY MetricsAssumption DEF Servings
  <2>2. serving \in [Handlers -> I]
    BY DEF MetricsInit
  <2> HIDE DEF I
  <2> QED BY <2>1, <2>2
<1>4. Within(serving) = {}
  BY <1>3 DEF Within
<1>5. \A f \in Families3 : DOMAIN series[f] = {}
  BY <1>1, <1>2
<1>6. SeriesInv(series, cells)
  <2>1. series = [f \in Families3 |-> series[f]]
    BY <1>1
  <2>2. \A f \in Families3 : IsFiniteSet(DOMAIN series[f])
    BY <1>5, FS_EmptySet
  <2> QED BY <1>1, <1>2, <1>5, <2>1, <2>2 DEF SeriesInv
<1>7. CountsInv(series, cells, added, serving)
  <2>1. DOMAIN added = {} /\ "inflight" \in Families3
    BY <1>1 DEF Families3
  <2> QED BY <1>4, <1>5, <2>1 DEF CountsInv, Counting
<1>8. ScrapeInv(scrape, series, added, serving)
  <2>1. /\ scrape.family = 0 /\ scrape.loads \in Seq(Loads(series)) /\ scrape.read = {}
        /\ DOMAIN scrape.before = {} /\ scrape.steady = {} /\ scrape.met = {}
        /\ scrape = [family |-> scrape.family, loads |-> scrape.loads, read |-> scrape.read,
                     before |-> scrape.before, steady |-> scrape.steady, met |-> scrape.met,
                     runs |-> scrape.runs]
    BY <1>1, <1>2
  <2> QED BY <1>4, <2>1, FS_EmptySet DEF ScrapeInv, Counting
<1>9. \A r \in Handlers : StageInv(r)
  BY <1>3 DEF StageInv
<1> QED BY <1>3, <1>6, <1>7, <1>8, <1>9 DEF MetricsInv

LEMMA MetricsNextStep ==
    ASSUME MetricsInv, [MetricsNext]_metricsVars
    PROVE  MetricsInv'
<1>1. CASE \E r \in Handlers : Request(r)
  BY <1>1, FindStep, CreateStep, AddStep, ServeStep, AbortStep DEF Request
<1>2. ASSUME RenderStart \/ WriteCopy \/ WriteLoad PROVE MetricsInv'
  <2>1. ScrapeInv(scrape', series, added, serving)
    BY <1>2, StartScrape, CopyCells, LoadCell
  <2>2. UNCHANGED <<series, cells, serving, added>>
    BY <1>2 DEF RenderStart, WriteCopy, WriteLoad
  <2>3. \A r \in Handlers : StageInv(r)'
    <3> SUFFICES ASSUME NEW r \in Handlers PROVE StageInv(r)'
      OBVIOUS
    <3>1. StageInv(r)
      BY DEF MetricsInv
    <3> QED BY <2>2, <3>1 DEF StageInv, Labels, FamilyOf, Adds, Additions
  <2> QED BY <2>1, <2>2, <2>3 DEF MetricsInv
<1>3. CASE UNCHANGED metricsVars
  <2>1. \A r \in Handlers : StageInv(r)'
    <3> SUFFICES ASSUME NEW r \in Handlers PROVE StageInv(r)'
      OBVIOUS
    <3>1. StageInv(r)
      BY DEF MetricsInv
    <3> QED BY <1>3, <3>1 DEF metricsVars, StageInv, Labels, FamilyOf, Adds, Additions
  <2> QED BY <1>3, <2>1 DEF MetricsInv, metricsVars
<1> QED BY <1>1, <1>2, <1>3 DEF MetricsNext

LEMMA EndedScrapes == MetricsInv => ScrapesAreComplete
<1> SUFFICES ASSUME MetricsInv, Ended PROVE
      /\ \A name \in DOMAIN added : name[1] # "inflight" =>
           Reported(name) \in Times(scrape.before, name)..added[name]
      /\ Reported(Gauge) \in Cardinality(scrape.steady)..Cardinality(scrape.met)
  BY DEF ScrapesAreComplete, Gauge
<1>1. ScrapeInv(scrape, series, added, serving) /\ CountsInv(series, cells, added, serving)
  BY DEF MetricsInv
<1>2. scrape.family = 4 /\ ToSet(scrape.loads) = {}
  <2> DEFINE o == << >>
  <2>1. DOMAIN o = {}
    OBVIOUS
  <2> HIDE DEF o
  <2>2. ToSet(o) = {}
    BY <2>1 DEF ToSet
  <2>3. scrape.family \in 0..4 /\ scrape.family > 3 /\ scrape.loads = o
    BY <1>1, TheKinds DEF Ended, ScrapeInv, o
  <2> QED BY <2>2, <2>3
<1>3. \A n : Seen(scrape, n) => \E v \in scrape.read : v[1] = n
  BY <1>2 DEF Seen
<1>4. ASSUME NEW n, \E v \in scrape.read : v[1] = n
      PROVE  \E v \in scrape.read : v[1] = n /\ Reported(n) = v[2]
  BY <1>4 DEF Reported
<1>5. ASSUME NEW n, ~ \E v \in scrape.read : v[1] = n
      PROVE  Reported(n) = 0
  BY <1>5 DEF Reported
<1>6. ASSUME NEW n \in DOMAIN added, n[1] # "inflight"
      PROVE  Reported(n) \in Times(scrape.before, n)..added[n]
  <2>1. added[n] \in Nat /\ Times(added, n) = added[n]
    BY <1>1 DEF CountsInv, Counting, Times
  <2>2. CASE \E v \in scrape.read : v[1] = n
    <3>1. PICK v \in scrape.read : v[1] = n /\ Reported(n) = v[2]
      BY <1>4, <2>2
    <3>2. v[2] \in Times(scrape.before, v[1])..Times(added, v[1])
      BY <1>1, <1>6, <3>1 DEF ScrapeInv
    <3> QED BY <2>1, <3>1, <3>2
  <2>3. CASE ~ \E v \in scrape.read : v[1] = n
    <3>1. ~Seen(scrape, n)
      BY <1>3, <2>3
    <3>2. \E j \in 1..3 : n[1] = RenderOrder[j]
      <4>1. n \in Names(series)
        BY <1>1 DEF CountsInv
      <4>2. n[1] \in Families3
        <5>1. PICK f, l, x : f \in Families3 /\ l \in DOMAIN series[f] /\ n = <<f, l, x>>
          BY <4>1, NamesHave
        <5> QED BY <5>1
      <4> QED BY <4>2, TheKinds DEF ToSet
    <3>3. n \notin DOMAIN scrape.before
      <4>1. \A j \in 1..3 : j < scrape.family
        BY <1>2
      <4> QED BY <1>1, <1>6, <3>1, <3>2, <4>1 DEF ScrapeInv
    <3>4. Times(scrape.before, n) = 0
      BY <3>3 DEF Times
    <3> QED BY <1>5, <2>1, <2>3, <3>4
  <2> QED BY <2>2, <2>3
<1>7. Reported(Gauge) \in Cardinality(scrape.steady)..Cardinality(scrape.met)
  <2>1. CASE \E v \in scrape.read : v[1] = Gauge
    <3>1. PICK v \in scrape.read : v[1] = Gauge /\ Reported(Gauge) = v[2]
      BY <1>4, <2>1
    <3> QED BY <1>1, <3>1 DEF ScrapeInv
  <2>2. CASE ~ \E v \in scrape.read : v[1] = Gauge
    <3>1. 2 < scrape.family
      BY <1>2
    <3>2. scrape.steady = {}
      BY <1>1, <1>3, <2>2, <3>1 DEF ScrapeInv
    <3>3. Cardinality(scrape.steady) = 0
      BY <3>2, FS_EmptySet
    <3>4. Cardinality(scrape.met) \in Nat
      BY <1>1, FS_CardinalityType DEF ScrapeInv
    <3> QED BY <1>5, <2>2, <3>3, <3>4
  <2> QED BY <2>1, <2>2
<1> QED BY <1>6, <1>7

(* A finished scrape of the registry (Render in internal/metrics) reports  *)
(* every addition the middleware made before it began and none it has not  *)
(* made by its end, and a gauge between the requests that were in flight   *)
(* throughout and those that ever were: for any requests, methods and      *)
(* status codes, whoever creates a series, and any number of scrapes.      *)
THEOREM ScrapesReportAll == MetricsSpec => []ScrapesAreComplete
<1>1. MetricsInv /\ [MetricsNext]_metricsVars => MetricsInv'
  BY MetricsNextStep
<1> QED BY <1>1, MetricsInitially, EndedScrapes, PTL DEF MetricsSpec

-----------------------------------------------------------------------------
(* All of them, side by side.                                              *)

(* The directory as `guard install` leaves it.                             *)
LEMMA InstalledContent == InstalledInit => GuardContentInv
<1> SUFFICES ASSUME InstalledInit PROVE GuardContentInv
  OBVIOUS
<1>1. PICK role \in DOMAIN BuiltinRoles : Installed(role)
  BY DEF InstalledInit
<1> DEFINE feed == BuildSignedFeed({}, DefaultIssuer, 1)
           t == MintGrant(RoleNode(role), 1, DefaultIssuer)
           own == {Key, JWKS, RoleFile(role)}
<1>2. /\ disk = [f \in Files |-> CASE f \in own -> 1 [] f = Feed -> feed [] OTHER -> Absent]
      /\ tokens = <<t>> /\ nkeys = 1 /\ hook = role /\ feeds = {feed}
  BY <1>1 DEF Installed
<1>3. /\ todo = << >> /\ killed = {} /\ pruned = {} /\ declared \in GrantsFiles /\ chk = NoCheck
  BY DEF InstalledInit
<1>4. feed.jtis = {}
  BY DEF BuildSignedFeed
<1> HIDE DEF feed, t
<1>5. IsList(tokens) /\ DOMAIN tokens = {1} /\ 1 \in 1..nkeys
  BY <1>2 DEF IsList
<1>6. /\ \A f \in Files : f \in TokenFiles \/ f \in {Key, JWKS, Feed, OverlayFile}
      /\ Feed \notin TokenFiles /\ Feed \notin {Key, JWKS} /\ RoleFile(role) \in TokenFiles
  BY TrustAssumption DEF Files, Trust, TokenFiles, Key, JWKS, Feed
<1>7. \A f \in Files : /\ f \in own => disk[f] = 1
                       /\ f = Feed => disk[f] = feed
                       /\ f \notin own \cup {Feed} => disk[f] = Absent
  BY <1>2, <1>6
<1>8. Contents(disk, tokens, nkeys)
  <2> SUFFICES ASSUME NEW f \in Files PROVE Content(f, disk[f], tokens, nkeys)
    BY DEF Contents
  <2>1. CASE f \in own
    BY <1>5, <1>6, <1>7, <2>1 DEF Content
  <2>2. CASE f = Feed
    BY <1>4, <1>7, <2>2 DEF Content
  <2>3. CASE f \notin own \cup {Feed}
    BY <1>6, <1>7, <2>3 DEF Content, Unreadable, Loadable
  <2> QED BY <2>1, <2>2, <2>3
<1>9. KnownSteps(todo, tokens, nkeys)
  BY <1>3, KnownNone
<1>10. disk = [f \in Files |-> disk[f]] /\ nkeys \in Nat
  BY <1>2
<1>11. ContentInv
  BY <1>3, <1>5, <1>8, <1>9, <1>10 DEF ContentInv
<1>12. Phased(chk) /\ FeedsKnown(feeds, tokens)
  BY <1>2, <1>3, <1>4 DEF Phased, NoCheck, FeedsKnown
<1> QED BY <1>2, <1>11, <1>12 DEF GuardContentInv

(* A behaviour of the whole is one of each component, which moves or rests:*)
(* what is proved of a component's specification holds of it.              *)
THEOREM PartsAreComponents ==
    Spec => TenancySpec /\ OAuthSpec /\ RegistrySpec /\ ConsoleSpec /\ MetricsSpec /\ RowsSpec
<1>1. Init => /\ AccountInit \/ TenantInit
              /\ OAuthInit /\ RegistryInit /\ ConsoleInit /\ MetricsInit /\ RowsInit
  BY DEF Init
<1>2. [Next]_vars => [AccountNext \/ TenantNext]_accountVars
  BY DEF Next, vars
<1>3. [Next]_vars => [OAuthNext]_oauthVars
  BY DEF Next, vars
<1>4. [Next]_vars => [RegistryNext]_gatewayVars
  BY DEF Next, vars
<1>5. [Next]_vars => [ConsoleNext]_consoleVars
  BY DEF Next, vars, opsVars
<1>6. [Next]_vars => [MetricsNext]_metricsVars
  BY DEF Next, vars, opsVars
<1>7. [Next]_vars => [RowsNext]_rowVars
  BY DEF Next, vars, opsVars
<1> QED BY <1>1, <1>2, <1>3, <1>4, <1>5, <1>6, <1>7, PTL
        DEF Spec, TenancySpec, OAuthSpec, RegistrySpec, ConsoleSpec, MetricsSpec, RowsSpec

(* SystemTypeOK: whatever part moves, and from whichever of its initial    *)
(* states, every file, row, request and call is of its type.               *)
THEOREM SystemIsTyped == Spec => []SystemTypeOK
<1>1. Init => GuardContentInv
  BY GuardContentStart, InstalledContent DEF Init
<1>2. GuardContentInv /\ [Next]_vars => GuardContentInv'
  <2> SUFFICES ASSUME GuardContentInv, [Next]_vars PROVE GuardContentInv'
    OBVIOUS
  <2>1. Trusted(StepOfCommand) \/ Trusted(GrantsCommand) \/ [GuardNext]_guardVars
    BY DEF Next, vars
  <2> QED BY <2>1, PublishedContent, GuardContentStep
<1>3. Spec => []GuardContentInv
  BY <1>1, <1>2, PTL DEF Spec
<1>4. GuardContentInv => GuardTypeOK
  BY GuardContentTypes
<1>5. Spec => [](AccountTypeOK /\ ActsWithinAuthority)
  BY PartsAreComponents, ChangesAreAuthorized, PTL
<1>6. Spec => []OAuthTypeOK
  BY PartsAreComponents, OAuthTypeCorrect, PTL
<1>7. Spec => [](RegistryTypeOK /\ CallsStayIsolated)
  BY PartsAreComponents, RegistryIsolatesCalls, PTL
<1>8. GuardTypeOK /\ AccountTypeOK /\ OAuthTypeOK /\ RegistryTypeOK => SystemTypeOK
  BY DEF SystemTypeOK
<1> QED BY <1>3, <1>4, <1>5, <1>6, <1>7, <1>8, PTL

LEMMA InstalledGuard == InstalledInit => GuardInv /\ ApartInv
<1> SUFFICES ASSUME InstalledInit PROVE GuardInv /\ ApartInv
  OBVIOUS
<1>1. PICK role \in DOMAIN BuiltinRoles : Installed(role)
  BY DEF InstalledInit
<1> DEFINE t == MintGrant(RoleNode(role), 1, DefaultIssuer)
<1>2. tokens = <<t>> /\ nkeys = 1
  BY <1>1 DEF Installed
<1>3. /\ todo = << >> /\ killed = {} /\ pruned = {} /\ settled = Absent /\ chk = NoCheck
  BY DEF InstalledInit
<1>4. "key" \in DOMAIN t /\ t.key = 1
  BY DEF MintGrant
<1> HIDE DEF t
<1>5. IsList(tokens) /\ DOMAIN tokens = {1} /\ tokens[1] = t
  BY <1>2 DEF IsList
<1>6. ContentInv /\ TrustTypeOK
  BY InstalledContent, ContentTypes DEF GuardContentInv
<1>7. disk = [f \in Files |-> disk[f]] /\ disk[Key] \in Unreadable \cup 1..nkeys
  BY <1>6 DEF ContentInv, TrustTypeOK
<1>8. GuardTypes
  BY <1>2, <1>3, <1>4, <1>5, <1>7 DEF GuardTypes, Keyed
<1>9. FeedOK(disk[Feed], disk[Key], tokens, killed)
  BY <1>3 DEF FeedOK, Lists
<1>10. CommandOK(todo, disk[Feed], disk[Key], tokens, killed, nkeys)
  BY <1>3, <1>9, NothingOK
<1>11. CheckOK(chk, tokens, killed)
  BY <1>3 DEF CheckOK
<1> QED BY <1>3, <1>8, <1>10, <1>11, OpsNone DEF GuardInv, GuardState, ApartInv

LEMMA ApartMeans == ApartInv => PrunedAreKilled /\ ReapplyIsNoop
BY DEF ApartInv, PrunedAreKilled, ReapplyIsNoop

(* The guard's part applies and prunes nothing, the others check nothing.  *)
PartsInv ==
    /\ part = "guard" => GuardInv /\ ApartInv
    /\ part # "guard" => NoopInv /\ chk = NoCheck

LEMMA PartStart ==
    ASSUME Init
    PROVE  PartsInv /\ (part # "guard" => PruneInv)
<1>1. GuardInit \/ (part = "guard" /\ InstalledInit)
  BY DEF Init
<1>2. CASE GuardInit
  <2>1. TrustInit /\ chk = NoCheck /\ ApartInv
    BY <1>2, OpsNone DEF GuardInit, TrustInit, ApartInv
  <2> QED BY <1>2, <2>1, GuardStart, NoopStart, PruneStart DEF PartsInv
<1>3. CASE part = "guard" /\ InstalledInit
  BY <1>3, InstalledGuard DEF PartsInv
<1> QED BY <1>1, <1>2, <1>3

(* Whichever part moves: the guard, `legant apply`, or neither.            *)
LEMMA PartMoves ==
    ASSUME [Next]_vars
    PROVE  /\ part' = part
           /\ part = "guard" => [GuardNext]_guardVars
           /\ part # "guard" => [StepOfCommand \/ GrantsCommand]_trustVars /\ chk' = chk
<1>1. CASE part = "grants" /\ (Trusted(StepOfCommand) \/ Trusted(GrantsCommand)) /\ UNCHANGED part
  BY <1>1 DEF Trusted
<1>2. CASE part = "guard" /\ GuardNext /\ UNCHANGED part
  BY <1>2
<1>3. CASE UNCHANGED guardVars /\ UNCHANGED part
  BY <1>3 DEF guardVars
<1> QED BY <1>1, <1>2, <1>3 DEF Next, vars

LEMMA PartStep ==
    ASSUME PartsInv, [Next]_vars
    PROVE  PartsInv'
<1>1. CASE part = "guard"
  BY <1>1, PartMoves, GuardKept, ApartGuard DEF PartsInv
<1>2. CASE part # "guard"
  BY <1>2, PartMoves, NoopSteps DEF PartsInv
<1> QED BY <1>1, <1>2

(* Also where the guard starts from an installed directory, a revoked      *)
(* token lets no call through that RunCheck can stop (RevokedIsBlocked says*)
(* which it cannot), and a finished `apply --prune` has nothing left to do *)
(* (Apply).                                                                *)
THEOREM RevocationHoldsOverall == Spec => [](RevokedIsBlocked /\ ReapplyIsNoop)
<1>1. Init => PartsInv
  BY PartStart
<1>2. PartsInv /\ [Next]_vars => PartsInv'
  BY PartStep
<1>3. PartsInv => RevokedIsBlocked /\ ReapplyIsNoop
  <2> SUFFICES ASSUME PartsInv PROVE RevokedIsBlocked /\ ReapplyIsNoop
    OBVIOUS
  <2>1. CASE part = "guard"
    BY <2>1, GuardBlocks, ApartMeans DEF PartsInv
  <2>2. CASE part # "guard"
    BY <2>2, NoopReapplies DEF PartsInv, RevokedIsBlocked, NoCheck
  <2> QED BY <2>1, <2>2
<1> QED BY <1>1, <1>2, <1>3, PTL DEF Spec

(* And no pruned token is accepted again (Prune), where the grants files   *)
(* name no issuer of their own.                                            *)
THEOREM PruningHoldsOverall ==
    ASSUME OneIssuer
    PROVE  Spec => []PrunedAreKilled
<1> DEFINE Inv == IF part = "guard" THEN ApartInv ELSE PruneInv
<1>1. Init => Inv
  BY PartStart DEF PartsInv
<1>2. Inv /\ [Next]_vars => Inv'
  <2> SUFFICES ASSUME Inv, [Next]_vars PROVE Inv'
    OBVIOUS
  <2>1. CASE part = "guard"
    BY <2>1, PartMoves, ApartGuard
  <2>2. CASE part # "guard"
    BY <2>2, PartMoves, PruneKept
  <2> QED BY <2>1, <2>2
<1>3. Inv => PrunedAreKilled
  BY ApartMeans, PruneKills
<1> QED BY <1>1, <1>2, <1>3, PTL DEF Spec
=============================================================================
