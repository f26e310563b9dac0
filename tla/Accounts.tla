------------------------------ MODULE Accounts ------------------------------
(***************************************************************************)
(* Users, sessions, emailed links, organisations, invitations, agents as   *)
(* callers and dynamic client registration (internal/auth, email, org,     *)
(* user, scim, authz and the routes of internal/server).  A handler issues *)
(* its SQL statements one by one, without a transaction: each statement is *)
(* an action, and a slot holds where its request is between two of them.   *)
(* A statement whose error the handler ignores may fail.                   *)
(***************************************************************************)
EXTENDS Naturals, Sequences, FiniteSets

CONSTANTS People, Root,          \* Root is the superadmin
          Companies,             \* organisations
          Bots, botOrg,          \* agents, and the organisation of each
          Slots,                 \* requests that can run at the same time
          Passwords, RoleInputs, \* passwords typed, roles asked for
          Rosters,               \* the roles people start with
          Inviting,              \* the organisations that may start with an invitation
          MaxRegUses,            \* max_uses of the registration token
          MaxLinks, MaxInvites, MaxSessions, MaxWrites   \* bounds

ASSUME AccountsAssumption ==
    /\ Root \in People /\ People \cap Bots = {} /\ Passwords # {}
    /\ botOrg \in [Bots -> Companies]
    /\ Inviting \subseteq Companies
    /\ RoleInputs \subseteq {"owner", "admin", "member"}
    /\ Rosters \subseteq [Companies -> {"owner", "admin", "member", "none"}]
    /\ {MaxLinks, MaxInvites, MaxRegUses, MaxWrites} \subseteq Nat
    /\ MaxSessions \in Nat \ {0}

VARIABLES users,      \* tables users and credentials
          sessions,   \* live rows of table sessions, counted per user
          links,      \* table email_tokens
          invites,    \* table org_invitations
          members,    \* table org_members
          bots,       \* column status of table agents
          agentTokens, \* live rows of table agent_tokens, counted per agent
          regs,       \* the registration token: uses claimed, clients made
          slot,       \* the requests in progress
          past,       \* what the caller of each request has been since its start
          shared,     \* links and invitations two requests have held at once
          writes      \* statements that changed a table

tables == <<users, sessions, links, invites, members, bots, agentTokens, regs, writes>>
accountVars == <<tables, slot, past, shared>>

NoUser == [status |-> "none", super |-> FALSE, pw |-> "none"]
NoRole == [o \in Companies |-> "none"]
Roles == {"owner", "admin", "member"}
Free == [pc |-> "free"]
Goto(s, next) == slot' = [slot EXCEPT ![s] = next]
In(s, pc) == slot[s].pc = pc

(* A statement that counts towards the bound.                              *)
Sql == writes < MaxWrites /\ writes' = writes + 1
-----------------------------------------------------------------------------
(* Passwords, registration and sessions.                                   *)

(* authenticateUser reads the user and then the credential.                *)
LoginSubmit(s, u, typed) ==
    /\ slot[s] = Free /\ users[u].status = "active"
    /\ Goto(s, [pc |-> "password", user |-> u, typed |-> typed])
    /\ UNCHANGED tables

VerifyPassword(s) ==
    /\ In(s, "password")
    /\ Goto(s, IF users[slot[s].user].pw = slot[s].typed
               THEN [pc |-> "session", user |-> slot[s].user] ELSE Free)
    /\ UNCHANGED tables

CreateSession(s) ==
    /\ In(s, "session") /\ Goto(s, Free)
    /\ \/ /\ Sql /\ sessions[slot[s].user] < MaxSessions
          /\ sessions' = [sessions EXCEPT ![slot[s].user] = @ + 1]
       \/ UNCHANGED <<sessions, writes>>
    /\ UNCHANGED <<users, links, invites, members, bots, agentTokens, regs>>

(* INSERT INTO users fails when the email is taken, even by a deleted user. *)
RegisterSubmit(s, u, typed) ==
    /\ slot[s] = Free /\ users[u] = NoUser /\ Sql
    /\ users' = [users EXCEPT ![u].status = "active"]
    /\ Goto(s, [pc |-> "credential", user |-> u, typed |-> typed, then |-> "session"])
    /\ UNCHANGED <<sessions, links, invites, members, bots, agentTokens, regs>>

(* The credential may fail to be stored: the user row stays without one.   *)
StoreCredential(s) ==
    /\ In(s, "credential")
    /\ \/ /\ Sql
          /\ users' = [users EXCEPT ![slot[s].user].pw = slot[s].typed]
          /\ Goto(s, IF slot[s].then = "session"
                     THEN [pc |-> "session", user |-> slot[s].user] ELSE Free)
          /\ UNCHANGED <<sessions, links, invites, members, bots, agentTokens, regs>>
       \/ Goto(s, Free) /\ UNCHANGED tables

(* POST /logout, or a session that reaches expires_at.                     *)
EndSession(u) ==
    /\ sessions[u] > 0 /\ Sql
    /\ sessions' = [sessions EXCEPT ![u] = @ - 1]
    /\ UNCHANGED <<users, links, invites, members, bots, agentTokens, regs, slot>>
-----------------------------------------------------------------------------
(* Emailed links.  opened counts what a link has let through; lost: the    *)
(* statement that marks it used has failed.                                *)

SendLink(u, type) ==
    /\ users[u].status = "active" /\ Len(links) < MaxLinks /\ Sql
    /\ links' = Append(links, [user |-> u, type |-> type, used |-> FALSE,
                               expired |-> FALSE, opened |-> 0, lost |-> FALSE])
    /\ UNCHANGED <<users, sessions, invites, members, bots, agentTokens, regs, slot>>

ExpireLink(l) ==
    /\ ~links[l].expired /\ Sql
    /\ links' = [links EXCEPT ![l].expired = TRUE]
    /\ UNCHANGED <<users, sessions, invites, members, bots, agentTokens, regs, slot>>

(* Mutant: the query leaves out `used = false`.                            *)
MutOpens(l) == ~links[l].expired

opens(l) == ~links[l].used /\ ~links[l].expired

ReadLink(s, l) ==
    /\ slot[s] = Free /\ opens(l)
    /\ Goto(s, [pc |-> links[l].type, link |-> l])
    /\ UNCHANGED tables

(* ResetPassword: the credential of a user who has none is not updated.    *)
UpdateCredential(s, p) ==
    /\ In(s, "password_reset") /\ Sql
    /\ LET l == slot[s].link
           u == links[l].user
       IN  /\ users' = [users EXCEPT ![u].pw = IF @ = "none" THEN @ ELSE p]
           /\ links' = [links EXCEPT ![l].opened = @ + 1]
           /\ Goto(s, [pc |-> "mark", link |-> l])
    /\ UNCHANGED <<sessions, invites, members, bots, agentTokens, regs>>

AfterMark(s) ==
    [pc |-> IF In(s, "mark") THEN "end_sessions" ELSE "session",
     user |-> links[slot[s].link].user]

(* ValidateMagicLink marks the link and returns its user; its caller then  *)
(* creates the session.  The result of the UPDATE is ignored.              *)
MarkUsed(s) ==
    LET l == slot[s].link
        opened == IF In(s, "magic_link") THEN links[l].opened + 1 ELSE links[l].opened
    IN  /\ slot[s].pc \in {"magic_link", "mark"} /\ Sql
        /\ \/ links' = [links EXCEPT ![l] = [@ EXCEPT !.used = TRUE, !.opened = opened]]
           \/ links' = [links EXCEPT ![l] = [@ EXCEPT !.lost = TRUE, !.opened = opened]]
        /\ Goto(s, AfterMark(s))
        /\ UNCHANGED <<users, sessions, invites, members, bots, agentTokens, regs>>

DeleteSessions(s) ==
    /\ In(s, "end_sessions") /\ Goto(s, Free)
    /\ \/ Sql /\ sessions' = [sessions EXCEPT ![slot[s].user] = 0]
       \/ UNCHANGED <<sessions, writes>>
    /\ UNCHANGED <<users, links, invites, members, bots, agentTokens, regs>>

(* Dynamic client registration claims a use in one UPDATE, then inserts    *)
(* the client, which may fail: the use stays claimed.                      *)
MutClaimable == regs.uses <= MaxRegUses

Claimable == regs.uses < MaxRegUses

Register(s) ==
    /\ slot[s] = Free /\ Claimable /\ Sql
    /\ regs' = [regs EXCEPT !.uses = @ + 1]
    /\ Goto(s, [pc |-> "client"])
    /\ UNCHANGED <<users, sessions, links, invites, members, bots, agentTokens>>

CreateClient(s) ==
    /\ In(s, "client") /\ Goto(s, Free)
    /\ \/ Sql /\ regs' = [regs EXCEPT !.clients = @ + 1]
       \/ UNCHANGED <<regs, writes>>
    /\ UNCHANGED <<users, sessions, links, invites, members, bots, agentTokens>>
-----------------------------------------------------------------------------
(* Who a request acts as.                                                  *)

(* The session cookie, or an agent's token, names the caller.              *)
GetSession(s, u) ==
    /\ slot[s] = Free /\ sessions[u] > 0
    /\ Goto(s, [pc |-> "user", who |-> u])
    /\ UNCHANGED tables

(* Mutant: the status of the user is not looked at.                        *)
MutMayAct(u) == users[u] # NoUser

MayAct(u) == users[u].status = "active"

(* userPrincipal: two queries, the second for the roles.                   *)
LoadUser(s) ==
    /\ In(s, "user")
    /\ Goto(s, IF MayAct(slot[s].who)
               THEN [pc |-> "roles", who |-> slot[s].who, super |-> users[slot[s].who].super]
               ELSE Free)
    /\ UNCHANGED tables

LoadRoles(s) ==
    /\ In(s, "roles")
    /\ Goto(s, [pc |-> "principal", who |-> slot[s].who, super |-> slot[s].super,
                roles |-> members[slot[s].who]])
    /\ UNCHANGED tables

(* ValidateToken: the unexpired row of the token, then its agent.          *)
ReadToken(s, b) ==
    /\ slot[s] = Free /\ agentTokens[b] > 0
    /\ Goto(s, [pc |-> "agent", who |-> b])
    /\ UNCHANGED tables

(* Mutant: the status of the agent is not looked at.                       *)
MutAgentActive(b) == b \in Bots

AgentActive(b) == bots[b] = "active"

ReadAgent(s) ==
    /\ In(s, "agent")
    /\ IF AgentActive(slot[s].who)
       THEN Goto(s, [pc |-> "org", who |-> slot[s].who]) ELSE Goto(s, Free)
    /\ UNCHANGED tables

(* The organisation of an agent never changes.                             *)
agentPrincipal(s) ==
    /\ In(s, "org")
    /\ Goto(s, [pc |-> "principal", who |-> slot[s].who, super |-> FALSE,
                roles |-> [NoRole EXCEPT ![botOrg[slot[s].who]] = "agent"]])
    /\ UNCHANGED tables

(* Mutant: an administrator of any organisation passes for one of o.       *)
MutIsOrgAdmin(p, o) == p.super \/ \E c \in Companies : p.roles[c] \in {"owner", "admin"}

CanAccessOrg(p, o) == p.super \/ p.roles[o] # "none"
IsOrgAdmin(p, o) == p.super \/ p.roles[o] \in {"owner", "admin"}

AdminCapable(p) == \E o \in Companies : IsOrgAdmin(p, o)

(* A request that ends with a change records, as alternatives, what its    *)
(* caller has to have been.                                                *)
Acted(s, alternatives) == Goto(s, [pc |-> "done", who |-> slot[s].who, needs |-> alternatives])
AsSuper == {<<"active">>, <<"super">>}

Respond(s) == In(s, "done") /\ Goto(s, Free) /\ UNCHANGED tables
Reject(s) == In(s, "principal") /\ Goto(s, Free) /\ UNCHANGED tables
=============================================================================
