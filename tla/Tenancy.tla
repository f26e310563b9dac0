------------------------------ MODULE Tenancy ------------------------------
(***************************************************************************)
(* What an admitted caller may change: the admin API, SCIM, agents,        *)
(* invitations and consent, over the tables and callers of Accounts; the   *)
(* next-state relation of both, and their properties.                      *)
(***************************************************************************)
EXTENDS Accounts

SuperCaller(s) == In(s, "principal") /\ slot[s].super
-----------------------------------------------------------------------------
(* Routes behind RequireSuperadmin.                                        *)

(* user.Service Delete, Suspend and Activate; SCIM PUT, PATCH and DELETE.  *)
SetStatus(s, u, status) ==
    /\ SuperCaller(s) /\ users[u] # NoUser /\ Sql
    /\ users' = [users EXCEPT ![u].status = status]
    /\ Acted(s, {AsSuper})
    /\ UNCHANGED <<sessions, links, invites, members, bots, agentTokens, regs>>

(* SCIM CreateUser: a user without a credential.                           *)
Provision(s, u) ==
    /\ SuperCaller(s) /\ users[u] = NoUser /\ Sql
    /\ users' = [users EXCEPT ![u].status = "active"]
    /\ Acted(s, {AsSuper})
    /\ UNCHANGED <<sessions, links, invites, members, bots, agentTokens, regs>>

(* user.Service Create: the credential is a second statement.              *)
CreateUser(s, u, pw) ==
    /\ SuperCaller(s) /\ users[u] = NoUser /\ Sql
    /\ users' = [users EXCEPT ![u].status = "active"]
    /\ Goto(s, [pc |-> "credential", user |-> u, typed |-> pw, then |-> "free"])
    /\ UNCHANGED <<sessions, links, invites, members, bots, agentTokens, regs>>

SetMember(s, u, o, role) ==
    /\ SuperCaller(s) /\ users[u] # NoUser /\ Sql
    /\ members' = [members EXCEPT ![u][o] = role]
    /\ Acted(s, {AsSuper})
    /\ UNCHANGED <<users, sessions, links, invites, bots, agentTokens, regs>>

(* Fails when the row exists.                                              *)
NewMember(s, u, o, role) == members[u][o] = "none" /\ SetMember(s, u, o, role)

(* UpdateMemberRole changes a row, RemoveMember deletes it.                *)
ChangeMember(s, u, o, role) ==
    members[u][o] \notin {"none", role} /\ SetMember(s, u, o, role)

Invitation(o, role) == [org |-> o, role |-> role, status |-> "pending",
                        expired |-> FALSE, opened |-> 0, lost |-> FALSE]

CreateInvitation(s, o, role) ==
    /\ SuperCaller(s) /\ Len(invites) < MaxInvites /\ Sql
    /\ invites' = Append(invites, Invitation(o, role))
    /\ Acted(s, {AsSuper})
    /\ UNCHANGED <<users, sessions, links, members, bots, agentTokens, regs>>

RevokeInvitation(s, i) ==
    /\ SuperCaller(s) /\ invites[i].status = "pending" /\ Sql
    /\ invites' = [invites EXCEPT ![i].status = "revoked"]
    /\ Acted(s, {AsSuper})
    /\ UNCHANGED <<users, sessions, links, members, bots, agentTokens, regs>>

(* `legant admin grant-superadmin`.                                        *)
GrantSuperadmin(u) ==
    /\ users[u].status = "active" /\ ~users[u].super /\ Sql
    /\ users' = [users EXCEPT ![u].super = TRUE]
    /\ UNCHANGED <<sessions, links, invites, members, bots, agentTokens, regs, slot>>
-----------------------------------------------------------------------------
(* Accepting an invitation: any holder of the link who has a session.      *)

ExpireInvitation(i) ==
    /\ ~invites[i].expired /\ Sql
    /\ invites' = [invites EXCEPT ![i].expired = TRUE]
    /\ UNCHANGED <<users, sessions, links, members, bots, agentTokens, regs, slot>>

(* Mutant: the query leaves out `status = 'pending'`.                      *)
MutPending(i) == i \in DOMAIN invites

Pending(i) == invites[i].status = "pending"

ReadInvitation(s, u, i) ==
    /\ slot[s] = Free /\ sessions[u] > 0 /\ Pending(i)
    /\ IF invites[i].expired
       THEN /\ UNCHANGED writes
            /\ invites' = [invites EXCEPT ![i].status = "expired"]
            /\ UNCHANGED <<slot, users, sessions, links, members, bots, agentTokens, regs>>
       ELSE Goto(s, [pc |-> "join", joins |-> u, invite |-> i]) /\ UNCHANGED tables

AddMember(s) ==
    LET u == slot[s].joins
        i == slot[s].invite
    IN  /\ In(s, "join")
        /\ IF members[u][invites[i].org] = "none"
           THEN /\ UNCHANGED writes
                /\ members' = [members EXCEPT ![u][invites[i].org] = invites[i].role]
                /\ invites' = [invites EXCEPT ![i].opened = @ + 1]
                /\ Goto(s, [pc |-> "accept", invite |-> i])
                /\ UNCHANGED <<users, sessions, links, bots, agentTokens, regs>>
           ELSE Goto(s, Free) /\ UNCHANGED tables

(* The UPDATE looks at no status: a revocation since the read is undone.   *)
MarkAccepted(s) ==
    /\ In(s, "accept") /\ Goto(s, Free) /\ UNCHANGED writes
    /\ \/ invites' = [invites EXCEPT ![slot[s].invite].status = "accepted"]
       \/ invites' = [invites EXCEPT ![slot[s].invite].lost = TRUE]
    /\ UNCHANGED <<users, sessions, links, members, bots, agentTokens, regs>>
-----------------------------------------------------------------------------
(* Agents.                                                                 *)

(* requireAgentAccess for a write, behind RequireAdmin; any status.        *)
requireAgentAccess(s, b) ==
    In(s, "principal") /\ AdminCapable(slot[s]) /\ IsOrgAdmin(slot[s], botOrg[b])

AsAdmin(b) == {AsSuper, {<<"active">>, <<"admin", botOrg[b]>>}}

RevokeAgent(s, b) ==
    /\ requireAgentAccess(s, b) /\ bots[b] = "active" /\ Sql
    /\ bots' = [bots EXCEPT ![b] = "revoked"]
    /\ Acted(s, AsAdmin(b))
    /\ UNCHANGED <<users, sessions, links, invites, members, agentTokens, regs>>

(* The status is read before the token is inserted.                        *)
CreateToken(s, b) ==
    /\ requireAgentAccess(s, b) /\ AgentActive(b)
    /\ Goto(s, [pc |-> "issue", who |-> slot[s].who, bot |-> b])
    /\ UNCHANGED tables

InsertToken(s) ==
    /\ In(s, "issue") /\ agentTokens[slot[s].bot] < MaxSessions /\ Sql
    /\ agentTokens' = [agentTokens EXCEPT ![slot[s].bot] = @ + 1]
    /\ Acted(s, AsAdmin(slot[s].bot))
    /\ UNCHANGED <<users, sessions, links, invites, members, bots, regs>>

RevokeToken(s, b) ==
    /\ requireAgentAccess(s, b) /\ agentTokens[b] > 0 /\ Sql
    /\ agentTokens' = [agentTokens EXCEPT ![b] = @ - 1]
    /\ Acted(s, AsAdmin(b))
    /\ UNCHANGED <<users, sessions, links, invites, members, bots, regs>>

ExpireToken(b) ==
    /\ agentTokens[b] > 0 /\ Sql
    /\ agentTokens' = [agentTokens EXCEPT ![b] = @ - 1]
    /\ UNCHANGED <<users, sessions, links, invites, members, bots, regs, slot>>

(* CreateDelegation through the API: only a user, and behind RequireAdmin. *)
Delegate(s, b) ==
    /\ In(s, "principal") /\ slot[s].who \in People
    /\ AdminCapable(slot[s]) /\ CanAccessOrg(slot[s], botOrg[b])
    /\ Acted(s, {AsSuper, {<<"active">>, <<"member", botOrg[b]>>}})
    /\ UNCHANGED tables

(* POST /delegations/redelegate: only an agent.                            *)
Redelegate(s) ==
    /\ In(s, "principal") /\ slot[s].who \in Bots
    /\ Acted(s, {{<<"active">>, <<"token">>}})
    /\ UNCHANGED tables

(* POST /consent/delegate reads the session only, then the agent, then the *)
(* membership; the status of the user is not read.                         *)
ConsentAgent(s, u, b) ==
    /\ slot[s] = Free /\ sessions[u] > 0 /\ bots[b] = "active"
    /\ Goto(s, [pc |-> "consent", who |-> u, org |-> botOrg[b]])
    /\ UNCHANGED tables

ConsentMember(s) ==
    /\ In(s, "consent")
    /\ Goto(s, IF members[slot[s].who][slot[s].org] # "none"
               THEN [pc |-> "grant", who |-> slot[s].who, org |-> slot[s].org] ELSE Free)
    /\ UNCHANGED tables

Consent(s) ==
    /\ In(s, "grant")
    /\ Acted(s, {{<<"member", slot[s].org>>}})
    /\ UNCHANGED tables
-----------------------------------------------------------------------------
(* What a caller is at a moment.                                           *)

Flag(name, holds) == IF holds THEN {<<name>>} ELSE {}

standing ==
    [w \in People \cup Bots |->
       IF w \in Bots THEN Flag("active", bots[w] = "active") \cup Flag("token", agentTokens[w] > 0)
       ELSE Flag("active", users[w].status = "active") \cup Flag("super", users[w].super)
            \cup {<<"member", o>> : o \in {c \in Companies : members[w][c] # "none"}}
            \cup {<<"admin", o>> : o \in {c \in Companies : members[w][c] \in {"owner", "admin"}}}]

(* `past` accumulates the standing of the caller from the request's start. *)
Holds(r) == {<<t, r[t]>> : t \in DOMAIN r \cap {"link", "invite"}}

Observe ==
    /\ past' = [s \in Slots |-> IF "who" \in DOMAIN slot'[s]
                                THEN past[s] \cup standing'[slot'[s].who] ELSE {}]
    /\ shared' = shared \cup UNION {UNION {Holds(slot'[s]) \cap Holds(slot'[t]) :
                                            t \in Slots \ {s}} : s \in Slots}

(* A new database, with the superadmin only.                               *)
AccountInit ==
    /\ users = [u \in People |->
                  IF u = Root THEN [status |-> "active", super |-> TRUE,
                                    pw |-> CHOOSE p \in Passwords : TRUE]
                  ELSE NoUser]
    /\ sessions = [u \in People |-> 0]
    /\ links = << >> /\ invites = << >>
    /\ members = [u \in People |-> NoRole]
    /\ bots = [b \in Bots |-> "active"] /\ agentTokens = [b \in Bots |-> 0]
    /\ regs = [uses |-> 0, clients |-> 0]
    /\ slot = [s \in Slots |-> Free] /\ past = [s \in Slots |-> {}] /\ shared = {}
    /\ writes = 0

(* A database in use: the others have signed up, been given roles and      *)
(* logged in, or do not exist yet; there may be an invitation.             *)
TenantInit ==
    \E here \in SUBSET (People \ {Root}) :
      /\ users = [u \in People |-> IF u \in here \cup {Root}
                    THEN [status |-> "active", super |-> u = Root,
                          pw |-> CHOOSE p \in Passwords : TRUE]
                    ELSE NoUser]
      /\ sessions = [u \in People |-> IF users[u] = NoUser THEN 0 ELSE 1]
      /\ members \in {m \in [People -> Rosters \cup {NoRole}] :
                        \A u \in People : m[u] = NoRole <=> u \notin here}
      /\ links = << >>
      /\ \/ invites = << >>
         \/ invites \in {<<Invitation(o, "admin")>> : o \in Inviting}
      /\ bots = [b \in Bots |-> "active"] /\ agentTokens = [b \in Bots |-> 1]
      /\ regs = [uses |-> 0, clients |-> 0]
      /\ slot = [s \in Slots |-> Free] /\ past = [s \in Slots |-> {}] /\ shared = {}
      /\ writes = Len(invites)

LoginStep(s) ==
    \/ \E u \in People, p \in Passwords : LoginSubmit(s, u, p) \/ RegisterSubmit(s, u, p)
    \/ VerifyPassword(s) \/ CreateSession(s) \/ StoreCredential(s)

LinkStep(s) ==
    \/ \E l \in DOMAIN links : ReadLink(s, l)
    \/ \E p \in Passwords : UpdateCredential(s, p)
    \/ MarkUsed(s) \/ DeleteSessions(s) \/ CreateSession(s)
    \/ Register(s) \/ CreateClient(s)

CallerStep(s) ==
    \/ \E u \in People : GetSession(s, u)
    \/ \E b \in Bots : ReadToken(s, b)
    \/ ReadAgent(s) \/ agentPrincipal(s)
    \/ LoadUser(s) \/ LoadRoles(s) \/ Respond(s) \/ Reject(s)

UserRoutes(s) ==
    \/ \E u \in People, st \in {"active", "suspended", "deleted"} : SetStatus(s, u, st)
    \/ \E u \in People : Provision(s, u) \/ CreateUser(s, u, CHOOSE p \in Passwords : TRUE)

MemberRoutes(s) ==
    \E u \in People, o \in Companies :
      \/ \E r \in RoleInputs : NewMember(s, u, o, r)
      \/ \E r \in RoleInputs \cup {"none"} : ChangeMember(s, u, o, r)

InvitationRoutes(s) ==
    \/ \E o \in Companies, r \in RoleInputs : CreateInvitation(s, o, r)
    \/ \E i \in DOMAIN invites : RevokeInvitation(s, i)

AdminStep(s) == UserRoutes(s) \/ MemberRoutes(s) \/ InvitationRoutes(s)

AcceptStep(s) ==
    \/ \E u \in People, i \in DOMAIN invites : ReadInvitation(s, u, i)
    \/ AddMember(s) \/ MarkAccepted(s)

AgentRoutes(s) ==
    \/ \E b \in Bots : RevokeAgent(s, b) \/ Delegate(s, b) \/ CreateToken(s, b) \/ RevokeToken(s, b)
    \/ InsertToken(s)

ConsentStep(s) ==
    \/ \E u \in People, b \in Bots : ConsentAgent(s, u, b)
    \/ ConsentMember(s) \/ Consent(s)

AccountNext ==
    /\ \/ \E s \in Slots : LoginStep(s) \/ LinkStep(s)
       \/ \E u \in People, t \in {"password_reset", "magic_link"} : SendLink(u, t)
       \/ \E l \in DOMAIN links : ExpireLink(l)
       \/ \E u \in People : EndSession(u)
    /\ Observe

TenantNext ==
    /\ \/ \E s \in Slots : CallerStep(s) \/ AdminStep(s) \/ AcceptStep(s)
       \/ \E s \in Slots : AgentRoutes(s) \/ ConsentStep(s) \/ Redelegate(s)
       \/ \E u \in People : GrantSuperadmin(u)
       \/ \E s \in Slots : StoreCredential(s)
       \/ \E i \in DOMAIN invites : ExpireInvitation(i)
       \/ \E b \in Bots : ExpireToken(b)
       \/ \E u \in People : EndSession(u)
    /\ Observe

TenancySpec ==
    /\ AccountInit \/ TenantInit
    /\ [][AccountNext \/ TenantNext]_accountVars
-----------------------------------------------------------------------------
AccountTypeOK ==
    /\ users \in [People -> [status : {"none", "active", "suspended", "deleted"},
                             super : BOOLEAN, pw : Passwords \cup {"none"}]]
    /\ sessions \in [People -> 0..MaxSessions]
    /\ members \in [People -> [Companies -> Roles \cup {"none"}]]
    /\ bots \in [Bots -> {"active", "revoked"}] /\ agentTokens \in [Bots -> 0..MaxSessions]
    /\ \A l \in DOMAIN links : links[l].user \in People
    /\ \A i \in DOMAIN invites : invites[i].org \in Companies

(* What a request of this module changes it changes for a caller who, at   *)
(* some moment since it began, was active and, maybe at another, had the   *)
(* role the route asks for in the very organisation the change is about:   *)
(* authz.Authenticator reads status and roles in two queries and the       *)
(* handlers decide from that copy, while the roles change, users are       *)
(* suspended and their sessions stay.  A consent asks for membership only. *)
(* Not among these changes are a user created with a password, an          *)
(* invitation accepted, and an agent created or edited.                    *)
ActsWithinAuthority ==
    \A s \in Slots : In(s, "done") => \E n \in slot[s].needs : n \subseteq past[s]

(* A one-time link or an invitation lets one request through, and a        *)
(* registration token as many as it is for.  The statement that marks a    *)
(* link or an invitation is separate from the one that reads it, so there  *)
(* are two exceptions: requests that had it open at the same time, and a   *)
(* mark that failed; a request that starts after the mark never passes     *)
(* (email.Service, org.AcceptInvitation, Registrar.Register).              *)
UsesAreBounded ==
    /\ \A l \in DOMAIN links :
         links[l].opened <= 1 \/ links[l].lost \/ <<"link", l>> \in shared
    /\ \A i \in DOMAIN invites :
         invites[i].opened <= 1 \/ invites[i].lost \/ <<"invite", i>> \in shared
    /\ regs.clients <= MaxRegUses
=============================================================================
