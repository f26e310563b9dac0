------------------------------ MODULE RowEdits ------------------------------
(***************************************************************************)
(* The records the admin API edits: users, agents, organisations and SSO   *)
(* connections (internal/user, agent, org, scim).  An update reads the     *)
(* row, puts the fields of the request over it and writes all columns      *)
(* back, in two statements without a transaction; suspension, SCIM and     *)
(* deletion are single statements.                                         *)
(***************************************************************************)
EXTENDS Naturals, FiniteSets

CONSTANTS Kinds,           \* of rows; one row of each at most
          Editable,        \* the columns requests ask for
          MaxRows, MaxStatements   \* bounds

ASSUME RowEditsAssumption ==
    /\ Kinds \subseteq {"user", "agent", "org", "sso"}
    /\ {MaxRows, MaxStatements} \subseteq Nat

VARIABLES rows,     \* kind -> column -> when the value that stands there was asked for
          asked,    \* kind -> column -> when a value was last asked for
          pending,  \* updates between their two statements
          updates,  \* the updates that have written
          now       \* statements so far

rowVars == <<rows, asked, pending, updates, now>>

(* Mutant: an update of a user writes the status it read.                  *)
MutUserColumns == {"email", "display_name", "avatar_url", "email_verified", "metadata", "status"}

UserColumns == {"email", "display_name", "avatar_url", "email_verified", "metadata"}

AgentColumns == {"name", "description", "metadata"}
OrgColumns == {"name", "slug", "settings"}
SSOColumns == {"provider", "config", "domain", "enabled"}

(* What an update writes; the row has its status besides.                  *)
Columns(kind) == CASE kind = "user" -> UserColumns [] kind = "agent" -> AgentColumns
                   [] kind = "org" -> OrgColumns [] kind = "sso" -> SSOColumns

HasRow(kind) == rows[kind] # << >>
Present == {k \in Kinds : HasRow(k)}

RowsInit ==
    /\ rows = [k \in Kinds |-> << >>] /\ asked = rows
    /\ pending = {} /\ updates = {} /\ now = 0

Statement == now < MaxStatements /\ now' = now + 1

(* One INSERT or UPDATE that sets the columns a request names.             *)
SetColumns(kind, columns) ==
    LET change(old) == [c \in DOMAIN old |-> IF c \in columns THEN now' ELSE old[c]]
    IN  /\ Statement
        /\ rows' = [rows EXCEPT ![kind] = change(@)]
        /\ asked' = [asked EXCEPT ![kind] = change(@)]
        /\ UNCHANGED <<pending, updates>>

(* A taken email or slug, or a wrong type, inserts nothing.                *)
CreateRow(kind) ==
    /\ ~HasRow(kind) /\ Cardinality(Present) < MaxRows /\ Statement
    /\ rows' = [rows EXCEPT ![kind] = [c \in Columns(kind) \cup {"status"} |-> now']]
    /\ asked' = [asked EXCEPT ![kind] = rows'[kind]]
    /\ UNCHANGED <<pending, updates>>

CreateUserRow == CreateRow("user")
CreateAgent == CreateRow("agent")
CreateOrg == CreateRow("org")
CreateSSO == CreateRow("sso")
-----------------------------------------------------------------------------
(* Updates.                                                                *)

ReadRow(kind, fields) ==
    /\ HasRow(kind) /\ Statement
    /\ pending' = pending \cup
         {[kind |-> kind, fields |-> fields, readAt |-> now', copy |-> rows[kind]]}
    /\ UNCHANGED <<rows, asked, updates>>

GetUser(fields) == ReadRow("user", fields)
GetAgent(fields) == ReadRow("agent", fields)
GetOrg(fields) == ReadRow("org", fields)
GetSSO(fields) == ReadRow("sso", fields)

(* Mutant: a field the request leaves out is blanked, not kept.            *)
MutKept(e, c) == 0

Kept(e, c) == e.copy[c]

(* The UPDATE fails on a taken email or slug, or finds no row.             *)
WriteRow(e) ==
    LET value(c) == IF c \in e.fields THEN now' ELSE Kept(e, c)
    IN  /\ e \in pending /\ pending' = pending \ {e}
        /\ \/ /\ HasRow(e.kind) /\ Statement
              /\ rows' = [rows EXCEPT ![e.kind] =
                            [c \in DOMAIN @ |-> IF c \in Columns(e.kind) THEN value(c) ELSE @[c]]]
              /\ asked' = [asked EXCEPT ![e.kind] =
                             [c \in DOMAIN @ |-> IF c \in e.fields THEN now' ELSE @[c]]]
              /\ updates' = updates \cup {[kind |-> e.kind, fields |-> e.fields,
                                       readAt |-> e.readAt, wroteAt |-> now']}
           \/ UNCHANGED <<rows, asked, updates, now>>

UpdateUser(e) == e.kind = "user" /\ WriteRow(e)
UpdateAgent(e) == e.kind = "agent" /\ WriteRow(e)
UpdateOrg(e) == e.kind = "org" /\ WriteRow(e)
UpdateSSO(e) == e.kind = "sso" /\ WriteRow(e)
-----------------------------------------------------------------------------
(* Single statements.                                                      *)

(* Suspend, Activate, Delete of a user, by the API or by SCIM; Revoke of   *)
(* an agent; DeleteOrg, which suspends.                                    *)
SetRowStatus(kind) == HasRow(kind) /\ SetColumns(kind, {"status"})

ReplaceUser == HasRow("user") /\ SetColumns("user", {"email", "display_name", "status"})

(* One statement per operation of the patch, each on its own: an error is  *)
(* ignored and the next operation goes on.                                 *)
PatchUser(c) == c \in {"email", "display_name", "status"} /\ HasRow("user") /\ SetColumns("user", {c})

(* The row is gone: an update that has read it will write nothing.         *)
DeleteSSO ==
    /\ HasRow("sso") /\ Statement
    /\ rows' = [rows EXCEPT !["sso"] = << >>] /\ asked' = [asked EXCEPT !["sso"] = << >>]
    /\ pending' = {e \in pending : e.kind # "sso"}
    /\ UNCHANGED updates

Requested(kind) == {{c} : c \in Editable \cap Columns(kind)} \cup {Editable \cap Columns(kind)}

(* The routes of each resource.                                            *)
UserStep ==
    \/ CreateUserRow \/ ReplaceUser \/ SetRowStatus("user")
    \/ \E c \in Editable \cup {"status"} : PatchUser(c)
    \/ \E fs \in Requested("user") : GetUser(fs)
    \/ \E e \in pending : UpdateUser(e)

AgentStep ==
    \/ CreateAgent \/ SetRowStatus("agent") \/ \E fs \in Requested("agent") : GetAgent(fs)
    \/ \E e \in pending : UpdateAgent(e)

OrgStep ==
    \/ CreateOrg \/ SetRowStatus("org") \/ \E fs \in Requested("org") : GetOrg(fs)
    \/ \E e \in pending : UpdateOrg(e)

SSOStep ==
    \/ CreateSSO \/ DeleteSSO \/ \E fs \in Requested("sso") : GetSSO(fs)
    \/ \E e \in pending : UpdateSSO(e)

RowsNext ==
    \/ "user" \in Kinds /\ UserStep
    \/ "agent" \in Kinds /\ AgentStep
    \/ "org" \in Kinds /\ OrgStep
    \/ "sso" \in Kinds /\ SSOStep

RowsSpec == RowsInit /\ [][RowsNext]_rowVars
-----------------------------------------------------------------------------
(* A value that a request asked for and wrote is lost only to an update    *)
(* that overlapped with it: one that had read the row before and wrote all *)
(* its columns afterwards, without asking for this one.  A status is never *)
(* lost: no update of a suspended or deleted user, a revoked agent or a    *)
(* suspended organisation brings it back, however it overlaps.             *)
OnlyOverlapLosesEdits ==
    \A k \in Present : \A c \in DOMAIN rows[k] :
      rows[k][c] # asked[k][c] =>
        /\ c # "status"
        /\ \E e \in updates : /\ e.kind = k /\ c \notin e.fields
                            /\ e.readAt < asked[k][c] /\ asked[k][c] < e.wroteAt
=============================================================================
