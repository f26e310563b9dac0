-------------------------------- MODULE System --------------------------------
(***************************************************************************)
(* The components that share no state with one another, side by side: a    *)
(* behaviour is one of one `part`, the variables of the others stay as     *)
(* they are initially.                                                     *)
(***************************************************************************)
EXTENDS Guard, Tenancy, OAuthStore, GatewayRegistry, LiveConsole, MetricsRegistry, RowEdits

CONSTANT MaxTenantWrites   \* bound on the statements of a tenancy behaviour

VARIABLE part

opsVars == <<consoleVars, metricsVars, rowVars>>
vars == <<guardVars, accountVars, oauthVars, gatewayVars, opsVars, part>>

Parts == {"grants", "guard", "accounts", "tenancy", "oauth", "registry",
          "console", "metrics", "rows"}
-----------------------------------------------------------------------------
(* The directory as `guard install` leaves it, to which longer histories   *)
(* are within reach of the bounds than from an empty one.                  *)
Installed(role) ==
    LET feed == BuildSignedFeed({}, DefaultIssuer, 1)
    IN  /\ disk = [f \in Files |-> CASE f \in {Key, JWKS, RoleFile(role)} -> 1
                                     [] f = Feed -> feed
                                     [] OTHER -> Absent]
        /\ tokens = <<MintGrant(RoleNode(role), 1, DefaultIssuer)>> /\ nkeys = 1
        /\ hook = role /\ feeds = {feed}

InstalledInit ==
    /\ clock = 0 /\ \E role \in DOMAIN BuiltinRoles : Installed(role)
    /\ todo = << >> /\ killed = {} /\ pruned = {} /\ settled = Absent
    /\ declared \in GrantsFiles
    /\ chk = NoCheck /\ exposed = FALSE

Init ==
    /\ part \in Parts
    /\ GuardInit \/ (part = "guard" /\ InstalledInit)
    /\ OAuthInit /\ RegistryInit
    /\ ConsoleInit /\ MetricsInit /\ RowsInit
    /\ part # "grants" => declared = CHOOSE f \in GrantsFiles : TRUE
    /\ IF part = "tenancy" THEN TenantInit ELSE AccountInit

Next ==
    /\ UNCHANGED part
    /\ \/ /\ part = "grants" /\ (Trusted(StepOfCommand) \/ Trusted(GrantsCommand))
          /\ UNCHANGED <<accountVars, oauthVars, gatewayVars, opsVars>>
       \/ /\ part = "guard" /\ GuardNext
          /\ UNCHANGED <<accountVars, oauthVars, gatewayVars, opsVars>>
       \/ /\ part = "accounts" /\ AccountNext
          /\ UNCHANGED <<guardVars, oauthVars, gatewayVars, opsVars>>
       \/ /\ part = "tenancy" /\ TenantNext /\ writes' <= MaxTenantWrites
          /\ UNCHANGED <<guardVars, oauthVars, gatewayVars, opsVars>>
       \/ /\ part = "oauth" /\ OAuthNext
          /\ UNCHANGED <<guardVars, accountVars, gatewayVars, opsVars>>
       \/ /\ part = "registry" /\ RegistryNext
          /\ UNCHANGED <<guardVars, accountVars, oauthVars, opsVars>>
       \/ /\ UNCHANGED <<guardVars, accountVars, oauthVars, gatewayVars>>
          /\ \/ part = "console" /\ ConsoleNext /\ UNCHANGED <<metricsVars, rowVars>>
             \/ part = "metrics" /\ MetricsNext /\ UNCHANGED <<consoleVars, rowVars>>
             \/ part = "rows" /\ RowsNext /\ UNCHANGED <<consoleVars, metricsVars>>

Spec == Init /\ [][Next]_vars

(* Every row, file, request and call of the components is of its type.     *)
SystemTypeOK ==
    GuardTypeOK /\ AccountTypeOK /\ OAuthTypeOK /\ RegistryTypeOK
=============================================================================
