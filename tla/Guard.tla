-------------------------------- MODULE Guard --------------------------------
(***************************************************************************)
(* The coding-agent guard (internal/ccguard): a hook that authorizes every *)
(* tool call of an agent from files of the directory of OfflineTrust,      *)
(* while the operator's commands rewrite them.  A check reads the token,   *)
(* the JWKS, the feed and the overlay one after the other; a call it lets  *)
(* through runs later, and may write files, the guard's own among them.    *)
(*                                                                         *)
(* A path, a host and a command name are sequences of strings: a path from *)
(* the root down ("/" first when absolute), a host from its top-level      *)
(* label down.  An entry of cnst.resources and of the overlay is a scheme  *)
(* and such a sequence.  A shell command is given as what commandExecuta-  *)
(* bles, catastrophic and redirectTargets make of it, and the paths that it*)
(* opens though none of them finds these (`unparsed`), for an allowed      *)
(* program can touch any path.                                             *)
(***************************************************************************)
EXTENDS OfflineTrust

CONSTANTS GuardDir, Cwd,   \* the guard's directory, the agent's session
          Links,           \* symbolic links: path -> where it leads in the end
          Calls,           \* tool calls the agent may attempt
          OverlayEntries   \* deny rules the operator may add

VARIABLES hook,      \* the role whose token the hook is wired to, or Absent
          chk,       \* the check in progress
          feeds,     \* every feed published, for an old one may be copied
          exposed    \* auxiliary: a check has found the token file empty, or
                     \* a call has put an old feed in place unseen

guardVars == <<trustVars, hook, chk, feeds, exposed>>
-----------------------------------------------------------------------------
(* Paths.                                                                  *)

IsAbs(p) == p # << >> /\ p[1] = "/"

Up(p) == IF Len(p) <= 1 THEN p ELSE SubSeq(p, 1, Len(p) - 1)

(* The place that p leads to when it is walked name by name: ".." goes up  *)
(* from where the walk has come to, and the links in `links` are followed. *)
Walk(p, links) ==
    LET follow(q) == IF q \in links THEN Links[q] ELSE q
        at[n \in 0..Len(p)] ==
          IF n = 0 THEN << >>
          ELSE IF p[n] = ".." THEN Up(at[n - 1]) ELSE follow(Append(at[n - 1], p[n]))
    IN  at[Len(p)]

(* filepath.Clean takes ".." back from the spelling, before any link.      *)
Clean(p) == Walk(p, {})

Absolute(p) == IF IsAbs(p) THEN p ELSE Cwd \o p

absClean(p) == Clean(Absolute(p))

(* Outside the guard's directory every path that is named exists.          *)
Exists(p) == \A f \in Files : p = GuardDir \o f => disk[f] # Absent

(* A link to a file that is not there stays a name.                        *)
realPath(p) == Walk(p, {l \in DOMAIN Links : Exists(Links[l])})

(* The kernel takes a path as it is spelled: it follows each link when it  *)
(* comes to it, and ".." from there.                                       *)
Opened(p) == Walk(Absolute(p), DOMAIN Links)

Below(p, root) == Len(root) <= Len(p) /\ SubSeq(p, 1, Len(root)) = root

contained(p, roots) == \E r \in roots : Below(realPath(p), realPath(r))

(* GuardDir is where the files are, spelled without ".." and links.        *)
ASSUME GuardAssumption ==
    /\ Len(GuardDir) \in Nat /\ GuardDir = [n \in 1..Len(GuardDir) |-> GuardDir[n]]
    /\ \A links \in SUBSET DOMAIN Links : Walk(GuardDir, links) = GuardDir
-----------------------------------------------------------------------------
(* Roles and rules.                                                        *)

Entry(scheme, v) == [scheme |-> scheme, v |-> v]

Rules(entries) == [Unconstrained EXCEPT !.allow["resources"] = entries]

GuardRoles(projectRoot) ==
    LET sensitive == {Entry("deny-path", <<".env">>)}
        exfil == {Entry("deny-cmd", <<"curl">>)}
        root == {Entry("path", projectRoot)}
    IN  [reviewer |-> [scopes |-> {"fs.read"}, cnst |-> Rules(root)],
         builder |-> [scopes |-> {"fs.read", "fs.write", "shell.exec"},
                      cnst |-> Rules(root \cup {Entry("cmd", <<"cat">>)}
                                          \cup sensitive \cup exfil)],
         open |-> [scopes |-> {"*"}, cnst |-> Rules(sensitive \cup exfil)],
         operator |-> [scopes |-> {"*"}, cnst |-> Rules({})]]

resourceValues(t, scheme) ==
    {r.v : r \in {x \in t.cnst.allow["resources"] \ {denyAll} : x.scheme = scheme}}

(* The overlay's rules are added to the token's; a missing or a malformed  *)
(* overlay adds none.                                                      *)
withOverlay(t, ov, scheme) ==
    resourceValues(t, scheme)
        \cup (IF ov \in Unreadable THEN {} ELSE {r.v : r \in {x \in ov : x.scheme = scheme}})

classify(tool) ==
    CASE tool \in {"Read", "NotebookRead", "Glob", "Grep", "LS"} -> "fs.read"
      [] tool \in {"Write", "Edit", "MultiEdit", "NotebookEdit", "apply_patch"} -> "fs.write"
      [] tool \in {"Bash", "BashOutput", "shell"} -> "shell.exec"
      [] tool \in {"WebFetch", "WebSearch"} -> "net.fetch"
      [] tool = "Task" -> "agent.spawn"
      [] tool = "mcp" -> "mcp.call"
      [] OTHER -> "other"

(* Mutant: the guard's own files are not protected.                        *)
MutSelfProtect == {}

selfProtect == {GuardDir, Cwd \o <<".claude">>}

Unrestricted(t) == denyAll \notin t.cnst.allow["resources"]

checkPaths(t, ov, paths) ==
    LET denyRoots == selfProtect \cup {absClean(p) : p \in withOverlay(t, ov, "deny-path")}
        allowRoots == {absClean(p) : p \in resourceValues(t, "path")}
    IN  /\ Unrestricted(t)
        /\ \A p \in paths : ~contained(p, denyRoots)
        /\ allowRoots # {} => /\ paths # {}
                              /\ \A p \in paths : contained(p, allowRoots)

Touched(call) == {absClean(p) : p \in call.paths}

checkCommand(t, ov, call) ==
    /\ Unrestricted(t) /\ ~call.catastrophic
    /\ call.exes \cap withOverlay(t, ov, "deny-cmd") = {}
    /\ resourceValues(t, "cmd") # {} =>
          call.exes # {} /\ call.exes \subseteq resourceValues(t, "cmd")
    /\ call.paths # {} => checkPaths(t, ov, Touched(call))

checkHost(t, ov, host) ==
    /\ Unrestricted(t)
    /\ \A h \in withOverlay(t, ov, "deny-host") : ~Below(host, h)
    /\ LET allowed == resourceValues(t, "host")
       IN  allowed # {} => \E h \in allowed : Below(host, h)

(* Decide, for the token, the JWKS and the feed the check has read.        *)
Decide(j, jwks, feed, ov, call) ==
    LET t == tokens[j]  verb == classify(call.tool)
    IN  /\ FeedLoads(feed, DefaultIssuer, jwks)
        /\ VerifyAnyOffline(t, DefaultIssuer, jwks) /\ t.aud = DefaultAudience
        /\ j \notin feed.jtis
        /\ permitWindow(t.cnst.window, clock)
        /\ verb \in t.scopes \/ "*" \in t.scopes
        /\ t.cnst.allow["tools"] # {} => call.tool \in t.cnst.allow["tools"]
        /\ <<call.tool>> \notin withOverlay(t, ov, "deny-tool")
        /\ verb \in {"fs.read", "fs.write"} => checkPaths(t, ov, Touched(call))
        /\ verb = "shell.exec" => checkCommand(t, ov, call)
        /\ verb = "net.fetch" => checkHost(t, ov, call.host)
-----------------------------------------------------------------------------
(* A check: RunCheck, with the file reads of LoadConfigFromEnv in order.   *)

NoCheck == [phase |-> "idle"]

CheckStart(call) ==
    /\ chk.phase = "idle" /\ hook # Absent
    /\ chk' = [phase |-> "keys", call |-> call, token |-> disk[RoleFile(hook)],
               jwks |-> Absent, feed |-> Absent, dead |-> killed, unseen |-> FALSE]
    /\ UNCHANGED <<trustVars, hook, feeds, exposed>>

(* An empty token file is no token: the guard is off and allows the call.  *)
CheckOff ==
    /\ chk.phase = "keys" /\ chk.token = Empty
    /\ chk' = [chk EXCEPT !.phase = "allowed"]
    /\ exposed' = TRUE
    /\ UNCHANGED <<trustVars, hook, feeds>>

(* A token file or JWKS that cannot be read fails closed: exit code 2, the *)
(* call does not happen.                                                   *)
CheckReadKeys ==
    /\ chk.phase = "keys" /\ chk.token # Empty
    /\ chk' = IF Absent = chk.token \/ disk[JWKS] \in Unreadable
              THEN NoCheck
              ELSE [chk EXCEPT !.phase = "feed", !.jwks = disk[JWKS]]
    /\ UNCHANGED <<trustVars, hook, feeds, exposed>>

CheckReadFeed ==
    /\ chk.phase = "feed"
    /\ chk' = [chk EXCEPT !.phase = "decide", !.feed = disk[Feed]]
    /\ UNCHANGED <<trustVars, hook, feeds, exposed>>

Allowed == Decide(chk.token, chk.jwks, chk.feed, disk[OverlayFile], chk.call)

(* What the call may write, wherever its paths lead when it runs.          *)
Writes(call) ==
    IF classify(call.tool) \in {"fs.write", "shell.exec"}
    THEN {Opened(p) : p \in call.paths \cup call.unparsed} ELSE {}

(* It may write the feed, though no path that the check sees is the feed's.*)
FeedUnseen(call) ==
    GuardDir \o Feed \in Writes(call) \ {realPath(p) : p \in Touched(call)}

CheckDecide ==
    /\ chk.phase = "decide"
    /\ chk' = IF Allowed
              THEN [chk EXCEPT !.phase = "allowed", !.jwks = Absent, !.feed = Absent,
                               !.unseen = FeedUnseen(chk.call)]
              ELSE NoCheck
    /\ UNCHANGED <<trustVars, hook, feeds, exposed>>

(* A file of the guard's directory that the call writes becomes garbage,   *)
(* or the feed one that was published once, and the settings may lose the  *)
(* hook.                                                                   *)
Outcomes(f) == {Empty} \cup (IF f = Feed THEN feeds ELSE {})

WriteFile ==
    \E f \in Files : \E c \in Outcomes(f) :
       /\ GuardDir \o f \in Writes(chk.call)
       /\ disk' = [disk EXCEPT ![f] = c]
       /\ exposed' = (exposed \/ (chk.unseen /\ c # Empty))

WritesSettings(call) ==
    \E p \in Writes(call) : Below(p, Opened(Cwd \o <<".claude">>))

Execute ==
    /\ chk.phase = "allowed"
    /\ WriteFile \/ UNCHANGED <<disk, exposed>>
    /\ hook' \in (IF WritesSettings(chk.call) THEN {hook, Absent} ELSE {hook})
    /\ chk' = NoCheck
    /\ UNCHANGED <<todo, tokens, nkeys, declared, killed, pruned, settled, clock, feeds>>
-----------------------------------------------------------------------------
(* The operator's commands.                                                *)

(* `guard install`: sets the directory up unless it has a JWKS, then wires *)
(* the hook to a role, replacing an earlier wiring.                        *)
Install(role) ==
    /\ Run((IF disk[JWKS] = Absent
            THEN NewKeySteps(DefaultIssuer) \o <<Op("roles", Absent, DOMAIN BuiltinRoles)>>
            ELSE << >>) \o <<Op("hook", Absent, role)>>,
           IF disk[JWKS] = Absent THEN 1 ELSE 0)
    /\ UNCHANGED <<tokens, hook, chk, feeds, exposed>>

mergePreToolUse ==
    /\ At("hook")
    /\ hook' = IF disk[RoleFile(todo[1].v)] = Absent THEN hook ELSE todo[1].v
    /\ todo' = Rest
    /\ UNCHANGED <<disk, tokens, nkeys, declared, killed, pruned, settled, clock, chk, feeds, exposed>>

Uninstall ==
    /\ Idle /\ hook # Absent
    /\ hook' = Absent
    /\ UNCHANGED <<trustVars, chk, feeds, exposed>>

(* `guard deny` and `guard allow` refuse a malformed overlay.  The UI      *)
(* takes it for an empty one and overwrites it.                            *)
Rule(ov) == IF ov \in Unreadable THEN {} ELSE ov

OverlayDeny(r) ==
    /\ disk[OverlayFile] # Empty
    /\ Run(Write(OverlayFile, Rule(disk[OverlayFile]) \cup {r}), 0)
    /\ UNCHANGED <<tokens, hook, chk, feeds, exposed>>

OverlayAllow(r) ==
    /\ disk[OverlayFile] \notin Unreadable
    /\ Run(Write(OverlayFile, disk[OverlayFile] \ {r}), 0)
    /\ UNCHANGED <<tokens, hook, chk, feeds, exposed>>

handleEdit(r) ==
    /\ \/ Run(Write(OverlayFile, Rule(disk[OverlayFile]) \cup {r}), 0)
       \/ Run(Write(OverlayFile, Rule(disk[OverlayFile]) \ {r}), 0)
    /\ UNCHANGED <<tokens, hook, chk, feeds, exposed>>

GuardInit ==
    /\ TrustInit
    /\ hook = Absent /\ chk = NoCheck /\ feeds = {} /\ exposed = FALSE

(* A command of OfflineTrust; a feed it writes becomes known.              *)
Trusted(command) ==
    /\ command
    /\ feeds' = IF disk'[Feed] \in Unreadable THEN feeds ELSE feeds \cup {disk'[Feed]}
    /\ UNCHANGED <<hook, chk, exposed>>

Check ==
    \/ \E call \in Calls : CheckStart(call)
    \/ CheckOff \/ CheckReadKeys \/ CheckReadFeed \/ CheckDecide \/ Execute

GuardCommand ==
    \/ Trusted(InitLocal)
    \/ \E j \in DOMAIN tokens : Trusted(Revoke(j))
    \/ \E role \in DOMAIN BuiltinRoles : Trusted(MintRoleToken(role)) \/ Install(role)
    \/ \E j \in DOMAIN tokens : \E requested \in SUBSET tokens[j].scopes :
          Trusted(MintChildToken(j, "subagent", requested))
    \/ Uninstall
    \/ mergePreToolUse
    \/ \E r \in OverlayEntries : OverlayDeny(r) \/ OverlayAllow(r) \/ handleEdit(r)
    \/ Trusted(Tick)

GuardNext == Trusted(StepOfCommand) \/ GuardCommand \/ Check

GuardSpec == GuardInit /\ [][GuardNext]_guardVars
-----------------------------------------------------------------------------
GuardTypeOK ==
    /\ TrustTypeOK
    /\ hook \in DOMAIN BuiltinRoles \cup {Absent}
    /\ chk.phase \in {"idle", "keys", "feed", "decide", "allowed"}
    /\ \A f \in feeds : f.jtis \subseteq DOMAIN tokens

(* A call whose check began after a revocation was reported never runs     *)
(* under the revoked token, though calls let through earlier are still     *)
(* running and write what their own paths lead to, wherever that is        *)
(* (RevokeJTI, RunCheck, protectPaths).  Excepted are a guard that an empty*)
(* token file has switched off (LoadConfigFromEnv), and one whose feed a   *)
(* call has replaced by a path that checkPaths read otherwise than the     *)
(* kernel, or that no parser found.                                        *)
RevokedIsBlocked ==
    ~exposed /\ chk.phase = "allowed" => chk.token \notin chk.dead
=============================================================================
