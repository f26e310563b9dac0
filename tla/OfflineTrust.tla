----------------------------- MODULE OfflineTrust -----------------------------
(***************************************************************************)
(* The offline trust domain of `legant apply`, `mint`, `revoke` and        *)
(* `legant guard init`: a directory with a signing key, its JWKS, a signed *)
(* revocation feed and token files (internal/grants, internal/ccguard).    *)
(*                                                                         *)
(* A command works through `todo`, one file at a time.  os.WriteFile       *)
(* truncates before it writes, so a file is Empty in between, and stays so *)
(* when the command is killed there.  Commands run one at a time.          *)
(*                                                                         *)
(* Keys are numbered as they are generated and tokens as they are minted:  *)
(* the number is the token's jti, and what a token file holds.  jwks.json  *)
(* holds the number of the key it publishes.                               *)
(***************************************************************************)
EXTENDS Constraints, Sequences, FiniteSets

CONSTANTS Empty,            \* a truncated or malformed file
          GrantsFiles,      \* the versions of legant.grants.yaml
          Sanitized(_),     \* a name as a file-name fragment (sanitize)
          BuiltinRoles,     \* what each built-in role declares
          DefaultIssuer, DefaultMaxDepth, DefaultAudience,
          FeedTTL, RoleTTL, \* localFeedTTL, --ttl of guard init
          MaxKeys, MaxTokens, MaxClock   \* bounds

VARIABLES disk,      \* content of each file of the directory
          todo,      \* the steps left of the running command
          tokens,    \* every token minted, by jti
          nkeys,     \* keys generated
          declared,  \* the grants file as it is now
          killed,    \* jtis a revoke command has reported as revoked
          pruned,    \* jtis of token files that `apply --prune` removed
          settled,   \* the grants file an `apply --prune` has ended with,
                     \* while nothing else has touched the directory
          clock

trustVars == <<disk, todo, tokens, nkeys, declared, killed, pruned, settled, clock>>

Key == <<"key.pem">>  JWKS == <<"jwks.json">>
Feed == <<"feed.jwt">>  OverlayFile == <<"overlay.json">>
Trust == {Key, JWKS, Feed, OverlayFile}

Unreadable == {Absent, Empty}
Min2(x, y) == IF x <= y THEN x ELSE y
-----------------------------------------------------------------------------
(* The grants file: what it declares and whether it passes lint.           *)

label(g) == IF g.name # Absent THEN <<g.name>> ELSE <<g.principal, "->", g.agent>>
base(g) == [n \in DOMAIN label(g) |-> Sanitized(label(g)[n])]

RootNode(g) ==
    [file |-> base(g), sub |-> g.principal, chain |-> <<g.agent>>,
     scopes |-> g.scopes, aud |-> g.aud, cnst |-> g.cnst, ttl |-> g.ttl]

(* Whether root.Delegate accepts a declared hand-off, and what it makes.   *)
MayDelegate(g, c) ==
    /\ IsSubset(c.scopes, g.scopes) /\ c.agent # g.agent /\ 1 < DefaultMaxDepth

ChildNode(g, c) ==
    [RootNode(g) EXCEPT !.file = base(g) \o <<"__", Sanitized(c.agent)>>,
                        !.chain = <<g.agent, c.agent>>, !.scopes = c.scopes,
                        !.cnst = Tighten(g.cnst, c.cnst)]

buildTree(g) ==
    [k \in 0..Len(g.delegate) |-> IF k = 0 THEN RootNode(g) ELSE ChildNode(g, g.delegate[k])]

toConstraints(c) ==
    /\ c.maxAmount # Absent => c.maxAmount >= 0
    /\ c.window # Absent => Validate(c.window)

Lint(f) ==
    /\ f.grants # << >>
    /\ \A n \in DOMAIN f.grants :
         LET g == f.grants[n]
         IN  /\ g.principal # "" /\ g.agent # "" /\ g.principal # g.agent
             /\ g.scopes # {} /\ g.aud # "" /\ g.ttl > 0
             /\ toConstraints(g.cnst)
             /\ \A k \in DOMAIN g.delegate :
                   /\ g.delegate[k].agent # "" /\ toConstraints(g.delegate[k].cnst)
                   /\ MayDelegate(g, g.delegate[k])

(* The nodes of the file, and the one that Apply goes on to.               *)
Places(f) == UNION {{<<n, k>> : k \in DOMAIN buildTree(f.grants[n])} : n \in DOMAIN f.grants}

Node(f, at) == buildTree(f.grants[at[1]])[at[2]]

Following(f, at) ==
    IF <<at[1], at[2] + 1>> \in Places(f) THEN <<at[1], at[2] + 1>> ELSE <<at[1] + 1, 0>>

DeclaredFiles(f) == {Node(f, at).file : at \in Places(f)}

RoleFile(role) == <<role>>
TokenFiles == (UNION {DeclaredFiles(f) : f \in GrantsFiles})
                 \cup {RoleFile(role) : role \in DOMAIN BuiltinRoles}
Files == Trust \cup TokenFiles

(* No grant is named "feed": Apply would write its token over feed.jwt.    *)
ASSUME TrustAssumption ==
    /\ Empty \notin Nat /\ Empty # Absent /\ TokenFiles \cap Trust = {} /\ FeedTTL \in Nat
    /\ \A f \in GrantsFiles :
          /\ Len(f.grants) \in Nat /\ DOMAIN f.grants = 1..Len(f.grants)
          /\ \A n \in DOMAIN f.grants : Len(f.grants[n].delegate) \in Nat
-----------------------------------------------------------------------------
(* Tokens and the feed.                                                    *)

MintGrant(n, key, iss) ==
    [key |-> key, iss |-> iss, sub |-> n.sub, chain |-> n.chain,
     scopes |-> n.scopes, aud |-> n.aud, cnst |-> n.cnst, exp |-> clock + n.ttl]

(* Mutant: the fingerprint covers the expiry.                              *)
MutFingerprint(t) == IF "exp" \in DOMAIN t THEN t.exp ELSE clock + t.ttl

(* What a re-apply compares: neither the expiry nor the issuer nor the key.*)
fingerprint(t) == <<t.sub, t.chain, t.scopes, t.aud, [t.cnst EXCEPT !.rate = Absent]>>

(* The version is left out: nothing that reads the file looks at it.       *)
BuildSignedFeed(jtis, iss, key) ==
    [jtis |-> jtis, iss |-> iss, key |-> key, exp |-> clock + FeedTTL]

(* LoadSignedFeedFile under the published key.                             *)
FeedLoads(feed, iss, jwks) ==
    /\ feed \notin Unreadable /\ jwks \notin Unreadable
    /\ feed.key = jwks /\ feed.iss = iss /\ clock < feed.exp

VerifyAnyOffline(t, iss, jwks) == t.key = jwks /\ t.iss = iss /\ clock < t.exp

(* Whether a verifier that holds the directory's JWKS and feed, and that   *)
(* refuses everything when the feed does not load, accepts token j.        *)
Live(j) ==
    LET t == tokens[j]
    IN  /\ VerifyAnyOffline(t, t.iss, disk[JWKS])
        /\ FeedLoads(disk[Feed], t.iss, disk[JWKS])
        /\ j \notin disk[Feed].jtis
-----------------------------------------------------------------------------
(* The steps of a command.                                                 *)

Op(op, f, v) == [op |-> op, f |-> f, v |-> v]
Write(f, v) == <<Op("truncate", f, v), Op("fill", f, v)>>

Idle == todo = << >>
Rest == Tail(todo)
At(op) == todo # << >> /\ todo[1].op = op

Truncate ==
    /\ At("truncate")
    /\ disk' = [disk EXCEPT ![todo[1].f] = Empty]
    /\ todo' = Rest
    /\ UNCHANGED <<tokens, nkeys, declared, killed, pruned, settled, clock>>

Fill ==
    /\ At("fill")
    /\ disk' = [disk EXCEPT ![todo[1].f] = todo[1].v]
    /\ todo' = Rest
    /\ UNCHANGED <<tokens, nkeys, declared, killed, pruned, settled, clock>>

(* A token is signed with key.pem and written to its file.                 *)
Sign(n, iss, rest) ==
    /\ Len(tokens) < MaxTokens
    /\ tokens' = Append(tokens, MintGrant(n, disk[Key], iss))
    /\ todo' = Write(n.file, Len(tokens) + 1) \o rest

issuer(f) == IF f.issuer # Absent THEN f.issuer ELSE DefaultIssuer

Applying(f, at, force) ==
    IF at \in Places(f) THEN <<Op("apply", Absent, [file |-> f, at |-> at, force |-> force])>>
    ELSE << >>

(* One node of Apply.                                                      *)
ApplyNode ==
    /\ At("apply")
    /\ LET v == todo[1].v
           n == Node(v.file, v.at)
           rest == Applying(v.file, Following(v.file, v.at), v.force) \o Rest
           old == disk[n.file]
           unchanged == old \notin Unreadable /\ fingerprint(tokens[old]) = fingerprint(n)
       IN  IF unchanged /\ ~v.force THEN todo' = rest /\ UNCHANGED tokens
           ELSE Sign(n, issuer(v.file), rest)
    /\ UNCHANGED <<disk, nkeys, declared, killed, pruned, settled, clock>>

RoleNode(role) ==
    [file |-> RoleFile(role), sub |-> "user:local", chain |-> <<role>>,
     scopes |-> BuiltinRoles[role].scopes, aud |-> DefaultAudience,
     cnst |-> BuiltinRoles[role].cnst, ttl |-> RoleTTL]

(* One role of InitLocal: the map of roles is walked in any order.         *)
InitRole ==
    /\ At("roles")
    /\ \E role \in todo[1].v :
         /\ Len(tokens) < MaxTokens
         /\ tokens' = Append(tokens, MintGrant(RoleNode(role), disk[Key], DefaultIssuer))
         /\ todo' = Write(RoleFile(role), Len(tokens) + 1)
                       \o (IF todo[1].v = {role} THEN << >>
                           ELSE <<Op("roles", Absent, todo[1].v \ {role})>>) \o Rest
    /\ UNCHANGED <<disk, nkeys, declared, killed, pruned, settled, clock>>

MintOne ==
    /\ At("mint") /\ Len(tokens) < MaxTokens
    /\ tokens' = Append(tokens, MintGrant(todo[1].v, disk[Key], DefaultIssuer))
    /\ todo' = Rest
    /\ UNCHANGED <<disk, nkeys, declared, killed, pruned, settled, clock>>

(* RevokeJTI: the feed is read under the default issuer, whatever issuer   *)
(* the directory was set up for.                                           *)
CanRevoke ==
    /\ disk[Key] \notin Unreadable
    /\ FeedLoads(disk[Feed], DefaultIssuer, disk[JWKS])

RevokeJTI(j) ==
    Write(Feed, BuildSignedFeed(disk[Feed].jtis \cup {j}, DefaultIssuer, disk[Key]))

Orphans(f) == {o \in TokenFiles \ DeclaredFiles(f) : disk[o] # Absent}

(* Mutant: the file goes first, and with it the jti.                       *)
MutPruneOne(o) == <<Op("remove", o, disk[o])>>

PruneOne(o) ==
    (IF disk[o] # Empty /\ CanRevoke THEN RevokeJTI(disk[o]) ELSE << >>)
        \o <<Op("remove", o, disk[o])>>

(* Prune: one orphan after another, in the order of their names, which the *)
(* model leaves open; an error of RevokeJTI is ignored.                    *)
Prune ==
    /\ At("prune")
    /\ IF Orphans(todo[1].v) = {} THEN todo' = Rest
       ELSE \E o \in Orphans(todo[1].v) : todo' = PruneOne(o) \o todo
    /\ UNCHANGED <<disk, tokens, nkeys, declared, killed, pruned, settled, clock>>

RemoveFile ==
    /\ At("remove")
    /\ disk' = [disk EXCEPT ![todo[1].f] = Absent]
    /\ pruned' = pruned \cup ({todo[1].v} \ Unreadable)
    /\ todo' = Rest
    /\ UNCHANGED <<tokens, nkeys, declared, killed, settled, clock>>

(* The command has ended and says so.                                      *)
Report ==
    /\ At("revoked") \/ At("applied")
    /\ killed' = IF At("revoked") THEN killed \cup {todo[1].v} ELSE killed
    /\ settled' = IF At("applied") THEN todo[1].v ELSE settled
    /\ todo' = Rest
    /\ UNCHANGED <<disk, tokens, nkeys, declared, pruned, clock>>

(* The command is killed between two steps.                                *)
Kill ==
    /\ todo # << >>
    /\ todo' = << >>
    /\ UNCHANGED <<disk, tokens, nkeys, declared, killed, pruned, settled, clock>>
-----------------------------------------------------------------------------
(* The commands.                                                           *)

(* EnsureSetup: a new trust domain where there is no key, else an error    *)
(* unless the key and the JWKS can be read.                                *)
SetupOK == disk[Key] = Absent \/ (disk[Key] # Empty /\ disk[JWKS] \notin Unreadable)

NewKeySteps(iss) ==
    Write(Key, nkeys + 1) \o Write(JWKS, nkeys + 1)
       \o Write(Feed, BuildSignedFeed({}, iss, nkeys + 1))

EnsureSetup(iss) ==
    IF disk[Key] = Absent THEN NewKeySteps(iss) ELSE << >>

Run(steps, keys) ==
    /\ Idle /\ nkeys + keys <= MaxKeys
    /\ todo' = steps
    /\ nkeys' = nkeys + keys
    /\ settled' = Absent
    /\ UNCHANGED <<disk, declared, killed, pruned, clock>>

KeysNeeded == IF disk[Key] = Absent THEN 1 ELSE 0

Apply(force, prune) ==
    /\ Lint(declared) /\ SetupOK
    /\ Run(EnsureSetup(issuer(declared)) \o Applying(declared, <<1, 0>>, force)
              \o (IF prune THEN <<Op("prune", Absent, declared),
                                  Op("applied", Absent, declared)>> ELSE << >>),
           KeysNeeded)
    /\ UNCHANGED tokens

(* `legant mint` sets up and prints a token; who-can sets up and mints in  *)
(* memory only.                                                            *)
Mint(g) ==
    /\ SetupOK
    /\ Run(EnsureSetup(DefaultIssuer) \o <<Op("mint", Absent, RootNode(g))>>, KeysNeeded)
    /\ UNCHANGED tokens

WhoCan ==
    /\ SetupOK /\ EnsureSetup(issuer(declared)) # << >>
    /\ Run(EnsureSetup(issuer(declared)), KeysNeeded)
    /\ UNCHANGED tokens

Revoke(j) ==
    /\ CanRevoke
    /\ Run(RevokeJTI(j) \o <<Op("revoked", Feed, j)>>, 0)
    /\ UNCHANGED tokens

(* `legant guard init` outside the project, also over an existing setup.   *)
InitLocal ==
    /\ Run(NewKeySteps(DefaultIssuer)
              \o <<Op("roles", Absent, DOMAIN BuiltinRoles)>>, 1)
    /\ UNCHANGED tokens

MintRoleToken(role) ==
    /\ Idle /\ disk[Key] \notin Unreadable /\ Len(tokens) < MaxTokens
    /\ tokens' = Append(tokens, MintGrant(RoleNode(role), disk[Key], DefaultIssuer))
    /\ UNCHANGED <<disk, todo, nkeys, declared, killed, pruned, settled, clock>>

(* MintChildToken: from a parent that verifies, whether or not the feed    *)
(* lists it.                                                               *)
ChildToken(p, agent, requested) ==
    [p EXCEPT !.key = disk[Key], !.chain = Append(@, agent),
              !.scopes = Attenuate(p.scopes, requested), !.aud = DefaultAudience,
              !.cnst = Tighten(p.cnst, Unconstrained),
              !.exp = Min2(clock + RoleTTL, p.exp)]

MintChildToken(j, agent, requested) ==
    /\ Idle /\ disk[Key] \notin Unreadable /\ Len(tokens) < MaxTokens
    /\ VerifyAnyOffline(tokens[j], DefaultIssuer, disk[JWKS])
    /\ requested # {} /\ Attenuate(tokens[j].scopes, requested) = requested
    /\ tokens' = Append(tokens, ChildToken(tokens[j], agent, requested))
    /\ UNCHANGED <<disk, todo, nkeys, declared, killed, pruned, settled, clock>>

EditFile(f) ==
    /\ Idle /\ f # declared
    /\ declared' = f
    /\ UNCHANGED <<disk, todo, tokens, nkeys, killed, pruned, settled, clock>>

(* A command takes no time.                                                *)
Tick ==
    /\ Idle /\ clock < MaxClock
    /\ clock' = clock + 1
    /\ UNCHANGED <<disk, todo, tokens, nkeys, declared, killed, pruned, settled>>

TrustInit ==
    /\ disk = [f \in Files |-> Absent]
    /\ todo = << >> /\ tokens = << >> /\ nkeys = 0
    /\ declared \in GrantsFiles
    /\ killed = {} /\ pruned = {} /\ settled = Absent /\ clock = 0

StepOfCommand ==
    \/ Truncate \/ Fill \/ ApplyNode \/ MintOne \/ InitRole \/ Prune \/ RemoveFile \/ Report \/ Kill

GrantsCommand ==
    \/ \E force, prune \in BOOLEAN : Apply(force, prune)
    \/ \E n \in DOMAIN declared.grants : Mint(declared.grants[n])
    \/ WhoCan
    \/ \E j \in DOMAIN tokens : Revoke(j)
    \/ \E f \in GrantsFiles : EditFile(f)
    \/ Tick

TrustSpec == TrustInit /\ [][StepOfCommand \/ GrantsCommand]_trustVars
-----------------------------------------------------------------------------
TrustTypeOK ==
    /\ DOMAIN disk = Files
    /\ killed \cup pruned \subseteq DOMAIN tokens
    /\ \A f \in TokenFiles : disk[f] \in Unreadable \cup DOMAIN tokens
    /\ {disk[Key], disk[JWKS]} \subseteq Unreadable \cup 1..nkeys
    /\ disk[Feed] \notin Unreadable => disk[Feed].jtis \subseteq DOMAIN tokens

(* "apply --prune makes the dir match the file exactly (removed grants are *)
(* killed, not just abandoned)" (Prune): no token whose file it removed is *)
(* accepted afterwards, whatever is applied, revoked, forced or killed in  *)
(* between.                                                                *)
PrunedAreKilled == \A j \in pruned : ~Live(j)

(* No two grants of the file share a token file.                           *)
Distinct(f) ==
    \A p, q \in Places(f) : Node(f, p).file = Node(f, q).file => p = q

(* "re-applying an unchanged file is a no-op" (Apply): once `apply --prune`*)
(* has ended, each declared node's file holds a token of its shape and no  *)
(* other token file is left, for as long as no other command runs.         *)
ReapplyIsNoop ==
    settled # Absent /\ Distinct(settled) =>
        /\ \A at \in Places(settled) :
              LET node == Node(settled, at)
              IN  /\ disk[node.file] \notin Unreadable
                  /\ fingerprint(tokens[disk[node.file]]) = fingerprint(node)
        /\ Orphans(settled) = {}
=============================================================================
