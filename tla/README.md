# A TLA+ specification of legant

legant lets a user delegate narrowly constrained authority to software agents.
An agent may hand part of it on to another agent; it exchanges what it holds for
short-lived tokens; a gateway or an SDK checks those tokens in front of a tool;
the user can revoke a delegation, and with it everything derived from it; what
happened is kept in a tamper-evident audit log. Without a server, `legant apply`
and `legant guard` do the same from a directory of files. The modules in this
directory model the parts of the Go code that decide this, TLC checks them on
small instances, and TLAPS proves the central properties for instances of every
size.

Paths below are relative to `src/`. `PROJECT.json` lists for each definition the
lines it models, for each property a mutant of the model that breaks it, and
the hazards of the code with the properties aimed at them.

## 1. The system

| component | state | operations | hard because |
|---|---|---|---|
| delegation algebra (`internal/delegation/delegation.go`) | none | `Permit`, `Tighten`, `Attenuate`, `IsSubset`, `TimeWindow.Allows`, `IssueForGrant`, `Verify` | the empty list means "no restriction", so intersections must not become empty; zones, missing caps |
| grant chain (same file) | immutable linked grants | `NewRootGrant`, `Grant.Delegate` | narrowing, cycles and depth over a whole chain |
| delegation chains service (`internal/delegation/chains`) | `delegation_chains`, `delegation_consents` | `GrantConsent`, `Redelegate`, `ResolveGrantChain`, `RevokeDelegationTree` | several unlocked queries per request, racing with revocations |
| agent service (`internal/agent`) | `agents`, `agent_tokens`, root rows | `CreateDelegation`, `RevokeDelegation`, `Revoke`, `Update` | the handler's cascade to the tokens is not in the row's transaction |
| token exchange (`internal/auth/token_exchange.go`) | `exchanged_tokens` | `Handle` | resolves, signs, then records: revocation may fall anywhere between; rate cap under concurrency |
| revocation store and feed (`internal/revocation`) | `exchanged_tokens`, sequence `revocation_feed_version` | `IsActive`, `RevokeByDelegation`, `Revoke`, `Feed.Snapshot` | version and contents are read apart; replicas |
| SDK (`sdk`) | revoked set and version; the keys it started with | `FetchJWKS`, `RevocationFeed.Refresh`, `Verifier` | lost, delayed and overtaking responses; the issuer's keys rotate and the site's do not |
| gateway request path (`internal/mcpgw`) | revoked-set cache | `handle`, `mint`, `filterToolsList`, `refreshRevoked` | cache that must never forget, refresh that may fail; the token is narrowed once more |
| gateway registry (same) | `gateway_upstreams`, the live table | upsert, delete, `RefreshUpstreams` | the table is swapped under calls that looked their upstream up in it and keep it |
| audit (`internal/audit`, trigger of migration 11) | `audit_events`, `audit_anchors`, `audit_chain_state` | insert trigger, `Verify`, `Anchor`, `AnchorSigned`, `CheckAgainstAnchor` | four snapshots per verification; appends, anchors and retention in between |
| retention (`internal/retention`) | deletes from many tables | `Prune`, `pruneAuditChained` | what it deletes is still counted or anchored elsewhere |
| keystore (`internal/keystore`) | `signing_keys`; one cache per process | `Open`, `Rotate`, `Prune`, `Reload`, `Reencrypt` | processes decide on stale caches |
| OAuth storage (`internal/auth/storage.go`) | fosite tables | codes, PKCE, OpenID, access and refresh tokens, revocation | no transaction anywhere: a rotation is two statements, and requests overlap |
| accounts (`internal/auth`, `internal/email`) | `users`, `sessions`, `email_tokens`, registration tokens | login, registration, reset, magic link, client registration | read, then mark, without a lock |
| organisations and invitations (`internal/org`), users and SCIM (`internal/user`, `internal/scim`), callers (`internal/authz`) | their tables | the admin API | a caller's roles are read once, in two queries, and change meanwhile; updates read and then write whole rows |
| grants as code (`internal/grants`) | key, JWKS, feed and token files | apply, prune, mint, revoke | a file is truncated, then filled; a command may be killed between |
| coding-agent guard (`internal/ccguard`, `cmd/legant/guard.go`) | the same files, an overlay, hook settings | check, init, install, overlay commands | a check reads four files one by one; the calls it lets through write files |
| live console (`internal/live`) | queues, ring, subscribers | publish, listen, replay, stream | everything is bounded and drops |
| metrics (`internal/metrics`) | series and cells | middleware, scrape | lock-free additions under a scrape |
| the rest: API keys, audit query, MCP metadata, configuration, database, cryptography, CLI output | | | record keeping and I/O, section 7 |

How they interact: the server process and the gateway share the database only.
Consent and the agent API insert root rows; `Redelegate` inserts child rows;
the exchange reads rows and inserts tokens signed with the keystore's newest key;
`RevokeDelegationTree` writes rows and tokens in one transaction; the gateway and
the feed read the revoked tokens; every operation appends to the audit log through
the trigger; retention deletes behind all of them. The offline commands and the
guard share their directory and nothing with the server but the algebra.

What makes each component correct is stated by the properties in section 3.

## 2. The modules

| module | models | state and actions against the code |
|---|---|---|
| `Constraints` | `delegation.go`: the algebra; `validateAndCanonicalize` | no state. A constraint set is a record; the lists Categories, Tools and Resources are one function, since the code treats them alike; a list is a set, since it is asked only for membership and emptiness. Instants and zones are abstract, `LocalTime` says what a clock in a zone shows |
| `Ancestry` | walks along `Parent` and `parent_delegation_id` | `Chain` is the least set closed under parent, so that it can be proved about without recursion; `Tree` is `WITH RECURSIVE tree` |
| `GrantChain` | `NewRootGrant`, `Grant.Delegate` | the abstract specification: a table of immutable grants that grows by one atomic step |
| `Enforcement` | `Signer.IssueForGrant`, `Verify`; the gateway's `handle`, `handleNonToolCall`, `mint`, `filterToolsList`; the SDK's `Verify`, `Authorize`, middleware | extends `GrantChain`: functions from a grant to its token, from a token and a request to the downstream token, and from that to the answer of the upstream's SDK |
| `DelegationChains` | `chains/service.go`, the delegation half of `agent/service.go` | `deleg[i]` is the i-th row inserted. A `Redelegate` is a slot that goes through *auth*, *read*, *check* and *insert*, one query each; a tree revocation goes through two statements and a commit; any other step may come in between |
| `TokenExchange` | `token_exchange.go`, `revocation/store.go`, the tokens' retention | extends `DelegationChains`; an exchange goes through *auth*, *leaf*, *walk* (a step per link), *mint*, *begin* and *record*; `cascade` holds the rows whose tokens the agent API has yet to revoke (or never will: a failure of that statement is ignored) |
| `RevocationFeed` | `revocation/feed.go`, `sdk/revocation.go`, the gateway's revoked cache | a token is its jti; building a feed is a read, a `nextval` and a signature; a response is in flight for any time or lost; a gateway refresh is a read and a swap |
| `AuditChain` | the insert trigger, `audit/verify.go`, `audit/anchor.go`, `pruneAuditChained` | a verification is scan, links with watermark, anchor, prefix; then it may store an anchor or compare with an off-box record; retention is read, delete, commit |
| `Keystore` | `keystore.go`, `reloadKeystoreLoop`, how the exchange signs | servers and operators with a cache each over one table; signing reads key id and key apart |
| `ResourceServers` | `FetchJWKS`, `FetchRevocationFeed`, `StartPolling`, `Verifier.Verify`, the JWKS and feed handlers | extends `Keystore`. A site goes from *off* to *keys* to *up* and keeps its key map until it ends; `born`, `revoked` and `told` record when a key was inserted, when a token was revoked and what a site was sent |
| `OfflineTrust` | `internal/grants`, `ccguard/setup.go`: `Lint`, `EnsureSetup`, `Apply`, `Prune`, `Mint…`, `RevokeJTI`, `guard init` | `disk` holds what is in each file, `todo` the file operations the running command has left. Writing is two of them, for `os.WriteFile` truncates first; a command may be killed between any two |
| `Guard` | `ccguard/guard.go`, `runner.go`, `command.go`, `overlay.go`, `hook`/`install` of `cmd/legant/guard.go` | extends `OfflineTrust`. `chk` is the check in progress and what it has read so far: token, JWKS, feed, overlay. A call let through runs later and writes what its paths lead to by then, the guard's files included |
| `Accounts` | `auth` (login, registration, sessions, links), `email`, `authz`, client registration | a request is a slot; each SQL statement of its handler is an action; a statement whose error is ignored may fail |
| `Tenancy` | routes behind `RequireSuperadmin`, `RequireAdmin`, `IsOrgAdmin`, `CanAccessOrg`: users, SCIM, members, invitations, agents' tokens, consent | extends `Accounts`. `needs` says which roles a change asks for, `past` which its caller has had since the request began; both are history for `ActsWithinAuthority` |
| `OAuthStore` | `auth/storage.go`, called in the order of the OAuth library | one action per storage method, any of which may fail and end the request; a family is a request id |
| `GatewayRegistry` | `mcpgw` upstream table | a refresh is a read and a swap; a call looks its upstream up once, is authorized for its audience and is forwarded to it |
| `LiveConsole` | `internal/live`, `auth/live.go` | one action per hop of an event: queue, NOTIFY, listener, hub, channel, stream; every hop drops when full |
| `MetricsRegistry` | `internal/metrics` | a request's middleware step by step; a cell is looked up, then made; a scrape copies the cells of a family and loads them one by one |
| `RowEdits` | `Update` of users, agents, organisations, SSO connections; suspension, SCIM | a row is, for each column, the time at which its value was asked for; an update is a read and a write of all columns |
| `AlgebraProofs`, `GrantChainProofs`, `DelegationProofs`, `RevocationFeedProofs`, `KeystoreProofs`, `AuditChainProofs`, `TrustProofs`, `ServerProofs` | | the proofs of section 6: lemmas on `Constraints` and `Ancestry`; `GrantChain` and `Enforcement`; `DelegationChains` and `TokenExchange`; the feed, the keys and sites, the audit chain; `Guard` and `OfflineTrust`; `ServerProofs` has a part for each of `OAuthStore`, `GatewayRegistry`, `RowEdits`, `Accounts` with `Tenancy`, `LiveConsole`, `MetricsRegistry` and `System` |
| `System` | | the modules from `OfflineTrust` to `RowEdits` side by side: `part` says which of them moves |
| `MC…` | | the small instances: model values, constraint sets, organisations, symmetry |

`TokenExchange` composes the chain, the tokens and both revocation paths;
`DelegationChains` is shown to implement `GrantChain` by the mapping `AsGrants`
(a row is a grant; active flags, depth, organisation and the requests in flight
are forgotten). `Enforcement` continues a grant's chain up to the answer of a tool;
`Guard` runs against the files `OfflineTrust` writes; `Tenancy` against the callers
`Accounts` admits. Code outside `src/` appears where `PROJECT.json` marks it
external, such as `Storable` (what PostgreSQL's JSONB accepts) and the order in
which the OAuth library calls its storage.

Abstractions that hold throughout: names, tokens and payloads are model values;
JSON, JWT and HTML are left out; hashes and signatures are ideal; a single SQL
statement, or a transaction that holds the lock the code takes, is one step; a
statement sees what is committed when it starts (READ COMMITTED, which the code
uses everywhere). Because rows of `delegation_chains` change only in their active
flag, a request that read a row keeps its number instead of a copy;
`ChecksStillHold` and `StoredDepth` are what that simplification is checked by.
A path, a host and a command of the guard are short sequences of strings, and a
shell command is what the parsers of `command.go` find in it (executables, and the
paths it redirects to) with the paths it opens though no parser finds them
(`unparsed`). Paths are resolved twice, for the code and the kernel do it differently:
`absClean` and `realPath` take `..` back from the spelling and then follow links, of
which one to a missing file stays a name; `Opened` follows each link as it comes to it.
What a check refuses is decided by the first, what a call writes by the second.

## 3. The runs

Between them the passing runs fire every action of their next-state relations, and
each property is broken by a mutant of the model. `CHECK_DEADLOCK FALSE` is set
everywhere: each counter has a bound, so a run ends.

| run | shows | instance, and why it is enough |
|---|---|---|
| `grants` | authority only narrows over whole chains (`AuthorityNarrows`), nobody holds twice (`NoCycle`), who handed what to whom stays true (`ProvenanceUnbroken`); what the gateway makes of the token of a chain lets its holder do nothing the chain forbids, whatever upstream it goes to (`DownstreamNarrows`) | a root grant and two below it, as a chain or side by side, three agents; six constraint sets chosen so that lists are disjoint or overlap, caps differ, windows overlap, miss or are in two zones; four instants; two upstreams, one with a tool mapped to no scope, and a resource with two spellings. A grant depends on nothing outside its own chain, so one root is enough, and a merge sees only parent and child, so two merges in a row are; for longer chains the theorems speak |
| `chains` | with unlocked queries the table still implements the atomic chain (`ImplementsGrants`); a request's checks still hold when it inserts (`ChecksStillHold`); depth and tenancy columns are right (`StoredDepth`, `OneTenant`); a revoked chain cannot be exercised again (`DeadStaysDead`, `TreeRevokeKillsSubtree`) | two re-delegations and a tree revocation at once, single revocations, the revocation of an agent, expiry; a chain of three links, the longest `MaxDepth = 3` allows, in an organisation of three agents with a fourth outside. Three requests is what a race between two writers and a revocation takes; what merging does to constraints is the subject of `grants`, so every request carries the same set here |
| `exchange` | only chains that were whole at one instant resolve (`ResolvesWholeChain`); a token carries no more than its chain (`TokenWithinChain`); recorded tokens die with their delegation (`RecordedTokensDie`); an inactive token stays so (`InactiveStaysInactive`) | one exchange against a re-delegation, a tree revocation, the agent API's cascade, expiry and retention with no grace; two spellings of the resource |
| `exchange_rate` | the hourly cap under concurrency (`RateCap`) | two exchanges, cap 1, a window of two ticks, five ticks: a stalled transaction can fall a whole window behind. Retention has a grace longer than that, see section 5 |
| `feed` | no response un-revokes (`NeverUnrevokes`), nor does the gateway (`GatewayNeverUnrevokes`), and it catches up (`GatewayCatchesUp`) | one replica, two responses in flight, two versions: the least with which one response overtakes another |
| `feed_two_replicas` | *violated*: with two replicas `NeverUnrevokes` fails | section 5 |
| `late_record` | *violated*: a revoked delegation can have an active token | section 5 |
| `audit` | a verification that passes vouches for the rows it scanned and the anchor it compared with (`TamperEvident`), one that fails is right (`NoFalseAlarm`), retention keeps the chain linked (`PruneKeepsChain`) | three appends, anchors stored and shipped, one change from outside (a row's content, a run of rows, the anchors), one window of retention. Rows are created in the order they are appended (`MaxLag = 0`): with transactions that take a tick to append the state space passes the time limit of a run, and the properties held there too when checked at length |
| `audit_pruned` | *violated*: a log the program alone wrote fails verification after retention | section 5 |
| `keystore` | one first key (`OneFirstKey`), always a key to sign with that no prune takes (`SignerRemains`), tokens and acceptance survive rotation, prune, reload and restart (`TokensKeepVerifying`, `AcceptedStaysAccepted`); a resource server knows the key of every token but those under later keys (`FreshKeysServe`), failing closed bounds how long it accepts a revoked one (`StrictSitesStop`), and nothing but a rotation makes it deaf to the feed (`OnlyRotationDeafens`) | one server; either two operators whose rotations and prunes race on stale caches, over three keys, or one operator at a time and a site that starts, polls and ends at any time, strict or not, with two keys and one revocation. One live token at a time, since no property relates two. Overlap of three ticks: the tightest that `ReloadEvery + TokenTTL <= Overlap` allows for tokens that outlive a tick, as a revocation has to be waited for; the first key can be pruned in the last tick, beside a site only in the proofs. The feed's age and order are in `feed` |
| `system` | the nine components below, each with the requests, commands or goroutines that can overlap in it | the table below |
| `prune_issuer` | *violated*: `apply --prune` leaves the token of a removed grant alive | section 5; a grants file with its own issuer and a later version with one grant fewer |

`system` holds the components that share no state with one another: a behaviour is a
behaviour of one `part`, chosen initially, and the variables of the others stay as
they are. It is one run because nothing is asked across the parts.

| part | property | instance |
|---|---|---|
| `grants` (`OfflineTrust`) | a token whose file `apply --prune` removed is never accepted again (`PrunedAreKilled`); re-applying an unchanged file changes nothing and leaves no other token file (`ReapplyIsNoop`) | a grants file with a grant and its child, and a later one without the child; one key, two tokens; commands killed at every file operation |
| `guard` | a call whose check began after a revocation was reported never runs under the revoked token (`RevokedIsBlocked`) | one role; a command whose redirect `link/../guard/feed.jwt` the kernel takes to the feed and the guard does not, and a write through a link to the feed that both do, whether or not the feed is there; an old feed copied back; one overlay rule, against the command. Behaviours also start from the directory as `guard install` leaves it, so that the histories after it are within the bounds |
| `accounts` | a link lets one request through, save for those that had it open at once or whose mark failed; a registration token as many as it is for (`UsesAreBounded`) | two requests of two people, one link, one invitation, one session each, five statements |
| `tenancy` | a change is made for a caller who, since the request began, was active and had the role the route asks for in the organisation changed, each at some moment (`ActsWithinAuthority`); a user created with a password, an invitation accepted, and an agent created or edited are not among the changes | a superadmin, an administrator of one of two organisations, an agent; two requests, and two statements that change tables: a caller's role can change between the two queries that load it, and after |
| `oauth` | after a revocation that ran alone no token of the family is ever live again (`LoneRevocationIsFinal`) | two requests on one family, four token pairs, any statement failing |
| `registry` | no two live upstreams share an audience, and a call goes where it was authorized for (`CallsStayIsolated`) | one configured upstream and five rows that collide with it or each other in slug or audience; two calls, three edits |
| `console` | of the events the hub took a console misses nothing but what its own full channel dropped, and each process's events arrive in order (`ConsoleHasNoGap`) | two processes, one console, three events; queues of one, a ring of two; one loss of the connection |
| `metrics` | a scrape reports what was added before it and nothing that was not added by its end (`ScrapesAreComplete`) | two requests with the same labels, one of which creates the series the other looks up, one scrape |
| `rows` | only an update that overlapped loses another's edit, and never a status (`OnlyOverlapLosesEdits`) | one row of each of four kinds, six statements |

`SystemTypeOK` is the type invariant of the modules in it. The state space has about
1.9 million states, two thirds of them in the part `guard`.

Bounds: `MaxGrants`, `MaxRows`, `MaxRoots`, `MaxTokens`, `MaxVersion`, `MaxSeq`,
`MaxKeys`, `MaxSiteKeys`, `MaxLinks`, `MaxInvites`, `MaxSessions` and `MaxPairs` bound tables and
sequences, `MaxTime`, `MaxSiteTime` and `MaxClock` the clock, `MaxRevoked` the agents or tokens
revoked, `MaxLag` the length of an appending transaction, `MaxDamage` the changes
from outside, `MaxWrites`, `MaxTenantWrites` and `MaxStatements` the statements of a
behaviour, `MaxEdits` the changes of the registry, `MaxEvents`, `MaxOutages` and
`MaxScrapes` what their names say. None of them is in the code except `MaxDepth`
(`delegation.DefaultMaxDepth`), taken smaller so that `chains` reaches it, and
`MaxRegUses`, the uses of a registration token. `QueueCap`, `RingCap`, `ReplayTail` and
`BufferCap` are the code's capacities, taken small so that everything fills.

Symmetry is used over agents, re-delegation and exchange slots, events, operators and
the request slots of `Accounts`, which the modules never tell apart (agents of one
organisation only, where organisations differ); never in the run with a liveness
property.

## 4. Fairness

Only `GatewayCatchesUp` is a liveness property. `GatewayFairness` is weak fairness
of `RefreshRead`: the ticker in `StartRevocationRefresh` fires until the process
ends; and strong fairness of `RefreshSwap`: a database that answers again and
again does not fail every single query. No fairness is assumed of revocations,
expiry, the network or the feed. The other modules promise nothing that must
happen: a console, a publisher or a scrape may fall behind for good, a command may be
killed, and a request may fail.

## 5. What the runs say about the code

Four runs find a statement in the repository that the code does not keep.

* **Feed versions across replicas** (`feed_two_replicas`). `Feed.build` reads the
  revoked set, then draws the version. The mutex around it is the process's.
  Replica 1 reads; a token is revoked; replica 2 reads and draws version 1 with the
  token in it; replica 1 draws version 2 without it. An SDK that applies both
  forgets the token. Drawing the version first would not help either; reading both
  in one statement under a lock would. With one replica the property holds, and is
  proved.
* **A token recorded after its delegation was revoked** (`late_record`). The
  exchange does not look at the delegation again in the transaction that records the
  token. What does hold, and is proved, is `RecordedTokensDie`: tokens that were
  recorded when the revocation's second statement ran die with it.
* **Retention under an anchor** (`audit_pruned`). The watermark keeps the links
  verifiable, but an anchor counts rows from the beginning of the table; after
  retention deleted some of them `Verify` reports a truncation, and with it
  `Anchor`, which would store a newer count, refuses.
* **Pruned tokens live on** (`prune_issuer`). `EnsureSetup` signs the feed under the
  issuer the grants file names; `RevokeJTI` loads it under the default one and fails;
  `Setup.Prune` ignores that error and removes the token file all the same. Under the
  default issuer `PrunedAreKilled` holds (`system`).

Conditions that the properties name and the code does not enforce:

* `RateCap` needs retention to keep tokens for longer than the window plus the
  longest stall of an exchange; `Policy.TokenGrace` may be set shorter.
* `TokensKeepVerifying` and `AcceptedStaysAccepted` need `ReloadEvery + TokenTTL <=
  Overlap` (five minutes, an hour and 35 days by default).
* `OnlyRotationDeafens` excepts a rotation after a site took its keys. The issuer signs
  the feed with its newest key as soon as it has reloaded; the SDK checks it with the
  key map it was started with and never fetches the JWKS again. So after `legant keys
  rotate` every poll of a running site fails (`onError` hears of it, if there is one), and
  a revocation of a token under the old key does not take effect "within the SDK's
  polling interval" (`docs/REVOCATION.md`): the site accepts it until it expires or the
  site restarts, unless it fails closed.
* `StrictSitesStop` counts from the feed a site last verified. The feed may be five
  seconds old when it is sent (`cacheFor`), which real time adds.
* `NoFalseAlarm` excepts a verification that another one overtakes: an anchor stored
  after the scan counts rows the scan has not seen (the admin page while
  `legant audit anchor` runs). It repeats nothing once run alone.
* Of the anchor, `TamperEvident` speaks only where the verification was not overtaken,
  by retention, a newer anchor or a change of the table from outside. `Verify` asks four
  queries of four snapshots, and the last one compares the anchor with the row at an
  offset of the table as it is by then: rows removed after the scan, or removed before it
  and put right by another removal, can make it compare with a row the scan never saw.
  That each scanned row is as it was appended holds of overtaken verifications too.
  With one change from outside (`MaxDamage = 1`) the exception is not needed, with two
  TLC finds the behaviour; the proof needs the condition.
* `PruneKeepsChain` needs rows created in the order they were appended, and a row to
  keep when retention looks. `created_at` is when a transaction began; if a long
  transaction appends late, retention can delete a row after the first one it keeps,
  and if nothing is left at first and an append comes before the delete, the
  watermark is empty while the new row points at a deleted one.
* A cascade of the agent API that fails leaves tokens active (`cascade` in
  `RecordedTokensDie`), to be found in no log.
* `RevokedIsBlocked` has two exceptions (`exposed`). One is a guard that has met an
  empty token file: `LoadConfigFromEnv` takes it for none and lets every call through
  until the file is whole, although `ccguard/runner.go:179` says that "a broken or
  tampered guard must not silently stop enforcing". A killed `apply` or `guard init`
  leaves such a file.
* The other is a call that puts an older feed in place by a path that its check did not
  take for the feed's (`FeedUnseen`). Either no parser finds the path:
  `ccguard/guard.go:23` says that a shell command "CANNOT be path-contained offline". Or
  the guard reads it otherwise than the kernel: `absClean` takes `..` back from the
  spelling (`paths.go:23`) before `realPath` follows links (`paths.go:52`), so that with
  a link `link` to the guard's directory `link/../guard/feed.jwt` is a path of the
  project to the guard and its own feed to the kernel. A comment says otherwise:
  "Targets and roots are resolved through symlinks before the lexical containment check,
  so neither "../" nor a symlink inside a root can escape it" (`guard.go:269`, and
  likewise `docs/CLAUDE_CODE.md:119`). The run `system` reaches the state: without
  `~exposed` its `RevokedIsBlocked` fails.
* `ReapplyIsNoop` needs the nodes of the file to have names that stay different as file
  names (`Distinct`); otherwise each apply rewrites the file they share.
* Commands run one at a time. `RevokeJTI` and the overlay commands read, modify and
  write without a lock: two at once lose one revocation or rule.
* `UsesAreBounded` excepts requests that had the link or the invitation open at once,
  and a mark that failed, an error the handlers ignore.
* `LoneRevocationIsFinal` needs the revocation to run alone: a refresh in flight
  leaves a live refresh token, and two concurrent refreshes fork the family.
* `ActsWithinAuthority` says "at some moment since the request began", because the
  caller's roles are a copy. Consent and the acceptance of an invitation ask for no
  more than a session, which outlives the suspension or deletion of its user.

Seen while translating, not the subject of a run:

* Delegations. `CreateDelegation` makes a root row without the consent receipt that
  migration 7 describes; a rate of 0 denies nothing at the exchange (`Limited`),
  although `Tighten` treats it as the strictest; the leaf is looked up by agent alone,
  so the newest delegation of another user hides one's own (`UsableTo`); a disjoint
  intersection cannot be stored (`Storable`), so such a re-delegation fails instead of
  denying everything; a child's window in another zone is dropped in favour of the
  parent's, which is not wider than the parent's but wider than asked; a token without
  a `cnst` claim is passed downstream without being narrowed to the called tool (no
  chain's token is without one, `DownstreamNarrows`).
* Audit and keys. A failing last query in `Verify` is passed over (`VerifyPrefix`); two
  rotations at once leave a key active without expiry (`SignerRemains` holds, one key
  stays for good); the gateway, the feed and the signed anchor may pair one key's id
  with another key in the instant of a reload, which the exchange alone notices;
  `Reencrypt` misses a key inserted while it runs and strands the caches of others.
* Files. A node's fingerprint ignores expiry, issuer, key and rate, so `apply` keeps a
  token that has run out; a replaced token is not revoked; a grant named "feed" writes
  its token into `feed.jwt`; an `EnsureSetup` that fails after `key.pem` leaves a
  directory it refuses afterwards; `MintChildToken` mints below a revoked parent; the
  guard does not check the feed's version; a malformed overlay is ignored with a
  warning and overwritten by the console's editor; the hook files of the other agents
  are not among the protected paths.
* Accounts. A reset races with a login that has verified the old password; accepting
  an invitation overwrites a concurrent revocation of it; a registration that fails
  after the first insert leaves a user without a credential, whom a reset cannot help;
  SCIM's `PUT` brings deleted users back; a changed address does not invalidate links;
  nothing sends the token `VerifyEmail` reads; SCIM's `PATCH` passes over the error of
  each of its statements.
* Console and metrics. The role of a console's caller is read once, and the stream
  outlives a demotion or logout; `Ingest` accepts fields that the listener drops as too
  long; an event can appear twice, from the ring and from the channel; a handler that
  aborts is counted in no total; a body without a header counts as 200.

## 6. What is proved

TLAPS checks these for every value of the constants:

| module | theorem | statement |
|---|---|---|
| `AlgebraProofs` | `TightenNarrows` | merging permits nothing the first operand denies |
| `GrantChainProofs` | `TypeCorrect`, `AuthorityOnlyNarrows`, `CycleFree`, `ProvenanceNeverBroken`, `DepthLimited` | `TypeOK`, `AuthorityNarrows`, `NoCycle`, `ProvenanceUnbroken`, `DepthBounded` are invariants |
| | `GrantsNeverChange` | `Spec => GrantsImmutable` |
| | `DownstreamOnlyNarrows` | `DownstreamNarrows` is invariant |
| `DelegationProofs` | `ChainsTypeCorrect`, `DepthIsTrue`, `ChainsStayInTenant`, `ChecksHold` | `ChainTypeOK`, `StoredDepth`, `OneTenant`, `ChecksStillHold` are invariants |
| | `DeadChainsStayDead`, `TreeRevocationIsComplete` | `DeadStaysDead`, `TreeRevokeKillsSubtree` |
| | `ChainsImplementGrants` | `ChainSpec => ImplementsGrants`: the table implements `GrantChain` |
| | `ExchangeImplementsChains` | `Spec => ChainSpec`: exchanges disturb no chain |
| | `ExchangeTypeCorrect`, `ChainsResolveWhole`, `TokensStayWithinChains`, `RevocationReachesTokens` | `TypeOK`, `ResolvesWholeChain`, `TokenWithinChain`, `RecordedTokensDie` are invariants |
| | `InactiveForGood` | `Spec => InactiveStaysInactive` |
| | `RateCapHolds` | `RateCap` is invariant if `TokenGrace >= MaxTime` |
| `RevocationFeedProofs` | `TypeCorrect`, `GatewayKeepsRevocations` | `TypeOK`; `GatewayNeverUnrevokes`, with any number of replicas |
| | `FeedsAreOrdered`, `FeedNeverUnrevokes` | `VersionsOrdered`, `NeverUnrevokes` with one replica |
| `KeystoreProofs` | `TypeCorrect`, `BootstrapsOnce`, `AlwaysASigner`, `TokensOutliveRotation` | `TypeOK`, `OneFirstKey`, `SignerRemains`, `TokensKeepVerifying` are invariants |
| | `AcceptanceLasts` | `Spec => AcceptedStaysAccepted` |
| | `SitesTypeCorrect`, `FreshSitesServe`, `StrictSitesAreBounded`, `RotationAloneDeafens` | `SiteTypeOK`, `FreshKeysServe`, `StrictSitesStop`, `OnlyRotationDeafens` are invariants of `SiteSpec` |
| `AuditChainProofs` | `TypeCorrect`, `PassedIsEvidence`, `FindingsAreRight` | `TypeOK`, `TamperEvident`, `NoFalseAlarm` are invariants |
| | `RetentionKeepsChain` | `Spec => PruneKeepsChain` |
| `TrustProofs` | `RevokedCallsAreBlocked` | `RevokedIsBlocked` is an invariant of `GuardSpec` |
| | `PrunedTokensAreDead` | `PrunedAreKilled` is an invariant of `TrustSpec` if no version of the grants file names an issuer of its own (`OneIssuer`) |
| | `ReapplyingChangesNothing` | `ReapplyIsNoop` is an invariant of `TrustSpec` |
| | `DirectoryIsTyped`, `GuardIsTyped` | `TrustTypeOK` is an invariant of `TrustSpec`, `GuardTypeOK` of `GuardSpec` |
| `ServerProofs` | `LoneRevocationsAreFinal`, `OAuthTypeCorrect` | `LoneRevocationIsFinal`, `OAuthTypeOK` are invariants of `OAuthSpec` |
| | `RegistryIsolatesCalls` | `RegistryTypeOK`, `CallsStayIsolated` are invariants of `RegistrySpec` |
| | `EditsAreLostToOverlapOnly` | `OnlyOverlapLosesEdits` is an invariant of `RowsSpec` |
| | `ChangesAreAuthorized`, `LinksAreUsedOnce` | `AccountTypeOK`, `ActsWithinAuthority`, `UsesAreBounded` are invariants of `TenancySpec` |
| | `ConsolesMissNothing` | `ConsoleHasNoGap` is an invariant of `ConsoleSpec` |
| | `ScrapesReportAll` | `ScrapesAreComplete` is an invariant of `MetricsSpec` |
| | `PartsAreComponents` | `System`'s `Spec` implies `TenancySpec`, `OAuthSpec`, `RegistrySpec`, `ConsoleSpec`, `MetricsSpec` and `RowsSpec` |
| | `SystemIsTyped` | `SystemTypeOK` is an invariant of `System` |
| | `RevocationHoldsOverall`, `PruningHoldsOverall` | `RevokedIsBlocked`, `ReapplyIsNoop` are invariants of `System`, and `PrunedAreKilled` with `OneIssuer` |

The specifications of the last two modules are `Init /\ [][Next]_vars` of each part on its
own. A behaviour of `System` is one of them with the other variables at rest
(`PartsAreComponents`), so the theorems on the server's components hold of it. The guard and
the grants are not among them, because some of `System`'s behaviours start from an
installed directory and each of the two has commands of its own over one directory;
`SystemIsTyped`, `RevocationHoldsOverall` and `PruningHoldsOverall` state their
properties of `System`, so that every invariant of the run `system` is proved of the very
specification that is run.

The type invariants of these modules, `VersionsOrdered`, `DepthBounded` and
`GrantsImmutable` are in no run: they are proved.

Assumptions: those of the modules, checked by TLC in every run: the sentinel and
`Absent` are no ordinary values (`SentinelAssumption`), clocks show a weekday and a
minute (`TimeAssumption`), the inputs are constraint sets, expiries are times
(`GrantAssumption`, `ChainsAssumption`, `ExchangeAssumption`), the keys' overlap
covers a reload and a token (`KeystoreAssumption`), and a site's staleness limit is a
number (`SitesAssumption`); what an upstream is made of and that a canonical spelling
is a spelling (`EnforcementAssumption`), that the configured upstreams are isolated,
without which the process does not start (`StaticAssumption`), that nobody is both user
and agent and a user has some password (`AccountsAssumption`), and bounds that are
numbers (`AuditAssumption`, `RowEditsAssumption`, `OAuthAssumption`, `ConsoleAssumption`,
the last with a ring of at least one event). Grants are a list, and none is named so that its token file
would be one of the directory's own (`TrustAssumption`: a grant named "feed" would
overwrite `feed.jwt`, see section 5); the guard's directory is spelled
without `..` and without a link on the way (`GuardAssumption`). Sets of agents, scopes, inputs,
instants and requests may be infinite.

**Grants.** `AuthorityNarrows` speaks of every pair of grants on a chain. It is
inductive together with `TypeOK`, because grants never change and a chain only ever
grows at its leaf:

1. `StepAppends`: a step appends one well-typed record, a root or a child of an
   existing grant that the guards of `Delegate` and `Tighten` make no wider than its
   parent (`TightenNarrows`, dimension by dimension: lists, caps, windows).
2. `AppendChains`: after an append the chain of each old grant is what it was, and the
   new one's is itself, or its parent's chain and itself. This rests on
   `AlgebraProofs`: `ChainOfChild` is the recursion equation of `Chain`, which is
   defined as a least closed set and has to be shown to satisfy it.
3. So a property of pairs on a chain needs only the new grant against its parent's
   chain: transitivity of `NoWider` for narrowing, the guard `HeldOnChain` for cycles,
   cardinality for depth, the delegator's choice for provenance.

**Downstream.** `AuthorityNarrows` compares grants by the actions in `Probes`, and a
probe that reaches an upstream is judged as another action, with the audience for its
resource. So the invariant is `Nested`: a grant permits no action whatever that a grant
above it denies, has no scope that one lacks and does not outlast it. `HandedOn` then follows a call
through the gateway, condition by condition: `downstreamConstraints` drops the list of
resources, but the token it mints is bound to the upstream's; it replaces the list of
tools by the called one, which the chain's permitted (`BoundAction`, `MintedPermits`). The act
chain the upstream reads names the agents of the grants from root to leaf
(`ReversedTwice`: it is reversed once when issued and once when read).

**Chains.** The difficulty is that a request acts on rows it read earlier. The
invariant `ChainInv` says what each stage of a request knows, and only things that
are true of rows for good: a row never changes but in its active flag, which only
falls (`Keeps`). So a step of one request leaves what another knows
(`Grown`, `TableStep`), and at the insert the checks of three queries still describe
the chain. With that an insert is a step of `GrantChain!Delegate` under `AsGrants`,
every other step a stutter, and the theorems on grants carry over to the table.

**Tokens.** `ExchangeImplementsChains` brings `ChainInv` along, since an exchange
only reads rows. On top of it: `Known`, what an exchange has established at each stage
(a link it has passed was usable in its first query, and one it has yet to pass is so
if it still is: nothing comes back); `Recorded`, that each token names the agent and
the user of its chain and claims no more than its row (`Genuine`); `Doomed`, that an
open tree revocation which has read its tokens holds every token recorded before, of
the whole tree; `Lineage`, that a row is within every row above it. The rate cap:
a transaction takes `now()` when it begins, so tokens are not recorded in the order of
their times; the count looks at every token after the start of the window, later ones
too, and sees them all while retention is out of reach (`Unpruned`).

**Feed.** With one replica (`OneReplica`) a feed is numbered while the build mutex is
held, so a higher version was read later, and what was read later lists
everything revoked before that has not expired. The gateway needs no such assumption:
it reads the table.

**Keys.** `KeyInv`: the newest key is active and without expiry, and a key that some
process's cache names is published at least until `Overlap` after that cache was
loaded (`PublishedUntil`). A running server's cache is at most `ReloadEvery` old and a
token lives `TokenTTL`, hence the assumption.

**Sites.** A step of a site leaves the issuer alone (`SitesRunTheIssuer`: `SiteSpec =>
Spec`), so `KeyInv` holds beside it. `SiteInv` adds: a cache holds every active key
inserted before it was loaded (`CachesComplete`); hence a site knows every active key
that is not later than its start (`SitesKnow`), and, by `TokensKeepVerifying`, the key of
each live token; a site's snapshot holds every token revoked before it was fetched
(`SitesRemember`); and what a site was sent and does not hold came under a key it does not
know, which is the newest and so a later one (`SitesHear`).

**Audit.** Three invariants, one on top of the other. `EvidenceInv` says what a
verification holds at each of its queries (`Sound`): rows that are as written; once the
links were checked, rows that are linked from some watermark; and, if nothing overtook it,
rows that are still the first ones of the table (`Current`). Two facts carry the proof.
A hash stands for all rows before it: in a linked list, the hash of the k-th row before
another is that one's hash without the last k contents (`LinkedPrefix`, from the least k
for which it fails, as the library's induction theorems cannot be applied). And the sequence numbers of
a table rise, so the rows left by retention are found by counting (`NthOf`: the number of
kept rows up to a row is its new place). `CalmInv` adds what holds while nobody but the
program writes and nothing is deleted: the table is linked from the beginning and every
anchor ever taken is a prefix of it (`Known`), hence each query of a verification finds
what the scan has to find. `PruneInv` is about the open retention transaction: the row it
means to keep first is still there, and in a table in the order of creation none at or
after it is deleted (`Survivor`), so what is left starts with it and the watermark is its
`prev_hash`.

**Registry.** `RegistryInv`: the table in the database, the routes in use, and the list a
refresh has read are isolated each; a call holds what it looked up (`OfOneUpstream`), so
that a swap of the routes is nothing to it.

**Row edits.** `EditsInv`: every column of a row holds the value last asked for or one an
update brought back that overlapped it (`RowOK`), and an update between its two statements
holds, of every column it was not asked for, such a value (`Holding`). A status is not a
column any update writes (`StatusIsNoColumn`).

**Accounts and tenancy.** `TenancyInv` has five parts: the tables are typed; a request has
read of its caller only what the caller has been since it began (`Earned`), and `past` holds
all that the tables say of the caller now (`Stands`); a link, or an invitation, that nobody
shared and whose mark did not fail is held by one request at a time and has let none
through that could let another through (`LinkOK`, `InviteOK`); and the uses claimed of a
registration token cover the clients it made and the requests that hold a claim (`RegInv`, a
count of requests, which may be infinitely many, so that their finiteness is part of it).

**Console.** `ConsoleInv`: the notes of one process rise from its sequence through its
queue, the channel and the listener to what is published (`OrderInv`); the ring is the end of
what was published (`Suffix`); and from some note on, a console has seen, or is owed by its
channel, every note but those its channel dropped, and none from before (`StreamInv`). Replay and
channel overlap, so a note may come twice, which the property allows.

**OAuth.** `StoreInv`: a family with a token or a late call has spent its code; once
revoked alone, a family has only calls that can issue nothing (`Quiet`): its code is
used and its refresh tokens are inactive, whatever fails. The types need `PairsInv`
besides: a refresh under way was given a pair, so the number it writes is not zero.

**Guard.** `GuardInv` looks at the steps the running command has left (`todo`), since a
command may be killed between any two. `CommandOK`: the feed on disk lists every token
reported as revoked that its own key could vouch for (`FeedOK`), and so does every feed
still to be written; a feed is signed with the key that is in `key.pem` when it is written
(`OwnKey`), a new key is one no token was signed with, and a report comes last, after a
feed that lists its token. `CheckOK` is what a check has in hand: a feed read after the
revocations reported before it began, and, once it has let its call through, that the
feed is none of the paths it saw (`FeedIsRefused`: the feed's path, resolved, is below
a directory that `checkPaths` refuses). A call may write any file of the guard
by other paths. A file it destroys loads for nobody, which is why the parts about
`key.pem` and the feed are conditional (`Loadable`, `Emptied`); a feed that it replaces
unseen ends the statement, as does a check that finds an empty token file.

**Grants as code.** `PruneInv` speaks of the same list of steps. Every pruned token is refused
under the feed that is there (`Refused`: either the feed does not load or it lists the
token), and every feed that is still to be written lists all of them; a token file that is about
to be removed follows the write of a feed with its token, or, where `RevokeJTI` failed
and its error was ignored, a feed that does not load and that nothing left to do can revive
(`Sequenced`, `HeadRefused`): only `EnsureSetup` writes a key or a JWKS, and only where there
is no key, thus no token yet (`Still`). Because `RevokeJTI` reads and writes the feed under
the default issuer, that argument needs `OneIssuer`; the run `prune_issuer` shows what
happens without.

What a finished `apply --prune` leaves needs another invariant, `NoopInv`, on the steps up
to the `applied` that ends the command (`Progress`). All of them are the command's own: they write the
trust domain's files or a declared node's file with a token of that node's shape, and remove
only files the grants file does not declare. A node that no step left will come to has its token in place,
or the write of it is still to come (`InPlace`): `FollowsOn` says that going from a node to
the next passes over none, and `Distinct` that no other node writes its file. And once no
`prune` is left, no orphan is. When `applied` is all that is left, both hold of the disk.

**What the directory holds.** `TrustTypeOK` says that each file holds what its kind of
file can hold, and files are written by steps a command left for later. So `ContentInv`
states it of both: of the disk (`Contents`) and of each step left in `todo` (`KnownSteps`): what
is to be written is unreadable, a token or a key that exists, or a feed that lists
tokens that were issued. Tokens and keys are only ever added, so what a step holds stays good
until it runs. With a guard, feeds can come back from an old copy, and a call may write any of the
guard's files: `GuardContentInv` adds that each feed ever published lists issued tokens
(`FeedsKnown`) and that a check is at one of its steps (`Phased`).

**Metrics.** `MetricsInv` has four parts. No two label values share a cell, which rests
on a second lookup under the write lock (`SeriesInv`). A counter's cell holds what was
added to it, and the gauge's the number of requests in flight (`CountsInv`), although adding takes no
lock. A request that has looked its cell up holds the one of its labels (`StageInv`). And of a scrape under way
(`ScrapeInv`): each value read lies between the additions at its start and those now, no
cell of a family it has passed is missing, and a cell of the family it is in
is read or still to be loaded. What a scrape loads is `FlattenSeq` and `SetToSeq` of the
library, both recursive functions; that the result holds every element and no other is shown by
`Inductively`, induction over the natural numbers stated for a set instead of a predicate
(`WFMin`), since the library's own induction theorems cannot be applied. There may be infinitely many
requests, but only finitely many in flight, which is part of the invariant.

**System.** Every disjunct of its `Next` is a step of one component and leaves the variables of
the others alone, so each component's specification holds of its variables
(`PartsAreComponents`), and `SystemTypeOK` follows from the type invariants of the
parts. `InstalledContent` and `InstalledGuard` show that the directory `guard install`
leaves satisfies the guard's invariants. In the guard's part nothing is applied or pruned
(`ApartInv`, on the steps its commands leave), and in the others nothing is checked, so the
properties of grants and guard hold in the parts that are not theirs too (`PartsInv`).

Out of the prover's reach, and left to TLC: liveness under fairness
(`GatewayCatchesUp`), with `ENABLED`. Everything else the passing runs check is proved. Induction
over data is out of reach where it takes an operator as a parameter; where a
definition is a recursive function, as in the metrics, `Inductively` or a least
counterexample takes its place. No module declares a `RECURSIVE` operator.

## 7. Not modelled

* The MCP metadata document.
* Client metadata, documents fetched by URL (`cimd.go`), introspection and the replay
  cache of client assertions.
* API keys: rows are created, listed and deleted, and nothing reads them.
* `Keystore.Reencrypt` with its change of the key-encryption secret; the hazard is
  listed without a property, as are a retention grace shorter than the rate window and
  the empty token file, which are conditions of properties above.
* Retention of used, exhausted or expired rows: every reader refuses them already.
* The rate limiter in front of the routes: one mutex around one map.
* Of the guard, the parsing of shell commands, and what they do besides writing files;
  of grants as code, `diff`, tests and `who-can`, which only read.
* The audit query, list queries, snapshots and pages: reads.
* HTTP, JSON, JWT encoding, cryptography, configuration, the database pool, the CLI's
  output: I/O and libraries. Clients in other languages, examples and deployment
  files: ports and demonstrations.

`PROJECT.json` says of each component what is left out.

## 8. Plan

Done, in this order: the algebra and the grant chain with proofs; the chains table and
its refinement; the exchange and the revocation paths; the feed and the gateway's
cache; the audit chain; the keystore; then enforcement from the grant to the tool, the
offline trust domain and the guard, accounts and tenancy, the OAuth storage, the
gateway's registry, the console, the metrics and the record updates; resource servers
under rotation; and the theorems on chains, tokens, feed, keys, OAuth families and sites,
then on the gateway's tokens, the audit chain, the registry, row edits, accounts and
the console; the guard and the directory of grants; the metrics, the types of every
component and of the system they make up.

Next model: `Reencrypt` with the key-encryption secret, and the replay cache of client
assertions.
