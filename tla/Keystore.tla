------------------------------ MODULE Keystore ------------------------------
(***************************************************************************)
(* internal/keystore: the table signing_keys and the caches of the         *)
(* processes that open it.  Servers sign tokens (as the token exchange     *)
(* does) and reload on a ticker; operators run `legant keys rotate` and    *)
(* `legant keys prune`, each a process of its own that opens the keystore. *)
(*                                                                         *)
(* Key k is the k-th inserted, so the newest is the greatest.  A process   *)
(* decides on its cache and writes to the table later; a transaction takes *)
(* no time on the clock.                                                   *)
(***************************************************************************)
EXTENDS Naturals, Sequences, FiniteSets

CONSTANTS Servers, Operators,
          Overlap,       \* keystore.rotation_overlap
          ReloadEvery,   \* period of reloadKeystoreLoop
          TokenTTL,      \* longest lifetime of a signed token
          MaxKeys,       \* bound on the table
          MaxTime        \* bound on the clock

Procs == Servers \cup Operators

(* What an operator's configuration must satisfy for rotation to be safe;  *)
(* the defaults are 35 days, five minutes and an hour.                     *)
ASSUME KeystoreAssumption ==
    /\ Servers \cap Operators = {}
    /\ Overlap \in Nat \ {0} /\ ReloadEvery \in Nat \ {0} /\ TokenTTL \in Nat \ {0}
    /\ MaxKeys \in Nat /\ MaxTime \in Nat
    /\ ReloadEvery + TokenTTL <= Overlap

VARIABLES keys,      \* signing_keys: retirement time (0: none), active, first
          phase,     \* what each process is doing
          cache,     \* Keystore: active key (0: none), keys by id, when loaded
          prev,      \* the key a rotation will retire
          signing,   \* per server, the token being signed
          tokens,    \* tokens handed out and not yet expired
          now

vars == <<keys, phase, cache, prev, signing, tokens, now>>

None == [pc |-> "none"]
NoKey == 0
Empty == [active |-> NoKey, byKID |-> {}, at |-> 0]

Active == {k \in DOMAIN keys : keys[k].active}

NewestOf(S) == CHOOSE k \in S : \A l \in S : l <= k

(* reload: every active key, the newest to sign with.                      *)
Loaded == [active |-> IF Active = {} THEN NoKey ELSE NewestOf(Active),
           byKID |-> Active, at |-> now]
-----------------------------------------------------------------------------
(* Open.                                                                   *)
Open(p) ==
    /\ phase[p] = "down"
    /\ cache' = [cache EXCEPT ![p] = Loaded]
    /\ phase' = [phase EXCEPT ![p] = IF Active = {} THEN "bootstrap" ELSE "up"]
    /\ UNCHANGED <<keys, prev, signing, tokens, now>>

NewKey(first) == [expires |-> 0, active |-> TRUE, first |-> first]

(* Mutant: no second look under the lock.                                  *)
MutNoRecheck == Len(keys) < MaxKeys /\ keys' = Append(keys, NewKey(TRUE))

FirstKey == IF Active = {}
            THEN Len(keys) < MaxKeys /\ keys' = Append(keys, NewKey(TRUE))
            ELSE UNCHANGED keys

(* One transaction under an advisory lock.                                 *)
Bootstrap(p) ==
    /\ phase[p] = "bootstrap"
    /\ FirstKey
    /\ phase' = [phase EXCEPT ![p] = "reload"]
    /\ UNCHANGED <<cache, prev, signing, tokens, now>>

(* The reload that ends Open, Rotate and Prune, and the ticker's.          *)
Reload(p) ==
    /\ phase[p] = "reload" \/ (p \in Servers /\ phase[p] = "up")
    /\ cache' = [cache EXCEPT ![p] = Loaded]
    /\ phase' = [phase EXCEPT ![p] = "up"]
    /\ UNCHANGED <<keys, prev, signing, tokens, now>>

(* The process ends, or dies at any point.                                 *)
Stop(p) ==
    /\ phase[p] # "down"
    /\ phase' = [phase EXCEPT ![p] = "down"]
    /\ cache' = [cache EXCEPT ![p] = Empty]
    /\ prev' = [prev EXCEPT ![p] = NoKey]
    /\ signing' = [signing EXCEPT ![p] = None]
    /\ UNCHANGED <<keys, tokens, now>>
-----------------------------------------------------------------------------
(* Rotate: the key to retire is the cached one; insert and retirement are  *)
(* one transaction.                                                        *)
RotateRead(p) ==
    /\ p \in Operators /\ phase[p] = "up"
    /\ prev' = [prev EXCEPT ![p] = cache[p].active]
    /\ phase' = [phase EXCEPT ![p] = "rotate"]
    /\ UNCHANGED <<keys, cache, signing, tokens, now>>

(* Mutants: every key is retired; the key retires at once.                 *)
MutRetireAll(table, p) ==
    [k \in DOMAIN table |->
        IF table[k].expires = 0 THEN [table[k] EXCEPT !.expires = now + Overlap]
        ELSE table[k]]

MutNoOverlap(table, p) ==
    [k \in DOMAIN table |->
        IF k = prev[p] /\ table[k].expires = 0
        THEN [table[k] EXCEPT !.expires = now] ELSE table[k]]

Retire(table, p) ==
    [k \in DOMAIN table |->
        IF k = prev[p] /\ table[k].expires = 0
        THEN [table[k] EXCEPT !.expires = now + Overlap] ELSE table[k]]

Rotate(p) ==
    /\ phase[p] = "rotate"
    /\ Len(keys) < MaxKeys
    /\ keys' = Retire(Append(keys, NewKey(FALSE)), p)
    /\ prev' = [prev EXCEPT ![p] = NoKey]
    /\ phase' = [phase EXCEPT ![p] = "reload"]
    /\ UNCHANGED <<cache, signing, tokens, now>>

(* Prune: retired keys, except the one in this process's cache.            *)
Prunable(p) ==
    {k \in Active : keys[k].expires # 0 /\ keys[k].expires < now /\ k # cache[p].active}

Prune(p) ==
    /\ p \in Operators /\ phase[p] = "up" /\ Prunable(p) # {}
    /\ keys' = [k \in DOMAIN keys |->
                   IF k \in Prunable(p) THEN [keys[k] EXCEPT !.active = FALSE]
                   ELSE keys[k]]
    /\ phase' = [phase EXCEPT ![p] = "reload"]
    /\ UNCHANGED <<cache, prev, signing, tokens, now>>
-----------------------------------------------------------------------------
(* Signing reads the key id and the key in two calls, and a reload may     *)
(* come between them; the exchange then verifies what it signed.           *)
SignKID(s) ==
    /\ phase[s] = "up" /\ signing[s].pc = "none"
    /\ signing' = [signing EXCEPT ![s] =
           [pc |-> "kid", kid |-> cache[s].active, exp |-> now + TokenTTL]]
    /\ UNCHANGED <<keys, phase, cache, prev, tokens, now>>

SignKey(s) ==
    /\ phase[s] = "up" /\ signing[s].pc = "kid"
    /\ signing' = [signing EXCEPT ![s] =
           [pc |-> "signed", kid |-> signing[s].kid, key |-> cache[s].active,
            exp |-> signing[s].exp]]
    /\ UNCHANGED <<keys, phase, cache, prev, tokens, now>>

(* Mutant: the exchange hands out what it signed.                          *)
MutTrusts(s, t) == TRUE

(* delegation.Verifier with the server's VerifierKeys.                     *)
Verifies(s, t) == t.kid \in cache[s].byKID /\ t.key = t.kid /\ now < t.exp

Release(s) ==
    /\ phase[s] = "up" /\ signing[s].pc = "signed"
    /\ LET t == [kid |-> signing[s].kid, key |-> signing[s].key, exp |-> signing[s].exp]
       IN  tokens' = IF Verifies(s, t) THEN tokens \cup {t} ELSE tokens
    /\ signing' = [signing EXCEPT ![s] = None]
    /\ UNCHANGED <<keys, phase, cache, prev, now>>

(* A tick of the clock passes no server's reload.                          *)
Tick ==
    /\ now < MaxTime
    /\ \A s \in Servers : phase[s] = "up" => now < cache[s].at + ReloadEvery
    /\ now' = now + 1
    /\ tokens' = {t \in tokens : t.exp > now + 1}
    /\ UNCHANGED <<keys, phase, cache, prev, signing>>
-----------------------------------------------------------------------------
Init ==
    /\ keys = << >> /\ tokens = {} /\ now = 0
    /\ phase = [p \in Procs |-> "down"]
    /\ cache = [p \in Procs |-> Empty]
    /\ prev = [p \in Procs |-> NoKey]
    /\ signing = [p \in Procs |-> None]

OpenKeystore(p) == Open(p) \/ Bootstrap(p) \/ Reload(p)
KeysRotate(p) == RotateRead(p) \/ Rotate(p)

Next ==
    \/ \E p \in Procs : OpenKeystore(p) \/ Stop(p)
    \/ \E p \in Operators : KeysRotate(p) \/ Prune(p)
    \/ \E s \in Servers : SignKID(s) \/ SignKey(s) \/ Release(s)
    \/ Tick

Spec == Init /\ [][Next]_vars
-----------------------------------------------------------------------------
(* Every variable is of its type.                                          *)
TypeOK ==
    /\ keys \in Seq([expires : Nat, active : BOOLEAN, first : BOOLEAN])
    /\ phase \in [Procs -> {"down", "bootstrap", "reload", "up", "rotate"}]
    /\ \A p \in Procs :
          /\ cache[p].byKID \subseteq DOMAIN keys
          /\ cache[p].active \in cache[p].byKID \cup {NoKey}
          /\ prev[p] \in DOMAIN keys \cup {NoKey}
          /\ phase[p] = "up" => cache[p].active # NoKey
    /\ tokens \subseteq [kid : DOMAIN keys, key : DOMAIN keys, exp : Nat]
    /\ now \in Nat

(* Processes that start against an empty table agree on one first key.     *)
OneFirstKey == Cardinality({k \in DOMAIN keys : keys[k].first}) <= 1

(* A token handed out keeps verifying until it expires, however rotations, *)
(* prunes, reloads and restarts interleave: its key stays published, in    *)
(* the table and so in every cache loaded from it.                         *)
TokensKeepVerifying ==
    \A t \in tokens : t.key = t.kid /\ t.kid \in Active

(* There is always a key to sign with that no prune will ever take.        *)
SignerRemains == keys # << >> => \E k \in Active : keys[k].expires = 0

(* A server that accepts a token does not stop accepting it before it      *)
(* expires, unless it goes down.                                           *)
AcceptedStaysAccepted ==
    [][\A s \in Servers, t \in tokens :
          /\ phase[s] = "up" /\ phase'[s] = "up"
          /\ Verifies(s, t) /\ now' < t.exp
          => Verifies(s, t)']_vars
=============================================================================
