---------------------------- MODULE KeystoreProofs ----------------------------
(***************************************************************************)
(* Rotation loses no key and no token, for any number of servers,          *)
(* operators and keys, as long as a key is published for longer than a     *)
(* server takes to reload and its last token to expire.                    *)
(***************************************************************************)
EXTENDS ResourceServers, FiniteSetTheorems, SequenceTheorems, TLAPS

KeyRecords == [expires : Nat, active : BOOLEAN, first : BOOLEAN]
Caches == [active : Nat, byKID : SUBSET Nat, at : Nat]

(* The newest key is active and not retired: a rotation retires what its   *)
(* cache names and then adds a key, and only the first is added to none.   *)
NewestSigns ==
    keys # << >> => keys[Len(keys)].active /\ keys[Len(keys)].expires = 0

(* A key that has been pruned had been retired until some earlier time.    *)
PrunedIsPast ==
    \A k \in DOMAIN keys :
        ~keys[k].active => keys[k].expires # 0 /\ keys[k].expires < now

(* Key k is published at least until time t.                               *)
PublishedUntil(k, t) == keys[k].expires = 0 \/ t <= keys[k].expires

CacheInv ==
    /\ cache \in [Procs -> Caches]
    /\ \A p \in Procs :
          /\ cache[p].at <= now
          /\ cache[p].active # NoKey => PublishedUntil(cache[p].active, cache[p].at + Overlap)
          /\ p \in Servers /\ phase[p] = "up" => now <= cache[p].at + ReloadEvery
          /\ phase[p] \in {"reload", "rotate", "up"} => keys # << >>
          /\ phase[p] = "rotate" => p \in Operators

(* What a server is signing is published until it expires.                 *)
SigningInv ==
    /\ DOMAIN signing = Procs
    /\ \A s \in Procs : signing[s].pc # "none" =>
          /\ s \in Servers /\ phase[s] = "up"
          /\ signing[s].kid \in DOMAIN keys
          /\ signing[s].exp \in Nat /\ signing[s].exp <= now + TokenTTL
          /\ PublishedUntil(signing[s].kid, signing[s].exp)
          /\ signing[s].pc = "signed" => signing[s].key \in DOMAIN keys

TokenInv ==
    \A t \in tokens :
        /\ t.key = t.kid
        /\ now < t.exp /\ t.exp <= now + TokenTTL
        /\ PublishedUntil(t.kid, t.exp)

FirstInv == \A k \in DOMAIN keys : keys[k].first => k = 1

KeyInv ==
    /\ TypeOK /\ prev \in [Procs -> Nat]
    /\ NewestSigns /\ PrunedIsPast /\ FirstInv
    /\ CacheInv /\ SigningInv /\ TokenInv
-----------------------------------------------------------------------------
(* reload finds the newest key of the table.                               *)
LEMMA LoadedNewest ==
    ASSUME KeyInv
    PROVE  /\ Active \subseteq DOMAIN keys
           /\ keys = << >> => Active = {}
           /\ keys # << >> => Len(keys) \in Active /\ Loaded.active = Len(keys)
           /\ Loaded \in Caches /\ Loaded.byKID = Active /\ Loaded.at = now
<1>1. /\ Active \subseteq DOMAIN keys /\ DOMAIN keys = 1..Len(keys)
      /\ Len(keys) \in Nat /\ now \in Nat
      /\ keys # << >> => Len(keys) \in 1..Len(keys)
  BY DEF KeyInv, TypeOK, Active
<1>2. CASE keys = << >>
  BY <1>1, <1>2 DEF Loaded, Caches, NoKey
<1>3. CASE keys # << >>
  <2>1. Len(keys) \in Active
    BY <1>1, <1>3 DEF NewestSigns, KeyInv, Active
  <2>2. NewestOf(Active) = Len(keys)
    <3>1. \A k \in Active : k \in Nat /\ k <= Len(keys)
      BY <1>1
    <3>2. \E k \in Active : \A l \in Active : l <= k
      BY <2>1, <3>1
    <3>3. NewestOf(Active) \in Active /\ \A l \in Active : l <= NewestOf(Active)
      BY <3>2 DEF NewestOf
    <3>4. NewestOf(Active) <= Len(keys) /\ Len(keys) <= NewestOf(Active) /\ NewestOf(Active) \in Nat
      BY <3>1, <3>3, <2>1
    <3> QED BY <3>4, <1>1
  <2>3. Active # {}
    BY <2>1
  <2>4. Loaded = [active |-> Len(keys), byKID |-> Active, at |-> now]
    BY <2>2, <2>3 DEF Loaded
  <2>5. Active \in SUBSET Nat
    BY <1>1
  <2> QED BY <1>1, <1>3, <2>1, <2>4, <2>5 DEF Caches
<1> QED BY <1>2, <1>3

(* A function from 1..n to key records is a table of n keys.               *)
LEMMA Table ==
    ASSUME NEW n \in Nat, NEW f \in [1..n -> KeyRecords]
    PROVE  f \in Seq(KeyRecords) /\ DOMAIN f = 1..n /\ Len(f) = n
<1>1. f \in Seq(KeyRecords)
  BY SeqDef
<1>2. DOMAIN f = 1..n /\ DOMAIN f = 1..Len(f) /\ Len(f) \in Nat
  BY <1>1, LenProperties
<1> QED BY <1>1, <1>2

(* What is known of the table, key by key.                                 *)
LEMMA KeysTyped ==
    ASSUME KeyInv
    PROVE  /\ keys \in Seq(KeyRecords) /\ Len(keys) \in Nat /\ DOMAIN keys = 1..Len(keys)
           /\ \A k \in 1..Len(keys) :
                 /\ keys[k] \in KeyRecords /\ keys[k].expires \in Nat
                 /\ keys[k].active \in BOOLEAN /\ keys[k].first \in BOOLEAN
           /\ now \in Nat
<1>1. keys \in Seq(KeyRecords) /\ now \in Nat
  BY DEF KeyInv, TypeOK, KeyRecords
<1>2. \A k \in 1..Len(keys) : keys[k] \in KeyRecords
  BY <1>1, ElementOfSeq
<1>3. \A r \in KeyRecords : r.expires \in Nat /\ r.active \in BOOLEAN /\ r.first \in BOOLEAN
  BY DEF KeyRecords
<1> QED BY <1>1, <1>2, <1>3, LenProperties

(* A step that adds keys and retires some unpublishes no key before the    *)
(* overlap of a rotation has passed.                                       *)
Retires ==
    /\ keys' \in Seq(KeyRecords)
    /\ DOMAIN keys \subseteq DOMAIN keys'
    /\ \A k \in DOMAIN keys :
          \/ keys'[k].expires = keys[k].expires
          \/ keys[k].expires = 0 /\ keys'[k].expires = now + Overlap

LEMMA RetiredStayPublished ==
    ASSUME KeyInv, Retires, NEW k \in DOMAIN keys, NEW t \in Nat,
           PublishedUntil(k, t), t <= now + Overlap
    PROVE  PublishedUntil(k, t)'
BY DEF Retires, PublishedUntil

(* Such a step keeps what is known of caches and tokens, when each process *)
(* but the one that steps stays where it is.                               *)
LEMMA RetiringKeeps ==
    ASSUME KeyInv, Retires, NEW p \in Procs, phase[p] # "up" \/ p \in Operators,
           phase' = [phase EXCEPT ![p] = "reload"], keys' # << >>,
           prev' = prev \/ prev' = [prev EXCEPT ![p] = NoKey],
           UNCHANGED <<cache, signing, tokens, now>>
    PROVE  /\ TypeOK' /\ prev' \in [Procs -> Nat]
           /\ CacheInv' /\ SigningInv' /\ TokenInv'
<1> USE KeystoreAssumption DEF KeyInv
<1>1. now \in Nat /\ DOMAIN phase = Procs
  BY DEF TypeOK
<1>2. TokenInv'
  <2> SUFFICES ASSUME NEW t \in tokens PROVE PublishedUntil(t.kid, t.exp)'
    BY DEF TokenInv
  <2>1. t.kid \in DOMAIN keys /\ t.exp \in Nat /\ t.exp <= now + Overlap
    BY <1>1 DEF TokenInv, TypeOK
  <2> QED BY <2>1, RetiredStayPublished DEF TokenInv
<1>3. SigningInv'
  <2> SUFFICES ASSUME NEW s \in Procs, signing[s].pc # "none"
               PROVE  s # p /\ PublishedUntil(signing[s].kid, signing[s].exp)'
    BY <1>1 DEF SigningInv, Retires
  <2>1. signing[s].kid \in DOMAIN keys /\ signing[s].exp \in Nat
        /\ signing[s].exp <= now + Overlap
    BY <1>1 DEF SigningInv
  <2>2. s # p
    BY DEF SigningInv
  <2> QED BY <2>1, <2>2, RetiredStayPublished DEF SigningInv
<1>4. CacheInv'
  <2> SUFFICES ASSUME NEW q \in Procs
               PROVE  cache[q].active # NoKey =>
                         PublishedUntil(cache[q].active, cache[q].at + Overlap)'
    BY <1>1 DEF CacheInv
  <2>1. cache[q].active # NoKey => cache[q].active \in DOMAIN keys
    BY DEF TypeOK
  <2>2. cache[q].at + Overlap \in Nat /\ cache[q].at + Overlap <= now + Overlap
    BY <1>1 DEF CacheInv, Caches
  <2> QED BY <2>1, <2>2, RetiredStayPublished DEF CacheInv
<1>5. TypeOK' /\ prev' \in [Procs -> Nat]
  <2>1. DOMAIN keys \subseteq DOMAIN keys' /\ NoKey \in Nat
    BY DEF Retires, NoKey
  <2>2. \A q \in Procs :
           /\ cache[q].byKID \subseteq DOMAIN keys'
           /\ prev'[q] \in DOMAIN keys' \cup {NoKey}
           /\ phase'[q] = "up" => cache[q].active # NoKey
    BY <1>1, <2>1 DEF TypeOK
  <2>3. phase' \in [Procs -> {"down", "bootstrap", "reload", "up", "rotate"}]
    BY DEF TypeOK
  <2>4. tokens \subseteq [kid : DOMAIN keys', key : DOMAIN keys', exp : Nat]
    BY <2>1 DEF TypeOK
  <2>5. prev' \in [Procs -> Nat]
    BY <2>1
  <2> QED BY <2>2, <2>3, <2>4, <2>5 DEF TypeOK, Retires, KeyRecords
<1> QED BY <1>2, <1>3, <1>4, <1>5

LEMMA BootstrapKeeps ==
    ASSUME KeyInv, NEW p \in Procs, Bootstrap(p)
    PROVE  KeyInv'
<1>1. CASE Active # {}
  <2>1. keys' = keys /\ keys # << >>
    BY <1>1, LoadedNewest DEF Bootstrap, FirstKey
  <2>2. Retires
    BY <2>1 DEF Retires, KeyInv, TypeOK, KeyRecords
  <2>3. TypeOK' /\ prev' \in [Procs -> Nat] /\ CacheInv' /\ SigningInv' /\ TokenInv'
    BY <2>1, <2>2, RetiringKeeps DEF Bootstrap
  <2> QED BY <2>1, <2>3 DEF KeyInv, Bootstrap, NewestSigns, PrunedIsPast, FirstInv
<1>2. CASE Active = {}
  <2>1. keys = << >>
    BY <1>2, LoadedNewest
  <2>2. keys' = Append(<< >>, NewKey(TRUE))
    BY <1>2, <2>1 DEF Bootstrap, FirstKey
  <2>3. keys' = <<NewKey(TRUE)>> /\ NewKey(TRUE) \in KeyRecords
    BY <2>2 DEF NewKey, KeyRecords
  <2>4. Retires /\ keys' # << >>
    <3>1. DOMAIN keys = {} /\ DOMAIN keys' = 1..1
      BY <2>1, <2>3
    <3>2. keys' \in Seq(KeyRecords) /\ keys' # << >>
      <4>1. << >> \in Seq(KeyRecords)
        BY EmptySeq
      <4>2. \A k \in KeyRecords : /\ Append(<< >>, k) \in Seq(KeyRecords)
                                  /\ Append(<< >>, k) # << >>
        BY <4>1, AppendProperties
      <4> QED BY <2>2, <2>3, <4>2
    <3> QED BY <3>1, <3>2 DEF Retires
  <2>5. TypeOK' /\ prev' \in [Procs -> Nat] /\ CacheInv' /\ SigningInv' /\ TokenInv'
    BY <2>4, RetiringKeeps DEF Bootstrap
  <2>6. NewestSigns' /\ PrunedIsPast' /\ FirstInv'
    BY <2>3 DEF NewestSigns, PrunedIsPast, FirstInv, NewKey
  <2> QED BY <2>5, <2>6 DEF KeyInv
<1> QED BY <1>1, <1>2

LEMMA RotateKeeps ==
    ASSUME KeyInv, NEW p \in Operators, Rotate(p)
    PROVE  KeyInv'
<1> DEFINE longer == Append(keys, NewKey(FALSE))
           n == Len(keys)
<1>1. p \in Procs /\ phase[p] = "rotate" /\ n \in Nat /\ DOMAIN keys = 1..n /\ now \in Nat
  BY KeysTyped DEF Rotate, Procs
<1>2. NewKey(FALSE) \in KeyRecords
  BY DEF NewKey, KeyRecords
<1>3. /\ longer \in Seq(KeyRecords) /\ DOMAIN longer = 1..(n + 1)
      /\ longer[n + 1] = NewKey(FALSE) /\ \A k \in 1..n : longer[k] = keys[k]
  <2>1. longer \in Seq(KeyRecords) /\ Len(longer) = n + 1
    <3>1. keys \in Seq(KeyRecords)
      BY KeysTyped
    <3> QED BY <1>2, <3>1, AppendProperties
  <2>2. DOMAIN longer = 1..(n + 1)
    BY <2>1, LenProperties
  <2>3. longer[n + 1] = NewKey(FALSE) /\ \A k \in 1..n : longer[k] = keys[k]
    <3>1. keys \in Seq(KeyRecords)
      BY KeysTyped
    <3>2. \A e \in KeyRecords :
             /\ Append(keys, e)[Len(keys) + 1] = e
             /\ \A k \in 1..Len(keys) : Append(keys, e)[k] = keys[k]
      BY <3>1, AppendProperties
    <3> QED BY <1>2, <3>2
  <2> QED BY <2>1, <2>2, <2>3
<1>4. keys' = [k \in 1..(n + 1) |->
                  IF k = prev[p] /\ longer[k].expires = 0
                  THEN [longer[k] EXCEPT !.expires = now + Overlap] ELSE longer[k]]
  BY <1>3 DEF Rotate, Retire
<1>5. prev[p] # n + 1 /\ n + 1 \in 1..(n + 1)
  BY <1>1 DEF KeyInv, TypeOK, NoKey
<1>6. now + Overlap \in Nat
  BY <1>1, KeystoreAssumption
<1>7. \A k \in 1..n : keys[k] \in KeyRecords /\ k \in 1..(n + 1)
  BY <1>1, KeysTyped
<1> HIDE DEF longer, n
<1>8. keys'[n + 1] = NewKey(FALSE)
  BY <1>3, <1>4, <1>5
<1>9. \A k \in 1..n :
         /\ keys'[k] \in KeyRecords
         /\ keys'[k].active = keys[k].active /\ keys'[k].first = keys[k].first
         /\ \/ keys'[k].expires = keys[k].expires
            \/ keys[k].expires = 0 /\ keys'[k].expires = now + Overlap
  <2> SUFFICES ASSUME NEW k \in 1..n
               PROVE  /\ keys'[k] \in KeyRecords
                      /\ keys'[k].active = keys[k].active /\ keys'[k].first = keys[k].first
                      /\ \/ keys'[k].expires = keys[k].expires
                         \/ keys[k].expires = 0 /\ keys'[k].expires = now + Overlap
    OBVIOUS
  <2>1. keys'[k] = IF k = prev[p] /\ keys[k].expires = 0
                   THEN [keys[k] EXCEPT !.expires = now + Overlap] ELSE keys[k]
    BY <1>3, <1>4, <1>7
  <2>2. keys[k] \in KeyRecords
    BY <1>7
  <2> QED BY <1>6, <2>1, <2>2 DEF KeyRecords
<1>10. keys' \in [1..(n + 1) -> KeyRecords]
  <2>1. \A k \in 1..(n + 1) : k \in 1..n \/ k = n + 1
    BY <1>1
  <2>2. \A k \in 1..(n + 1) : keys'[k] \in KeyRecords
    BY <1>2, <1>8, <1>9, <2>1
  <2> QED BY <1>4, <2>2
<1>11. keys' \in Seq(KeyRecords) /\ DOMAIN keys' = 1..(n + 1) /\ Len(keys') = n + 1
  BY <1>1, <1>10, Table
<1>12. Retires
  BY <1>1, <1>7, <1>9, <1>11 DEF Retires
<1>13. TypeOK' /\ prev' \in [Procs -> Nat] /\ CacheInv' /\ SigningInv' /\ TokenInv'
  <2>1. keys' # << >>
    BY <1>5, <1>11
  <2> QED BY <1>1, <1>12, <2>1, RetiringKeeps DEF Rotate
<1>14. NewestSigns'
  BY <1>8, <1>11 DEF NewestSigns, NewKey
<1>15. \A k \in DOMAIN keys' : k \in DOMAIN keys \/ keys'[k] = NewKey(FALSE)
  <2> SUFFICES ASSUME NEW k \in 1..(n + 1), k \notin 1..n PROVE keys'[k] = NewKey(FALSE)
    BY <1>1, <1>11
  <2>1. k = n + 1
    BY <1>1
  <2> QED BY <1>8, <2>1
<1>16. PrunedIsPast'
  <2> SUFFICES ASSUME NEW k \in DOMAIN keys', ~keys'[k].active
               PROVE  keys'[k].expires # 0 /\ keys'[k].expires < now
    BY DEF PrunedIsPast, Rotate
  <2>1. k \in DOMAIN keys
    BY <1>15 DEF NewKey
  <2> QED BY <1>1, <1>9, <2>1 DEF KeyInv, PrunedIsPast
<1>17. FirstInv'
  BY <1>1, <1>9, <1>15 DEF KeyInv, FirstInv, NewKey
<1> QED BY <1>13, <1>14, <1>16, <1>17 DEF KeyInv

LEMMA PruneKeeps ==
    ASSUME KeyInv, NEW p \in Operators, Prune(p)
    PROVE  KeyInv'
<1> DEFINE n == Len(keys)
<1>1. p \in Procs /\ keys # << >> /\ n \in Nat /\ DOMAIN keys = 1..n /\ now \in Nat
  BY KeysTyped DEF KeyInv, Prune, Procs, CacheInv
<1>2. n \in 1..n
  BY <1>1, KeysTyped, EmptySeq
<1>3. keys' = [k \in 1..n |-> IF k \in Prunable(p) THEN [keys[k] EXCEPT !.active = FALSE]
                              ELSE keys[k]]
  BY <1>1 DEF Prune
<1>4. \A k \in 1..n : keys[k] \in KeyRecords /\ keys[k].active \in BOOLEAN
  BY KeysTyped
<1> HIDE DEF n
<1>5. \A k \in 1..n :
         /\ keys'[k] \in KeyRecords
         /\ keys'[k].expires = keys[k].expires /\ keys'[k].first = keys[k].first
         /\ \/ keys'[k].active = keys[k].active
            \/ keys[k].expires # 0 /\ keys[k].expires < now
  <2> SUFFICES ASSUME NEW k \in 1..n
               PROVE  /\ keys'[k] \in KeyRecords
                      /\ keys'[k].expires = keys[k].expires /\ keys'[k].first = keys[k].first
                      /\ \/ keys'[k].active = keys[k].active
                         \/ keys[k].expires # 0 /\ keys[k].expires < now
    OBVIOUS
  <2>1. keys'[k] = IF k \in Prunable(p) THEN [keys[k] EXCEPT !.active = FALSE] ELSE keys[k]
    BY <1>3
  <2>2. k \in Prunable(p) => keys[k].expires # 0 /\ keys[k].expires < now
    BY DEF Prunable
  <2>3. keys[k] \in KeyRecords
    BY <1>4
  <2>4. CASE k \in Prunable(p)
    <3>1. keys'[k] = [keys[k] EXCEPT !.active = FALSE]
      BY <2>1, <2>4
    <3>2. keys'[k] \in KeyRecords /\ keys'[k].expires = keys[k].expires
          /\ keys'[k].first = keys[k].first
      BY <2>3, <3>1 DEF KeyRecords
    <3> QED BY <2>2, <2>4, <3>2
  <2>5. CASE k \notin Prunable(p)
    <3>1. keys'[k] = keys[k]
      BY <2>1, <2>5
    <3> QED BY <2>3, <3>1
  <2> QED BY <2>4, <2>5
<1>6. keys' \in Seq(KeyRecords) /\ DOMAIN keys' = 1..n /\ Len(keys') = n
  <2>1. keys' \in [1..n -> KeyRecords]
    BY <1>3, <1>5
  <2> QED BY <1>1, <2>1, Table
<1>7. Retires /\ keys' # << >>
  BY <1>1, <1>2, <1>5, <1>6 DEF Retires
<1>8. TypeOK' /\ prev' \in [Procs -> Nat] /\ CacheInv' /\ SigningInv' /\ TokenInv'
  BY <1>1, <1>7, RetiringKeeps DEF Prune
<1>9. NewestSigns'
  <2>1. keys[n].active /\ keys[n].expires = 0
    BY <1>1 DEF KeyInv, NewestSigns, n
  <2> QED BY <1>2, <1>5, <1>6, <2>1 DEF NewestSigns
<1>10. PrunedIsPast' /\ FirstInv'
  BY <1>1, <1>4, <1>5, <1>6 DEF KeyInv, PrunedIsPast, FirstInv, Prune
<1> QED BY <1>8, <1>9, <1>10 DEF KeyInv

(* A process that loads the table can sign with a key no rotation has      *)
(* retired yet.                                                            *)
LEMMA LoadingKeeps ==
    ASSUME KeyInv, NEW p \in Procs, NEW ph \in {"bootstrap", "up"},
           ph = "up" => Active # {}, phase[p] = "up" => ph = "up",
           cache' = [cache EXCEPT ![p] = Loaded], phase' = [phase EXCEPT ![p] = ph],
           UNCHANGED <<keys, prev, signing, tokens, now>>
    PROVE  KeyInv'
<1>1. /\ Loaded \in Caches /\ Loaded.at = now /\ Loaded.byKID = Active
      /\ Active \subseteq DOMAIN keys
      /\ Active # {} => keys # << >> /\ Len(keys) \in Active /\ Loaded.active = Len(keys)
      /\ Active = {} => Loaded.active = NoKey
  BY LoadedNewest DEF Loaded
<1>2. DOMAIN phase = Procs /\ DOMAIN cache = Procs /\ now \in Nat /\ NoKey \notin DOMAIN keys
  BY KeysTyped DEF KeyInv, TypeOK, CacheInv, NoKey
<1>3. Active # {} => keys[Len(keys)].expires = 0
  BY <1>1 DEF KeyInv, NewestSigns
<1>4. TypeOK'
  <2>1. \A q \in Procs :
           /\ cache'[q].byKID \subseteq DOMAIN keys
           /\ cache'[q].active \in cache'[q].byKID \cup {NoKey}
           /\ phase'[q] = "up" => cache'[q].active # NoKey
    <3> SUFFICES ASSUME NEW q \in Procs
                 PROVE  /\ cache'[q].byKID \subseteq DOMAIN keys
                        /\ cache'[q].active \in cache'[q].byKID \cup {NoKey}
                        /\ phase'[q] = "up" => cache'[q].active # NoKey
      OBVIOUS
    <3>1. CASE q = p
      BY <1>1, <1>2, <3>1
    <3>2. CASE q # p
      BY <1>2, <3>2 DEF KeyInv, TypeOK
    <3> QED BY <3>1, <3>2
  <2>2. phase' \in [Procs -> {"down", "bootstrap", "reload", "up", "rotate"}]
    BY DEF KeyInv, TypeOK
  <2> QED BY <2>1, <2>2 DEF KeyInv, TypeOK
<1>5. CacheInv'
  <2>1. cache' \in [Procs -> Caches]
    BY <1>1 DEF KeyInv, CacheInv
  <2>2. ASSUME NEW q \in Procs
        PROVE  /\ cache'[q].at <= now
               /\ cache'[q].active # NoKey =>
                     PublishedUntil(cache'[q].active, cache'[q].at + Overlap)
               /\ q \in Servers /\ phase'[q] = "up" => now <= cache'[q].at + ReloadEvery
               /\ phase'[q] \in {"reload", "rotate", "up"} => keys # << >>
               /\ phase'[q] = "rotate" => q \in Operators
    <3>1. CASE q = p
      BY <1>1, <1>2, <1>3, <3>1, KeystoreAssumption DEF PublishedUntil
    <3>2. CASE q # p
      BY <1>2, <3>2 DEF KeyInv, CacheInv
    <3> QED BY <3>1, <3>2
  <2> QED BY <2>1, <2>2 DEF CacheInv, PublishedUntil
<1>6. SigningInv'
  BY <1>2 DEF KeyInv, SigningInv, PublishedUntil
<1>7. TokenInv' /\ NewestSigns' /\ PrunedIsPast' /\ FirstInv' /\ prev' \in [Procs -> Nat]
  BY DEF KeyInv, TokenInv, NewestSigns, PrunedIsPast, FirstInv, PublishedUntil
<1> QED BY <1>4, <1>5, <1>6, <1>7 DEF KeyInv

LEMMA OpenKeeps ==
    ASSUME KeyInv, NEW p \in Procs, Open(p) \/ Reload(p)
    PROVE  KeyInv'
<1>1. CASE Open(p)
  <2>1. CASE Active = {}
    BY <1>1, <2>1, LoadingKeeps DEF Open
  <2>2. CASE Active # {}
    BY <1>1, <2>2, LoadingKeeps DEF Open
  <2> QED BY <2>1, <2>2
<1>2. CASE Reload(p)
  <2>1. Active # {}
    BY <1>2, LoadedNewest DEF Reload, KeyInv, CacheInv
  <2> QED BY <1>2, <2>1, LoadingKeeps DEF Reload
<1> QED BY <1>1, <1>2

LEMMA StopKeeps ==
    ASSUME KeyInv, NEW p \in Procs, Stop(p)
    PROVE  KeyInv'
<1>1. /\ DOMAIN phase = Procs /\ DOMAIN cache = Procs /\ DOMAIN signing = Procs
      /\ prev \in [Procs -> Nat] /\ now \in Nat
  BY DEF KeyInv, TypeOK, CacheInv, SigningInv
<1>2. Empty \in Caches /\ Empty.active = NoKey /\ Empty.at = 0 /\ Empty.byKID = {}
  BY DEF Empty, Caches, NoKey
<1>3. TypeOK'
  <2>1. \A q \in Procs :
           /\ cache'[q].byKID \subseteq DOMAIN keys
           /\ cache'[q].active \in cache'[q].byKID \cup {NoKey}
           /\ prev'[q] \in DOMAIN keys \cup {NoKey}
           /\ phase'[q] = "up" => cache'[q].active # NoKey
    BY <1>1, <1>2 DEF KeyInv, TypeOK, Stop
  <2>2. phase' \in [Procs -> {"down", "bootstrap", "reload", "up", "rotate"}]
    BY DEF KeyInv, TypeOK, Stop
  <2> QED BY <2>1, <2>2 DEF KeyInv, TypeOK, Stop
<1>4. CacheInv'
  <2>1. cache' \in [Procs -> Caches]
    BY <1>2 DEF KeyInv, CacheInv, Stop
  <2> QED BY <1>1, <1>2, <2>1 DEF KeyInv, CacheInv, Stop, PublishedUntil
<1>5. SigningInv'
  BY <1>1 DEF KeyInv, SigningInv, Stop, PublishedUntil, None
<1>6. prev' \in [Procs -> Nat]
  BY <1>1 DEF Stop, NoKey
<1>7. TokenInv' /\ NewestSigns' /\ PrunedIsPast' /\ FirstInv'
  BY DEF KeyInv, TokenInv, NewestSigns, PrunedIsPast, FirstInv, PublishedUntil, Stop
<1> QED BY <1>3, <1>4, <1>5, <1>6, <1>7 DEF KeyInv

LEMMA RotateReadKeeps ==
    ASSUME KeyInv, NEW p \in Operators, RotateRead(p)
    PROVE  KeyInv'
<1>1. /\ p \in Procs /\ p \notin Servers /\ DOMAIN phase = Procs
      /\ prev \in [Procs -> Nat] /\ keys # << >> /\ DOMAIN keys \subseteq Nat
  BY KeystoreAssumption, KeysTyped DEF KeyInv, TypeOK, CacheInv, Procs, RotateRead
<1>2. cache[p].active \in DOMAIN keys \cup {NoKey}
  BY <1>1 DEF KeyInv, TypeOK
<1>3. TypeOK'
  <2>1. \A q \in Procs :
           /\ prev'[q] \in DOMAIN keys \cup {NoKey}
           /\ phase'[q] = "up" => cache[q].active # NoKey
    BY <1>1, <1>2 DEF KeyInv, TypeOK, RotateRead
  <2>2. phase' \in [Procs -> {"down", "bootstrap", "reload", "up", "rotate"}]
    BY DEF KeyInv, TypeOK, RotateRead
  <2> QED BY <2>1, <2>2 DEF KeyInv, TypeOK, RotateRead
<1>4. CacheInv'
  BY <1>1 DEF KeyInv, CacheInv, RotateRead, PublishedUntil
<1>5. SigningInv'
  BY <1>1 DEF KeyInv, SigningInv, RotateRead, PublishedUntil
<1>6. prev' \in [Procs -> Nat]
  BY <1>1, <1>2 DEF RotateRead, NoKey
<1>7. TokenInv' /\ NewestSigns' /\ PrunedIsPast' /\ FirstInv'
  BY DEF KeyInv, TokenInv, NewestSigns, PrunedIsPast, FirstInv, PublishedUntil, RotateRead
<1> QED BY <1>3, <1>4, <1>5, <1>6, <1>7 DEF KeyInv

(* A server signs with a key that was not retired when it last reloaded,   *)
(* which a rotation leaves published for longer than the token lives.      *)
LEMMA SigningKeeps ==
    ASSUME KeyInv, NEW s \in Servers, SignKID(s) \/ SignKey(s) \/ Release(s)
    PROVE  KeyInv'
<1>1. /\ s \in Procs /\ phase[s] = "up" /\ DOMAIN signing = Procs /\ now \in Nat
      /\ Overlap \in Nat /\ ReloadEvery \in Nat /\ TokenTTL \in Nat \ {0}
      /\ ReloadEvery + TokenTTL <= Overlap
  BY KeystoreAssumption, KeysTyped DEF Procs, SignKID, SignKey, Release, KeyInv, SigningInv
<1>2. /\ cache[s].active \in DOMAIN keys /\ cache[s].at \in Nat
      /\ now <= cache[s].at + ReloadEvery
      /\ PublishedUntil(cache[s].active, cache[s].at + Overlap)
  BY <1>1 DEF KeyInv, TypeOK, CacheInv, Caches
<1>3. PublishedUntil(cache[s].active, now + TokenTTL)
  <2>1. keys[cache[s].active].expires \in Nat
    BY <1>2, KeysTyped
  <2> QED BY <1>1, <1>2, <2>1 DEF PublishedUntil
<1>4. CASE SignKID(s)
  <2>1. SigningInv'
    BY <1>1, <1>2, <1>3, <1>4 DEF KeyInv, SigningInv, SignKID, PublishedUntil
  <2> QED BY <1>4, <2>1 DEF SignKID, KeyInv, TypeOK, NewestSigns, PrunedIsPast, FirstInv,
                            CacheInv, TokenInv, PublishedUntil
<1>5. CASE SignKey(s)
  <2>1. SigningInv'
    BY <1>1, <1>2, <1>5 DEF KeyInv, SigningInv, SignKey, PublishedUntil
  <2> QED BY <1>5, <2>1 DEF SignKey, KeyInv, TypeOK, NewestSigns, PrunedIsPast, FirstInv,
                            CacheInv, TokenInv, PublishedUntil
<1>6. CASE Release(s)
  <2>1. SigningInv'
    BY <1>1, <1>6 DEF KeyInv, SigningInv, Release, PublishedUntil, None
  <2> DEFINE t == [kid |-> signing[s].kid, key |-> signing[s].key, exp |-> signing[s].exp]
  <2>2. /\ t.kid \in DOMAIN keys /\ t.key \in DOMAIN keys /\ t.exp \in Nat
        /\ t.exp <= now + TokenTTL /\ PublishedUntil(t.kid, t.exp)
    BY <1>1, <1>6 DEF KeyInv, SigningInv, Release
  <2>3. tokens' = tokens \/ (tokens' = tokens \cup {t} /\ Verifies(s, t))
    BY <1>6 DEF Release
  <2>4. TokenInv' /\ TypeOK'
    <3>1. CASE tokens' = tokens
      BY <1>6, <3>1 DEF Release, KeyInv, TypeOK, TokenInv, PublishedUntil
    <3>2. CASE tokens' = tokens \cup {t} /\ Verifies(s, t)
      <4>1. t \in [kid : DOMAIN keys, key : DOMAIN keys, exp : Nat]
        BY <2>2
      <4>2. t.key = t.kid /\ now < t.exp
        BY <3>2 DEF Verifies
      <4> HIDE DEF t
      <4>3. TokenInv'
        BY <1>6, <2>2, <3>2, <4>2 DEF Release, KeyInv, TokenInv, PublishedUntil
      <4> QED BY <1>6, <3>2, <4>1, <4>3 DEF Release, KeyInv, TypeOK
    <3> QED BY <2>3, <3>1, <3>2
  <2> QED BY <1>6, <2>1, <2>4 DEF Release, KeyInv, NewestSigns, PrunedIsPast, FirstInv,
                                  CacheInv, PublishedUntil
<1> QED BY <1>4, <1>5, <1>6

LEMMA TickKeeps ==
    ASSUME KeyInv, Tick
    PROVE  KeyInv'
<1>1. now \in Nat /\ now' = now + 1 /\ ReloadEvery \in Nat /\ TokenTTL \in Nat
  BY KeystoreAssumption, KeysTyped DEF Tick
<1>2. TypeOK' /\ NewestSigns' /\ FirstInv' /\ prev' \in [Procs -> Nat]
  BY <1>1 DEF KeyInv, TypeOK, NewestSigns, FirstInv, Tick
<1>3. PrunedIsPast'
  <2> SUFFICES ASSUME NEW k \in DOMAIN keys, ~keys[k].active
               PROVE  keys[k].expires # 0 /\ keys[k].expires < now'
    BY DEF PrunedIsPast, Tick
  <2>1. keys[k].expires \in Nat
    BY KeysTyped
  <2> QED BY <1>1, <2>1 DEF KeyInv, PrunedIsPast
<1>4. CacheInv'
  <2>1. \A q \in Procs : cache[q].at \in Nat
    BY DEF KeyInv, CacheInv, Caches
  <2>2. \A q \in Procs : q \in Servers /\ phase[q] = "up" => now' <= cache[q].at + ReloadEvery
    BY <1>1, <2>1 DEF Tick
  <2>3. \A q \in Procs : cache[q].at <= now'
    BY <1>1, <2>1 DEF KeyInv, CacheInv
  <2> QED BY <2>2, <2>3 DEF KeyInv, CacheInv, Tick, PublishedUntil
<1>5. SigningInv'
  <2>1. \A q \in Procs : signing[q].pc # "none" =>
           signing[q].exp \in Nat /\ signing[q].exp <= now' + TokenTTL
    BY <1>1 DEF KeyInv, SigningInv
  <2> QED BY <2>1 DEF KeyInv, SigningInv, Tick, PublishedUntil
<1>6. TokenInv'
  <2> SUFFICES ASSUME NEW t \in tokens, t.exp > now + 1
               PROVE  t.exp <= now + 1 + TokenTTL /\ now + 1 < t.exp
    BY <1>1 DEF KeyInv, TokenInv, Tick, PublishedUntil
  <2>1. t.exp \in Nat
    BY DEF KeyInv, TypeOK
  <2> QED BY <1>1, <2>1 DEF KeyInv, TokenInv
<1> QED BY <1>2, <1>3, <1>4, <1>5, <1>6 DEF KeyInv

LEMMA KeyInvariant == Spec => []KeyInv
<1>1. Init => KeyInv
  <2> SUFFICES ASSUME Init PROVE KeyInv
    OBVIOUS
  <2>1. keys = << >> /\ DOMAIN keys = {} /\ keys \in Seq(KeyRecords) /\ tokens = {} /\ now = 0
    BY EmptySeq DEF Init
  <2>2. TypeOK /\ prev \in [Procs -> Nat]
    BY <2>1 DEF Init, TypeOK, KeyRecords, Empty, NoKey
  <2>3. CacheInv
    BY <2>1, KeystoreAssumption DEF Init, CacheInv, Caches, Empty, NoKey
  <2>4. SigningInv
    BY DEF Init, SigningInv, None
  <2> QED BY <2>1, <2>2, <2>3, <2>4 DEF KeyInv, TokenInv, NewestSigns, PrunedIsPast, FirstInv
<1>2. KeyInv /\ [Next]_vars => KeyInv'
  <2> SUFFICES ASSUME KeyInv, [Next]_vars PROVE KeyInv'
    OBVIOUS
  <2>1. CASE Next
    <3>1. ASSUME NEW p \in Procs, OpenKeystore(p) PROVE KeyInv'
      BY <3>1, OpenKeeps, BootstrapKeeps DEF OpenKeystore
    <3>2. ASSUME NEW p \in Procs, Stop(p) PROVE KeyInv'
      BY <3>2, StopKeeps
    <3>3. ASSUME NEW p \in Operators, KeysRotate(p) PROVE KeyInv'
      BY <3>3, RotateReadKeeps, RotateKeeps DEF KeysRotate
    <3>4. ASSUME NEW p \in Operators, Prune(p) PROVE KeyInv'
      BY <3>4, PruneKeeps
    <3>5. ASSUME NEW s \in Servers, SignKID(s) \/ SignKey(s) \/ Release(s) PROVE KeyInv'
      BY <3>5, SigningKeeps
    <3>6. CASE Tick
      BY <3>6, TickKeeps
    <3> QED BY <2>1, <3>1, <3>2, <3>3, <3>4, <3>5, <3>6 DEF Next
  <2>2. CASE UNCHANGED vars
    BY <2>2 DEF vars, KeyInv, TypeOK, NewestSigns, PrunedIsPast, FirstInv, CacheInv,
                SigningInv, TokenInv, PublishedUntil
  <2> QED BY <2>1, <2>2
<1> QED BY <1>1, <1>2, PTL DEF Spec

(* Every variable stays of its type.                                       *)
THEOREM TypeCorrect == Spec => []TypeOK
<1>1. KeyInv => TypeOK
  BY DEF KeyInv
<1> QED BY <1>1, KeyInvariant, PTL

(* Processes that start together against an empty table insert one first   *)
(* key (bootstrap, with its second look under the lock).                   *)
THEOREM BootstrapsOnce == Spec => []OneFirstKey
<1>1. KeyInv => OneFirstKey
  <2> SUFFICES ASSUME KeyInv PROVE OneFirstKey
    OBVIOUS
  <2> DEFINE firsts == {k \in DOMAIN keys : keys[k].first}
  <2>1. firsts \subseteq {1}
    BY DEF KeyInv, FirstInv
  <2>2. IsFiniteSet({1}) /\ Cardinality({1}) = 1
    BY FS_Singleton
  <2>3. Cardinality(firsts) <= Cardinality({1})
    BY <2>1, <2>2, FS_Subset
  <2> QED BY <2>2, <2>3 DEF OneFirstKey
<1> QED BY <1>1, KeyInvariant, PTL

(* However rotations and prunes on stale caches interleave, a key that no  *)
(* prune takes is left to sign with.                                       *)
THEOREM AlwaysASigner == Spec => []SignerRemains
<1>1. KeyInv => SignerRemains
  <2> SUFFICES ASSUME KeyInv, keys # << >>
               PROVE  Len(keys) \in Active /\ keys[Len(keys)].expires = 0
    BY DEF SignerRemains
  <2> QED BY LoadedNewest DEF KeyInv, NewestSigns
<1> QED BY <1>1, KeyInvariant, PTL

LEMMA TokensPublished == KeyInv => TokensKeepVerifying
<1> SUFFICES ASSUME KeyInv, NEW t \in tokens
             PROVE  t.key = t.kid /\ t.kid \in Active
  BY DEF TokensKeepVerifying
<1>1. /\ t.kid \in DOMAIN keys /\ t.exp \in Nat /\ now < t.exp /\ t.key = t.kid
      /\ PublishedUntil(t.kid, t.exp)
  BY DEF KeyInv, TypeOK, TokenInv
<1>2. keys[t.kid].expires \in Nat /\ now \in Nat
  BY <1>1, KeysTyped
<1>3. keys[t.kid].active
  BY <1>1, <1>2 DEF KeyInv, PrunedIsPast, PublishedUntil
<1> QED BY <1>1, <1>3 DEF Active

(* The key of a token handed out stays published until the token expires   *)
(* (Rotate with its overlap, Prune, and the check after signing).          *)
THEOREM TokensOutliveRotation == Spec => []TokensKeepVerifying
BY TokensPublished, KeyInvariant, PTL

(* A running server that accepts a token accepts it until it expires,      *)
(* whatever it reloads in between.                                         *)
THEOREM AcceptanceLasts == Spec => AcceptedStaysAccepted
<1> DEFINE Lasts == \A s \in Servers, t \in tokens :
              /\ phase[s] = "up" /\ phase'[s] = "up"
              /\ Verifies(s, t) /\ now' < t.exp
              => Verifies(s, t)'
<1>1. KeyInv /\ [Next]_vars => [Lasts]_vars
  <2> SUFFICES ASSUME KeyInv, Next, NEW s \in Servers, NEW t \in tokens,
                      phase[s] = "up", phase'[s] = "up", Verifies(s, t), now' < t.exp
               PROVE  t.kid \in cache'[s].byKID
    BY DEF Verifies
  <2>1. t.kid \in Active /\ t.kid \in cache[s].byKID
    BY TokensPublished DEF TokensKeepVerifying, Verifies
  <2>2. DOMAIN cache = Procs /\ s \in Procs /\ DOMAIN phase = Procs
    BY DEF KeyInv, CacheInv, TypeOK, Procs
  <2>3. cache'[s] = cache[s] \/ cache'[s] = Loaded
    BY <2>2 DEF Next, OpenKeystore, Open, Bootstrap, Reload, Stop, KeysRotate, RotateRead,
                Rotate, Prune, SignKID, SignKey, Release, Tick
  <2> QED BY <2>1, <2>3 DEF Loaded
<1> QED BY <1>1, KeyInvariant, PTL DEF Spec, AcceptedStaysAccepted
-----------------------------------------------------------------------------
(* Resource servers.  What a site knows was published when it started, and *)
(* what was published then is what is active now but for later keys.       *)

(* A cache has every key inserted before it was loaded.                    *)
CachesComplete ==
    \A p \in Procs, k \in Active : born[k] < cache[p].at => k \in cache[p].byKID

SitesKnow ==
    \A x \in Sites, k \in Active :
        site[x].pc # "off" => k \in site[x].keys \/ Later(k, x)

(* A feed that was read listed what had been revoked by then.              *)
SitesRemember ==
    \A x \in Sites, t \in DOMAIN revoked :
        site[x].pc = "up" /\ revoked[t] < site[x].fetchedAt => t \in site[x].revoked

SitesHear ==
    \A x \in Sites :
        /\ told[x] \subseteq DOMAIN revoked
        /\ site[x].pc = "up" /\ (\A k \in DOMAIN keys : ~Later(k, x)) =>
              told[x] \subseteq site[x].revoked

SiteInv ==
    /\ SiteTypeOK /\ CachesComplete /\ SitesKnow /\ SitesRemember /\ SitesHear

(* Keys are never activated again, and a cache is kept, loaded or lost.    *)
LEMMA IssuerSteps ==
    ASSUME KeyInv, Next
    PROVE  /\ DOMAIN keys \subseteq DOMAIN keys' /\ Active' \cap DOMAIN keys \subseteq Active
           /\ now' \in Nat /\ now <= now'
           /\ \A p \in Procs : \/ cache'[p] = cache[p]
                               \/ cache'[p] = Empty
                               \/ cache'[p] = Loaded /\ keys' = keys
<1> DEFINE Grows == DOMAIN keys \subseteq DOMAIN keys' /\ Active' \cap DOMAIN keys \subseteq Active
           Moves == now' \in Nat /\ now <= now'
           Loads == \A p \in Procs : \/ cache'[p] = cache[p]
                                     \/ cache'[p] = Empty
                                     \/ cache'[p] = Loaded /\ keys' = keys
<1>1. /\ keys \in Seq(KeyRecords) /\ Len(keys) \in Nat /\ DOMAIN keys = 1..Len(keys)
      /\ now \in Nat /\ DOMAIN cache = Procs /\ Operators \subseteq Procs /\ Servers \subseteq Procs
  BY KeysTyped DEF KeyInv, TypeOK, CacheInv, Procs
<1>2. keys' = keys => Grows
  BY DEF Active
<1>3. now' = now => Moves
  BY <1>1
<1>4. cache' = cache => Loads
  OBVIOUS
<1>5. \A f \in BOOLEAN : NewKey(f) \in KeyRecords
  BY DEF NewKey, KeyRecords
<1>6. ASSUME NEW k \in KeyRecords
      PROVE  /\ DOMAIN Append(keys, k) = 1..(Len(keys) + 1)
             /\ \A i \in DOMAIN keys : Append(keys, k)[i] = keys[i]
  <2>1. /\ Append(keys, k) \in Seq(KeyRecords) /\ Len(Append(keys, k)) = Len(keys) + 1
        /\ \A i \in 1..Len(keys) : Append(keys, k)[i] = keys[i]
    BY <1>1, AppendProperties
  <2> QED BY <1>1, <2>1, LenProperties
<1>7. ASSUME NEW p \in Procs, OpenKeystore(p) \/ Stop(p)
      PROVE  Grows /\ Moves /\ Loads
  <2>1. CASE Open(p) \/ Reload(p)
    <3>1. keys' = keys /\ now' = now /\ cache' = [cache EXCEPT ![p] = Loaded]
      BY <2>1 DEF Open, Reload
    <3>2. Loads
      BY <1>1, <3>1
    <3> QED BY <1>2, <1>3, <3>1, <3>2
  <2>2. CASE Bootstrap(p)
    <3>1. now' = now /\ cache' = cache
      BY <2>2 DEF Bootstrap
    <3>2. keys' = keys \/ keys' = Append(keys, NewKey(TRUE))
      BY <2>2 DEF Bootstrap, FirstKey
    <3>3. CASE keys' = Append(keys, NewKey(TRUE))
      <4>1. /\ DOMAIN keys' = 1..(Len(keys) + 1)
            /\ \A i \in DOMAIN keys : keys'[i] = keys[i]
        BY <1>5, <1>6, <3>3
      <4> QED BY <1>1, <1>3, <1>4, <3>1, <4>1 DEF Active
    <3> QED BY <1>2, <1>3, <1>4, <3>1, <3>2, <3>3
  <2>3. CASE Stop(p)
    <3>1. keys' = keys /\ now' = now /\ cache' = [cache EXCEPT ![p] = Empty]
      BY <2>3 DEF Stop
    <3>2. Loads
      BY <1>1, <3>1
    <3> QED BY <1>2, <1>3, <3>1, <3>2
  <2> QED BY <1>7, <2>1, <2>2, <2>3 DEF OpenKeystore
<1>8. ASSUME NEW p \in Operators, RotateRead(p) \/ Rotate(p) \/ Prune(p)
      PROVE  Grows /\ Moves /\ Loads
  <2>1. now' = now /\ cache' = cache
    BY <1>8 DEF RotateRead, Rotate, Prune
  <2>2. CASE RotateRead(p)
    <3>1. keys' = keys
      BY <2>2 DEF RotateRead
    <3> QED BY <1>2, <1>3, <1>4, <2>1, <3>1
  <2>3. CASE Rotate(p)
    <3> DEFINE longer == Append(keys, NewKey(FALSE))
    <3>1. keys' = Retire(longer, p)
      BY <2>3 DEF Rotate
    <3>2. DOMAIN longer = 1..(Len(keys) + 1) /\ \A i \in DOMAIN keys : longer[i] = keys[i]
      BY <1>5, <1>6
    <3> HIDE DEF longer
    <3>3. DOMAIN keys' = DOMAIN longer
      BY <3>1 DEF Retire
    <3>4. \A i \in DOMAIN keys : i \in DOMAIN longer /\ longer[i] = keys[i]
      BY <1>1, <3>2
    <3>5. ASSUME NEW i \in DOMAIN keys, keys'[i].active PROVE keys[i].active
      <4>1. keys'[i] = longer[i] \/ keys'[i] = [longer[i] EXCEPT !.expires = now + Overlap]
        BY <3>1, <3>4 DEF Retire
      <4>2. longer[i] \in KeyRecords
        BY <1>1, <3>4, KeysTyped
      <4> QED BY <3>4, <3>5, <4>1, <4>2 DEF KeyRecords
    <3>6. Grows
      BY <1>1, <3>2, <3>3, <3>5 DEF Active
    <3> QED BY <1>3, <1>4, <2>1, <3>6
  <2>4. CASE Prune(p)
    <3>1. DOMAIN keys' = DOMAIN keys
      BY <2>4 DEF Prune
    <3>2. ASSUME NEW i \in DOMAIN keys, keys'[i].active PROVE keys[i].active
      <4>1. keys'[i] = keys[i] \/ keys'[i] = [keys[i] EXCEPT !.active = FALSE]
        BY <2>4 DEF Prune
      <4>2. keys[i] \in KeyRecords
        BY <1>1, KeysTyped
      <4> QED BY <3>2, <4>1, <4>2 DEF KeyRecords
    <3> QED BY <1>3, <1>4, <2>1, <3>1, <3>2 DEF Active
  <2> QED BY <1>8, <2>2, <2>3, <2>4
<1>9. ASSUME NEW s \in Servers, SignKID(s) \/ SignKey(s) \/ Release(s)
      PROVE  Grows /\ Moves /\ Loads
  <2>1. keys' = keys /\ cache' = cache /\ now' = now
    BY <1>9 DEF SignKID, SignKey, Release
  <2> QED BY <1>2, <1>3, <1>4, <2>1
<1>10. CASE Tick
  <2>1. keys' = keys /\ cache' = cache /\ now' = now + 1
    BY <1>10 DEF Tick
  <2> QED BY <1>1, <1>2, <1>4, <2>1
<1> QED BY <1>7, <1>8, <1>9, <1>10 DEF Next, KeysRotate

LEMMA IssuerKeepsSites ==
    ASSUME KeyInv, KeyInv', SiteInv, IssuerStep
    PROVE  SiteInv'
<1>1. /\ DOMAIN keys \subseteq DOMAIN keys' /\ Active' \cap DOMAIN keys \subseteq Active
      /\ now \in Nat /\ now' \in Nat /\ now <= now'
      /\ \A p \in Procs : \/ cache'[p] = cache[p]
                          \/ cache'[p] = Empty
                          \/ cache'[p] = Loaded /\ keys' = keys
  BY IssuerSteps, KeysTyped DEF IssuerStep, KeyInv, TypeOK
<1>2. /\ DOMAIN born = DOMAIN keys /\ \A k \in DOMAIN keys : born[k] \in 0..now
      /\ \A t \in DOMAIN revoked : revoked[t] \in 0..now
      /\ site \in [Sites -> SiteStates] /\ told \in [Sites -> SUBSET tokens]
  BY DEF SiteInv, SiteTypeOK
<1>3. /\ DOMAIN born' = DOMAIN keys' /\ \A k \in DOMAIN keys : born'[k] = born[k]
      /\ \A k \in DOMAIN keys' : k \notin DOMAIN keys => born'[k] = now
  BY <1>1, <1>2 DEF IssuerStep
<1>4. /\ DOMAIN revoked' = DOMAIN revoked \cap tokens'
      /\ \A t \in DOMAIN revoked' : revoked'[t] = revoked[t]
      /\ told' = [x \in Sites |-> told[x] \cap tokens'] /\ site' = site
  BY DEF IssuerStep
<1>5. Active' \subseteq DOMAIN keys'
  BY DEF Active
<1>6. SiteTypeOK'
  <2>1. \A k \in DOMAIN keys' : born'[k] \in 0..now'
    BY <1>1, <1>2, <1>3
  <2>2. DOMAIN revoked' \subseteq tokens' /\ \A t \in DOMAIN revoked' : revoked'[t] \in 0..now'
    BY <1>1, <1>2, <1>4
  <2>3. SiteStates \subseteq SiteStates'
    <3>1. 0..now \subseteq 0..now'
      BY <1>1
    <3> QED BY <1>1, <3>1 DEF SiteStates
  <2>4. told' \in [Sites -> SUBSET tokens']
    BY <1>4
  <2> QED BY <1>2, <1>3, <1>4, <2>1, <2>2, <2>3, <2>4 DEF SiteTypeOK
<1>7. CachesComplete'
  <2> SUFFICES ASSUME NEW p \in Procs, NEW k \in Active', born'[k] < cache'[p].at
               PROVE  k \in cache'[p].byKID
    BY DEF CachesComplete
  <2>1. cache'[p].at <= now /\ cache'[p].at \in Nat
    <3>1. cache[p].at \in Nat /\ cache[p].at <= now
      BY DEF KeyInv, CacheInv, Caches
    <3>2. Loaded.at = now /\ Empty.at = 0
      BY DEF Loaded, Empty
    <3> QED BY <1>1, <3>1, <3>2
  <2>2. k \in DOMAIN keys
    BY <1>1, <1>3, <1>5, <2>1
  <2>3. k \in Active /\ born'[k] = born[k] /\ born[k] \in Nat
    BY <1>1, <1>2, <1>3, <2>2
  <2>4. CASE cache'[p] = cache[p]
    BY <2>3, <2>4 DEF SiteInv, CachesComplete
  <2>5. CASE cache'[p] = Empty
    BY <2>3, <2>5 DEF Empty
  <2>6. CASE cache'[p] = Loaded
    BY <2>3, <2>6 DEF Loaded
  <2> QED BY <1>1, <2>4, <2>5, <2>6
<1>8. \A k \in DOMAIN keys, x \in Sites : Later(k, x)' <=> Later(k, x)
  BY <1>3, <1>4 DEF Later
<1>9. SitesKnow'
  <2> SUFFICES ASSUME NEW x \in Sites, NEW k \in Active', site'[x].pc # "off"
               PROVE  k \in site'[x].keys \/ Later(k, x)'
    BY DEF SitesKnow
  <2>1. CASE k \in DOMAIN keys
    BY <1>1, <1>4, <1>8, <2>1 DEF SiteInv, SitesKnow
  <2>2. CASE k \notin DOMAIN keys
    <3>1. born'[k] = now
      BY <1>3, <1>5, <2>2
    <3>2. site[x].at \in 0..now
      BY <1>2, <1>4 DEF SiteStates, Off
    <3> QED BY <1>1, <1>4, <3>1, <3>2, KeystoreAssumption DEF Later
  <2> QED BY <2>1, <2>2
<1>10. SitesRemember'
  BY <1>4 DEF SiteInv, SitesRemember
<1>11. SitesHear'
  <2> SUFFICES ASSUME NEW x \in Sites
               PROVE  /\ told'[x] \subseteq DOMAIN revoked'
                      /\ site'[x].pc = "up" /\ (\A k \in DOMAIN keys' : ~Later(k, x)') =>
                            told'[x] \subseteq site'[x].revoked
    BY DEF SitesHear
  <2>1. told[x] \subseteq DOMAIN revoked
    BY DEF SiteInv, SitesHear
  <2>2. (\A k \in DOMAIN keys' : ~Later(k, x)') => \A k \in DOMAIN keys : ~Later(k, x)
    BY <1>1, <1>8
  <2> QED BY <1>4, <2>1, <2>2 DEF SiteInv, SitesHear
<1> QED BY <1>6, <1>7, <1>9, <1>10, <1>11 DEF SiteInv

(* A running server knows every active key but those inserted less than a  *)
(* reload period ago, and the key it signs with is active.                 *)
LEMMA ServersKnow ==
    ASSUME KeyInv, SiteInv, NEW s \in Servers, phase[s] = "up"
    PROVE  /\ \A k \in Active : k \in VerifierKeys(s) \/ born[k] + ReloadEvery >= now
           /\ VerifierKeys(s) \subseteq DOMAIN keys
           /\ Feed(s).kid \in Active
<1>1. /\ s \in Procs /\ cache[s].at \in Nat /\ cache[s].at <= now /\ now \in Nat
      /\ now <= cache[s].at + ReloadEvery /\ ReloadEvery + TokenTTL <= Overlap
      /\ ReloadEvery \in Nat /\ TokenTTL \in Nat \ {0} /\ Overlap \in Nat
  BY KeystoreAssumption DEF KeyInv, TypeOK, CacheInv, Caches, Procs
<1>2. ASSUME NEW k \in Active, k \notin VerifierKeys(s)
      PROVE  born[k] + ReloadEvery >= now
  <2>1. born[k] \in Nat
    BY DEF SiteInv, SiteTypeOK, Active
  <2>2. ~(born[k] < cache[s].at)
    BY <1>1, <1>2 DEF SiteInv, CachesComplete, VerifierKeys
  <2> QED BY <1>1, <2>1, <2>2
<1>3. VerifierKeys(s) \subseteq DOMAIN keys
  BY <1>1 DEF KeyInv, TypeOK, VerifierKeys
<1>4. Feed(s).kid \in Active
  <2> DEFINE a == cache[s].active
  <2>1. a # NoKey /\ a \in DOMAIN keys /\ PublishedUntil(a, cache[s].at + Overlap)
    BY <1>1 DEF KeyInv, TypeOK, CacheInv
  <2>2. keys[a].expires \in Nat
    BY <2>1, KeysTyped
  <2>3. keys[a].active
    BY <1>1, <2>1, <2>2 DEF KeyInv, PrunedIsPast, PublishedUntil
  <2> QED BY <2>1, <2>3 DEF Feed, Active
<1> QED BY <1>2, <1>3, <1>4

LEMMA SitesKeep ==
    ASSUME KeyInv, SiteInv, SiteStep
    PROVE  SiteInv'
<1>1. UNCHANGED <<vars, born, revoked>>
  BY DEF SiteStep, FetchJWKS, FetchRevocationFeed, Refresh, SiteEnds
<1>2. UNCHANGED <<keys, phase, cache, tokens, now>> /\ Active' = Active
  BY <1>1 DEF vars, Active
<1>3. /\ site \in [Sites -> SiteStates] /\ told \in [Sites -> SUBSET tokens]
      /\ SiteStates' = SiteStates /\ DOMAIN revoked \subseteq tokens
      /\ \A t \in DOMAIN revoked : revoked[t] \in 0..now
      /\ tokens \subseteq [kid : Nat, key : Nat, exp : Nat] /\ now \in Nat
      /\ \A k \in DOMAIN keys : born[k] \in 0..now
  <2>1. tokens \subseteq [kid : Nat, key : Nat, exp : Nat]
    BY KeysTyped DEF KeyInv, TypeOK
  <2> QED BY <1>1, <1>2, <2>1 DEF SiteInv, SiteTypeOK, SiteStates, KeyInv, TypeOK
<1>4. CachesComplete'
  BY <1>1, <1>2 DEF SiteInv, CachesComplete
<1>5. PICK x \in Sites :
         \/ \E s \in Servers, strict \in BOOLEAN : FetchJWKS(x, s, strict)
         \/ \E s \in Servers : FetchRevocationFeed(x, s) \/ Refresh(x, s)
         \/ SiteEnds(x)
  BY DEF SiteStep
<1>6. /\ \A y \in Sites \ {x} : site'[y] = site[y] /\ told'[y] = told[y]
      /\ DOMAIN site' = Sites /\ site' = [y \in Sites |-> site'[y]]
      /\ told' = [y \in Sites |-> told'[y]]
  BY <1>3, <1>5 DEF FetchJWKS, FetchRevocationFeed, Refresh, SiteEnds
(* What the site holds afterwards.                                         *)
<1> DEFINE Good(z, heard) ==
              /\ z \in SiteStates /\ heard \subseteq DOMAIN revoked
              /\ z.pc # "off" => \A k \in Active : k \in z.keys \/ born[k] + ReloadEvery >= z.at
              /\ z.pc = "up" =>
                    /\ \A t \in DOMAIN revoked : revoked[t] < z.fetchedAt => t \in z.revoked
                    /\ (\A k \in DOMAIN keys : ~(born[k] + ReloadEvery >= z.at)) =>
                          heard \subseteq z.revoked
<1>7. \A y \in Sites : Good(site[y], told[y])
  BY <1>3 DEF SiteInv, SitesKnow, SitesRemember, SitesHear, Later
<1>8. Good(Off, {})
  BY DEF SiteStates, Off
<1>9. ASSUME NEW s \in Servers, phase[s] = "up", site[x].pc # "off",
             Known(x, Feed(s)), NEW heard \in SUBSET DOMAIN revoked
      PROVE  Good(Snapshot(x, Feed(s)), heard)
  <2> DEFINE z == Snapshot(x, Feed(s))
  <2>1. /\ z.pc = "up" /\ z.keys = site[x].keys /\ z.at = site[x].at
        /\ z.revoked = DOMAIN revoked /\ z.fetchedAt = now
    BY DEF Snapshot, Feed
  <2>2. z \in SiteStates
    <3>1. /\ site[x].keys \in SUBSET (DOMAIN keys) /\ site[x].at \in 0..now
          /\ site[x].strict \in BOOLEAN
      BY <1>3, <1>9 DEF SiteStates, Off
    <3>2. now \in 0..now /\ DOMAIN revoked \in SUBSET [kid : Nat, key : Nat, exp : Nat]
      BY <1>3
    <3> QED BY <3>1, <3>2 DEF Snapshot, Feed, SiteStates
  <2> HIDE DEF z
  <2>3. \A k \in Active : k \in z.keys \/ born[k] + ReloadEvery >= z.at
    BY <1>7, <1>9, <2>1
  <2> QED BY <2>1, <2>2, <2>3 DEF z
<1>10. Good(site'[x], told'[x])
  <2>1. ASSUME NEW s \in Servers, NEW strict \in BOOLEAN, FetchJWKS(x, s, strict)
        PROVE  Good(site'[x], told'[x])
    <3> DEFINE z == [pc |-> "keys", keys |-> VerifierKeys(s), at |-> now, strict |-> strict]
    <3>1. site'[x] = z /\ told' = told /\ phase[s] = "up"
      BY <1>3, <2>1 DEF FetchJWKS
    <3>2. /\ \A k \in Active : k \in VerifierKeys(s) \/ born[k] + ReloadEvery >= now
          /\ VerifierKeys(s) \subseteq DOMAIN keys
      BY <3>1, ServersKnow
    <3>3. now \in 0..now
      BY <1>3
    <3>4. z \in SiteStates
      BY <3>2, <3>3 DEF SiteStates
    <3>5. told[x] \subseteq DOMAIN revoked
      BY <1>7
    <3> QED BY <3>1, <3>2, <3>4, <3>5
  <2>2. ASSUME NEW s \in Servers, FetchRevocationFeed(x, s)
        PROVE  Good(site'[x], told'[x])
    <3>1. CASE Known(x, Feed(s))
      <4>1. /\ site'[x] = Snapshot(x, Feed(s)) /\ told'[x] = DOMAIN revoked
            /\ phase[s] = "up" /\ site[x].pc # "off"
        BY <1>3, <2>2, <3>1 DEF FetchRevocationFeed, Feed
      <4> QED BY <1>9, <3>1, <4>1
    <3>2. CASE ~Known(x, Feed(s))
      <4>1. site'[x] = Off /\ told'[x] = {}
        BY <1>3, <2>2, <3>2 DEF FetchRevocationFeed
      <4> QED BY <1>8, <4>1
    <3> QED BY <3>1, <3>2
  <2>3. ASSUME NEW s \in Servers, Refresh(x, s)
        PROVE  Good(site'[x], told'[x])
    <3>1. /\ site'[x] = Applied(x, Feed(s)) /\ told'[x] = told[x] \cup DOMAIN revoked
          /\ phase[s] = "up" /\ site[x].pc = "up"
      BY <1>3, <2>3 DEF Refresh, Feed
    <3>2. told[x] \subseteq DOMAIN revoked
      BY <1>7
    <3>3. CASE Known(x, Feed(s))
      <4>1. site'[x] = Snapshot(x, Feed(s))
        BY <3>1, <3>3 DEF Applied
      <4> QED BY <1>9, <3>1, <3>2, <3>3, <4>1
    <3>4. CASE ~Known(x, Feed(s))
      <4>1. site'[x] = site[x]
        BY <3>1, <3>4 DEF Applied
      <4>2. Feed(s).kid \in Active /\ Feed(s).kid \notin site[x].keys
        BY <3>1, <3>4, ServersKnow DEF Known
      <4>3. Feed(s).kid \in DOMAIN keys /\ born[Feed(s).kid] + ReloadEvery >= site[x].at
        BY <1>7, <3>1, <4>2 DEF Active
      <4> QED BY <1>7, <3>1, <3>2, <4>1, <4>3
    <3> QED BY <3>3, <3>4
  <2>4. ASSUME SiteEnds(x) PROVE Good(site'[x], told'[x])
    <3>1. site'[x] = Off /\ told'[x] = {}
      BY <1>3, <2>4 DEF SiteEnds
    <3> QED BY <1>8, <3>1
  <2> QED BY <1>5, <2>1, <2>2, <2>3, <2>4
<1>11. \A y \in Sites : Good(site'[y], told'[y])
  BY <1>6, <1>7, <1>10
<1>12. SiteTypeOK'
  <2>1. site' \in [Sites -> SiteStates'] /\ told' \in [Sites -> SUBSET tokens']
    BY <1>2, <1>3, <1>6, <1>11
  <2> QED BY <1>1, <1>2, <2>1 DEF SiteInv, SiteTypeOK
<1>13. SitesKnow' /\ SitesRemember' /\ SitesHear'
  BY <1>1, <1>2, <1>11 DEF SitesKnow, SitesRemember, SitesHear, Later
<1> QED BY <1>4, <1>12, <1>13 DEF SiteInv

LEMMA RevokingKeeps ==
    ASSUME KeyInv, SiteInv, NEW t \in tokens, RevokeToken(t)
    PROVE  SiteInv'
<1>1. /\ UNCHANGED <<keys, phase, cache, tokens, now, born, site, told>> /\ Active' = Active
      /\ now \in Nat
  BY DEF RevokeToken, vars, Active, KeyInv, TypeOK
<1>2. /\ DOMAIN revoked' = DOMAIN revoked \cup {t}
      /\ \A u \in DOMAIN revoked' : revoked'[u] = IF u = t THEN now ELSE revoked[u]
  BY DEF RevokeToken
<1>3. SiteTypeOK'
  <2>1. SiteStates' = SiteStates
    BY <1>1 DEF SiteStates
  <2> QED BY <1>1, <1>2, <2>1 DEF SiteInv, SiteTypeOK
<1>4. SitesRemember'
  <2> SUFFICES ASSUME NEW x \in Sites, NEW u \in DOMAIN revoked', site[x].pc = "up",
                      revoked'[u] < site[x].fetchedAt
               PROVE  u \in site[x].revoked
    BY <1>1 DEF SitesRemember
  <2>1. site[x].fetchedAt \in 0..now
    BY DEF SiteInv, SiteTypeOK, SiteStates, Off
  <2>2. u # t
    BY <1>1, <1>2, <2>1
  <2> QED BY <1>2, <2>2 DEF SiteInv, SitesRemember
<1>5. CachesComplete' /\ SitesKnow' /\ SitesHear'
  BY <1>1, <1>2 DEF SiteInv, CachesComplete, SitesKnow, SitesHear, Later
<1> QED BY <1>3, <1>4, <1>5 DEF SiteInv

(* The sites leave the issuer alone.                                       *)
LEMMA SitesRunTheIssuer == SiteSpec => Spec
<1>1. SiteInit => Init
  BY DEF SiteInit
<1>2. [SiteNext]_<<vars, siteVars>> => [Next]_vars
  BY DEF SiteNext, IssuerStep, SiteStep, FetchJWKS, FetchRevocationFeed, Refresh, SiteEnds,
         RevokeToken
<1> QED BY <1>1, <1>2, PTL DEF SiteSpec, Spec

LEMMA SiteInvariant == SiteSpec => [](KeyInv /\ SiteInv)
<1>1. SiteInit => SiteInv
  <2> SUFFICES ASSUME SiteInit PROVE SiteInv
    OBVIOUS
  <2>1. /\ DOMAIN keys = {} /\ DOMAIN born = {} /\ Active = {} /\ DOMAIN revoked = {}
        /\ site = [x \in Sites |-> Off] /\ told = [x \in Sites |-> {}]
    BY EmptySeq DEF SiteInit, Init, Active
  <2>2. SiteTypeOK
    BY <2>1 DEF SiteTypeOK, SiteStates
  <2> QED BY <2>1, <2>2 DEF SiteInv, CachesComplete, SitesKnow, SitesRemember, SitesHear, Off
<1>2. KeyInv /\ KeyInv' /\ SiteInv /\ [SiteNext]_<<vars, siteVars>> => SiteInv'
  <2> SUFFICES ASSUME KeyInv, KeyInv', SiteInv, [SiteNext]_<<vars, siteVars>> PROVE SiteInv'
    OBVIOUS
  <2>1. CASE UNCHANGED <<vars, siteVars>>
    <3>1. /\ UNCHANGED <<keys, phase, cache, tokens, now, born, revoked, site, told>>
          /\ Active' = Active
      BY <2>1 DEF vars, siteVars, Active
    <3>2. SiteStates' = SiteStates
      BY <3>1 DEF SiteStates
    <3> QED BY <3>1, <3>2 DEF SiteInv, SiteTypeOK, CachesComplete, SitesKnow, SitesRemember,
                              SitesHear, Later
  <2> QED BY <2>1, IssuerKeepsSites, SitesKeep, RevokingKeeps DEF SiteNext
<1> QED BY <1>1, <1>2, KeyInvariant, SitesRunTheIssuer, PTL DEF SiteSpec

(* SiteTypeOK of ResourceServers: whatever feed a site is sent or cannot   *)
(* read, it holds keys of the table and a snapshot that is not from the    *)
(* future (FetchJWKS, RevocationFeed.apply).                               *)
THEOREM SitesTypeCorrect == SiteSpec => []SiteTypeOK
<1>1. SiteInv => SiteTypeOK
  BY DEF SiteInv
<1> QED BY <1>1, SiteInvariant, PTL

(* A site that starts more than a reload period after the last rotation    *)
(* knows the key of every token (FetchJWKS, reloadKeystoreLoop).           *)
THEOREM FreshSitesServe == SiteSpec => []FreshKeysServe
<1>1. KeyInv /\ SiteInv => FreshKeysServe
  BY TokensPublished DEF SiteInv, SitesKnow, FreshKeysServe, TokensKeepVerifying
<1> QED BY <1>1, SiteInvariant, PTL

(* WithFeedFailClosed bounds how long a revoked token is accepted, with    *)
(* rotations too (Verifier.Verify).                                        *)
THEOREM StrictSitesAreBounded == SiteSpec => []StrictSitesStop
<1>1. KeyInv /\ SiteInv => StrictSitesStop
  <2> SUFFICES ASSUME KeyInv, SiteInv, NEW x \in Sites, NEW t \in DOMAIN revoked,
                      Accepts(x, t), site[x].strict
               PROVE  now <= revoked[t] + MaxStaleness
    BY DEF StrictSitesStop
  <2>1. site[x].pc = "up" /\ ~(now > site[x].fetchedAt + MaxStaleness) /\ t \notin site[x].revoked
    BY DEF Accepts, Stale
  <2>2. now \in Nat /\ revoked[t] \in Nat
    BY DEF SiteInv, SiteTypeOK, KeyInv, TypeOK
  <2>4. site[x] \in SiteStates
    BY DEF SiteInv, SiteTypeOK
  <2>5. site[x].fetchedAt \in Nat
    BY <2>1, <2>2, <2>4 DEF SiteStates, Off
  <2>3. ~(revoked[t] < site[x].fetchedAt)
    BY <2>1 DEF SiteInv, SitesRemember
  <2> QED BY <2>1, <2>2, <2>3, <2>5, SitesAssumption
<1> QED BY <1>1, SiteInvariant, PTL

(* Only a rotation after a site took its keys makes it deaf to the feed    *)
(* (RevocationFeed.apply).                                                 *)
THEOREM RotationAloneDeafens == SiteSpec => []OnlyRotationDeafens
<1>1. SiteInv => OnlyRotationDeafens
  BY DEF SiteInv, SitesHear, OnlyRotationDeafens, Accepts
<1> QED BY <1>1, SiteInvariant, PTL
=============================================================================
