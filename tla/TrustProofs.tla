------------------------------ MODULE TrustProofs ------------------------------
(***************************************************************************)
(* The coding-agent guard and the directory it reads, for any number of    *)
(* keys, tokens, calls and links, and however its checks interleave with   *)
(* the operator's commands.                                                *)
(***************************************************************************)
EXTENDS Guard, SequenceTheorems, TLAPS

(* A sequence, of whatever: the steps of a command, the tokens.            *)
IsList(s) == s = [k \in 1..Len(s) |-> s[k]] /\ Len(s) \in Nat

FeedWrite(it) == it.op \in {"truncate", "fill"} /\ it.f = Feed
KeyWrite(it) == it.op \in {"truncate", "fill"} /\ it.f = Key

KeyPending(s) == \E i \in DOMAIN s : KeyWrite(s[i])

Loadable(F) == F \notin Unreadable

(* Of tokens T, of which those in K are revoked, feed F lists every revoked*)
(* one that it could vouch for.                                            *)
Lists(F, T, K) == \A j \in K : T[j].key = F.key => j \in F.jtis

(* The n-th key is written before a token is signed with it.               *)
ItemOK(it, T, K, n) ==
    \/ /\ it.op \in {"truncate", "fill"} /\ it.f \in Files
       /\ it.f = Feed => Lists(it.v, T, K)
       /\ it.f = Key => it.v = n /\ n > 0 /\ \A j \in DOMAIN T : T[j].key # n
    \/ it.op = "roles" /\ it.v \subseteq DOMAIN BuiltinRoles
    \/ it.op = "hook"
    \/ it.op = "revoked" /\ it.v \in DOMAIN T

Items(s, T, K, n) == \A k \in DOMAIN s : ItemOK(s[k], T, K, n)

(* The order of a command's steps.                                         *)
Paired(s) ==
    \A k \in DOMAIN s : s[k].op = "truncate" =>
        k + 1 \in DOMAIN s /\ s[k + 1] = Op("fill", s[k].f, s[k].v)

Ordered(s, n) ==
    /\ Paired(s)
    /\ \A i, k \in DOMAIN s : i < k /\ (FeedWrite(s[k]) \/ KeyWrite(s[k]))
                              => s[i].op \in {"truncate", "fill"}
    /\ \A i, k \in DOMAIN s : FeedWrite(s[k]) /\ KeyWrite(s[i])
                              => i < k /\ s[k].v.key = n
    /\ \A k \in DOMAIN s : s[k].op = "revoked" =>
          /\ k = Len(s)
          /\ \A i \in DOMAIN s : i < k => FeedWrite(s[i]) /\ s[k].v \in s[i].v.jtis

(* Steps that touch neither the key nor the feed, and report nothing.      *)
Plain(s) ==
    \A k \in DOMAIN s : ~FeedWrite(s[k]) /\ ~KeyWrite(s[k]) /\ s[k].op # "revoked"

(* A feed is signed with the key that is in key.pem when it is written,    *)
(* unless a call has overwritten that one.                                 *)
OwnKey(s, key) ==
    ~KeyPending(s) /\ Loadable(key) =>
        \A k \in DOMAIN s : FeedWrite(s[k]) => s[k].v.key = key

FeedOK(F, key, T, K) ==
    Loadable(F) => /\ Lists(F, T, K)
                   /\ \A j \in K : Loadable(key) /\ T[j].key = key => F.key = key

ReportListed(s, F, key) ==
    s # << >> /\ s[1].op = "revoked" /\ Loadable(F) =>
        (Loadable(key) => F.key = key) /\ s[1].v \in F.jtis

CommandOK(s, F, key, T, K, n) ==
    /\ IsList(s) /\ Items(s, T, K, n) /\ Ordered(s, n)
    /\ OwnKey(s, key) /\ FeedOK(F, key, T, K) /\ ReportListed(s, F, key)

Keyed(T, n) ==
    \A j \in DOMAIN T : "key" \in DOMAIN T[j] /\ T[j].key \in Unreadable \cup 1..n

GuardTypes ==
    /\ disk = [f \in Files |-> disk[f]] /\ IsList(tokens) /\ nkeys \in Nat
    /\ disk[Key] \in Unreadable \cup 1..nkeys /\ Keyed(tokens, nkeys)
    /\ killed \subseteq DOMAIN tokens

CheckOK(c, T, K) ==
    \/ c = NoCheck
    \/ /\ c = [phase |-> c.phase, call |-> c.call, token |-> c.token,
               jwks |-> c.jwks, feed |-> c.feed, dead |-> c.dead, unseen |-> c.unseen]
       /\ c.dead \subseteq K
       /\ c.phase = "decide" /\ Loadable(c.feed) => Lists(c.feed, T, c.dead)
       /\ c.phase = "allowed" => c.token \notin c.dead /\ (GuardDir \o Feed \in Writes(c.call) => c.unseen)

GuardState ==
    GuardTypes /\ CommandOK(todo, disk[Feed], disk[Key], tokens, killed, nkeys)

GuardInv == ~exposed => GuardState /\ CheckOK(chk, tokens, killed)

-----------------------------------------------------------------------------
LEMMA ListIsSeq ==
    ASSUME NEW s, IsList(s)
    PROVE  s \in Seq({s[k] : k \in 1..Len(s)})
<1>1. s \in [1..Len(s) -> {s[k] : k \in 1..Len(s)}]
  BY DEF IsList
<1> QED BY <1>1 DEF IsList

LEMMA SeqIsList ==
    ASSUME NEW S, NEW s \in Seq(S)
    PROVE  IsList(s)
<1>1. s \in [1..Len(s) -> S] /\ Len(s) \in Nat
  BY LenProperties
<1>2. s = [k \in 1..Len(s) |-> s[k]]
  BY <1>1
<1> QED BY <1>1, <1>2 DEF IsList

LEMMA ListTail ==
    ASSUME NEW s, IsList(s), s # << >>
    PROVE  /\ IsList(Tail(s)) /\ Len(Tail(s)) = Len(s) - 1 /\ Len(s) \in Nat \ {0}
           /\ \A k \in 1..(Len(s) - 1) : Tail(s)[k] = s[k + 1]
<1> DEFINE S == {s[k] : k \in 1..Len(s)}
<1>1. s \in Seq(S)
  BY ListIsSeq
<1> HIDE DEF S
<1>2. /\ Tail(s) \in Seq(S) /\ Len(Tail(s)) = Len(s) - 1 /\ Len(s) \in Nat \ {0}
      /\ \A k \in 1..(Len(s) - 1) : Tail(s)[k] = s[k + 1]
  BY <1>1
<1> QED BY <1>2, SeqIsList

LEMMA ListAppend ==
    ASSUME NEW s, NEW e, IsList(s)
    PROVE  /\ IsList(Append(s, e)) /\ Len(Append(s, e)) = Len(s) + 1
           /\ Append(s, e)[Len(s) + 1] = e
           /\ \A k \in 1..Len(s) : Append(s, e)[k] = s[k]
<1> DEFINE S == {s[k] : k \in 1..Len(s)} \cup {e}
<1>1. s \in Seq(S)
  BY DEF IsList
<1>2. e \in S
  OBVIOUS
<1> HIDE DEF S
<1>3. /\ Append(s, e) \in Seq(S) /\ Len(Append(s, e)) = Len(s) + 1
      /\ Append(s, e)[Len(s) + 1] = e
      /\ \A k \in 1..Len(s) : Append(s, e)[k] = s[k]
  BY <1>1, <1>2
<1> QED BY <1>3, SeqIsList

LEMMA ListConcat ==
    ASSUME NEW s, NEW t, IsList(s), IsList(t)
    PROVE  /\ IsList(s \o t) /\ Len(s \o t) = Len(s) + Len(t)
           /\ Len(s) \in Nat /\ Len(t) \in Nat /\ DOMAIN (s \o t) = 1..(Len(s) + Len(t))
           /\ DOMAIN s = 1..Len(s) /\ DOMAIN t = 1..Len(t)
           /\ \A k \in 1..Len(s) : (s \o t)[k] = s[k]
           /\ \A k \in 1..Len(t) : (s \o t)[Len(s) + k] = t[k]
<1> DEFINE S == {s[k] : k \in 1..Len(s)} \cup {t[k] : k \in 1..Len(t)}
<1>1. s \in Seq(S)
  BY DEF IsList
<1>2. t \in Seq(S)
  BY DEF IsList
<1> HIDE DEF S
<1>3. /\ s \o t \in Seq(S) /\ Len(s \o t) = Len(s) + Len(t)
      /\ \A k \in 1..Len(s) : (s \o t)[k] = s[k]
      /\ \A k \in 1..Len(t) : (s \o t)[Len(s) + k] = t[k]
  BY <1>1, <1>2
<1>4. Len(s) \in Nat /\ DOMAIN s = 1..Len(s) /\ Len(t) \in Nat /\ DOMAIN t = 1..Len(t)
  BY DEF IsList
<1>5. IsList(s \o t)
  BY <1>1, <1>2, <1>3, SeqIsList
<1> QED BY <1>3, <1>4, <1>5 DEF IsList

LEMMA Associative ==
    ASSUME NEW s, NEW t, NEW u, IsList(s), IsList(t), IsList(u)
    PROVE  (s \o t) \o u = s \o (t \o u)
<1> DEFINE S == {s[k] : k \in 1..Len(s)} \cup {t[k] : k \in 1..Len(t)} \cup {u[k] : k \in 1..Len(u)}
<1>1. s \in Seq(S)
  BY DEF IsList
<1>2. t \in Seq(S)
  BY DEF IsList
<1>3. u \in Seq(S)
  BY DEF IsList
<1> HIDE DEF S
<1> QED BY <1>1, <1>2, <1>3, ConcatAssociative

-----------------------------------------------------------------------------
(* The steps of a command, one after the other.                            *)

LEMMA TailOrdered ==
    ASSUME NEW s, NEW T, NEW K, NEW n, IsList(s), s # << >>, Items(s, T, K, n), Ordered(s, n)
    PROVE  /\ IsList(Tail(s)) /\ Items(Tail(s), T, K, n) /\ Ordered(Tail(s), n)
           /\ 1 \in DOMAIN s /\ DOMAIN s = 1..Len(s) /\ Len(s) \in Nat \ {0}
           /\ \A k \in DOMAIN Tail(s) : k + 1 \in DOMAIN s /\ Tail(s)[k] = s[k + 1] /\ k \in Nat \ {0}
           /\ \A k \in DOMAIN s : k = 1 \/ k - 1 \in DOMAIN Tail(s)
           /\ Len(Tail(s)) = Len(s) - 1
<1> DEFINE t == Tail(s)
<1>1. /\ IsList(t) /\ Len(t) = Len(s) - 1 /\ Len(s) \in Nat \ {0}
      /\ \A k \in 1..(Len(s) - 1) : t[k] = s[k + 1]
  BY ListTail
<1> HIDE DEF t
<1>2. DOMAIN s = 1..Len(s) /\ DOMAIN t = 1..(Len(s) - 1)
  BY <1>1 DEF IsList
<1>3. /\ 1 \in DOMAIN s /\ \A k \in DOMAIN t : k + 1 \in DOMAIN s /\ t[k] = s[k + 1] /\ k \in Nat \ {0}
      /\ \A k \in DOMAIN s : k = 1 \/ k - 1 \in DOMAIN t
  BY <1>1, <1>2
<1>4. Items(t, T, K, n)
  BY <1>3 DEF Items
<1>5. \A k \in DOMAIN t : t[k].op = "truncate" =>
         k + 1 \in DOMAIN t /\ t[k + 1] = Op("fill", t[k].f, t[k].v)
  <2> SUFFICES ASSUME NEW k \in DOMAIN t, t[k].op = "truncate"
               PROVE  k + 1 \in DOMAIN t /\ t[k + 1] = Op("fill", t[k].f, t[k].v)
    OBVIOUS
  <2>1. (k + 1) + 1 \in DOMAIN s /\ s[(k + 1) + 1] = Op("fill", s[k + 1].f, s[k + 1].v)
    BY <1>3 DEF Ordered, Paired
  <2>2. k + 1 \in DOMAIN t
    BY <1>1, <1>2, <2>1
  <2> QED BY <1>3, <2>1, <2>2
<1>6. \A i, k \in DOMAIN t : i < k => i + 1 < k + 1
  BY <1>3
<1>7. \A i, k \in DOMAIN t : i + 1 < k + 1 => i < k
  BY <1>3
<1>8. \A i, k \in DOMAIN t : i < k /\ (FeedWrite(t[k]) \/ KeyWrite(t[k]))
                              => t[i].op \in {"truncate", "fill"}
  BY <1>3, <1>6 DEF Ordered
<1>9. \A i, k \in DOMAIN t : FeedWrite(t[k]) /\ KeyWrite(t[i]) => i < k /\ t[k].v.key = n
  BY <1>3, <1>7 DEF Ordered
<1>10. ASSUME NEW k \in DOMAIN t, t[k].op = "revoked"
       PROVE  /\ k = Len(t)
              /\ \A i \in DOMAIN t : i < k => FeedWrite(t[i]) /\ t[k].v \in t[i].v.jtis
  <2>1. /\ k + 1 = Len(s)
        /\ \A i \in DOMAIN s : i < k + 1 => FeedWrite(s[i]) /\ s[k + 1].v \in s[i].v.jtis
    BY <1>3, <1>10 DEF Ordered
  <2> QED BY <1>1, <1>3, <1>6, <2>1
<1>11. Ordered(t, n)
  BY <1>5, <1>8, <1>9, <1>10 DEF Ordered, Paired
<1> QED BY <1>1, <1>2, <1>3, <1>4, <1>11 DEF t

(* A step that writes neither key.pem nor the feed.                        *)
LEMMA OtherStep ==
    ASSUME NEW s, NEW F, NEW key, NEW T, NEW K, NEW n, CommandOK(s, F, key, T, K, n),
           s # << >>, ~FeedWrite(s[1]), ~KeyWrite(s[1])
    PROVE  CommandOK(Tail(s), F, key, T, K, n)
<1> DEFINE t == Tail(s)
<1>1. /\ IsList(t) /\ Items(t, T, K, n) /\ Ordered(t, n)
      /\ 1 \in DOMAIN s /\ \A k \in DOMAIN t : k + 1 \in DOMAIN s /\ t[k] = s[k + 1] /\ k \in Nat \ {0}
      /\ \A k \in DOMAIN s : k = 1 \/ k - 1 \in DOMAIN t
      /\ Len(t) = Len(s) - 1 /\ DOMAIN s = 1..Len(s) /\ Len(s) \in Nat \ {0}
  BY TailOrdered DEF CommandOK
<1> HIDE DEF t
<1>2. KeyPending(s) => KeyPending(t)
  <2> SUFFICES ASSUME NEW i \in DOMAIN s, KeyWrite(s[i]) PROVE KeyPending(t)
    BY DEF KeyPending
  <2>1. i - 1 \in DOMAIN t /\ i - 1 + 1 = i
    BY <1>1
  <2> QED BY <1>1, <2>1 DEF KeyPending
<1>3. OwnKey(t, key)
  BY <1>1, <1>2 DEF CommandOK, OwnKey
<1>4. ReportListed(t, F, key)
  <2> SUFFICES ASSUME t # << >>, t[1].op = "revoked" PROVE FALSE
    BY DEF ReportListed
  <2>1. 1 \in DOMAIN t
    BY <1>1 DEF IsList
  <2>2. 2 \in DOMAIN s /\ s[2].op = "revoked"
    BY <1>1, <2>1
  <2>3. FeedWrite(s[1])
    BY <1>1, <2>2 DEF CommandOK, Ordered
  <2> QED BY <2>3
<1> QED BY <1>1, <1>3, <1>4 DEF CommandOK, t

LEMMA FeedStep ==
    ASSUME NEW s, NEW F, NEW key, NEW T, NEW K, NEW n, NEW G, CommandOK(s, F, key, T, K, n),
           s # << >>, FeedWrite(s[1]),
           G = IF s[1].op = "truncate" THEN Empty ELSE s[1].v
    PROVE  CommandOK(Tail(s), G, key, T, K, n)
<1> DEFINE t == Tail(s)
<1>1. /\ IsList(t) /\ Items(t, T, K, n) /\ Ordered(t, n)
      /\ 1 \in DOMAIN s /\ \A k \in DOMAIN t : k + 1 \in DOMAIN s /\ t[k] = s[k + 1] /\ k \in Nat \ {0}
      /\ Len(t) = Len(s) - 1 /\ DOMAIN s = 1..Len(s) /\ Len(s) \in Nat \ {0}
  BY TailOrdered DEF CommandOK
<1> HIDE DEF t
<1>2. ~KeyPending(s)
  <2> SUFFICES ASSUME NEW i \in DOMAIN s, KeyWrite(s[i]) PROVE FALSE
    BY DEF KeyPending
  <2>1. i < 1
    BY <1>1 DEF CommandOK, Ordered
  <2> QED BY <1>1, <2>1
<1>3. OwnKey(t, key)
  BY <1>1, <1>2 DEF CommandOK, OwnKey
<1>4. (Loadable(key) => s[1].v.key = key) /\ Lists(s[1].v, T, K)
  <2>1. Loadable(key) => s[1].v.key = key
    BY <1>1, <1>2 DEF CommandOK, OwnKey
  <2>2. ItemOK(s[1], T, K, n)
    BY <1>1 DEF CommandOK, Items
  <2>3. Lists(s[1].v, T, K)
    BY <2>2 DEF ItemOK, FeedWrite
  <2> QED BY <2>1, <2>3
<1>5. ~Loadable(Empty)
  BY DEF Loadable, Unreadable
<1>6. FeedOK(G, key, T, K)
  BY <1>4, <1>5 DEF FeedOK
<1>7. ReportListed(t, G, key)
  <2> SUFFICES ASSUME t # << >>, t[1].op = "revoked", Loadable(G)
               PROVE  (Loadable(key) => G.key = key) /\ t[1].v \in G.jtis
    BY DEF ReportListed
  <2>1. 1 \in DOMAIN t
    BY <1>1 DEF IsList
  <2>2. 2 \in DOMAIN s /\ s[2] = t[1]
    BY <1>1, <2>1
  <2>3. s[2].v \in s[1].v.jtis
    BY <1>1, <2>2 DEF CommandOK, Ordered
  <2> QED BY <1>4, <1>5, <2>2, <2>3
<1> QED BY <1>1, <1>3, <1>6, <1>7 DEF CommandOK, t

LEMMA KeyStep ==
    ASSUME NEW s, NEW F, NEW key, NEW T, NEW K, NEW n, NEW new, CommandOK(s, F, key, T, K, n),
           s # << >>, KeyWrite(s[1]), K \subseteq DOMAIN T,
           new = IF s[1].op = "truncate" THEN Empty ELSE s[1].v
    PROVE  CommandOK(Tail(s), F, new, T, K, n)
<1> DEFINE t == Tail(s)
<1>1. /\ IsList(t) /\ Items(t, T, K, n) /\ Ordered(t, n)
      /\ 1 \in DOMAIN s /\ \A k \in DOMAIN t : k + 1 \in DOMAIN s /\ t[k] = s[k + 1] /\ k \in Nat \ {0}
      /\ \A k \in DOMAIN s : k = 1 \/ k - 1 \in DOMAIN t
      /\ Len(t) = Len(s) - 1 /\ DOMAIN s = 1..Len(s) /\ Len(s) \in Nat \ {0}
  BY TailOrdered DEF CommandOK
<1> HIDE DEF t
<1>2. s[1].v = n /\ \A j \in K : T[j].key # n
  <2>1. ItemOK(s[1], T, K, n)
    BY <1>1 DEF CommandOK, Items
  <2> QED BY <2>1 DEF ItemOK, KeyWrite
<1>3. s[1].op = "truncate" => KeyPending(t)
  <2> SUFFICES ASSUME s[1].op = "truncate" PROVE KeyPending(t)
    OBVIOUS
  <2>1. 1 + 1 \in DOMAIN s /\ s[1 + 1] = Op("fill", s[1].f, s[1].v)
    BY <1>1 DEF CommandOK, Ordered, Paired
  <2>2. 1 \in DOMAIN t /\ t[1] = s[1 + 1]
    BY <1>1, <2>1
  <2>3. KeyWrite(t[1])
    BY <2>1, <2>2 DEF KeyWrite, Op
  <2> QED BY <2>2, <2>3 DEF KeyPending
<1>4. OwnKey(t, new)
  <2> SUFFICES ASSUME ~KeyPending(t), NEW k \in DOMAIN t, FeedWrite(t[k])
               PROVE  t[k].v.key = new
    BY DEF OwnKey
  <2>1. new = n
    BY <1>2, <1>3
  <2>2. s[k + 1].v.key = n
    BY <1>1 DEF CommandOK, Ordered
  <2> QED BY <1>1, <2>1, <2>2
<1>5. ~Loadable(Empty)
  BY DEF Loadable, Unreadable
<1>6. FeedOK(F, new, T, K)
  BY <1>2, <1>5 DEF CommandOK, FeedOK
<1>7. ReportListed(t, F, new)
  <2> SUFFICES ASSUME t # << >>, t[1].op = "revoked" PROVE FALSE
    BY DEF ReportListed
  <2>1. 1 \in DOMAIN t
    BY <1>1 DEF IsList
  <2>2. 2 \in DOMAIN s /\ s[2].op = "revoked"
    BY <1>1, <2>1
  <2>3. FeedWrite(s[1])
    BY <1>1, <2>2 DEF CommandOK, Ordered
  <2>4. Key # Feed
    BY DEF Key, Feed
  <2> QED BY <2>3, <2>4 DEF FeedWrite, KeyWrite
<1> QED BY <1>1, <1>4, <1>6, <1>7 DEF CommandOK, t

-----------------------------------------------------------------------------
(* The steps that a command begins with, or goes on to.                    *)

LEMMA Joined ==
    ASSUME NEW s, NEW t, NEW T, NEW K, NEW n, IsList(s), IsList(t)
    PROVE  /\ IsList(s \o t)
           /\ Items(s, T, K, n) /\ Items(t, T, K, n) => Items(s \o t, T, K, n)
           /\ Paired(s) /\ Paired(t) => Paired(s \o t)
           /\ Plain(s) /\ Plain(t) => Plain(s \o t)
<1> DEFINE u == s \o t
<1>1. /\ IsList(u) /\ Len(u) = Len(s) + Len(t) /\ Len(s) \in Nat /\ Len(t) \in Nat
      /\ \A k \in 1..Len(s) : u[k] = s[k]
      /\ \A k \in 1..Len(t) : u[Len(s) + k] = t[k]
      /\ DOMAIN s = 1..Len(s) /\ DOMAIN t = 1..Len(t) /\ DOMAIN u = 1..(Len(s) + Len(t))
  BY ListConcat
<1> HIDE DEF u
<1>2. DOMAIN s = 1..Len(s) /\ DOMAIN t = 1..Len(t) /\ DOMAIN u = 1..(Len(s) + Len(t))
  BY <1>1
<1>3. \A k \in DOMAIN u : \/ k \in DOMAIN s /\ u[k] = s[k]
                          \/ k - Len(s) \in DOMAIN t /\ u[k] = t[k - Len(s)]
  <2> TAKE k \in DOMAIN u
  <2>1. k \in 1..Len(s) \/ (k - Len(s) \in 1..Len(t) /\ Len(s) + (k - Len(s)) = k)
    <3> DEFINE a == Len(s)  b == Len(t)
    <3>1. a \in Nat /\ b \in Nat /\ k \in 1..(a + b)
      BY <1>1
    <3> HIDE DEF a, b
    <3>2. k \in 1..a \/ (k - a \in 1..b /\ a + (k - a) = k)
      BY <3>1
    <3> QED BY <3>2 DEF a, b
  <2>2. CASE k \in 1..Len(s)
    BY <1>1, <1>2, <2>2
  <2>3. CASE k - Len(s) \in 1..Len(t) /\ Len(s) + (k - Len(s)) = k
    BY <1>1, <1>2, <2>3
  <2> QED BY <2>1, <2>2, <2>3
<1>4. ASSUME Items(s, T, K, n), Items(t, T, K, n) PROVE Items(u, T, K, n)
  BY <1>3, <1>4 DEF Items
<1>5. ASSUME Plain(s), Plain(t) PROVE Plain(u)
  BY <1>3, <1>5 DEF Plain
<1>6. ASSUME Paired(s), Paired(t) PROVE Paired(u)
  <2> SUFFICES ASSUME NEW k \in DOMAIN u, u[k].op = "truncate"
               PROVE  k + 1 \in DOMAIN u /\ u[k + 1] = Op("fill", u[k].f, u[k].v)
    BY DEF Paired
  <2>1. CASE k \in DOMAIN s /\ u[k] = s[k]
    <3>1. k + 1 \in DOMAIN s /\ s[k + 1] = Op("fill", u[k].f, u[k].v)
      BY <1>6, <2>1 DEF Paired
    <3>2. k + 1 \in DOMAIN u /\ u[k + 1] = s[k + 1]
      BY <1>1, <1>2, <3>1
    <3> QED BY <3>1, <3>2
  <2>2. CASE k - Len(s) \in DOMAIN t /\ u[k] = t[k - Len(s)]
    <3>1. (k - Len(s)) + 1 \in DOMAIN t /\ t[(k - Len(s)) + 1] = Op("fill", u[k].f, u[k].v)
      BY <1>6, <2>2 DEF Paired
    <3>2. Len(s) + ((k - Len(s)) + 1) = k + 1 /\ k + 1 \in DOMAIN u
      BY <1>1, <1>2, <3>1
    <3>3. u[k + 1] = t[(k - Len(s)) + 1]
      BY <1>1, <1>2, <3>1, <3>2
    <3> QED BY <3>1, <3>2, <3>3
  <2> QED BY <1>3, <2>1, <2>2
<1> QED BY <1>1, <1>4, <1>5, <1>6 DEF u

LEMMA PlainOK ==
    ASSUME NEW s, NEW F, NEW key, NEW T, NEW K, NEW n, FeedOK(F, key, T, K),
           IsList(s), Items(s, T, K, n), Paired(s), Plain(s)
    PROVE  CommandOK(s, F, key, T, K, n)
<1>1. Ordered(s, n)
  BY DEF Ordered, Plain
<1>2. OwnKey(s, key)
  BY DEF OwnKey, Plain
<1>3. ReportListed(s, F, key)
  <2> SUFFICES ASSUME s # << >>, s[1].op = "revoked" PROVE FALSE
    BY DEF ReportListed
  <2>1. 1 \in DOMAIN s
    BY ListTail DEF IsList
  <2> QED BY <2>1 DEF Plain
<1> QED BY <1>1, <1>2, <1>3 DEF CommandOK

LEMMA WriteIs ==
    ASSUME NEW f, NEW v
    PROVE  /\ IsList(Write(f, v)) /\ Len(Write(f, v)) = 2
           /\ Write(f, v)[1] = Op("truncate", f, v) /\ Write(f, v)[2] = Op("fill", f, v)
<1> DEFINE w == <<Op("truncate", f, v), Op("fill", f, v)>>
<1>1. Len(w) = 2 /\ w[1] = Op("truncate", f, v) /\ w[2] = Op("fill", f, v) /\ IsList(w)
  BY DEF IsList
<1> QED BY <1>1 DEF Write

LEMMA WriteOK ==
    ASSUME NEW f \in Files, f # Key, f # Feed, NEW v, NEW T, NEW K, NEW n
    PROVE  /\ IsList(Write(f, v)) /\ Items(Write(f, v), T, K, n)
           /\ Paired(Write(f, v)) /\ Plain(Write(f, v))
<1> DEFINE w == <<Op("truncate", f, v), Op("fill", f, v)>>
<1>1. w = Write(f, v)
  BY DEF Write
<1>2. /\ DOMAIN w = 1..2 /\ Len(w) = 2
      /\ w[1] = Op("truncate", f, v) /\ w[2] = Op("fill", f, v)
  OBVIOUS
<1>3. IsList(w)
  BY DEF IsList
<1> HIDE DEF w
<1>4. Items(w, T, K, n)
  BY <1>2 DEF Items, ItemOK, Op
<1>5. Paired(w)
  BY <1>2 DEF Paired, Op
<1>6. Plain(w)
  BY <1>2 DEF Plain, FeedWrite, KeyWrite, Op
<1> QED BY <1>1, <1>3, <1>4, <1>5, <1>6

LEMMA OneOK ==
    ASSUME NEW it, NEW T, NEW K, NEW n, ItemOK(it, T, K, n), it.op \notin {"truncate", "fill", "revoked"}
    PROVE  IsList(<<it>>) /\ Items(<<it>>, T, K, n) /\ Paired(<<it>>) /\ Plain(<<it>>)
<1> DEFINE w == <<it>>
<1>1. DOMAIN w = {1} /\ Len(w) = 1 /\ w[1] = it
  OBVIOUS
<1>2. IsList(w)
  BY DEF IsList
<1> HIDE DEF w
<1>3. Items(w, T, K, n) /\ Paired(w) /\ Plain(w)
  BY <1>1 DEF Items, Paired, Plain, FeedWrite, KeyWrite
<1> QED BY <1>2, <1>3 DEF w

(* A token more changes nothing, unless it is signed with a key that is yet*)
(* to be written.                                                          *)
LEMMA Grown ==
    ASSUME NEW s, NEW F, NEW key, NEW T, NEW K, NEW n, NEW t, CommandOK(s, F, key, T, K, n),
           ~KeyPending(s), IsList(T), K \subseteq DOMAIN T
    PROVE  CommandOK(s, F, key, Append(T, t), K, n)
<1> DEFINE U == Append(T, t)
<1>1. /\ IsList(U) /\ Len(U) = Len(T) + 1
      /\ \A k \in 1..Len(T) : U[k] = T[k]
  BY ListAppend
<1> HIDE DEF U
<1>2. DOMAIN T \subseteq DOMAIN U /\ \A j \in DOMAIN T : U[j] = T[j]
  BY <1>1 DEF IsList
<1>3. \A G : Lists(G, T, K) => Lists(G, U, K)
  BY <1>2 DEF Lists
<1>4. Items(s, U, K, n)
  <2> SUFFICES ASSUME NEW k \in DOMAIN s PROVE ItemOK(s[k], U, K, n)
    BY DEF Items
  <2>1. ItemOK(s[k], T, K, n) /\ ~KeyWrite(s[k])
    BY DEF CommandOK, Items, KeyPending
  <2> QED BY <1>2, <1>3, <2>1 DEF ItemOK, KeyWrite
<1>5. FeedOK(F, key, U, K)
  BY <1>2, <1>3 DEF CommandOK, FeedOK
<1> QED BY <1>4, <1>5 DEF CommandOK, U

LEMMA TokenAdded ==
    ASSUME NEW T, NEW t, NEW n \in Nat, IsList(T), Keyed(T, n), "key" \in DOMAIN t,
           t.key \in Unreadable \cup 1..n
    PROVE  /\ IsList(Append(T, t)) /\ Keyed(Append(T, t), n)
           /\ DOMAIN T \subseteq DOMAIN Append(T, t)
           /\ \A j \in DOMAIN T : Append(T, t)[j] = T[j]
<1> DEFINE U == Append(T, t)
<1>1. /\ IsList(U) /\ Len(U) = Len(T) + 1 /\ U[Len(T) + 1] = t
      /\ \A k \in 1..Len(T) : U[k] = T[k]
  BY ListAppend
<1> HIDE DEF U
<1>2. DOMAIN T = 1..Len(T) /\ DOMAIN U = 1..(Len(T) + 1) /\ Len(T) \in Nat
  BY <1>1 DEF IsList
<1>3. \A j \in DOMAIN U : j \in DOMAIN T \/ j = Len(T) + 1
  BY <1>2
<1>4. Keyed(U, n)
  BY <1>1, <1>2, <1>3 DEF Keyed
<1> QED BY <1>1, <1>2, <1>4 DEF U

(* A new key, its JWKS and a new feed, then steps p.                       *)
SetupList(m, v, p) == Write(Key, m) \o Write(JWKS, m) \o Write(Feed, v) \o p

LEMMA SetupShape ==
    ASSUME NEW p, NEW m, NEW v, IsList(p), NEW r, r = SetupList(m, v, p)
    PROVE  /\ IsList(r) /\ Len(r) = 6 + Len(p) /\ Len(p) \in Nat
           /\ DOMAIN r = 1..(6 + Len(p)) /\ DOMAIN p = 1..Len(p)
           /\ r[1] = Op("truncate", Key, m) /\ r[2] = Op("fill", Key, m)
           /\ r[3] = Op("truncate", JWKS, m) /\ r[4] = Op("fill", JWKS, m)
           /\ r[5] = Op("truncate", Feed, v) /\ r[6] = Op("fill", Feed, v)
           /\ \A k \in DOMAIN r : \/ k \in 1..6
                                  \/ k > 6 /\ k - 6 \in DOMAIN p /\ r[k] = p[k - 6]
           /\ Paired(p) => Paired(r)
<1> DEFINE w == Write(Key, m) \o Write(JWKS, m) \o Write(Feed, v)
           s == w \o p
<1>1. /\ Len(w) = 6 /\ IsList(w)
      /\ w[1] = Op("truncate", Key, m) /\ w[2] = Op("fill", Key, m)
      /\ w[3] = Op("truncate", JWKS, m) /\ w[4] = Op("fill", JWKS, m)
      /\ w[5] = Op("truncate", Feed, v) /\ w[6] = Op("fill", Feed, v)
  <2> DEFINE a == Write(Key, m)  b == Write(JWKS, m)  c == Write(Feed, v)  ab == a \o b
  <2>1. /\ IsList(a) /\ Len(a) = 2 /\ a[1] = Op("truncate", Key, m) /\ a[2] = Op("fill", Key, m)
        /\ IsList(b) /\ Len(b) = 2 /\ b[1] = Op("truncate", JWKS, m) /\ b[2] = Op("fill", JWKS, m)
        /\ IsList(c) /\ Len(c) = 2 /\ c[1] = Op("truncate", Feed, v) /\ c[2] = Op("fill", Feed, v)
    BY WriteIs
  <2> HIDE DEF a, b, c
  <2>2. /\ IsList(ab) /\ Len(ab) = 4 /\ ab[1] = a[1] /\ ab[2] = a[2]
        /\ ab[2 + 1] = b[1] /\ ab[2 + 2] = b[2]
    <3>0. IsList(a) /\ IsList(b)
      BY <2>1
    <3>1. /\ IsList(ab) /\ Len(ab) = Len(a) + Len(b)
          /\ \A k \in 1..Len(a) : ab[k] = a[k]
          /\ \A k \in 1..Len(b) : ab[Len(a) + k] = b[k]
      BY <3>0, ListConcat
    <3> HIDE DEF ab
    <3> QED BY <2>1, <3>1
  <2> HIDE DEF ab
  <2>3. /\ IsList(ab \o c) /\ Len(ab \o c) = 6
        /\ (ab \o c)[1] = ab[1] /\ (ab \o c)[2] = ab[2]
        /\ (ab \o c)[3] = ab[3] /\ (ab \o c)[4] = ab[4]
        /\ (ab \o c)[4 + 1] = c[1] /\ (ab \o c)[4 + 2] = c[2]
    <3> DEFINE abc == ab \o c
    <3>0. IsList(ab) /\ IsList(c)
      BY <2>1, <2>2
    <3>1. /\ IsList(abc) /\ Len(abc) = Len(ab) + Len(c)
          /\ \A k \in 1..Len(ab) : abc[k] = ab[k]
          /\ \A k \in 1..Len(c) : abc[Len(ab) + k] = c[k]
      BY <3>0, ListConcat
    <3> HIDE DEF abc
    <3>2. /\ IsList(abc) /\ Len(abc) = 6 /\ abc[1] = ab[1] /\ abc[2] = ab[2]
          /\ abc[3] = ab[3] /\ abc[4] = ab[4] /\ abc[4 + 1] = c[1] /\ abc[4 + 2] = c[2]
      BY <2>1, <2>2, <3>1
    <3> QED BY <3>2 DEF abc
  <2>4. w = ab \o c
    BY DEF ab, a, b, c
  <2> QED BY <2>1, <2>2, <2>3, <2>4
<1> HIDE DEF w
<1>2. DOMAIN w = 1..6
  BY <1>1 DEF IsList
<1>3. /\ w[1] = Op("truncate", Key, m) /\ w[2] = Op("fill", Key, m)
      /\ w[3] = Op("truncate", JWKS, m) /\ w[4] = Op("fill", JWKS, m)
      /\ w[5] = Op("truncate", Feed, v) /\ w[6] = Op("fill", Feed, v)
      /\ DOMAIN w = 1..6
  BY <1>1, <1>2
<1>4. /\ IsList(s) /\ Len(s) = 6 + Len(p) /\ Len(p) \in Nat
      /\ \A k \in 1..6 : s[k] = w[k]
      /\ \A k \in 1..Len(p) : s[6 + k] = p[k]
  <2>0. IsList(w) /\ IsList(p)
    BY <1>1
  <2>1. /\ IsList(s) /\ Len(s) = Len(w) + Len(p) /\ Len(p) \in Nat
        /\ \A k \in 1..Len(w) : s[k] = w[k]
        /\ \A k \in 1..Len(p) : s[Len(w) + k] = p[k]
    BY <2>0, ListConcat
  <2> HIDE DEF s
  <2> QED BY <1>1, <2>1
<1>5. DOMAIN s = 1..(6 + Len(p)) /\ DOMAIN p = 1..Len(p)
  BY <1>4 DEF IsList
<1>6. Paired(w)
  BY <1>3 DEF Paired, Op
<1>7. Paired(p) => Paired(s)
  BY <1>1, <1>6, Joined
<1> HIDE DEF s
<1>8. \A k \in DOMAIN s : \/ k \in 1..6
                          \/ k > 6 /\ k - 6 \in DOMAIN p /\ s[k] = p[k - 6]
  <2> SUFFICES ASSUME NEW k \in DOMAIN s, ~(k \in 1..6)
               PROVE  k > 6 /\ k - 6 \in DOMAIN p /\ s[k] = p[k - 6]
    OBVIOUS
  <2>1. k > 6 /\ k - 6 \in 1..Len(p) /\ 6 + (k - 6) = k
    BY <1>4, <1>5
  <2> QED BY <1>4, <1>5, <2>1
<1>9. /\ s[1] = Op("truncate", Key, m) /\ s[2] = Op("fill", Key, m)
      /\ s[3] = Op("truncate", JWKS, m) /\ s[4] = Op("fill", JWKS, m)
      /\ s[5] = Op("truncate", Feed, v) /\ s[6] = Op("fill", Feed, v)
  BY <1>3, <1>4
<1>10. r = s
  BY DEF s, w, SetupList
<1> QED BY <1>4, <1>5, <1>7, <1>8, <1>9, <1>10

(* Init and install: a new key, its JWKS, a new feed, then plain steps.    *)
LEMMA SetupSteps ==
    ASSUME NEW p, NEW F, NEW key, NEW T, NEW K, NEW m \in Nat, m > 0, FeedOK(F, key, T, K),
           IsList(p), Items(p, T, K, m), Paired(p), Plain(p), K \subseteq DOMAIN T,
           \A j \in DOMAIN T : T[j].key # m, NEW v, v.key = m
    PROVE  CommandOK(Write(Key, m) \o Write(JWKS, m) \o Write(Feed, v) \o p, F, key, T, K, m)
<1> DEFINE s == Write(Key, m) \o Write(JWKS, m) \o Write(Feed, v) \o p
<1>1. /\ IsList(s) /\ Len(s) = 6 + Len(p) /\ Len(p) \in Nat
      /\ DOMAIN s = 1..(6 + Len(p)) /\ DOMAIN p = 1..Len(p)
      /\ s[1] = Op("truncate", Key, m) /\ s[2] = Op("fill", Key, m)
      /\ s[3] = Op("truncate", JWKS, m) /\ s[4] = Op("fill", JWKS, m)
      /\ s[5] = Op("truncate", Feed, v) /\ s[6] = Op("fill", Feed, v)
      /\ \A k \in DOMAIN s : \/ k \in 1..6
                             \/ k > 6 /\ k - 6 \in DOMAIN p /\ s[k] = p[k - 6]
      /\ Paired(s)
  <2> HIDE DEF s
  <2>1. s = SetupList(m, v, p)
    BY DEF s, SetupList
  <2> QED BY <2>1, SetupShape
<1> HIDE DEF s
<1>2. Key # JWKS /\ Key # Feed /\ JWKS # Feed /\ {Key, JWKS, Feed} \subseteq Files
  BY DEF Key, JWKS, Feed, Files, Trust
<1>3. \A j \in K : T[j].key # v.key
  OBVIOUS
<1>4. \A k \in DOMAIN s : k \in {1, 2, 3, 4, 5, 6} \/ (k > 6 /\ k - 6 \in DOMAIN p /\ s[k] = p[k - 6])
  BY <1>1
<1>5. Items(s, T, K, m)
  <2> SUFFICES ASSUME NEW k \in DOMAIN s PROVE ItemOK(s[k], T, K, m)
    BY DEF Items
  <2>1. CASE k \in {1, 2, 3, 4, 5, 6}
    BY <1>1, <1>2, <1>3, <2>1 DEF ItemOK, Op, Lists
  <2>2. CASE k > 6 /\ k - 6 \in DOMAIN p /\ s[k] = p[k - 6]
    BY <2>2 DEF Items
  <2> QED BY <1>4, <2>1, <2>2
<1>6. Items(s, T, K, m) /\ Paired(s)
  BY <1>1, <1>5
<1>7. DOMAIN s = 1..(6 + Len(p)) /\ DOMAIN p = 1..Len(p)
  BY <1>1
<1>8. \A k \in DOMAIN s : k > 6 => ~FeedWrite(s[k]) /\ ~KeyWrite(s[k]) /\ s[k].op # "revoked"
  BY <1>4 DEF Plain
<1>9. /\ s[1].op \in {"truncate", "fill"} /\ s[2].op \in {"truncate", "fill"}
       /\ s[3].op \in {"truncate", "fill"} /\ s[4].op \in {"truncate", "fill"}
       /\ s[5].op \in {"truncate", "fill"} /\ s[6].op \in {"truncate", "fill"}
       /\ KeyWrite(s[1]) /\ ~FeedWrite(s[1]) /\ ~FeedWrite(s[2]) /\ ~FeedWrite(s[3])
       /\ ~FeedWrite(s[4]) /\ ~KeyWrite(s[3]) /\ ~KeyWrite(s[4]) /\ ~KeyWrite(s[5])
       /\ ~KeyWrite(s[6]) /\ s[5].v = v /\ s[6].v = v
  BY <1>1, <1>2 DEF FeedWrite, KeyWrite, Op
<1>10. \A k \in DOMAIN s : /\ FeedWrite(s[k]) => k \in {5, 6} /\ s[k].v = v
                           /\ KeyWrite(s[k]) => k \in {1, 2}
                           /\ k \in 1..6 => s[k].op \in {"truncate", "fill"}
                           /\ s[k].op # "revoked"
  <2> TAKE k \in DOMAIN s
  <2>1. k \in {1, 2, 3, 4, 5, 6} \/ k > 6
    BY <1>1, <1>7
  <2>2. CASE k \in {1, 2, 3, 4, 5, 6}
    BY <1>9, <2>2
  <2>3. CASE k > 6
    BY <1>7, <1>8, <2>3
  <2> QED BY <2>1, <2>2, <2>3
<1>11. Ordered(s, m)
  <2>1. \A i, k \in DOMAIN s : i < k /\ (FeedWrite(s[k]) \/ KeyWrite(s[k]))
                                => s[i].op \in {"truncate", "fill"}
    <3> SUFFICES ASSUME NEW i \in DOMAIN s, NEW k \in DOMAIN s, i < k,
                        FeedWrite(s[k]) \/ KeyWrite(s[k])
                 PROVE  s[i].op \in {"truncate", "fill"}
      OBVIOUS
    <3>1. k \in {1, 2, 5, 6}
      BY <1>10
    <3>2. i \in 1..6
      BY <1>7, <3>1
    <3> QED BY <1>10, <3>2
  <2>2. \A i, k \in DOMAIN s : FeedWrite(s[k]) /\ KeyWrite(s[i]) => i < k /\ s[k].v.key = m
    <3> SUFFICES ASSUME NEW i \in DOMAIN s, NEW k \in DOMAIN s, FeedWrite(s[k]), KeyWrite(s[i])
                 PROVE  i < k /\ s[k].v.key = m
      OBVIOUS
    <3>1. k \in {5, 6} /\ s[k].v = v /\ i \in {1, 2}
      BY <1>10
    <3> QED BY <3>1
  <2> QED BY <1>6, <1>10, <2>1, <2>2 DEF Ordered
<1>12. OwnKey(s, key)
  <2>1. 1 \in DOMAIN s
    BY <1>1, <1>7
  <2> QED BY <1>9, <2>1 DEF OwnKey, KeyPending
<1>13. ReportListed(s, F, key)
  BY <1>1, <1>7, <1>10 DEF ReportListed
<1> QED BY <1>1, <1>6, <1>11, <1>12, <1>13 DEF CommandOK, s

(* Revoke: the feed that is in place, with one token more.                 *)
LEMMA RevokeSteps ==
    ASSUME NEW F, NEW key, NEW T, NEW K, NEW n, FeedOK(F, key, T, K), K \subseteq DOMAIN T,
           Loadable(F), Loadable(key), NEW j \in DOMAIN T,
           NEW v, v.key = key, v.jtis = F.jtis \cup {j}
    PROVE  CommandOK(Write(Feed, v) \o <<Op("revoked", Feed, j)>>, F, key, T, K, n)
<1> DEFINE w == Write(Feed, v)
           r == <<Op("revoked", Feed, j)>>
           s == w \o r
<1>1. Lists(v, T, K)
  BY DEF FeedOK, Lists
<1>2. /\ IsList(w) /\ Len(w) = 2 /\ w[1] = Op("truncate", Feed, v) /\ w[2] = Op("fill", Feed, v)
  BY WriteIs
<1> HIDE DEF w
<1>3. Len(r) = 1 /\ r[1] = Op("revoked", Feed, j) /\ IsList(r)
  BY DEF IsList
<1> HIDE DEF r
<1>4. /\ IsList(s) /\ Len(s) = Len(w) + Len(r) /\ DOMAIN s = 1..(Len(w) + Len(r))
      /\ \A k \in 1..Len(w) : s[k] = w[k]
      /\ \A k \in 1..Len(r) : s[Len(w) + k] = r[k]
  <2>1. IsList(w) /\ IsList(r)
    BY <1>2, <1>3
  <2> QED BY <2>1, ListConcat
<1> HIDE DEF s
<1>5. /\ IsList(s) /\ Len(s) = 3 /\ DOMAIN s = {1, 2, 3} /\ s[1] = Op("truncate", Feed, v)
      /\ s[2] = Op("fill", Feed, v) /\ s[3] = Op("revoked", Feed, j)
  BY <1>2, <1>3, <1>4
<1>6. Key # Feed /\ Feed \in Files
  BY DEF Key, Feed, Files, Trust
<1>7. Items(s, T, K, n)
  BY <1>1, <1>5, <1>6 DEF Items, ItemOK, Op
<1>8. Paired(s)
  BY <1>5 DEF Paired, Op
<1>9. \A k \in DOMAIN s : ~KeyWrite(s[k])
  BY <1>5, <1>6 DEF KeyWrite, Op
<1>10. FeedWrite(s[1]) /\ FeedWrite(s[2]) /\ s[1].v = v /\ s[2].v = v /\ ~FeedWrite(s[3])
  BY <1>5 DEF FeedWrite, Op
<1>11. Ordered(s, n)
  <2>1. \A i, k \in DOMAIN s : i < k /\ (FeedWrite(s[k]) \/ KeyWrite(s[k]))
                                => s[i].op \in {"truncate", "fill"}
    <3> SUFFICES ASSUME NEW i \in DOMAIN s, NEW k \in DOMAIN s, i < k, FeedWrite(s[k])
                 PROVE  s[i].op \in {"truncate", "fill"}
      BY <1>9
    <3>1. i = 1
      BY <1>5, <1>10
    <3> QED BY <1>5, <3>1 DEF Op
  <2>2. \A k \in DOMAIN s : s[k].op = "revoked" =>
          /\ k = Len(s)
          /\ \A i \in DOMAIN s : i < k => FeedWrite(s[i]) /\ s[k].v \in s[i].v.jtis
    <3> SUFFICES ASSUME NEW k \in DOMAIN s, s[k].op = "revoked"
                 PROVE  /\ k = Len(s)
                        /\ \A i \in DOMAIN s : i < k => FeedWrite(s[i]) /\ s[k].v \in s[i].v.jtis
      OBVIOUS
    <3>1. k = 3
      BY <1>5 DEF Op
    <3>2. s[3].v = j
      BY <1>5 DEF Op
    <3>3. \A i \in DOMAIN s : i < 3 => i = 1 \/ i = 2
      BY <1>5
    <3> QED BY <1>5, <1>10, <3>1, <3>2, <3>3
  <2> QED BY <1>8, <1>9, <2>1, <2>2 DEF Ordered
<1>12. OwnKey(s, key)
  BY <1>5, <1>10 DEF OwnKey
<1>13. ReportListed(s, F, key)
  BY <1>5 DEF ReportListed, Op
<1> QED BY <1>5, <1>7, <1>11, <1>12, <1>13 DEF CommandOK, s, w, r

(* The report that a token has been revoked ends the command.              *)
LEMMA ReportStep ==
    ASSUME NEW s, NEW F, NEW key, NEW T, NEW K, NEW n, CommandOK(s, F, key, T, K, n),
           s # << >>, s[1].op = "revoked"
    PROVE  /\ CommandOK(Tail(s), F, key, T, K \cup {s[1].v}, n)
           /\ s[1].v \in DOMAIN T
<1> DEFINE t == Tail(s)
<1>1. /\ IsList(t) /\ Len(t) = Len(s) - 1 /\ Len(s) \in Nat \ {0} /\ DOMAIN s = 1..Len(s)
      /\ 1 \in DOMAIN s
  BY TailOrdered DEF CommandOK
<1> HIDE DEF t
<1>2. Len(s) = 1
  BY <1>1 DEF CommandOK, Ordered
<1>3. DOMAIN t = {} /\ t = << >>
  BY <1>1, <1>2 DEF IsList
<1>4. s[1].v \in DOMAIN T
  <2>1. ItemOK(s[1], T, K, n)
    BY <1>1 DEF CommandOK, Items
  <2> QED BY <2>1 DEF ItemOK
<1>5. FeedOK(F, key, T, K \cup {s[1].v})
  <2> SUFFICES ASSUME Loadable(F)
               PROVE  /\ Lists(F, T, K \cup {s[1].v})
                      /\ \A j \in K \cup {s[1].v} : Loadable(key) /\ T[j].key = key => F.key = key
    BY DEF FeedOK
  <2>1. (Loadable(key) => F.key = key) /\ s[1].v \in F.jtis
    BY DEF CommandOK, ReportListed
  <2> QED BY <2>1 DEF CommandOK, FeedOK, Lists
<1>6. Items(t, T, K \cup {s[1].v}, n) /\ Paired(t) /\ Plain(t)
  BY <1>3 DEF Items, Paired, Plain
<1>7. CommandOK(t, F, key, T, K \cup {s[1].v}, n)
  BY <1>1, <1>5, <1>6, PlainOK
<1> QED BY <1>4, <1>7 DEF t

(* Nothing is left to do.                                                  *)
LEMMA NothingOK ==
    ASSUME NEW F, NEW key, NEW T, NEW K, NEW n, FeedOK(F, key, T, K)
    PROVE  CommandOK(<< >>, F, key, T, K, n)
<1> DEFINE e == << >>
<1>1. DOMAIN e = {} /\ IsList(e)
  BY DEF IsList
<1> HIDE DEF e
<1>2. Items(e, T, K, n) /\ Paired(e) /\ Plain(e)
  BY <1>1 DEF Items, Paired, Plain
<1>3. CommandOK(e, F, key, T, K, n)
  BY <1>1, <1>2, PlainOK
<1> QED BY <1>3 DEF e

(* What the head of a command says of its rest.                            *)
LEMMA RestIsPlain ==
    ASSUME NEW s, NEW T, NEW K, NEW n, IsList(s), s # << >>, Items(s, T, K, n), Ordered(s, n),
           s[1].op \notin {"truncate", "fill"}
    PROVE  /\ IsList(Tail(s)) /\ Items(Tail(s), T, K, n) /\ Paired(Tail(s)) /\ Plain(Tail(s))
           /\ \A k \in DOMAIN s : ~KeyWrite(s[k])
<1> DEFINE t == Tail(s)
<1>1. /\ IsList(t) /\ Items(t, T, K, n) /\ Ordered(t, n)
      /\ 1 \in DOMAIN s /\ \A k \in DOMAIN t : k + 1 \in DOMAIN s /\ t[k] = s[k + 1] /\ k \in Nat \ {0}
      /\ DOMAIN s = 1..Len(s) /\ Len(s) \in Nat \ {0}
  BY TailOrdered
<1> HIDE DEF t
<1>2. \A k \in DOMAIN s : k # 1 => ~FeedWrite(s[k]) /\ ~KeyWrite(s[k]) /\ s[k].op # "revoked"
  <2> SUFFICES ASSUME NEW k \in DOMAIN s, k # 1
               PROVE  ~FeedWrite(s[k]) /\ ~KeyWrite(s[k]) /\ s[k].op # "revoked"
    OBVIOUS
  <2>1. 1 < k
    BY <1>1
  <2>2. ~FeedWrite(s[1])
    BY DEF FeedWrite
  <2> QED BY <1>1, <2>1, <2>2 DEF Ordered
<1>3. ~KeyWrite(s[1])
  BY DEF KeyWrite
<1>4. \A k \in DOMAIN t : k + 1 # 1
  BY <1>1
<1>5. Plain(t)
  BY <1>1, <1>2, <1>4 DEF Plain
<1> QED BY <1>1, <1>2, <1>3, <1>5 DEF t, Ordered

-----------------------------------------------------------------------------
(* Paths.                                                                  *)

LEMMA FilesAreLists == \A f \in Files : IsList(f)
<1>1. \A a : IsList(<<a>>)
  BY DEF IsList
<1>2. \A f \in Trust : IsList(f)
  BY <1>1 DEF Trust, Key, JWKS, Feed, OverlayFile
<1>3. \A g : IsList(base(g))
  <2> TAKE g
  <2>1. IsList(label(g)) /\ Len(label(g)) \in Nat
    BY DEF label, IsList
  <2>2. DOMAIN label(g) = 1..Len(label(g))
    BY <2>1 DEF IsList
  <2> DEFINE b == base(g)  n == Len(label(g))
  <2>3. b = [k \in 1..n |-> Sanitized(label(g)[k])]
    BY <2>2 DEF base
  <2>4. b \in [1..n -> {Sanitized(label(g)[k]) : k \in 1..n}]
    BY <2>3
  <2>5. b \in Seq({Sanitized(label(g)[k]) : k \in 1..n})
    BY <2>1, <2>4
  <2> QED BY <2>5, SeqIsList
<1>4. \A g, a : IsList(base(g) \o <<"__", a>>)
  <2> TAKE g, a
  <2>1. IsList(<<"__", a>>)
    BY DEF IsList
  <2> QED BY <1>3, <2>1, ListConcat
<1>5. ASSUME NEW f \in GrantsFiles, NEW at \in Places(f)
      PROVE  IsList(Node(f, at).file)
  <2>1. PICK n \in DOMAIN f.grants : \E k \in DOMAIN buildTree(f.grants[n]) : at = <<n, k>>
    BY <1>5 DEF Places
  <2>2. PICK k \in DOMAIN buildTree(f.grants[n]) : at = <<n, k>>
    BY <2>1
  <2> DEFINE g == f.grants[n]
  <2>3. Node(f, at) = buildTree(g)[k]
    BY <2>2 DEF Node
  <2>4. k \in 0..Len(g.delegate)
    BY <2>2 DEF buildTree
  <2>5. Node(f, at) = IF k = 0 THEN RootNode(g) ELSE ChildNode(g, g.delegate[k])
    BY <2>3, <2>4 DEF buildTree
  <2>6. RootNode(g).file = base(g)
    BY DEF RootNode
  <2>7. ChildNode(g, g.delegate[k]).file = base(g) \o <<"__", Sanitized(g.delegate[k].agent)>>
    BY DEF ChildNode, RootNode
  <2> QED BY <1>3, <1>4, <2>5, <2>6, <2>7
<1>6. \A f \in TokenFiles : IsList(f)
  <2>1. ASSUME NEW g \in GrantsFiles, NEW f \in DeclaredFiles(g) PROVE IsList(f)
    BY <1>5 DEF DeclaredFiles
  <2>2. \A role \in DOMAIN BuiltinRoles : IsList(RoleFile(role))
    BY <1>1 DEF RoleFile
  <2> SUFFICES ASSUME NEW x \in TokenFiles PROVE IsList(x)
    OBVIOUS
  <2>3. CASE x \in UNION {DeclaredFiles(g) : g \in GrantsFiles}
    <3>1. PICK g \in GrantsFiles : x \in DeclaredFiles(g)
      BY <2>3
    <3> QED BY <2>1, <3>1
  <2>4. CASE x \in {RoleFile(role) : role \in DOMAIN BuiltinRoles}
    BY <2>2, <2>4
  <2> QED BY <2>3, <2>4 DEF TokenFiles
<1> QED BY <1>2, <1>6 DEF Files

LEMMA BelowConcat ==
    ASSUME NEW d, NEW f, IsList(d), IsList(f)
    PROVE  Below(d \o f, d)
<1> DEFINE p == d \o f  q == SubSeq(p, 1, Len(d))  S == {p[k] : k \in 1..Len(p)}
<1>1. /\ IsList(p) /\ Len(p) = Len(d) + Len(f) /\ Len(d) \in Nat /\ Len(f) \in Nat
      /\ \A k \in 1..Len(d) : p[k] = d[k]
  BY ListConcat
<1> HIDE DEF p
<1>2. Len(d) <= Len(p)
  BY <1>1
<1>3. \A k \in 1..Len(d) : p[k] \in S
  BY <1>1
<1> HIDE DEF S
<1>4. /\ q \in Seq(S) /\ Len(q) = IF 1 <= Len(d) THEN Len(d) - 1 + 1 ELSE 0
      /\ \A k \in 1..(Len(d) - 1 + 1) : q[k] = p[1 + k - 1]
  BY <1>1, <1>3, SubSeqProperties
<1> HIDE DEF q
<1>5. IsList(q) /\ Len(q) = Len(d)
  BY <1>1, <1>4, SeqIsList
<1>6. \A k \in 1..Len(d) : q[k] = d[k]
  BY <1>1, <1>4
<1>7. q = d
  BY <1>5, <1>6 DEF IsList
<1> QED BY <1>2, <1>7 DEF Below, p, q

(* No path that checkPaths lets through is one of the feed to the guard.   *)
LEMMA FeedIsRefused ==
    ASSUME NEW call, NEW t, NEW ov, checkPaths(t, ov, Touched(call))
    PROVE  \A p \in Touched(call) : realPath(p) # GuardDir \o Feed
<1> SUFFICES ASSUME NEW p \in Touched(call), realPath(p) = GuardDir \o Feed
             PROVE  FALSE
  OBVIOUS
<1>1. Below(GuardDir \o Feed, GuardDir)
  <2>1. Feed \in Files
    BY DEF Files, Trust
  <2> QED BY <2>1, BelowConcat, FilesAreLists, GuardAssumption DEF IsList
<1>2. realPath(GuardDir) = GuardDir
  <2>1. {l \in DOMAIN Links : Exists(Links[l])} \in SUBSET DOMAIN Links
    OBVIOUS
  <2> QED BY <2>1, GuardAssumption DEF realPath
<1>3. contained(p, selfProtect \cup {absClean(x) : x \in withOverlay(t, ov, "deny-path")})
  BY <1>1, <1>2 DEF contained, selfProtect
<1> QED BY <1>3 DEF checkPaths

-----------------------------------------------------------------------------
(* The check.                                                              *)

(* Nothing a check relies on is taken back.                                *)
LEMMA CheckLater ==
    ASSUME NEW c, NEW T, NEW U, NEW K, NEW L, CheckOK(c, T, K), K \subseteq L,
           K \subseteq DOMAIN T, \A j \in DOMAIN T : U[j] = T[j]
    PROVE  CheckOK(c, U, L)
<1> SUFFICES ASSUME c # NoCheck PROVE CheckOK(c, U, L)
  BY DEF CheckOK
<1>1. c.dead \subseteq K
  BY DEF CheckOK
<1>2. Lists(c.feed, T, c.dead) => Lists(c.feed, U, c.dead)
  BY <1>1 DEF Lists
<1> QED BY <1>1, <1>2 DEF CheckOK

(* What Decide lets through is no token that the feed lists as revoked, and*)
(* writes the feed by no path that the guard can tell for the feed's.      *)
LEMMA DecideIsSafe ==
    ASSUME NEW j, NEW jwks, NEW feed, NEW ov, NEW call, NEW D, Decide(j, jwks, feed, ov, call),
           Lists(feed, tokens, D)
    PROVE  j \notin D /\ (GuardDir \o Feed \in Writes(call) => FeedUnseen(call))
<1>1. feed.key = jwks /\ tokens[j].key = jwks /\ j \notin feed.jtis
  BY DEF Decide, FeedLoads, VerifyAnyOffline
<1>2. j \notin D
  BY <1>1 DEF Lists
<1> DEFINE verb == classify(call.tool)
<1>3. CASE verb \in {"fs.write", "shell.exec"}
  <2>1. call.paths # {} => checkPaths(tokens[j], ov, Touched(call))
    BY <1>3 DEF Decide, checkCommand
  <2>2. \A p \in Touched(call) : realPath(p) # GuardDir \o Feed
    <3>1. CASE call.paths = {}
      BY <3>1 DEF Touched
    <3>2. CASE call.paths # {}
      BY <2>1, <3>2, FeedIsRefused
    <3> QED BY <3>1, <3>2
  <2> QED BY <1>2, <2>2 DEF FeedUnseen
<1>4. CASE verb \notin {"fs.write", "shell.exec"}
  BY <1>2, <1>4 DEF Writes
<1> QED BY <1>3, <1>4

(* A file of the directory that a call turns into garbage.                 *)
LEMMA Emptied ==
    ASSUME NEW s, NEW F, NEW key, NEW T, NEW K, NEW n, CommandOK(s, F, key, T, K, n)
    PROVE  CommandOK(s, Empty, key, T, K, n) /\ CommandOK(s, F, Empty, T, K, n)
<1>1. ~Loadable(Empty)
  BY DEF Loadable, Unreadable
<1>2. FeedOK(Empty, key, T, K) /\ ReportListed(s, Empty, key)
  BY <1>1 DEF FeedOK, ReportListed
<1>3. FeedOK(F, Empty, T, K) /\ ReportListed(s, F, Empty) /\ OwnKey(s, Empty)
  BY <1>1 DEF CommandOK, FeedOK, ReportListed, OwnKey
<1> QED BY <1>2, <1>3 DEF CommandOK

LEMMA CheckStep ==
    ASSUME GuardInv, ~exposed', Check
    PROVE  GuardInv'
<1> USE DEF GuardInv
<1>1. ASSUME ~exposed, UNCHANGED trustVars, CheckOK(chk', tokens, killed)
      PROVE  GuardInv'
  BY <1>1 DEF trustVars, GuardState, GuardTypes
<1>2. ASSUME NEW call \in Calls, CheckStart(call) PROVE GuardInv'
  <2>1. ~exposed /\ UNCHANGED trustVars
    BY <1>2 DEF CheckStart
  <2>2. CheckOK(chk', tokens, killed)
    BY <1>2 DEF CheckStart, CheckOK
  <2> QED BY <1>1, <2>1, <2>2
<1>3. CASE CheckOff
  BY <1>3 DEF CheckOff
<1>4. CASE CheckReadKeys
  <2>1. ~exposed /\ UNCHANGED trustVars /\ chk # NoCheck
    BY <1>4 DEF CheckReadKeys, NoCheck
  <2>2. CheckOK(chk', tokens, killed)
    BY <1>4, <2>1 DEF CheckReadKeys, CheckOK
  <2> QED BY <1>1, <2>1, <2>2
<1>5. CASE CheckReadFeed
  <2>1. ~exposed /\ UNCHANGED trustVars /\ chk # NoCheck
    BY <1>5 DEF CheckReadFeed, NoCheck
  <2>2. Loadable(disk[Feed]) => Lists(disk[Feed], tokens, killed)
    BY <2>1 DEF GuardState, CommandOK, FeedOK
  <2>3. chk.dead \subseteq killed
    BY <2>1 DEF CheckOK
  <2>4. Loadable(disk[Feed]) => Lists(disk[Feed], tokens, chk.dead)
    BY <2>2, <2>3 DEF Lists
  <2>5. CheckOK(chk', tokens, killed)
    BY <1>5, <2>1, <2>4 DEF CheckReadFeed, CheckOK
  <2> QED BY <1>1, <2>1, <2>5
<1>6. CASE CheckDecide
  <2>1. ~exposed /\ UNCHANGED trustVars /\ chk # NoCheck /\ chk.phase = "decide"
    BY <1>6 DEF CheckDecide, NoCheck
  <2>2. ASSUME Allowed
        PROVE  /\ chk.token \notin chk.dead
               /\ GuardDir \o Feed \in Writes(chk.call) => FeedUnseen(chk.call)
    <3>1. Loadable(chk.feed)
      BY <2>2 DEF Allowed, Decide, FeedLoads, Loadable
    <3>2. Lists(chk.feed, tokens, chk.dead)
      BY <2>1, <3>1 DEF CheckOK
    <3> QED BY <2>2, <3>2, DecideIsSafe DEF Allowed
  <2>3. CheckOK(chk', tokens, killed)
    BY <1>6, <2>1, <2>2 DEF CheckDecide, CheckOK
  <2> QED BY <1>1, <2>1, <2>3
<1>7. CASE Execute
  <2>1. /\ chk # NoCheck /\ chk.phase = "allowed" /\ chk' = NoCheck
        /\ UNCHANGED <<todo, tokens, nkeys, declared, killed, pruned, settled, clock>>
        /\ WriteFile \/ UNCHANGED <<disk, exposed>>
    BY <1>7 DEF Execute, NoCheck
  <2>2. CheckOK(chk', tokens, killed)
    BY <2>1 DEF CheckOK
  <2>3. CASE UNCHANGED <<disk, exposed>>
    BY <1>1, <2>1, <2>2, <2>3 DEF trustVars
  <2>4. CASE WriteFile
    <3>1. PICK f \in Files : \E c \in Outcomes(f) :
             /\ GuardDir \o f \in Writes(chk.call) /\ disk' = [disk EXCEPT ![f] = c]
             /\ exposed' = (exposed \/ (chk.unseen /\ c # Empty))
      BY <2>4 DEF WriteFile
    <3>2. PICK c \in Outcomes(f) :
             /\ GuardDir \o f \in Writes(chk.call) /\ disk' = [disk EXCEPT ![f] = c]
             /\ exposed' = (exposed \/ (chk.unseen /\ c # Empty))
      BY <3>1
    <3>3. ~exposed /\ (chk.unseen => c = Empty)
      BY <3>2
    <3>4. GuardState /\ CheckOK(chk, tokens, killed)
      BY <3>3
    <3>5. c = Empty
      <4>1. f = Feed => chk.unseen
        BY <2>1, <3>2, <3>4 DEF CheckOK
      <4> QED BY <3>3, <4>1 DEF Outcomes
    <3>6. /\ disk' = [x \in Files |-> disk'[x]] /\ {Key, Feed} \subseteq Files /\ Key # Feed
          /\ disk'[Feed] = (IF f = Feed THEN Empty ELSE disk[Feed])
          /\ disk'[Key] = (IF f = Key THEN Empty ELSE disk[Key])
      BY <3>2, <3>4, <3>5 DEF GuardState, GuardTypes, Files, Trust, Key, Feed
    <3>7. CommandOK(todo, disk'[Feed], disk'[Key], tokens, killed, nkeys)
      BY <3>4, <3>6, Emptied DEF GuardState
    <3>8. disk'[Key] \in Unreadable \cup 1..nkeys
      BY <3>4, <3>6 DEF GuardState, GuardTypes, Unreadable
    <3> QED BY <2>1, <2>2, <3>4, <3>6, <3>7, <3>8 DEF GuardState, GuardTypes
  <2> QED BY <2>1, <2>3, <2>4
<1> QED BY <1>2, <1>3, <1>4, <1>5, <1>6, <1>7 DEF Check

-----------------------------------------------------------------------------
(* The steps of the running command.                                       *)

LEMMA CommandStep ==
    ASSUME GuardInv, ~exposed', Trusted(StepOfCommand)
    PROVE  GuardInv'
<1>1. GuardState /\ CheckOK(chk, tokens, killed) /\ chk' = chk /\ StepOfCommand
  BY DEF GuardInv, Trusted
<1>2. /\ CommandOK(todo, disk[Feed], disk[Key], tokens, killed, nkeys)
      /\ GuardTypes
  BY <1>1 DEF GuardState
<1>3. /\ IsList(todo) /\ Items(todo, tokens, killed, nkeys) /\ Ordered(todo, nkeys)
      /\ FeedOK(disk[Feed], disk[Key], tokens, killed)
  BY <1>2 DEF CommandOK
<1>4. todo # << >> => ItemOK(todo[1], tokens, killed, nkeys)
  <2> SUFFICES ASSUME todo # << >> PROVE ItemOK(todo[1], tokens, killed, nkeys)
    OBVIOUS
  <2>1. 1 \in DOMAIN todo
    BY <1>3, TailOrdered
  <2> QED BY <1>3, <2>1 DEF Items
<1>5. {Key, Feed} \subseteq Files /\ Key # Feed
  BY DEF Files, Trust, Key, Feed
<1>6. ASSUME NEW f, NEW c, disk' = [disk EXCEPT ![f] = c], UNCHANGED <<tokens, nkeys, killed>>,
             todo # << >>, todo[1].op \in {"truncate", "fill"}, todo[1].f = f, todo' = Rest,
             c = IF todo[1].op = "truncate" THEN Empty ELSE todo[1].v
      PROVE  GuardInv'
  <2>1. /\ disk' = [x \in Files |-> disk'[x]] /\ f \in Files
        /\ disk'[Feed] = (IF f = Feed THEN c ELSE disk[Feed])
        /\ disk'[Key] = (IF f = Key THEN c ELSE disk[Key])
    BY <1>2, <1>4, <1>5, <1>6 DEF GuardTypes, ItemOK
  <2>2. CommandOK(Tail(todo), disk'[Feed], disk'[Key], tokens, killed, nkeys)
    <3>1. CASE f = Feed
      BY <1>2, <1>5, <1>6, <2>1, <3>1, FeedStep DEF FeedWrite
    <3>2. CASE f = Key
      BY <1>2, <1>5, <1>6, <2>1, <3>2, KeyStep DEF KeyWrite, GuardTypes
    <3>3. CASE f \notin {Feed, Key}
      BY <1>2, <1>6, <2>1, <3>3, OtherStep DEF KeyWrite, FeedWrite
    <3> QED BY <3>1, <3>2, <3>3
  <2>3. disk'[Key] \in Unreadable \cup 1..nkeys
    <3>1. CASE f = Key
      <4>1. todo[1].v = nkeys /\ nkeys > 0 /\ nkeys \in Nat
        BY <1>2, <1>4, <1>6, <3>1 DEF ItemOK, GuardTypes
      <4> QED BY <1>6, <2>1, <3>1, <4>1 DEF Unreadable
    <3>2. CASE f # Key
      BY <1>2, <2>1, <3>2 DEF GuardTypes
    <3> QED BY <3>1, <3>2
  <2> QED BY <1>1, <1>2, <1>6, <2>1, <2>2, <2>3 DEF GuardInv, GuardState, GuardTypes, Rest
<1>7. CASE Truncate
  BY <1>6, <1>7 DEF Truncate, At
<1>8. CASE Fill
  <2>1. todo[1].op # "truncate"
    BY <1>8 DEF Fill, At
  <2> QED BY <1>6, <1>8, <2>1 DEF Fill, At
<1>9. CASE InitRole
  <2>1. todo # << >> /\ todo[1].op = "roles" /\ todo[1].v \subseteq DOMAIN BuiltinRoles
    BY <1>4, <1>9 DEF InitRole, At, ItemOK
  <2>2. PICK role \in todo[1].v :
           /\ tokens' = Append(tokens, MintGrant(RoleNode(role), disk[Key], DefaultIssuer))
           /\ todo' = Write(RoleFile(role), Len(tokens) + 1)
                         \o (IF todo[1].v = {role} THEN << >>
                             ELSE <<Op("roles", Absent, todo[1].v \ {role})>>) \o Rest
    BY <1>9 DEF InitRole
  <2> DEFINE t == MintGrant(RoleNode(role), disk[Key], DefaultIssuer)
             w == Write(RoleFile(role), Len(tokens) + 1)
             m == IF todo[1].v = {role} THEN << >>
                  ELSE <<Op("roles", Absent, todo[1].v \ {role})>>
             U == Append(tokens, t)
  <2>3. UNCHANGED <<disk, nkeys, killed>>
    BY <1>9 DEF InitRole
  <2>4. "key" \in DOMAIN t /\ t.key = disk[Key]
    BY DEF MintGrant
  <2>5. /\ IsList(U) /\ DOMAIN tokens \subseteq DOMAIN U /\ \A j \in DOMAIN tokens : U[j] = tokens[j]
        /\ Keyed(U, nkeys)
    BY <1>2, <2>4, TokenAdded DEF GuardTypes
  <2>6. FeedOK(disk[Feed], disk[Key], U, killed) /\ CommandOK(Rest, disk[Feed], disk[Key], U, killed, nkeys)
        /\ IsList(Rest) /\ Paired(Rest) /\ Plain(Rest)
    <3>1. /\ IsList(Rest) /\ Items(Rest, tokens, killed, nkeys) /\ Paired(Rest) /\ Plain(Rest)
          /\ \A k \in DOMAIN todo : ~KeyWrite(todo[k])
      BY <1>3, <2>1, RestIsPlain DEF Rest
    <3>2. CommandOK(Rest, disk[Feed], disk[Key], tokens, killed, nkeys)
      BY <1>3, <3>1, PlainOK
    <3>3. ~KeyPending(Rest)
      BY <3>1 DEF KeyPending, Plain
    <3>4. CommandOK(Rest, disk[Feed], disk[Key], U, killed, nkeys)
      BY <1>2, <3>2, <3>3, Grown DEF GuardTypes
    <3> QED BY <3>1, <3>4 DEF CommandOK
  <2>7. RoleFile(role) \in Files /\ RoleFile(role) \notin {Key, Feed}
    BY <2>1, TrustAssumption DEF Files, TokenFiles, Trust
  <2>8. IsList(w) /\ Items(w, U, killed, nkeys) /\ Paired(w) /\ Plain(w)
    BY <2>7, WriteOK
  <2>9. IsList(m) /\ Items(m, U, killed, nkeys) /\ Paired(m) /\ Plain(m)
    <3>1. CASE todo[1].v = {role}
      <4> DEFINE e == << >>
      <4>1. DOMAIN e = {} /\ IsList(e) /\ e = m
        BY <3>1 DEF IsList
      <4> HIDE DEF e, m
      <4> QED BY <4>1 DEF Items, Paired, Plain
    <3>2. CASE todo[1].v # {role}
      <4> DEFINE it == Op("roles", Absent, todo[1].v \ {role})
      <4>1. ItemOK(it, U, killed, nkeys) /\ it.op \notin {"truncate", "fill", "revoked"}
        BY <2>1 DEF ItemOK, Op
      <4>2. m = <<it>>
        BY <3>2
      <4> HIDE DEF it, m
      <4> QED BY <4>1, <4>2, OneOK
    <3> QED BY <3>1, <3>2
  <2> HIDE DEF w, m, U
  <2>10. IsList(w \o m) /\ Items(w \o m, U, killed, nkeys) /\ Paired(w \o m) /\ Plain(w \o m)
    BY <2>8, <2>9, Joined
  <2> DEFINE wm == w \o m
  <2>11. wm = w \o m
    OBVIOUS
  <2> HIDE DEF wm
  <2>12. /\ IsList(wm \o Rest) /\ Items(wm \o Rest, U, killed, nkeys)
         /\ Paired(wm \o Rest) /\ Plain(wm \o Rest)
    BY <2>6, <2>10, <2>11, Joined DEF CommandOK
  <2>13. todo' = wm \o Rest
    BY <2>2, <2>11 DEF w, m
  <2>14. CommandOK(todo', disk[Feed], disk[Key], U, killed, nkeys)
    BY <2>6, <2>12, <2>13, PlainOK
  <2>15. CheckOK(chk, U, killed)
    BY <1>1, <1>2, <2>5, CheckLater DEF GuardTypes
  <2>16. tokens' = U
    BY <2>2 DEF U
  <2> QED BY <1>1, <1>2, <2>3, <2>5, <2>14, <2>15, <2>16 DEF GuardInv, GuardState, GuardTypes
<1>10. CASE Report
  <2>1. todo # << >> /\ todo[1].op = "revoked"
    BY <1>4, <1>10 DEF Report, At, ItemOK
  <2>2. /\ killed' = killed \cup {todo[1].v} /\ todo' = Tail(todo)
        /\ UNCHANGED <<disk, tokens, nkeys>>
    BY <1>10, <2>1 DEF Report, At, Rest
  <2>3. /\ CommandOK(Tail(todo), disk[Feed], disk[Key], tokens, killed \cup {todo[1].v}, nkeys)
        /\ todo[1].v \in DOMAIN tokens
    BY <1>2, <2>1, ReportStep
  <2>4. CheckOK(chk, tokens, killed \cup {todo[1].v})
    BY <1>1, <1>2, CheckLater DEF GuardTypes
  <2> QED BY <1>1, <1>2, <2>2, <2>3, <2>4 DEF GuardInv, GuardState, GuardTypes
<1>11. CASE Kill
  <2>1. todo' = << >> /\ UNCHANGED <<disk, tokens, nkeys, killed>>
    BY <1>11 DEF Kill
  <2>2. CommandOK(todo', disk[Feed], disk[Key], tokens, killed, nkeys)
    BY <1>3, <2>1, NothingOK
  <2> QED BY <1>1, <1>2, <2>1, <2>2 DEF GuardInv, GuardState, GuardTypes
<1>12. CASE ApplyNode
  BY <1>4, <1>12 DEF ApplyNode, At, ItemOK
<1>13. CASE MintOne
  BY <1>4, <1>13 DEF MintOne, At, ItemOK
<1>14. CASE Prune
  BY <1>4, <1>14 DEF Prune, At, ItemOK
<1>15. CASE RemoveFile
  BY <1>4, <1>15 DEF RemoveFile, At, ItemOK
<1> QED BY <1>1, <1>7, <1>8, <1>9, <1>10, <1>11, <1>12, <1>13, <1>14, <1>15 DEF StepOfCommand

-----------------------------------------------------------------------------
(* The operator's commands.                                                *)

(* A command that begins with steps that are in order.                     *)
LEMMA RunStarts ==
    ASSUME GuardInv, ~exposed', UNCHANGED <<exposed, chk>>, NEW steps, NEW keys \in {0, 1}, Run(steps, keys),
           tokens' = tokens,
           GuardState => CommandOK(steps, disk[Feed], disk[Key], tokens, killed, nkeys + keys)
    PROVE  GuardInv'
<1>1. /\ GuardState /\ CheckOK(chk, tokens, killed)
      /\ todo' = steps /\ nkeys' = nkeys + keys /\ UNCHANGED <<disk, tokens, killed>>
  BY DEF GuardInv, Run
<1>2. nkeys \in Nat /\ nkeys' \in Nat /\ 1..nkeys \subseteq 1..nkeys'
  BY <1>1 DEF GuardState, GuardTypes
<1>3. Keyed(tokens, nkeys')
  BY <1>1, <1>2 DEF GuardState, GuardTypes, Keyed
<1>4. disk[Key] \in Unreadable \cup 1..nkeys'
  BY <1>1, <1>2 DEF GuardState, GuardTypes
<1>5. GuardTypes'
  BY <1>1, <1>2, <1>3, <1>4 DEF GuardState, GuardTypes
<1>6. CommandOK(todo', disk[Feed], disk[Key], tokens, killed, nkeys')
  BY <1>1
<1> QED BY <1>1, <1>5, <1>6 DEF GuardInv, GuardState

LEMMA NewKeyOK ==
    ASSUME GuardState, NEW p, IsList(p), Items(p, tokens, killed, nkeys + 1), Paired(p), Plain(p)
    PROVE  CommandOK(NewKeySteps(DefaultIssuer) \o p, disk[Feed], disk[Key], tokens, killed, nkeys + 1)
<1> DEFINE m == nkeys + 1
           v == BuildSignedFeed({}, DefaultIssuer, m)
<1>1. /\ FeedOK(disk[Feed], disk[Key], tokens, killed) /\ killed \subseteq DOMAIN tokens
      /\ nkeys \in Nat /\ Keyed(tokens, nkeys)
  BY DEF GuardState, GuardTypes, CommandOK
<1>2. m \in Nat /\ m > 0 /\ m \notin 1..nkeys
  BY <1>1
<1>3. Empty # m /\ Absent # m
  BY <1>2, TrustAssumption, SentinelAssumption
<1>4. v.key = m
  BY DEF BuildSignedFeed
<1>5. NewKeySteps(DefaultIssuer) = Write(Key, m) \o Write(JWKS, m) \o Write(Feed, v)
  BY DEF NewKeySteps
<1> HIDE DEF m, v
<1>6. \A j \in DOMAIN tokens : tokens[j].key # m
  BY <1>1, <1>2, <1>3 DEF Keyed, Unreadable
<1>7. Items(p, tokens, killed, m)
  BY DEF m
<1>8. CommandOK(Write(Key, m) \o Write(JWKS, m) \o Write(Feed, v) \o p, disk[Feed], disk[Key],
                tokens, killed, m)
  BY <1>1, <1>2, <1>4, <1>6, <1>7, SetupSteps
<1> QED BY <1>5, <1>8 DEF m

LEMMA OverlayOK ==
    ASSUME GuardState, NEW v
    PROVE  CommandOK(Write(OverlayFile, v), disk[Feed], disk[Key], tokens, killed, nkeys + 0)
<1>1. OverlayFile \in Files /\ OverlayFile # Key /\ OverlayFile # Feed
  BY DEF OverlayFile, Key, Feed, Files, Trust
<1>2. FeedOK(disk[Feed], disk[Key], tokens, killed)
  BY DEF GuardState, CommandOK
<1> QED BY <1>1, <1>2, WriteOK, PlainOK

LEMMA InitOK ==
    ASSUME GuardInv, ~exposed', Trusted(InitLocal)
    PROVE  GuardInv'
<1> DEFINE it == Op("roles", Absent, DOMAIN BuiltinRoles)
<1>1. ItemOK(it, tokens, killed, nkeys + 1) /\ it.op \notin {"truncate", "fill", "revoked"}
  BY DEF ItemOK, Op
<1>2. GuardState => CommandOK(NewKeySteps(DefaultIssuer) \o <<it>>, disk[Feed], disk[Key], tokens, killed, nkeys + 1)
  <2> HIDE DEF it
  <2> QED BY <1>1, OneOK, NewKeyOK
<1>3. Run(NewKeySteps(DefaultIssuer) \o <<it>>, 1) /\ tokens' = tokens /\ UNCHANGED <<exposed, chk>>
  BY DEF Trusted, InitLocal
<1> HIDE DEF it
<1> QED BY <1>2, <1>3, RunStarts

LEMMA InstallOK ==
    ASSUME GuardInv, ~exposed', NEW role, Install(role)
    PROVE  GuardInv'
<1> DEFINE it == Op("roles", Absent, DOMAIN BuiltinRoles)
           wire == Op("hook", Absent, role)
           setup == NewKeySteps(DefaultIssuer)
<1>1. \A n : /\ ItemOK(it, tokens, killed, n) /\ it.op \notin {"truncate", "fill", "revoked"}
             /\ ItemOK(wire, tokens, killed, n) /\ wire.op \notin {"truncate", "fill", "revoked"}
  BY DEF ItemOK, Op
<1>2. /\ Run((IF disk[JWKS] = Absent THEN setup \o <<it>> ELSE << >>) \o <<wire>>,
             IF disk[JWKS] = Absent THEN 1 ELSE 0)
      /\ tokens' = tokens /\ UNCHANGED <<exposed, chk>>
  BY DEF Install
<1> HIDE DEF it, wire
<1>3. \A n : /\ IsList(<<it>>) /\ Items(<<it>>, tokens, killed, n) /\ Paired(<<it>>) /\ Plain(<<it>>)
             /\ IsList(<<wire>>) /\ Items(<<wire>>, tokens, killed, n) /\ Paired(<<wire>>) /\ Plain(<<wire>>)
  BY <1>1, OneOK
<1>4. CASE disk[JWKS] = Absent
  <2>1. IsList(setup)
    <3> DEFINE a == Write(Key, nkeys + 1)  b == Write(JWKS, nkeys + 1)
               c == Write(Feed, BuildSignedFeed({}, DefaultIssuer, nkeys + 1))
    <3>1. setup = (a \o b) \o c
      BY DEF NewKeySteps
    <3>2. IsList(a) /\ IsList(b) /\ IsList(c)
      BY WriteIs
    <3> HIDE DEF a, b, c, setup
    <3>3. IsList(a \o b)
      BY <3>2, ListConcat
    <3> QED BY <3>1, <3>2, <3>3, ListConcat
  <2> HIDE DEF setup
  <2>2. (setup \o <<it>>) \o <<wire>> = setup \o (<<it>> \o <<wire>>)
    BY <1>3, <2>1, Associative
  <2> DEFINE p == <<it>> \o <<wire>>
  <2>3. /\ IsList(p) /\ Items(p, tokens, killed, nkeys + 1) /\ Paired(p) /\ Plain(p)
    BY <1>3, Joined
  <2> HIDE DEF p
  <2>4. GuardState => CommandOK(setup \o p, disk[Feed], disk[Key], tokens, killed, nkeys + 1)
    BY <2>3, NewKeyOK DEF setup
  <2>5. Run(setup \o p, 1)
    BY <1>2, <1>4, <2>2 DEF p
  <2> QED BY <1>2, <2>4, <2>5, RunStarts
<1>5. CASE disk[JWKS] # Absent
  <2> DEFINE e == << >>  p == e \o <<wire>>
  <2>1. /\ IsList(e) /\ Items(e, tokens, killed, nkeys + 0) /\ Paired(e) /\ Plain(e)
    <3>1. DOMAIN e = {} /\ IsList(e)
      BY DEF IsList
    <3> HIDE DEF e
    <3> QED BY <3>1 DEF Items, Paired, Plain
  <2>2. Run(p, 0)
    BY <1>2, <1>5
  <2> HIDE DEF e
  <2>3. /\ IsList(p) /\ Items(p, tokens, killed, nkeys + 0) /\ Paired(p) /\ Plain(p)
    BY <1>3, <2>1, Joined
  <2> HIDE DEF p
  <2>4. GuardState => CommandOK(p, disk[Feed], disk[Key], tokens, killed, nkeys + 0)
    BY <2>3, PlainOK DEF GuardState, CommandOK
  <2> QED BY <1>2, <2>2, <2>4, RunStarts
<1> QED BY <1>4, <1>5

LEMMA RevokeOK ==
    ASSUME GuardInv, ~exposed', NEW j \in DOMAIN tokens, Trusted(Revoke(j))
    PROVE  GuardInv'
<1> DEFINE v == BuildSignedFeed(disk[Feed].jtis \cup {j}, DefaultIssuer, disk[Key])
           s == Write(Feed, v) \o <<Op("revoked", Feed, j)>>
<1>1. Run(s, 0) /\ tokens' = tokens /\ UNCHANGED <<exposed, chk>>
  BY DEF Trusted, Revoke, RevokeJTI
<1>2. Loadable(disk[Feed]) /\ Loadable(disk[Key])
  BY DEF Trusted, Revoke, CanRevoke, FeedLoads, Loadable
<1>3. v.key = disk[Key] /\ v.jtis = disk[Feed].jtis \cup {j}
  BY DEF BuildSignedFeed
<1> HIDE DEF v
<1>4. ASSUME GuardState PROVE CommandOK(s, disk[Feed], disk[Key], tokens, killed, nkeys + 0)
  <2>1. FeedOK(disk[Feed], disk[Key], tokens, killed) /\ killed \subseteq DOMAIN tokens
    BY <1>4 DEF GuardState, GuardTypes, CommandOK
  <2> QED BY <1>2, <1>3, <2>1, RevokeSteps
<1> HIDE DEF s
<1> QED BY <1>1, <1>4, RunStarts

(* A token minted while no command runs.                                   *)
LEMMA MintedOK ==
    ASSUME GuardInv, ~exposed', UNCHANGED <<exposed, chk, disk, todo, nkeys, killed>>, Idle,
           NEW t, "key" \in DOMAIN t, t.key = disk[Key], tokens' = Append(tokens, t)
    PROVE  GuardInv'
<1>1. /\ GuardState /\ CheckOK(chk, tokens, killed) /\ GuardTypes
      /\ CommandOK(todo, disk[Feed], disk[Key], tokens, killed, nkeys)
  BY DEF GuardInv, GuardState
<1>2. /\ IsList(tokens') /\ Keyed(tokens', nkeys) /\ DOMAIN tokens \subseteq DOMAIN tokens'
      /\ \A j \in DOMAIN tokens : tokens'[j] = tokens[j]
  BY <1>1, TokenAdded DEF GuardTypes
<1>3. ~KeyPending(todo)
  BY DEF KeyPending, Idle
<1>4. CommandOK(todo, disk[Feed], disk[Key], tokens', killed, nkeys)
  BY <1>1, <1>3, Grown DEF GuardTypes
<1>5. CheckOK(chk, tokens', killed)
  BY <1>1, <1>2, CheckLater DEF GuardTypes
<1> QED BY <1>1, <1>2, <1>4, <1>5 DEF GuardInv, GuardState, GuardTypes

LEMMA OperatorStep ==
    ASSUME GuardInv, ~exposed', GuardCommand
    PROVE  GuardInv'
<1>1. ASSUME NEW role, Trusted(MintRoleToken(role)) PROVE GuardInv'
  <2> DEFINE t == MintGrant(RoleNode(role), disk[Key], DefaultIssuer)
  <2>1. "key" \in DOMAIN t /\ t.key = disk[Key]
    BY DEF MintGrant
  <2>2. Idle /\ tokens' = Append(tokens, t) /\ UNCHANGED <<exposed, chk, disk, todo, nkeys, killed>>
    BY <1>1 DEF Trusted, MintRoleToken
  <2> HIDE DEF t
  <2> QED BY <2>1, <2>2, MintedOK
<1>2. ASSUME NEW j \in DOMAIN tokens, NEW r, Trusted(MintChildToken(j, "subagent", r)) PROVE GuardInv'
  <2> DEFINE t == ChildToken(tokens[j], "subagent", r)
  <2>1. ~exposed => "key" \in DOMAIN tokens[j]
    BY DEF GuardInv, GuardState, GuardTypes, Keyed
  <2>2. ~exposed => "key" \in DOMAIN t /\ t.key = disk[Key]
    BY <2>1 DEF ChildToken
  <2>3. Idle /\ tokens' = Append(tokens, t) /\ UNCHANGED <<exposed, chk, disk, todo, nkeys, killed>>
    BY <1>2 DEF Trusted, MintChildToken
  <2> HIDE DEF t
  <2> QED BY <2>2, <2>3, MintedOK
<1>3. CASE Uninstall
  BY <1>3 DEF Uninstall, GuardInv, GuardState, GuardTypes, trustVars
<1>4. CASE mergePreToolUse
  <2>1. todo # << >> /\ todo[1].op = "hook" /\ todo' = Tail(todo)
        /\ UNCHANGED <<disk, tokens, nkeys, killed, chk, exposed>>
    BY <1>4 DEF mergePreToolUse, At, Rest
  <2>2. GuardState /\ CheckOK(chk, tokens, killed)
    BY <2>1 DEF GuardInv
  <2>3. CommandOK(Tail(todo), disk[Feed], disk[Key], tokens, killed, nkeys)
    BY <2>1, <2>2, OtherStep DEF GuardState, FeedWrite, KeyWrite
  <2> QED BY <2>1, <2>2, <2>3 DEF GuardInv, GuardState, GuardTypes
<1>5. ASSUME NEW v, Run(Write(OverlayFile, v), 0), UNCHANGED <<tokens, hook, chk, feeds, exposed>>
      PROVE  GuardInv'
  BY <1>5, OverlayOK, RunStarts
<1>6. ASSUME NEW r, OverlayDeny(r) \/ OverlayAllow(r) \/ handleEdit(r) PROVE GuardInv'
  BY <1>5, <1>6 DEF OverlayDeny, OverlayAllow, handleEdit
<1>7. CASE Trusted(Tick)
  BY <1>7 DEF Trusted, Tick, GuardInv, GuardState, GuardTypes
<1> QED BY <1>1, <1>2, <1>3, <1>4, <1>6, <1>7, InitOK, InstallOK, RevokeOK DEF GuardCommand

LEMMA GuardStart == GuardInit => GuardInv
<1> SUFFICES ASSUME GuardInit PROVE GuardInv
  OBVIOUS
<1>1. /\ disk = [f \in Files |-> Absent] /\ todo = << >> /\ tokens = << >> /\ nkeys = 0
      /\ killed = {} /\ chk = NoCheck
  BY DEF GuardInit, TrustInit
<1>2. {Key, Feed} \subseteq Files
  BY DEF Files, Trust
<1>3. disk[Key] = Absent /\ disk[Feed] = Absent /\ Absent \in Unreadable
  BY <1>1, <1>2 DEF Unreadable
<1>4. FeedOK(disk[Feed], disk[Key], tokens, killed)
  BY <1>3 DEF FeedOK, Loadable
<1>5. CommandOK(todo, disk[Feed], disk[Key], tokens, killed, nkeys)
  BY <1>1, <1>4, NothingOK
<1>6. IsList(tokens) /\ DOMAIN tokens = {}
  BY <1>1 DEF IsList
<1>7. GuardTypes
  BY <1>1, <1>3, <1>6 DEF GuardTypes, Keyed
<1>8. CheckOK(chk, tokens, killed)
  BY <1>1 DEF CheckOK
<1> QED BY <1>5, <1>7, <1>8 DEF GuardInv, GuardState

LEMMA GuardKept ==
    ASSUME GuardInv, [GuardNext]_guardVars
    PROVE  GuardInv'
<1> SUFFICES ASSUME ~exposed' PROVE GuardInv'
  BY DEF GuardInv
<1>1. CASE UNCHANGED guardVars
  BY <1>1 DEF guardVars, trustVars, GuardInv, GuardState, GuardTypes
<1> QED BY <1>1, CommandStep, OperatorStep, CheckStep DEF GuardNext

LEMMA GuardBlocks == GuardInv => RevokedIsBlocked
BY DEF GuardInv, CheckOK, RevokedIsBlocked, NoCheck

(* A revoked token lets no further call through: the guard's own commands  *)
(* never leave a feed in place that its key vouches for and that lacks a   *)
(* token reported as revoked, and a call overwrites the feed only by a path*)
(* that its check could not tell for the feed's (checkPaths), whatever the *)
(* links, the paths and the files it destroys.                             *)
THEOREM RevokedCallsAreBlocked == GuardSpec => []RevokedIsBlocked
<1>1. GuardInit => GuardInv
  BY GuardStart
<1>2. GuardInv /\ [GuardNext]_guardVars => GuardInv'
  BY GuardKept
<1>3. GuardInv => RevokedIsBlocked
  BY GuardBlocks
<1> QED BY <1>1, <1>2, <1>3, PTL DEF GuardSpec

-----------------------------------------------------------------------------
(* Grants as code.                                                         *)

SetupWrite(it) == it.op \in {"truncate", "fill"} /\ it.f \in {Key, JWKS, Feed}
KeyFill(it) == it.op = "fill" /\ it.f = Key

(* A step, given the tokens T and those in P that have been pruned: a feed *)
(* yet to be written lists all of P, a key or its JWKS comes before any.   *)
StepOK(it, T, P) ==
    \/ /\ it.op \in {"truncate", "fill"}
       /\ \/ it.f \in TokenFiles /\ it.v \in DOMAIN T
          \/ it.f = Key /\ P = {} /\ Loadable(it.v)
          \/ it.f = JWKS /\ P = {}
          \/ it.f = Feed /\ P \subseteq it.v.jtis /\ it.v.exp \in Nat
    \/ it.op = "apply" /\ it.v.file \in GrantsFiles /\ it.v.at \in Places(it.v.file)
    \/ it.op \in {"mint", "prune", "applied", "revoked"}
    \/ it.op = "remove" /\ it.f \in TokenFiles /\ it.v \in Unreadable \cup DOMAIN T

Steps(s, T, P) == \A k \in DOMAIN s : StepOK(s[k], T, P)

Sequenced(s) ==
    /\ \A i, k \in DOMAIN s : i < k /\ SetupWrite(s[k]) => s[i].op \in {"truncate", "fill"}
    /\ \A i, k \in DOMAIN s : FeedWrite(s[k]) /\ KeyWrite(s[i]) => i < k
    /\ \A i, k \in DOMAIN s : KeyFill(s[i]) /\ KeyWrite(s[k]) => k <= i
    /\ \A i, k \in DOMAIN s : i < k /\ s[k].op = "remove" /\ Loadable(s[k].v)
                              => FeedWrite(s[i]) /\ s[k].v \in s[i].v.jtis

(* A feed is written once there is a key.                                  *)
KeyFirst(s, key) ==
    (\E k \in DOMAIN s : FeedWrite(s[k])) =>
        \/ \E i \in DOMAIN s : KeyFill(s[i])
        \/ Loadable(key) /\ ~KeyPending(s)

(* Token j, if of the default issuer, is refused by whoever loads feed F.  *)
Refused(j, F, jwks, now) ==
    Loadable(F) /\ Loadable(jwks) /\ F.key = jwks /\ F.iss = DefaultIssuer /\ now < F.exp
      => j \in F.jtis

HeadRefused(s, F, jwks, now) ==
    s # << >> /\ s[1].op = "remove" /\ Loadable(s[1].v) => Refused(s[1].v, F, jwks, now)

(* What holds of the directory whatever is left to do.                     *)
Still(F, key, jwks, T, P, now) ==
    /\ key = Absent => DOMAIN T = {}
    /\ Loadable(F) => Loadable(key) /\ F.exp \in Nat
    /\ \A j \in P : Refused(j, F, jwks, now)

QueueOK(s, F, key, jwks, T, P, now) ==
    /\ IsList(s) /\ Steps(s, T, P) /\ Sequenced(s) /\ KeyFirst(s, key)
    /\ key = Absent /\ s # << >> => KeyPending(s)
    /\ Loadable(F) => ~KeyPending(s)
    /\ HeadRefused(s, F, jwks, now)
    /\ Still(F, key, jwks, T, P, now)

TrustTypes ==
    /\ disk = [f \in Files |-> disk[f]] /\ IsList(tokens) /\ nkeys \in Nat /\ clock \in Nat
    /\ declared \in GrantsFiles /\ pruned \subseteq DOMAIN tokens
    /\ \A f \in TokenFiles : disk[f] \in Unreadable \cup DOMAIN tokens

PruneInv ==
    /\ TrustTypes /\ \A j \in DOMAIN tokens : tokens[j].iss = DefaultIssuer
    /\ QueueOK(todo, disk[Feed], disk[Key], disk[JWKS], tokens, pruned, clock)

(* Steps that set nothing up and remove no token.                          *)
Light(s) == \A k \in DOMAIN s : ~SetupWrite(s[k]) /\ ~(s[k].op = "remove" /\ Loadable(s[k].v))

LEMMA Rests ==
    ASSUME NEW s, IsList(s), s # << >>
    PROVE  /\ IsList(Tail(s)) /\ 1 \in DOMAIN s
           /\ \A k \in DOMAIN Tail(s) : k + 1 \in DOMAIN s /\ Tail(s)[k] = s[k + 1] /\ k \in Nat \ {0}
           /\ \A k \in DOMAIN s : k = 1 \/ (k - 1 \in DOMAIN Tail(s) /\ Tail(s)[k - 1] = s[k])
           /\ DOMAIN s = 1..Len(s) /\ DOMAIN Tail(s) = 1..Len(Tail(s)) /\ Len(Tail(s)) = Len(s) - 1
           /\ Len(s) \in Nat \ {0}
<1> DEFINE t == Tail(s)
<1>1. /\ IsList(t) /\ Len(t) = Len(s) - 1 /\ Len(s) \in Nat \ {0}
      /\ \A k \in 1..(Len(s) - 1) : t[k] = s[k + 1]
  BY ListTail
<1> HIDE DEF t
<1>2. DOMAIN s = 1..Len(s) /\ DOMAIN t = 1..(Len(s) - 1)
  BY <1>1 DEF IsList
<1>3. \A k \in 1..Len(s) : k = 1 \/ (k - 1 \in 1..(Len(s) - 1) /\ (k - 1) + 1 = k)
  BY <1>1
<1> QED BY <1>1, <1>2, <1>3 DEF t

LEMMA QueueTail ==
    ASSUME NEW s, NEW T, NEW P, IsList(s), s # << >>, Steps(s, T, P), Sequenced(s)
    PROVE  Steps(Tail(s), T, P) /\ Sequenced(Tail(s))
<1> DEFINE t == Tail(s)
<1>1. /\ \A k \in DOMAIN t : k + 1 \in DOMAIN s /\ t[k] = s[k + 1] /\ k \in Nat \ {0}
  BY Rests
<1> HIDE DEF t
<1>2. \A i, k \in DOMAIN t : (i < k <=> i + 1 < k + 1) /\ (k <= i <=> k + 1 <= i + 1)
  BY <1>1
<1>3. \A i, k \in DOMAIN t : i < k /\ SetupWrite(t[k]) => t[i].op \in {"truncate", "fill"}
  BY <1>1, <1>2 DEF Sequenced
<1>4. \A i, k \in DOMAIN t : FeedWrite(t[k]) /\ KeyWrite(t[i]) => i < k
  BY <1>1, <1>2 DEF Sequenced
<1>5. \A i, k \in DOMAIN t : KeyFill(t[i]) /\ KeyWrite(t[k]) => k <= i
  BY <1>1, <1>2 DEF Sequenced
<1>6. \A i, k \in DOMAIN t : i < k /\ t[k].op = "remove" /\ Loadable(t[k].v)
                              => FeedWrite(t[i]) /\ t[k].v \in t[i].v.jtis
  BY <1>1, <1>2 DEF Sequenced
<1> QED BY <1>1, <1>3, <1>4, <1>5, <1>6 DEF Sequenced, Steps, t

(* A step that writes neither key.pem nor the feed; the JWKS is written    *)
(* before any token is pruned.                                             *)
LEMMA QueueOther ==
    ASSUME NEW s, NEW F, NEW key, NEW jwks, NEW new, NEW T, NEW P, NEW now,
           QueueOK(s, F, key, jwks, T, P, now), s # << >>, ~FeedWrite(s[1]), ~KeyWrite(s[1]),
           new = jwks \/ P = {}
    PROVE  QueueOK(Tail(s), F, key, new, T, P, now)
<1> DEFINE t == Tail(s)
<1>1. IsList(s) /\ Steps(s, T, P) /\ Sequenced(s)
  BY DEF QueueOK
<1>2. /\ IsList(t) /\ 1 \in DOMAIN s /\ Steps(t, T, P) /\ Sequenced(t)
      /\ \A k \in DOMAIN t : k + 1 \in DOMAIN s /\ t[k] = s[k + 1] /\ k \in Nat \ {0}
      /\ \A k \in DOMAIN s : k = 1 \/ (k - 1 \in DOMAIN t /\ t[k - 1] = s[k])
      /\ DOMAIN t = 1..Len(t)
  BY <1>1, Rests, QueueTail
<1> HIDE DEF t
<1>3. KeyPending(s) <=> KeyPending(t)
  BY <1>2 DEF KeyPending
<1>4. (\E i \in DOMAIN s : KeyFill(s[i])) => \E i \in DOMAIN t : KeyFill(t[i])
  BY <1>2 DEF KeyFill, KeyWrite
<1>5. KeyFirst(t, key)
  BY <1>2, <1>3, <1>4 DEF QueueOK, KeyFirst
<1>6. HeadRefused(t, F, new, now)
  <2> SUFFICES ASSUME t # << >>, t[1].op = "remove", Loadable(t[1].v) PROVE FALSE
    BY DEF HeadRefused
  <2>1. 1 \in DOMAIN t
    BY <1>2 DEF IsList
  <2>2. 2 \in DOMAIN s /\ s[2] = t[1]
    BY <1>2, <2>1
  <2>3. FeedWrite(s[1])
    BY <1>1, <1>2, <2>2 DEF Sequenced
  <2> QED BY <2>3
<1>7. Still(F, key, new, T, P, now)
  BY DEF QueueOK, Still
<1> QED BY <1>2, <1>3, <1>5, <1>6, <1>7 DEF QueueOK, t

LEMMA QueueFeed ==
    ASSUME NEW s, NEW F, NEW key, NEW jwks, NEW G, NEW T, NEW P, NEW now,
           QueueOK(s, F, key, jwks, T, P, now), s # << >>, FeedWrite(s[1]),
           G = IF s[1].op = "truncate" THEN Empty ELSE s[1].v
    PROVE  QueueOK(Tail(s), G, key, jwks, T, P, now)
<1> DEFINE t == Tail(s)
<1>1. IsList(s) /\ Steps(s, T, P) /\ Sequenced(s)
  BY DEF QueueOK
<1>2. /\ IsList(t) /\ 1 \in DOMAIN s /\ Steps(t, T, P) /\ Sequenced(t)
      /\ \A k \in DOMAIN t : k + 1 \in DOMAIN s /\ t[k] = s[k + 1] /\ k \in Nat \ {0}
      /\ DOMAIN t = 1..Len(t) /\ DOMAIN s = 1..Len(s)
  BY <1>1, Rests, QueueTail
<1> HIDE DEF t
<1>3. Loadable(key) /\ ~KeyPending(s)
  <2>1. \A i \in DOMAIN s : ~KeyFill(s[i])
    <3> SUFFICES ASSUME NEW i \in DOMAIN s, KeyFill(s[i]) PROVE FALSE
      OBVIOUS
    <3>1. i < 1
      BY <1>1, <1>2 DEF Sequenced, KeyFill, KeyWrite
    <3> QED BY <1>2, <3>1
  <2> QED BY <1>2, <2>1 DEF QueueOK, KeyFirst
<1>4. ~KeyPending(t)
  BY <1>2, <1>3 DEF KeyPending
<1>5. P \subseteq s[1].v.jtis /\ s[1].v.exp \in Nat
  <2>1. StepOK(s[1], T, P)
    BY <1>1, <1>2 DEF Steps
  <2>2. Feed # Key /\ Feed # JWKS /\ Feed \notin TokenFiles
    BY TrustAssumption DEF Feed, Key, JWKS, Trust
  <2> QED BY <2>1, <2>2 DEF StepOK, FeedWrite
<1>6. ~Loadable(Empty) /\ key # Absent
  BY <1>3 DEF Loadable, Unreadable
<1>7. Still(G, key, jwks, T, P, now)
  BY <1>3, <1>5, <1>6 DEF Still, Refused
<1>8. HeadRefused(t, G, jwks, now)
  <2> SUFFICES ASSUME t # << >>, t[1].op = "remove", Loadable(t[1].v), Loadable(G)
               PROVE  t[1].v \in G.jtis
    BY DEF HeadRefused, Refused
  <2>1. 1 \in DOMAIN t
    BY <1>2 DEF IsList
  <2>2. 2 \in DOMAIN s /\ s[2] = t[1]
    BY <1>2, <2>1
  <2>3. s[2].v \in s[1].v.jtis
    BY <1>1, <1>2, <2>2 DEF Sequenced
  <2> QED BY <1>6, <2>2, <2>3
<1>9. KeyFirst(t, key)
  BY <1>3, <1>4 DEF KeyFirst
<1> QED BY <1>2, <1>4, <1>6, <1>7, <1>8, <1>9 DEF QueueOK, t

LEMMA QueueKey ==
    ASSUME NEW s, NEW F, NEW key, NEW jwks, NEW new, NEW T, NEW P, NEW now,
           QueueOK(s, F, key, jwks, T, P, now), s # << >>, KeyWrite(s[1]),
           new = IF s[1].op = "truncate" THEN Empty ELSE s[1].v
    PROVE  QueueOK(Tail(s), F, new, jwks, T, P, now)
<1> DEFINE t == Tail(s)
<1>1. IsList(s) /\ Steps(s, T, P) /\ Sequenced(s)
  BY DEF QueueOK
<1>2. /\ IsList(t) /\ 1 \in DOMAIN s /\ Steps(t, T, P) /\ Sequenced(t)
      /\ \A k \in DOMAIN t : k + 1 \in DOMAIN s /\ t[k] = s[k + 1] /\ k \in Nat \ {0}
      /\ \A k \in DOMAIN s : k = 1 \/ (k - 1 \in DOMAIN t /\ t[k - 1] = s[k])
      /\ DOMAIN t = 1..Len(t) /\ DOMAIN s = 1..Len(s)
  BY <1>1, Rests, QueueTail
<1> HIDE DEF t
<1>3. P = {} /\ Loadable(s[1].v)
  <2>1. StepOK(s[1], T, P)
    BY <1>1, <1>2 DEF Steps
  <2>2. Feed # Key /\ Key # JWKS /\ Key \notin TokenFiles
    BY TrustAssumption DEF Feed, Key, JWKS, Trust
  <2> QED BY <2>1, <2>2 DEF StepOK, KeyWrite
<1>4. KeyPending(s) /\ ~Loadable(F)
  BY <1>2 DEF KeyPending, QueueOK
<1>5. new # Absent
  BY <1>3, TrustAssumption DEF Loadable, Unreadable
<1>6. KeyFirst(t, new)
  <2> SUFFICES ASSUME NEW k \in DOMAIN t, FeedWrite(t[k])
               PROVE  (\E i \in DOMAIN t : KeyFill(t[i])) \/ (Loadable(new) /\ ~KeyPending(t))
    BY DEF KeyFirst
  <2>1. PICK i \in DOMAIN s : KeyFill(s[i])
    BY <1>2, <1>4 DEF QueueOK, KeyFirst
  <2>2. CASE i = 1
    <3>1. Loadable(new)
      BY <1>3, <2>1, <2>2 DEF KeyFill
    <3>2. ~KeyPending(t)
      <4> SUFFICES ASSUME NEW x \in DOMAIN t, KeyWrite(t[x]) PROVE FALSE
        BY DEF KeyPending
      <4>1. x + 1 <= 1
        BY <1>1, <1>2, <2>1, <2>2 DEF Sequenced
      <4> QED BY <1>2, <4>1
    <3> QED BY <3>1, <3>2
  <2>3. CASE i # 1
    BY <1>2, <2>1, <2>3
  <2> QED BY <2>2, <2>3
<1>7. Still(F, new, jwks, T, P, now) /\ HeadRefused(t, F, jwks, now)
  BY <1>3, <1>4, <1>5 DEF Still, HeadRefused, Refused
<1> QED BY <1>2, <1>4, <1>5, <1>6, <1>7 DEF QueueOK, t

(* A token file is gone, and its token refused.                            *)
LEMMA QueueRemove ==
    ASSUME NEW s, NEW F, NEW key, NEW jwks, NEW T, NEW P, NEW now,
           QueueOK(s, F, key, jwks, T, P, now), s # << >>, s[1].op = "remove"
    PROVE  QueueOK(Tail(s), F, key, jwks, T, P \cup ({s[1].v} \ Unreadable), now)
<1> DEFINE t == Tail(s)  Q == P \cup ({s[1].v} \ Unreadable)
<1>1. IsList(s) /\ Sequenced(s) /\ ~FeedWrite(s[1]) /\ ~KeyWrite(s[1])
  BY DEF QueueOK, FeedWrite, KeyWrite
<1>2. QueueOK(t, F, key, jwks, T, P, now)
  BY <1>1, QueueOther
<1>3. /\ 1 \in DOMAIN s
      /\ \A k \in DOMAIN t : k + 1 \in DOMAIN s /\ t[k] = s[k + 1] /\ k \in Nat \ {0}
  BY <1>1, Rests
<1> HIDE DEF t
<1>4. \A k \in DOMAIN t : 1 < k + 1
  BY <1>3
<1>5. \A k \in DOMAIN t : ~SetupWrite(t[k])
  BY <1>1, <1>3, <1>4 DEF Sequenced
<1>6. Steps(t, T, Q)
  BY <1>2, <1>5 DEF QueueOK, Steps, StepOK, SetupWrite
<1>7. s[1].v \notin Unreadable => Refused(s[1].v, F, jwks, now)
  BY DEF QueueOK, HeadRefused, Loadable
<1>8. Still(F, key, jwks, T, Q, now)
  BY <1>2, <1>7 DEF QueueOK, Still
<1> QED BY <1>2, <1>6, <1>8 DEF QueueOK, t

(* Nothing that is set up: light steps on a directory with a key.          *)
LEMMA QueueLight ==
    ASSUME NEW s, NEW F, NEW key, NEW jwks, NEW T, NEW P, NEW now,
           IsList(s), Steps(s, T, P), Light(s), key # Absent \/ s = << >>,
           Still(F, key, jwks, T, P, now)
    PROVE  QueueOK(s, F, key, jwks, T, P, now)
<1>1. \A k \in DOMAIN s : ~FeedWrite(s[k]) /\ ~KeyWrite(s[k]) /\ ~KeyFill(s[k])
  BY DEF Light, SetupWrite, FeedWrite, KeyWrite, KeyFill
<1>2. Sequenced(s) /\ KeyFirst(s, key) /\ ~KeyPending(s)
  BY <1>1 DEF Sequenced, KeyFirst, KeyPending, Light
<1>3. HeadRefused(s, F, jwks, now)
  <2> SUFFICES ASSUME s # << >> PROVE 1 \in DOMAIN s
    BY DEF HeadRefused, Light
  <2> QED BY Rests
<1> QED BY <1>2, <1>3 DEF QueueOK

LEMMA QueueSetup ==
    ASSUME NEW p, NEW m, Loadable(m), NEW v, v.exp \in Nat, NEW F, NEW jwks, NEW T, NEW now, IsList(p), Steps(p, T, {}), Light(p),
           ~Loadable(F), DOMAIN T = {}
    PROVE  QueueOK(Write(Key, m) \o Write(JWKS, m) \o Write(Feed, v) \o p, F, Absent, jwks, T, {}, now)
<1> DEFINE s == Write(Key, m) \o Write(JWKS, m) \o Write(Feed, v) \o p
<1>1. /\ IsList(s) /\ Len(s) = 6 + Len(p) /\ Len(p) \in Nat
      /\ DOMAIN s = 1..(6 + Len(p)) /\ DOMAIN p = 1..Len(p)
      /\ s[1] = Op("truncate", Key, m) /\ s[2] = Op("fill", Key, m)
      /\ s[3] = Op("truncate", JWKS, m) /\ s[4] = Op("fill", JWKS, m)
      /\ s[5] = Op("truncate", Feed, v) /\ s[6] = Op("fill", Feed, v)
      /\ \A k \in DOMAIN s : \/ k \in 1..6
                             \/ k > 6 /\ k - 6 \in DOMAIN p /\ s[k] = p[k - 6]
  <2> HIDE DEF s
  <2>1. s = SetupList(m, v, p)
    BY DEF s, SetupList
  <2> QED BY <2>1, SetupShape
<1> HIDE DEF s
<1>2. Key # JWKS /\ Key # Feed /\ JWKS # Feed
  BY DEF Key, JWKS, Feed
<1>3. \A k \in DOMAIN s : k \in {1, 2, 3, 4, 5, 6} \/ (k > 6 /\ k - 6 \in DOMAIN p /\ s[k] = p[k - 6])
  BY <1>1
<1>4. 1 \in DOMAIN s /\ 2 \in DOMAIN s
  BY <1>1
<1>5. \A k \in DOMAIN s : /\ SetupWrite(s[k]) => k \in {1, 2, 3, 4, 5, 6}
                          /\ FeedWrite(s[k]) => k \in {5, 6}
                          /\ KeyWrite(s[k]) => k \in {1, 2}
                          /\ KeyFill(s[k]) => k = 2
                          /\ k \in {1, 2, 3, 4, 5, 6} => s[k].op \in {"truncate", "fill"}
                          /\ ~(s[k].op = "remove" /\ Loadable(s[k].v))
                          /\ StepOK(s[k], T, {})
  <2> TAKE k \in DOMAIN s
  <2>1. CASE k \in {1, 2, 3, 4, 5, 6}
    BY <1>1, <1>2, <2>1 DEF SetupWrite, FeedWrite, KeyWrite, KeyFill, StepOK, Op
  <2>2. CASE k > 6 /\ k - 6 \in DOMAIN p /\ s[k] = p[k - 6]
    <3>1. /\ ~SetupWrite(s[k]) /\ ~(s[k].op = "remove" /\ Loadable(s[k].v)) /\ StepOK(s[k], T, {})
      BY <2>2 DEF Light, Steps
    <3> QED BY <2>2, <3>1 DEF SetupWrite, FeedWrite, KeyWrite, KeyFill
  <2> QED BY <1>3, <2>1, <2>2
<1>6. \A i, k \in DOMAIN s : i < k /\ SetupWrite(s[k]) => s[i].op \in {"truncate", "fill"}
  <2> SUFFICES ASSUME NEW i \in DOMAIN s, NEW k \in DOMAIN s, i < k, SetupWrite(s[k])
               PROVE  s[i].op \in {"truncate", "fill"}
    OBVIOUS
  <2>1. k \in {1, 2, 3, 4, 5, 6}
    BY <1>5
  <2>2. i \in {1, 2, 3, 4, 5, 6}
    BY <1>1, <2>1
  <2> QED BY <1>5, <2>2
<1>7. \A i, k \in DOMAIN s : FeedWrite(s[k]) /\ KeyWrite(s[i]) => i < k
  <2> SUFFICES ASSUME NEW i \in DOMAIN s, NEW k \in DOMAIN s, FeedWrite(s[k]), KeyWrite(s[i])
               PROVE  i < k
    OBVIOUS
  <2>1. k \in {5, 6} /\ i \in {1, 2}
    BY <1>5
  <2> QED BY <2>1
<1>8. \A i, k \in DOMAIN s : KeyFill(s[i]) /\ KeyWrite(s[k]) => k <= i
  <2> SUFFICES ASSUME NEW i \in DOMAIN s, NEW k \in DOMAIN s, KeyFill(s[i]), KeyWrite(s[k])
               PROVE  k <= i
    OBVIOUS
  <2>1. i = 2 /\ k \in {1, 2}
    BY <1>5
  <2> QED BY <2>1
<1>9. Sequenced(s)
  BY <1>5, <1>6, <1>7, <1>8 DEF Sequenced
<1>10. KeyFill(s[2]) /\ KeyWrite(s[2])
  BY <1>1 DEF KeyFill, KeyWrite, Op
<1>11. KeyFirst(s, Absent) /\ KeyPending(s)
  BY <1>4, <1>10 DEF KeyFirst, KeyPending
<1>12. HeadRefused(s, F, jwks, now) /\ Still(F, Absent, jwks, T, {}, now)
  BY DEF HeadRefused, Refused, Still
<1> QED BY <1>1, <1>5, <1>9, <1>11, <1>12 DEF QueueOK, Steps, s

(* A feed that lists all that has been pruned, then steps p.               *)
LEMMA QueueLists ==
    ASSUME NEW p, NEW v, NEW F, NEW key, NEW jwks, NEW T, NEW P, NEW now, IsList(p), Steps(p, T, P),
           \A k \in DOMAIN p : /\ ~SetupWrite(p[k])
                               /\ p[k].op = "remove" /\ Loadable(p[k].v) => k = 1 /\ p[k].v \in v.jtis,
           P \subseteq v.jtis, v.exp \in Nat, Loadable(key), Still(F, key, jwks, T, P, now)
    PROVE  QueueOK(Write(Feed, v) \o p, F, key, jwks, T, P, now)
<1> DEFINE w == Write(Feed, v)  s == w \o p
<1>1. IsList(w) /\ Len(w) = 2 /\ w[1] = Op("truncate", Feed, v) /\ w[2] = Op("fill", Feed, v)
  BY WriteIs
<1>2. IsList(w)
  BY <1>1
<1> HIDE DEF w
<1>3. /\ IsList(s) /\ Len(s) = Len(w) + Len(p) /\ Len(p) \in Nat
      /\ DOMAIN s = 1..(Len(w) + Len(p)) /\ DOMAIN p = 1..Len(p)
      /\ \A k \in 1..Len(w) : s[k] = w[k]
      /\ \A k \in 1..Len(p) : s[Len(w) + k] = p[k]
  BY <1>2, ListConcat
<1> HIDE DEF s
<1>4. /\ s[1] = Op("truncate", Feed, v) /\ s[2] = Op("fill", Feed, v) /\ DOMAIN s = 1..(2 + Len(p))
      /\ \A k \in 1..Len(p) : s[2 + k] = p[k]
  BY <1>1, <1>3
<1>5. \A k \in DOMAIN s : k \in {1, 2} \/ (k > 2 /\ k - 2 \in DOMAIN p /\ s[k] = p[k - 2])
  <2> SUFFICES ASSUME NEW k \in DOMAIN s, k \notin {1, 2}
               PROVE  k > 2 /\ k - 2 \in DOMAIN p /\ s[k] = p[k - 2]
    OBVIOUS
  <2>1. k > 2 /\ k - 2 \in 1..Len(p) /\ 2 + (k - 2) = k
    BY <1>3, <1>4
  <2> QED BY <1>3, <1>4, <2>1
<1>6. Key # Feed
  BY DEF Key, Feed
<1>7. \A k \in DOMAIN s : /\ SetupWrite(s[k]) => k \in {1, 2}
                          /\ ~KeyWrite(s[k]) /\ ~KeyFill(s[k])
                          /\ k \in {1, 2} => s[k].op \in {"truncate", "fill"} /\ FeedWrite(s[k]) /\ s[k].v = v
                          /\ s[k].op = "remove" /\ Loadable(s[k].v) => k = 3 /\ s[k].v \in v.jtis
                          /\ StepOK(s[k], T, P)
  <2> TAKE k \in DOMAIN s
  <2>1. CASE k \in {1, 2}
    BY <1>4, <1>6, <2>1 DEF SetupWrite, FeedWrite, KeyWrite, KeyFill, StepOK, Op
  <2>2. CASE k > 2 /\ k - 2 \in DOMAIN p /\ s[k] = p[k - 2]
    <3>1. /\ ~SetupWrite(s[k]) /\ StepOK(s[k], T, P)
          /\ s[k].op = "remove" /\ Loadable(s[k].v) => k - 2 = 1 /\ s[k].v \in v.jtis
      BY <2>2 DEF Steps
    <3>2. k - 2 = 1 => k = 3
      BY <1>3, <1>4
    <3> QED BY <2>2, <3>1, <3>2 DEF SetupWrite, FeedWrite, KeyWrite, KeyFill
  <2> QED BY <1>5, <2>1, <2>2
<1>8. \A i, k \in DOMAIN s : i < k /\ k \in {1, 2, 3} => i \in {1, 2}
  BY <1>3, <1>4
<1>9. Sequenced(s)
  BY <1>7, <1>8 DEF Sequenced
<1>10. KeyFirst(s, key) /\ ~KeyPending(s)
  BY <1>7 DEF KeyFirst, KeyPending
<1>11. HeadRefused(s, F, jwks, now) /\ key # Absent
  BY <1>4 DEF HeadRefused, Op, Loadable, Unreadable
<1> QED BY <1>3, <1>7, <1>9, <1>10, <1>11 DEF QueueOK, Steps, s, w

-----------------------------------------------------------------------------
(* Lists that are put together.                                            *)

LEMMA Empties ==
    ASSUME NEW s, IsList(s)
    PROVE  << >> \o s = s /\ s \o << >> = s /\ IsList(<< >>) /\ DOMAIN << >> = {}
<1> DEFINE S == {s[k] : k \in 1..Len(s)}
<1>1. s \in Seq(S)
  BY ListIsSeq
<1> HIDE DEF S
<1>2. << >> \o s = s /\ s \o << >> = s
  BY <1>1, ConcatEmptySeq
<1>3. IsList(<< >>) /\ DOMAIN << >> = {}
  BY DEF IsList
<1> QED BY <1>2, <1>3

LEMMA Cases ==
    ASSUME NEW s, NEW t, IsList(s), IsList(t)
    PROVE  /\ IsList(s \o t)
           /\ \A k \in DOMAIN (s \o t) :
                 \/ k \in DOMAIN s /\ (s \o t)[k] = s[k]
                 \/ k - Len(s) \in DOMAIN t /\ (s \o t)[k] = t[k - Len(s)] /\ k > Len(s)
           /\ \A k \in DOMAIN s : k \in DOMAIN (s \o t) /\ (s \o t)[k] = s[k]
           /\ \A k \in DOMAIN t : Len(s) + k \in DOMAIN (s \o t) /\ (s \o t)[Len(s) + k] = t[k]
           /\ Len(s \o t) = Len(s) + Len(t) /\ Len(s) \in Nat /\ Len(t) \in Nat
           /\ DOMAIN s = 1..Len(s) /\ DOMAIN t = 1..Len(t) /\ DOMAIN (s \o t) = 1..Len(s \o t)
<1> DEFINE u == s \o t  a == Len(s)  b == Len(t)
<1>1. /\ IsList(u) /\ Len(u) = a + b /\ a \in Nat /\ b \in Nat
      /\ \A k \in 1..a : u[k] = s[k]
      /\ \A k \in 1..b : u[a + k] = t[k]
      /\ DOMAIN s = 1..a /\ DOMAIN t = 1..b /\ DOMAIN u = 1..(a + b)
  BY ListConcat
<1> HIDE DEF u, a, b
<1>2. \A k \in 1..(a + b) : k \in 1..a \/ (k - a \in 1..b /\ a + (k - a) = k /\ k > a)
  BY <1>1
<1>3. \A k \in 1..a : k \in 1..(a + b)
  BY <1>1
<1>4. \A k \in 1..b : a + k \in 1..(a + b)
  BY <1>1
<1>5. \A k \in DOMAIN u : \/ k \in DOMAIN s /\ u[k] = s[k]
                          \/ k - a \in DOMAIN t /\ u[k] = t[k - a] /\ k > a
  BY <1>1, <1>2
<1> QED BY <1>1, <1>3, <1>4, <1>5 DEF u, a, b

LEMMA LightJoined ==
    ASSUME NEW s, NEW t, NEW T, NEW P, IsList(s), IsList(t), Steps(s, T, P), Steps(t, T, P),
           Light(s), Light(t)
    PROVE  IsList(s \o t) /\ Steps(s \o t, T, P) /\ Light(s \o t)
<1> DEFINE u == s \o t
<1>1. /\ IsList(u)
      /\ \A k \in DOMAIN u : \/ k \in DOMAIN s /\ u[k] = s[k]
                             \/ k - Len(s) \in DOMAIN t /\ u[k] = t[k - Len(s)] /\ k > Len(s)
  BY Cases
<1> HIDE DEF u
<1> QED BY <1>1 DEF Steps, Light, u

LEMMA LightOne ==
    ASSUME NEW it, NEW T, NEW P, StepOK(it, T, P), it.op \notin {"truncate", "fill", "remove"}
    PROVE  IsList(<<it>>) /\ Steps(<<it>>, T, P) /\ Light(<<it>>)
<1> DEFINE w == <<it>>
<1>1. DOMAIN w = {1} /\ w[1] = it /\ IsList(w)
  BY DEF IsList
<1> HIDE DEF w
<1> QED BY <1>1 DEF Steps, Light, SetupWrite, w

LEMMA LightWrite ==
    ASSUME NEW f \in TokenFiles, NEW v, NEW T, NEW P, v \in DOMAIN T
    PROVE  IsList(Write(f, v)) /\ Steps(Write(f, v), T, P) /\ Light(Write(f, v))
<1> DEFINE w == Write(f, v)
<1>1. IsList(w) /\ Len(w) = 2 /\ w[1] = Op("truncate", f, v) /\ w[2] = Op("fill", f, v)
  BY WriteIs
<1> HIDE DEF w
<1>2. DOMAIN w = {1, 2}
  BY <1>1 DEF IsList
<1>3. f \notin {Key, JWKS, Feed}
  BY TrustAssumption DEF Trust
<1> QED BY <1>1, <1>2, <1>3 DEF Steps, StepOK, Light, SetupWrite, Op, w

LEMMA LightNone ==
    ASSUME NEW T, NEW P
    PROVE  IsList(<< >>) /\ Steps(<< >>, T, P) /\ Light(<< >>)
<1> DEFINE e == << >>
<1>1. DOMAIN e = {} /\ IsList(e)
  BY DEF IsList
<1> HIDE DEF e
<1> QED BY <1>1 DEF Steps, Light, e

LEMMA ApplyingOK ==
    ASSUME NEW f \in GrantsFiles, NEW at, NEW force, NEW T, NEW P
    PROVE  LET s == Applying(f, at, force) IN IsList(s) /\ Steps(s, T, P) /\ Light(s)
<1> DEFINE it == Op("apply", Absent, [file |-> f, at |-> at, force |-> force])
<1>1. CASE at \in Places(f)
  <2>1. StepOK(it, T, P) /\ it.op \notin {"truncate", "fill", "remove"}
    BY <1>1 DEF StepOK, Op
  <2>2. Applying(f, at, force) = <<it>>
    BY <1>1 DEF Applying
  <2> HIDE DEF it
  <2> QED BY <2>1, <2>2, LightOne
<1>2. CASE at \notin Places(f)
  BY <1>2, LightNone DEF Applying
<1> QED BY <1>1, <1>2

LEMMA NodeFile ==
    ASSUME NEW f \in GrantsFiles, NEW at \in Places(f)
    PROVE  Node(f, at).file \in DeclaredFiles(f) /\ Node(f, at).file \in TokenFiles
<1>1. Node(f, at).file \in DeclaredFiles(f)
  BY DEF DeclaredFiles
<1>2. DeclaredFiles(f) \in {DeclaredFiles(g) : g \in GrantsFiles}
  OBVIOUS
<1>3. Node(f, at).file \in UNION {DeclaredFiles(g) : g \in GrantsFiles}
  BY <1>1, <1>2
<1> QED BY <1>1, <1>3 DEF TokenFiles

(* What is left after a step that sets nothing up.                         *)
LEMMA RestIsLight ==
    ASSUME NEW s, NEW F, NEW key, NEW jwks, NEW T, NEW P, NEW now,
           QueueOK(s, F, key, jwks, T, P, now), s # << >>, s[1].op \notin {"truncate", "fill"}
    PROVE  /\ IsList(Tail(s)) /\ Steps(Tail(s), T, P) /\ Light(Tail(s)) /\ key # Absent
           /\ \A k \in DOMAIN s : k # 1 => ~SetupWrite(s[k]) /\ ~(s[k].op = "remove" /\ Loadable(s[k].v))
<1> DEFINE t == Tail(s)
<1>1. IsList(s) /\ Steps(s, T, P) /\ Sequenced(s)
  BY DEF QueueOK
<1>2. /\ IsList(t) /\ 1 \in DOMAIN s /\ Steps(t, T, P) /\ DOMAIN s = 1..Len(s)
      /\ \A k \in DOMAIN t : k + 1 \in DOMAIN s /\ t[k] = s[k + 1] /\ k \in Nat \ {0}
  BY <1>1, Rests, QueueTail
<1> HIDE DEF t
<1>3. ~FeedWrite(s[1]) /\ ~KeyWrite(s[1]) /\ ~SetupWrite(s[1])
  BY DEF FeedWrite, KeyWrite, SetupWrite
<1>4. \A k \in DOMAIN s : k # 1 => 1 < k
  BY <1>2
<1>5. \A k \in DOMAIN s : k # 1 => ~SetupWrite(s[k]) /\ ~(s[k].op = "remove" /\ Loadable(s[k].v))
  BY <1>1, <1>2, <1>3, <1>4 DEF Sequenced
<1>6. \A k \in DOMAIN t : k + 1 # 1
  BY <1>2
<1>7. Light(t)
  BY <1>2, <1>5, <1>6 DEF Light
<1>8. ~KeyPending(s)
  BY <1>3, <1>5 DEF KeyPending, KeyWrite, SetupWrite
<1> QED BY <1>2, <1>5, <1>7, <1>8 DEF QueueOK, t

(* A token more.                                                           *)
LEMMA StillGrown ==
    ASSUME NEW F, NEW key, NEW jwks, NEW T, NEW U, NEW P, NEW now,
           Still(F, key, jwks, T, P, now), key # Absent
    PROVE  Still(F, key, jwks, U, P, now)
BY DEF Still

LEMMA StepsGrown ==
    ASSUME NEW s, NEW T, NEW U, NEW P, Steps(s, T, P), DOMAIN T \subseteq DOMAIN U
    PROVE  Steps(s, U, P)
BY DEF Steps, StepOK

-----------------------------------------------------------------------------
(* The commands of `legant apply`, and each step of theirs.                *)

(* No version of the grants file names another issuer than the default.   *)
OneIssuer == \A f \in GrantsFiles : issuer(f) = DefaultIssuer

LEMMA QueueFacts ==
    ASSUME PruneInv
    PROVE  /\ TrustTypes /\ IsList(todo) /\ Steps(todo, tokens, pruned)
           /\ QueueOK(todo, disk[Feed], disk[Key], disk[JWKS], tokens, pruned, clock)
           /\ Still(disk[Feed], disk[Key], disk[JWKS], tokens, pruned, clock)
           /\ \A j \in DOMAIN tokens : tokens[j].iss = DefaultIssuer
           /\ todo # << >> => 1 \in DOMAIN todo /\ StepOK(todo[1], tokens, pruned)
<1>1. IsList(todo) /\ Steps(todo, tokens, pruned)
  BY DEF PruneInv, QueueOK
<1>2. todo # << >> => 1 \in DOMAIN todo
  BY <1>1, Rests
<1> QED BY <1>1, <1>2 DEF PruneInv, QueueOK, Steps

LEMMA FeedExp == TrustTypes => clock + FeedTTL \in Nat
BY TrustAssumption DEF TrustTypes

LEMMA FileStep ==
    ASSUME PruneInv, NEW f, NEW c, disk' = [disk EXCEPT ![f] = c],
           UNCHANGED <<tokens, nkeys, declared, pruned, clock>>,
           todo # << >>, todo[1].op \in {"truncate", "fill"}, todo[1].f = f, todo' = Rest,
           c = IF todo[1].op = "truncate" THEN Empty ELSE todo[1].v
    PROVE  PruneInv'
<1>1. StepOK(todo[1], tokens, pruned) /\ TrustTypes
  BY QueueFacts
<1>2. {Key, JWKS, Feed} \subseteq Files /\ {Key, JWKS, Feed} \cap TokenFiles = {}
      /\ Key # JWKS /\ Key # Feed /\ JWKS # Feed
  BY TrustAssumption DEF Files, Trust, Key, JWKS, Feed
<1>3. f \in Files
  BY <1>1, <1>2 DEF StepOK, Files
<1>4. /\ disk' = [x \in Files |-> disk'[x]]
      /\ \A x \in Files : disk'[x] = IF x = f THEN c ELSE disk[x]
  BY <1>1, <1>3 DEF TrustTypes
<1>5. \A x \in TokenFiles : disk'[x] \in Unreadable \cup DOMAIN tokens
  <2> SUFFICES ASSUME NEW x \in TokenFiles PROVE disk'[x] \in Unreadable \cup DOMAIN tokens
    OBVIOUS
  <2>1. x \in Files /\ x \notin {Key, JWKS, Feed}
    BY <1>2 DEF Files
  <2>2. CASE x = f
    <3>1. todo[1].v \in DOMAIN tokens
      BY <1>1, <2>1, <2>2 DEF StepOK
    <3> QED BY <1>4, <2>1, <2>2, <3>1 DEF Unreadable
  <2>3. CASE x # f
    BY <1>1, <1>4, <2>1, <2>3 DEF TrustTypes
  <2> QED BY <2>2, <2>3
<1>6. /\ disk'[Feed] = (IF f = Feed THEN c ELSE disk[Feed])
      /\ disk'[Key] = (IF f = Key THEN c ELSE disk[Key])
      /\ disk'[JWKS] = (IF f = JWKS THEN c ELSE disk[JWKS])
  BY <1>2, <1>4
<1>7. QueueOK(Tail(todo), disk'[Feed], disk'[Key], disk'[JWKS], tokens, pruned, clock)
  <2>1. QueueOK(todo, disk[Feed], disk[Key], disk[JWKS], tokens, pruned, clock)
    BY DEF PruneInv
  <2>2. CASE f = Feed
    <3>1. FeedWrite(todo[1])
      BY <2>2 DEF FeedWrite
    <3> QED BY <1>2, <1>6, <2>1, <2>2, <3>1, QueueFeed
  <2>3. CASE f = Key
    <3>1. KeyWrite(todo[1])
      BY <2>3 DEF KeyWrite
    <3> QED BY <1>2, <1>6, <2>1, <2>3, <3>1, QueueKey
  <2>4. CASE f \notin {Feed, Key}
    <3>1. ~FeedWrite(todo[1]) /\ ~KeyWrite(todo[1])
      BY <2>4 DEF FeedWrite, KeyWrite
    <3>2. disk'[JWKS] = disk[JWKS] \/ pruned = {}
      BY <1>1, <1>2, <1>6, <2>4 DEF StepOK
    <3> QED BY <1>6, <2>1, <2>4, <3>1, <3>2, QueueOther
  <2> QED BY <2>2, <2>3, <2>4
<1> QED BY <1>1, <1>4, <1>5, <1>7 DEF PruneInv, TrustTypes, Rest

(* A token is minted, at the head of a command.                            *)
LEMMA TokenMinted ==
    ASSUME PruneInv, NEW t, t.iss = DefaultIssuer, tokens' = Append(tokens, t),
           UNCHANGED <<disk, nkeys, declared, pruned, clock>>, disk[Key] # Absent,
           IsList(todo'), Steps(todo', tokens', pruned), Light(todo')
    PROVE  PruneInv'
<1>1. TrustTypes /\ Still(disk[Feed], disk[Key], disk[JWKS], tokens, pruned, clock)
      /\ \A j \in DOMAIN tokens : tokens[j].iss = DefaultIssuer
  BY QueueFacts
<1>2. /\ IsList(tokens') /\ Len(tokens') = Len(tokens) + 1 /\ tokens'[Len(tokens) + 1] = t
      /\ \A k \in 1..Len(tokens) : tokens'[k] = tokens[k]
  BY <1>1, ListAppend DEF TrustTypes
<1>3. DOMAIN tokens = 1..Len(tokens) /\ DOMAIN tokens' = 1..(Len(tokens) + 1) /\ Len(tokens) \in Nat
  BY <1>1, <1>2 DEF TrustTypes, IsList
<1>4. \A j \in DOMAIN tokens' : j \in DOMAIN tokens \/ j = Len(tokens) + 1
  BY <1>3
<1>5. DOMAIN tokens \subseteq DOMAIN tokens'
  BY <1>3
<1>6. \A j \in DOMAIN tokens' : tokens'[j].iss = DefaultIssuer
  BY <1>1, <1>2, <1>3, <1>4
<1>7. QueueOK(todo', disk[Feed], disk[Key], disk[JWKS], tokens', pruned, clock)
  BY <1>1, StillGrown, QueueLight
<1> QED BY <1>1, <1>2, <1>5, <1>6, <1>7 DEF PruneInv, TrustTypes

LEMMA ApplyNodeOK ==
    ASSUME PruneInv, OneIssuer, ApplyNode
    PROVE  PruneInv'
<1> DEFINE v == todo[1].v
           n == Node(v.file, v.at)
           next == Applying(v.file, Following(v.file, v.at), v.force)
           rest == next \o Rest
<1>1. /\ todo # << >> /\ todo[1].op = "apply" /\ v.file \in GrantsFiles /\ v.at \in Places(v.file)
  BY QueueFacts DEF ApplyNode, At, StepOK
<1>2. n.file \in TokenFiles
  BY <1>1, NodeFile
<1>3. /\ IsList(Rest) /\ Steps(Rest, tokens, pruned) /\ Light(Rest) /\ disk[Key] # Absent
  BY <1>1, QueueFacts, RestIsLight DEF Rest
<1>4. /\ IsList(next) /\ Steps(next, tokens, pruned) /\ Light(next)
  BY <1>1, ApplyingOK
<1> HIDE DEF next
<1>5. /\ IsList(rest) /\ Steps(rest, tokens, pruned) /\ Light(rest)
  BY <1>3, <1>4, LightJoined
<1>6. /\ UNCHANGED <<disk, nkeys, declared, pruned, clock>>
      /\ \/ todo' = rest /\ UNCHANGED tokens
         \/ Sign(n, issuer(v.file), rest)
  BY DEF ApplyNode, next
<1> HIDE DEF rest
<1>7. CASE todo' = rest /\ UNCHANGED tokens
  <2>1. QueueOK(rest, disk[Feed], disk[Key], disk[JWKS], tokens, pruned, clock)
    BY <1>3, <1>5, QueueFacts, QueueLight
  <2> QED BY <1>6, <1>7, <2>1, QueueFacts DEF PruneInv, TrustTypes
<1>8. CASE Sign(n, issuer(v.file), rest)
  <2> DEFINE t == MintGrant(n, disk[Key], issuer(v.file))
             w == Write(n.file, Len(tokens) + 1)
  <2>1. tokens' = Append(tokens, t) /\ todo' = w \o rest
    BY <1>8 DEF Sign
  <2>2. t.iss = DefaultIssuer
    BY <1>1 DEF MintGrant, OneIssuer
  <2> HIDE DEF t
  <2>3. IsList(tokens)
    BY QueueFacts DEF TrustTypes
  <2>4. Len(tokens) + 1 \in DOMAIN tokens' /\ DOMAIN tokens \subseteq DOMAIN tokens'
    <3>1. IsList(tokens') /\ Len(tokens') = Len(tokens) + 1
      BY <2>1, <2>3, ListAppend
    <3>2. DOMAIN tokens = 1..Len(tokens) /\ DOMAIN tokens' = 1..(Len(tokens) + 1) /\ Len(tokens) \in Nat
      BY <2>3, <3>1 DEF IsList
    <3> QED BY <3>2
  <2>5. IsList(w) /\ Steps(w, tokens', pruned) /\ Light(w)
    BY <1>2, <2>4, LightWrite
  <2> HIDE DEF w, n
  <2>6. Steps(rest, tokens', pruned)
    BY <1>5, <2>4, StepsGrown
  <2>7. IsList(todo') /\ Steps(todo', tokens', pruned) /\ Light(todo')
    BY <1>5, <2>1, <2>5, <2>6, LightJoined
  <2> QED BY <1>3, <1>6, <2>1, <2>2, <2>7, TokenMinted
<1> QED BY <1>6, <1>7, <1>8

LEMMA PruneOK ==
    ASSUME PruneInv, Prune
    PROVE  PruneInv'
<1>1. todo # << >> /\ todo[1].op = "prune" /\ UNCHANGED <<disk, tokens, nkeys, declared, pruned, clock>>
  BY DEF Prune, At
<1>2. /\ QueueOK(todo, disk[Feed], disk[Key], disk[JWKS], tokens, pruned, clock)
      /\ Still(disk[Feed], disk[Key], disk[JWKS], tokens, pruned, clock) /\ TrustTypes
      /\ IsList(todo) /\ Steps(todo, tokens, pruned)
  BY QueueFacts
<1>3. /\ IsList(Rest) /\ Steps(Rest, tokens, pruned) /\ Light(Rest) /\ disk[Key] # Absent
      /\ \A k \in DOMAIN todo : k # 1 => ~SetupWrite(todo[k]) /\ ~(todo[k].op = "remove" /\ Loadable(todo[k].v))
  BY <1>1, <1>2, RestIsLight DEF Rest
<1>4. QueueOK(todo', disk[Feed], disk[Key], disk[JWKS], tokens, pruned, clock)
  <2>1. CASE todo' = Rest
    BY <1>2, <1>3, <2>1, QueueLight
  <2>2. CASE \E o \in Orphans(todo[1].v) : todo' = PruneOne(o) \o todo
    <3>1. PICK o \in TokenFiles : todo' = PruneOne(o) \o todo /\ disk[o] # Absent
      BY <2>2 DEF Orphans
    <3> DEFINE it == Op("remove", o, disk[o])
               r == <<it>>
               p == r \o todo
               A == IF disk[o] # Empty /\ CanRevoke THEN RevokeJTI(disk[o]) ELSE << >>
    <3>2. StepOK(it, tokens, pruned)
      BY <1>2 DEF StepOK, Op, TrustTypes
    <3>3. IsList(r) /\ Len(r) = 1 /\ DOMAIN r = {1} /\ r[1] = it
      BY DEF IsList
    <3> HIDE DEF r
    <3>4. IsList(r)
      BY <3>3
    <3>5. /\ IsList(p)
          /\ \A k \in DOMAIN p : \/ k \in DOMAIN r /\ p[k] = r[k]
                                 \/ k - Len(r) \in DOMAIN todo /\ p[k] = todo[k - Len(r)] /\ k > Len(r)
          /\ \A k \in DOMAIN r : k \in DOMAIN p /\ p[k] = r[k]
      <4>1. IsList(todo)
        BY <1>2
      <4> QED BY <3>4, <4>1, Cases
    <3> HIDE DEF p
    <3>6. \A k \in DOMAIN p : /\ StepOK(p[k], tokens, pruned) /\ ~SetupWrite(p[k])
                              /\ p[k].op = "remove" /\ Loadable(p[k].v) => k = 1 /\ p[k].v = disk[o]
      <4> TAKE k \in DOMAIN p
      <4>1. CASE k \in DOMAIN r /\ p[k] = r[k]
        BY <3>2, <3>3, <4>1 DEF SetupWrite, Op
      <4>2. CASE k - 1 \in DOMAIN todo /\ p[k] = todo[k - 1]
        <5>1. StepOK(p[k], tokens, pruned)
          BY <1>2, <4>2 DEF Steps
        <5>2. CASE k - 1 = 1
          BY <1>1, <4>2, <5>1, <5>2 DEF SetupWrite
        <5>3. CASE k - 1 # 1
          BY <1>3, <4>2, <5>1, <5>3
        <5> QED BY <5>2, <5>3
      <4> QED BY <3>3, <3>5, <4>1, <4>2
    <3>7. todo' = A \o p /\ IsList(A)
      <4>1. IsList(A)
        <5>1. IsList(<< >>)
          BY LightNone
        <5> QED BY <5>1, WriteIs DEF RevokeJTI
      <4>2. todo' = (A \o r) \o todo
        BY <3>1 DEF PruneOne, r
      <4> HIDE DEF A
      <4> QED BY <1>2, <3>4, <4>1, <4>2, Associative DEF p
    <3>8. CASE disk[o] # Empty /\ CanRevoke
      <4> DEFINE v == BuildSignedFeed(disk[Feed].jtis \cup {disk[o]}, DefaultIssuer, disk[Key])
      <4>1. A = Write(Feed, v)
        BY <3>8 DEF RevokeJTI
      <4>2. v.jtis = disk[Feed].jtis \cup {disk[o]} /\ v.exp \in Nat
        BY <1>2, FeedExp DEF BuildSignedFeed
      <4> HIDE DEF v, A
      <4>3. pruned \subseteq disk[Feed].jtis /\ Loadable(disk[Key])
        BY <1>2, <3>8 DEF CanRevoke, FeedLoads, Still, Refused, Loadable
      <4>4. Steps(p, tokens, pruned)
        BY <3>6 DEF Steps
      <4>5. \A k \in DOMAIN p : /\ ~SetupWrite(p[k])
                                /\ p[k].op = "remove" /\ Loadable(p[k].v) => k = 1 /\ p[k].v \in v.jtis
        BY <3>6, <4>2
      <4>6. pruned \subseteq v.jtis
        BY <4>2, <4>3
      <4>7. QueueOK(Write(Feed, v) \o p, disk[Feed], disk[Key], disk[JWKS], tokens, pruned, clock)
        <5>1. IsList(p) /\ v.exp \in Nat /\ Loadable(disk[Key])
              /\ Still(disk[Feed], disk[Key], disk[JWKS], tokens, pruned, clock)
          BY <1>2, <3>5, <4>2, <4>3
        <5> QED BY <4>4, <4>5, <4>6, <5>1, QueueLists
      <4> QED BY <3>7, <4>1, <4>7
    <3>9. CASE ~(disk[o] # Empty /\ CanRevoke)
      <4>1. todo' = p
        <5>1. A = << >>
          BY <3>9
        <5> QED BY <3>5, <3>7, <5>1, Empties
      <4>2. Loadable(disk[o]) => Refused(disk[o], disk[Feed], disk[JWKS], clock)
        <5>1. Loadable(disk[o]) => ~CanRevoke
          BY <3>9 DEF Loadable, Unreadable
        <5>2. ~CanRevoke => Refused(disk[o], disk[Feed], disk[JWKS], clock)
          BY <1>2 DEF CanRevoke, FeedLoads, Still, Refused, Loadable
        <5> QED BY <5>1, <5>2
      <4>3. \A k \in DOMAIN p : ~FeedWrite(p[k]) /\ ~KeyWrite(p[k]) /\ ~KeyFill(p[k])
        BY <3>6 DEF SetupWrite, FeedWrite, KeyWrite, KeyFill
      <4>4. \A i, k \in DOMAIN p : i < k => k # 1
        <5>1. DOMAIN p = 1..Len(p)
          BY <3>5 DEF IsList
        <5> QED BY <5>1
      <4>5. Sequenced(p) /\ KeyFirst(p, disk[Key]) /\ ~KeyPending(p)
        BY <3>6, <4>3, <4>4 DEF Sequenced, KeyFirst, KeyPending
      <4>6. HeadRefused(p, disk[Feed], disk[JWKS], clock)
        <5>1. p # << >> => 1 \in DOMAIN p
          BY <3>5, Rests
        <5> QED BY <3>6, <4>2, <5>1 DEF HeadRefused
      <4>7. Steps(p, tokens, pruned)
        BY <3>6 DEF Steps
      <4> QED BY <1>2, <1>3, <3>5, <4>1, <4>5, <4>6, <4>7 DEF QueueOK
    <3> QED BY <3>8, <3>9
  <2> QED BY <2>1, <2>2 DEF Prune
<1> QED BY <1>1, <1>4 DEF PruneInv, TrustTypes

LEMMA RemoveOK ==
    ASSUME PruneInv, RemoveFile
    PROVE  PruneInv'
<1> DEFINE f == todo[1].f
           P == pruned \cup ({todo[1].v} \ Unreadable)
<1>1. /\ todo # << >> /\ todo[1].op = "remove" /\ disk' = [disk EXCEPT ![f] = Absent]
      /\ pruned' = P /\ todo' = Tail(todo) /\ UNCHANGED <<tokens, nkeys, declared, clock>>
  BY DEF RemoveFile, At, Rest
<1>2. TrustTypes /\ f \in TokenFiles /\ todo[1].v \in Unreadable \cup DOMAIN tokens
  BY <1>1, QueueFacts DEF StepOK
<1>3. f \in Files /\ Key \in Files \ {f} /\ JWKS \in Files \ {f} /\ Feed \in Files \ {f}
  BY <1>2, TrustAssumption DEF Files, Trust
<1> HIDE DEF f
<1>4. /\ disk' = [x \in Files |-> disk'[x]]
      /\ \A x \in Files : disk'[x] = IF x = f THEN Absent ELSE disk[x]
  BY <1>1, <1>2, <1>3 DEF TrustTypes
<1>5. disk'[Key] = disk[Key] /\ disk'[JWKS] = disk[JWKS] /\ disk'[Feed] = disk[Feed]
  BY <1>3, <1>4
<1>6. \A x \in TokenFiles : disk'[x] \in Unreadable \cup DOMAIN tokens
  BY <1>2, <1>4 DEF TrustTypes, Files, Unreadable
<1>7. P \subseteq DOMAIN tokens
  BY <1>2 DEF TrustTypes
<1>8. QueueOK(Tail(todo), disk[Feed], disk[Key], disk[JWKS], tokens, P, clock)
  <2>1. QueueOK(todo, disk[Feed], disk[Key], disk[JWKS], tokens, pruned, clock)
    BY QueueFacts
  <2> QED BY <1>1, <2>1, QueueRemove
<1> HIDE DEF P
<1> QED BY <1>1, <1>2, <1>4, <1>5, <1>6, <1>7, <1>8, QueueFacts DEF PruneInv, TrustTypes

LEMMA MintOneOK ==
    ASSUME PruneInv, MintOne
    PROVE  PruneInv'
<1> DEFINE t == MintGrant(todo[1].v, disk[Key], DefaultIssuer)
<1>1. /\ todo # << >> /\ todo[1].op = "mint" /\ tokens' = Append(tokens, t)
      /\ todo' = Rest /\ UNCHANGED <<disk, nkeys, declared, pruned, clock>>
  BY DEF MintOne, At
<1>2. t.iss = DefaultIssuer
  BY DEF MintGrant
<1> HIDE DEF t
<1>3. /\ IsList(Rest) /\ Steps(Rest, tokens, pruned) /\ Light(Rest) /\ disk[Key] # Absent
  BY <1>1, QueueFacts, RestIsLight DEF Rest
<1>4. DOMAIN tokens \subseteq DOMAIN tokens'
  <2>1. IsList(tokens)
    BY QueueFacts DEF TrustTypes
  <2>2. IsList(tokens') /\ Len(tokens') = Len(tokens) + 1
    BY <1>1, <2>1, ListAppend
  <2>3. DOMAIN tokens = 1..Len(tokens) /\ DOMAIN tokens' = 1..(Len(tokens) + 1) /\ Len(tokens) \in Nat
    BY <2>1, <2>2 DEF IsList
  <2> QED BY <2>3
<1>5. Steps(Rest, tokens', pruned)
  BY <1>3, <1>4, StepsGrown
<1>6. IsList(todo') /\ Steps(todo', tokens', pruned) /\ Light(todo')
  BY <1>1, <1>3, <1>5
<1> QED BY <1>1, <1>2, <1>3, <1>6, TokenMinted

LEMMA ReportOK ==
    ASSUME PruneInv, Report
    PROVE  PruneInv'
<1>1. /\ todo # << >> /\ todo[1].op \in {"revoked", "applied"}
      /\ todo' = Tail(todo) /\ UNCHANGED <<disk, tokens, nkeys, declared, pruned, clock>>
  BY DEF Report, At, Rest
<1>2. ~FeedWrite(todo[1]) /\ ~KeyWrite(todo[1])
  BY <1>1 DEF FeedWrite, KeyWrite
<1>3. QueueOK(Tail(todo), disk[Feed], disk[Key], disk[JWKS], tokens, pruned, clock)
  BY <1>1, <1>2, QueueFacts, QueueOther
<1> QED BY <1>1, <1>3, QueueFacts DEF PruneInv, TrustTypes

(* Nothing is left to do: the command was killed, or there is none.        *)
LEMMA RestingOK ==
    ASSUME PruneInv, UNCHANGED <<disk, tokens, nkeys, pruned>>, todo' = << >>,
           declared' \in GrantsFiles, clock' \in Nat, clock <= clock',
           \A j \in pruned : Refused(j, disk[Feed], disk[JWKS], clock')
    PROVE  PruneInv'
<1>1. Still(disk[Feed], disk[Key], disk[JWKS], tokens, pruned, clock')
  BY QueueFacts DEF Still
<1>2. QueueOK(<< >>, disk[Feed], disk[Key], disk[JWKS], tokens, pruned, clock')
  BY <1>1, LightNone, QueueLight
<1> QED BY <1>2, QueueFacts DEF PruneInv, TrustTypes

LEMMA CommandKeeps ==
    ASSUME PruneInv, OneIssuer, StepOfCommand
    PROVE  PruneInv'
<1>1. CASE Truncate
  <2> DEFINE f == todo[1].f
  <2>1. /\ todo # << >> /\ todo[1].op = "truncate" /\ disk' = [disk EXCEPT ![f] = Empty]
        /\ todo' = Rest /\ UNCHANGED <<tokens, nkeys, declared, pruned, clock>>
    BY <1>1 DEF Truncate, At
  <2> QED BY <2>1, FileStep
<1>2. CASE Fill
  <2> DEFINE f == todo[1].f
             c == todo[1].v
  <2>1. /\ todo # << >> /\ todo[1].op = "fill" /\ disk' = [disk EXCEPT ![f] = c]
        /\ todo' = Rest /\ UNCHANGED <<tokens, nkeys, declared, pruned, clock>>
    BY <1>2 DEF Fill, At
  <2> QED BY <2>1, FileStep
<1>3. CASE InitRole
  BY <1>3, QueueFacts DEF InitRole, At, StepOK
<1>4. CASE Kill
  <2>1. TrustTypes
    BY QueueFacts
  <2>2. clock \in Nat /\ declared \in GrantsFiles
    BY <2>1 DEF TrustTypes
  <2>3. \A j \in pruned : Refused(j, disk[Feed], disk[JWKS], clock)
    BY QueueFacts DEF Still
  <2> QED BY <1>4, <2>2, <2>3, RestingOK DEF Kill
<1> QED BY <1>1, <1>2, <1>3, <1>4, ApplyNodeOK, MintOneOK, PruneOK, RemoveOK, ReportOK
        DEF StepOfCommand

(* A command begins, in a directory that is set up first if it need be.    *)
LEMMA SetupThen ==
    ASSUME PruneInv, NEW iss, NEW p, IsList(p), Steps(p, tokens, pruned), Light(p),
           todo' = EnsureSetup(iss) \o p, nkeys' = nkeys + KeysNeeded,
           UNCHANGED <<disk, tokens, declared, pruned, clock>>
    PROVE  PruneInv'
<1>1. /\ TrustTypes /\ Still(disk[Feed], disk[Key], disk[JWKS], tokens, pruned, clock)
  BY QueueFacts
<1>2. nkeys' \in Nat
  BY <1>1 DEF TrustTypes, KeysNeeded
<1>3. QueueOK(todo', disk[Feed], disk[Key], disk[JWKS], tokens, pruned, clock)
  <2>1. CASE disk[Key] = Absent
    <3> DEFINE m == nkeys + 1
               v == BuildSignedFeed({}, iss, m)
    <3>1. m \in Nat
      BY <1>1 DEF TrustTypes
    <3>2. todo' = Write(Key, m) \o Write(JWKS, m) \o Write(Feed, v) \o p
      BY <2>1 DEF EnsureSetup, NewKeySteps
    <3>8. v.exp \in Nat
      BY <1>1, FeedExp DEF BuildSignedFeed
    <3> HIDE DEF m, v
    <3>3. Loadable(m)
      BY <3>1, TrustAssumption, SentinelAssumption DEF Loadable, Unreadable
    <3>4. DOMAIN tokens = {} /\ pruned = {}
      BY <1>1, <2>1 DEF Still, TrustTypes
    <3>5. ~Loadable(disk[Feed])
      BY <1>1, <2>1 DEF Still, Loadable, Unreadable
    <3>6. Steps(p, tokens, {})
      BY <3>4
    <3>7. QueueOK(Write(Key, m) \o Write(JWKS, m) \o Write(Feed, v) \o p,
                  disk[Feed], Absent, disk[JWKS], tokens, {}, clock)
      BY <3>3, <3>4, <3>5, <3>6, <3>8, QueueSetup
    <3> QED BY <2>1, <3>2, <3>4, <3>7
  <2>2. CASE disk[Key] # Absent
    <3>1. todo' = p
      BY <2>2, Empties DEF EnsureSetup
    <3> QED BY <1>1, <2>2, <3>1, QueueLight
  <2> QED BY <2>1, <2>2
<1> QED BY <1>1, <1>2, <1>3, QueueFacts DEF PruneInv, TrustTypes

LEMMA SetupIsList ==
    ASSUME NEW iss
    PROVE  IsList(EnsureSetup(iss))
<1> DEFINE v == BuildSignedFeed({}, iss, nkeys + 1)
           a == Write(Key, nkeys + 1)
           b == Write(JWKS, nkeys + 1)
           c == Write(Feed, v)
<1>1. IsList(a) /\ IsList(b) /\ IsList(c)
  BY WriteIs
<1>2. NewKeySteps(iss) = (a \o b) \o c
  BY DEF NewKeySteps
<1> HIDE DEF a, b, c
<1>3. IsList(a \o b)
  BY <1>1, ListConcat
<1>4. IsList((a \o b) \o c)
  BY <1>1, <1>3, ListConcat
<1> QED BY <1>2, <1>4, LightNone DEF EnsureSetup

LEMMA ApplyOK ==
    ASSUME PruneInv, NEW force, NEW prune, Apply(force, prune)
    PROVE  PruneInv'
<1> DEFINE e == EnsureSetup(issuer(declared))
           a == Applying(declared, <<1, 0>>, force)
           x == Op("prune", Absent, declared)
           y == Op("applied", Absent, declared)
           p == IF prune THEN <<x, y>> ELSE << >>
<1>1. /\ todo' = (e \o a) \o p /\ nkeys' = nkeys + KeysNeeded
      /\ UNCHANGED <<disk, tokens, declared, pruned, clock>>
  BY DEF Apply, Run
<1>2. IsList(e)
  BY SetupIsList
<1>3. IsList(a) /\ Steps(a, tokens, pruned) /\ Light(a)
  <2>1. declared \in GrantsFiles
    BY QueueFacts DEF TrustTypes
  <2> QED BY <2>1, ApplyingOK
<1>4. IsList(p) /\ Steps(p, tokens, pruned) /\ Light(p)
  <2>1. StepOK(x, tokens, pruned) /\ StepOK(y, tokens, pruned)
        /\ ~SetupWrite(x) /\ ~SetupWrite(y) /\ x.op # "remove" /\ y.op # "remove"
    BY DEF StepOK, SetupWrite, Op
  <2> HIDE DEF x, y
  <2>2. CASE prune
    <3> DEFINE q == <<x, y>>
    <3>1. IsList(q) /\ DOMAIN q = {1, 2} /\ q[1] = x /\ q[2] = y
      BY DEF IsList
    <3>2. p = q
      BY <2>2
    <3> HIDE DEF p, q
    <3> QED BY <2>1, <3>1, <3>2 DEF Steps, Light
  <2>3. CASE ~prune
    BY <2>3, LightNone
  <2> QED BY <2>2, <2>3
<1> HIDE DEF e, a, p
<1>5. todo' = e \o (a \o p)
  <2>1. todo' = (e \o a) \o p
    BY <1>1
  <2>2. IsList(a)
    BY <1>3
  <2>3. IsList(p)
    BY <1>4
  <2>4. (e \o a) \o p = e \o (a \o p)
    BY <1>2, <2>2, <2>3, Associative
  <2> QED BY <2>1, <2>4
<1>6. IsList(a \o p) /\ Steps(a \o p, tokens, pruned) /\ Light(a \o p)
  BY <1>3, <1>4, LightJoined
<1> DEFINE q == a \o p
<1>7. todo' = EnsureSetup(issuer(declared)) \o q
  BY <1>5 DEF e
<1>8. IsList(q) /\ Steps(q, tokens, pruned) /\ Light(q)
  BY <1>6
<1> HIDE DEF q
<1> QED BY <1>1, <1>7, <1>8, SetupThen

LEMMA RevokeKeeps ==
    ASSUME PruneInv, NEW j, Revoke(j)
    PROVE  PruneInv'
<1> DEFINE v == BuildSignedFeed(disk[Feed].jtis \cup {j}, DefaultIssuer, disk[Key])
           it == Op("revoked", Feed, j)
           p == <<it>>
<1>1. /\ CanRevoke /\ todo' = Write(Feed, v) \o p /\ nkeys' = nkeys + 0
      /\ UNCHANGED <<disk, tokens, declared, pruned, clock>>
  BY DEF Revoke, Run, RevokeJTI
<1>2. StepOK(it, tokens, pruned) /\ it.op \notin {"truncate", "fill", "remove"}
  BY DEF StepOK, Op
<1>3. v.jtis = disk[Feed].jtis \cup {j} /\ v.exp = clock + FeedTTL
  BY DEF BuildSignedFeed
<1>4. /\ TrustTypes /\ Still(disk[Feed], disk[Key], disk[JWKS], tokens, pruned, clock)
  BY QueueFacts
<1> HIDE DEF v, it
<1>5. IsList(p) /\ Steps(p, tokens, pruned) /\ Light(p)
  BY <1>2, LightOne
<1> HIDE DEF p
<1>6. \A k \in DOMAIN p : /\ ~SetupWrite(p[k])
                          /\ p[k].op = "remove" /\ Loadable(p[k].v) => k = 1 /\ p[k].v \in v.jtis
  BY <1>5 DEF Light
<1>7. pruned \subseteq v.jtis /\ Loadable(disk[Key])
  BY <1>1, <1>3, <1>4 DEF CanRevoke, FeedLoads, Still, Refused, Loadable
<1>8. QueueOK(Write(Feed, v) \o p, disk[Feed], disk[Key], disk[JWKS], tokens, pruned, clock)
  BY <1>3, <1>4, <1>5, <1>6, <1>7, FeedExp, QueueLists
<1>9. nkeys' \in Nat
  BY <1>1, <1>4 DEF TrustTypes
<1> QED BY <1>1, <1>4, <1>8, <1>9, QueueFacts DEF PruneInv, TrustTypes

LEMMA MintOK ==
    ASSUME PruneInv, NEW g, Mint(g)
    PROVE  PruneInv'
<1> DEFINE it == Op("mint", Absent, RootNode(g))
           p == <<it>>
<1>1. /\ todo' = EnsureSetup(DefaultIssuer) \o p /\ nkeys' = nkeys + KeysNeeded
      /\ UNCHANGED <<disk, tokens, declared, pruned, clock>>
  BY DEF Mint, Run
<1>2. StepOK(it, tokens, pruned) /\ it.op \notin {"truncate", "fill", "remove"}
  BY DEF StepOK, Op
<1> HIDE DEF it
<1>3. IsList(p) /\ Steps(p, tokens, pruned) /\ Light(p)
  BY <1>2, LightOne
<1> HIDE DEF p
<1> QED BY <1>1, <1>3, SetupThen

LEMMA WhoCanOK ==
    ASSUME PruneInv, WhoCan
    PROVE  PruneInv'
<1> DEFINE iss == issuer(declared)
           e == EnsureSetup(iss)
           p == << >>
<1>1. /\ todo' = e /\ nkeys' = nkeys + KeysNeeded
      /\ UNCHANGED <<disk, tokens, declared, pruned, clock>>
  BY DEF WhoCan, Run
<1>2. IsList(e)
  BY SetupIsList
<1>3. todo' = e \o p
  <2> HIDE DEF e
  <2> QED BY <1>1, <1>2, Empties
<1>4. IsList(p) /\ Steps(p, tokens, pruned) /\ Light(p)
  BY LightNone
<1> HIDE DEF iss, p
<1> QED BY <1>1, <1>3, <1>4, SetupThen

LEMMA GrantsKeep ==
    ASSUME PruneInv, GrantsCommand
    PROVE  PruneInv'
<1>1. TrustTypes /\ \A j \in pruned : Refused(j, disk[Feed], disk[JWKS], clock)
  BY QueueFacts DEF Still
<1>2. clock \in Nat /\ declared \in GrantsFiles
  BY <1>1 DEF TrustTypes
<1>3. CASE \E f \in GrantsFiles : EditFile(f)
  <2>1. declared' \in GrantsFiles /\ UNCHANGED <<disk, todo, tokens, nkeys, pruned, clock>> /\ todo' = << >>
    BY <1>3 DEF EditFile, Idle
  <2> QED BY <1>1, <1>2, <2>1, RestingOK
<1>4. CASE Tick
  <2>1. clock' = clock + 1 /\ UNCHANGED <<disk, todo, tokens, nkeys, declared, pruned>> /\ todo' = << >>
    BY <1>4 DEF Tick, Idle
  <2>2. clock' \in Nat /\ clock <= clock'
    BY <1>2, <2>1
  <2>3. \A j \in pruned : Refused(j, disk[Feed], disk[JWKS], clock')
    <3>1. Loadable(disk[Feed]) /\ clock + 1 < disk[Feed].exp => clock < disk[Feed].exp
      BY <1>2, QueueFacts DEF Still
    <3> QED BY <1>1, <2>1, <3>1 DEF Refused
  <2> QED BY <1>2, <2>1, <2>2, <2>3, RestingOK
<1> QED BY <1>3, <1>4, ApplyOK, MintOK, WhoCanOK, RevokeKeeps DEF GrantsCommand

LEMMA PruneStart ==
    ASSUME TrustInit
    PROVE  PruneInv
<1>1. /\ disk = [f \in Files |-> Absent] /\ todo = << >> /\ tokens = << >> /\ nkeys = 0
      /\ declared \in GrantsFiles /\ pruned = {} /\ clock = 0
  BY DEF TrustInit
<1>2. DOMAIN tokens = {} /\ IsList(tokens)
  BY <1>1, LightNone DEF IsList
<1>3. Feed \in Files /\ Key \in Files /\ TokenFiles \subseteq Files
  BY DEF Files, Trust
<1>4. ~Loadable(disk[Feed])
  BY <1>1, <1>3 DEF Loadable, Unreadable
<1>5. TrustTypes
  BY <1>1, <1>2, <1>3 DEF TrustTypes, Unreadable
<1>6. Still(disk[Feed], disk[Key], disk[JWKS], tokens, pruned, clock)
  BY <1>1, <1>2, <1>4 DEF Still
<1>7. QueueOK(todo, disk[Feed], disk[Key], disk[JWKS], tokens, pruned, clock)
  BY <1>1, <1>6, LightNone, QueueLight
<1> QED BY <1>2, <1>5, <1>7 DEF PruneInv

LEMMA PruneKept ==
    ASSUME OneIssuer, PruneInv, [StepOfCommand \/ GrantsCommand]_trustVars
    PROVE  PruneInv'
<1>1. CASE UNCHANGED trustVars
  BY <1>1 DEF trustVars, PruneInv, TrustTypes
<1> QED BY <1>1, CommandKeeps, GrantsKeep

LEMMA PruneKills == PruneInv => PrunedAreKilled
<1> SUFFICES ASSUME PruneInv, NEW j \in pruned, Live(j) PROVE FALSE
  BY DEF PrunedAreKilled
<1>1. /\ pruned \subseteq DOMAIN tokens /\ Refused(j, disk[Feed], disk[JWKS], clock)
      /\ \A i \in DOMAIN tokens : tokens[i].iss = DefaultIssuer
  BY QueueFacts DEF TrustTypes, Still
<1>2. tokens[j].iss = DefaultIssuer
  BY <1>1
<1> QED BY <1>1, <1>2 DEF Live, FeedLoads, Refused, Loadable

(* "apply --prune makes the dir match the file exactly (removed grants are *)
(* killed, not just abandoned)", when no version of the grants file names  *)
(* an issuer of its own: whatever is applied, revoked, forced or cut short *)
(* afterwards, in whatever order, no token whose file Prune has removed is *)
(* accepted again.                                                         *)
THEOREM PrunedTokensAreDead ==
    ASSUME OneIssuer
    PROVE  TrustSpec => []PrunedAreKilled
<1>1. TrustInit => PruneInv
  BY PruneStart
<1>2. PruneInv /\ [StepOfCommand \/ GrantsCommand]_trustVars => PruneInv'
  BY PruneKept
<1>3. PruneInv => PrunedAreKilled
  BY PruneKills
<1> QED BY <1>1, <1>2, <1>3, PTL DEF TrustSpec

-----------------------------------------------------------------------------
(* What a finished `apply --prune` leaves.                                 *)

Before(p, q) == p[1] < q[1] \/ (p[1] = q[1] /\ p[2] < q[2])

ItemTyped(it, T) ==
    \/ it.op \in {"truncate", "fill"} /\ (it.f \in Trust \/ (it.f \in TokenFiles /\ it.v \in DOMAIN T))
    \/ it.op = "apply" /\ it.v.file \in GrantsFiles /\ it.v.at \in Places(it.v.file)
    \/ it.op \in {"mint", "revoked"}
    \/ it.op \in {"prune", "applied"} /\ it.v \in GrantsFiles
    \/ it.op = "remove" /\ it.f \in TokenFiles

Typed(s, T) == IsList(s) /\ \A k \in DOMAIN s : ItemTyped(s[k], T)

(* Token v has the shape that node n declares.                             *)
TokenShaped(v, n, T) == v \in DOMAIN T /\ fingerprint(T[v]) = fingerprint(n)

(* A step of an `apply --prune` of file f.                                 *)
OwnStep(it, f, T) ==
    \/ /\ it.op \in {"truncate", "fill"}
       /\ \/ it.f \in Trust
          \/ \E p \in Places(f) : it.f = Node(f, p).file /\ TokenShaped(it.v, Node(f, p), T)
    \/ it.op = "apply" /\ it.v.file = f /\ it.v.at \in Places(f)
    \/ it.op \in {"prune", "applied"} /\ it.v = f
    \/ it.op = "remove" /\ it.f \in TokenFiles \ DeclaredFiles(f)

OwnSteps(s, f, T) == \A k \in DOMAIN s : OwnStep(s[k], f, T)

(* The command is done with node p, but for writing its file.              *)
Passed(s, p) == \A k \in DOMAIN s : s[k].op = "apply" => Before(p, s[k].v.at)

InPlace(f, p, s, D, T) ==
    \/ \E i \in DOMAIN s : s[i].op = "fill" /\ s[i].f = Node(f, p).file
    \/ TokenShaped(D[Node(f, p).file], Node(f, p), T)

NoOrphan(f, D) == \A o \in TokenFiles \ DeclaredFiles(f) : D[o] = Absent

Progress(s, f, D, T) ==
    /\ Paired(s) /\ OwnSteps(s, f, T)
    /\ \A p \in Places(f) : Passed(s, p) => InPlace(f, p, s, D, T)
    /\ (\A k \in DOMAIN s : s[k].op # "prune") => NoOrphan(f, D)

Going(s, D, T) ==
    \A k \in DOMAIN s : s[k].op = "applied" =>
        k = Len(s) /\ (Distinct(s[k].v) => Progress(s, s[k].v, D, T))

Left(f, D, T) ==
    Distinct(f) => /\ \A p \in Places(f) : TokenShaped(D[Node(f, p).file], Node(f, p), T)
                   /\ NoOrphan(f, D)

NoopInv ==
    /\ disk = [x \in Files |-> disk[x]] /\ IsList(tokens) /\ declared \in GrantsFiles
    /\ \A x \in TokenFiles : disk[x] \in Unreadable \cup DOMAIN tokens
    /\ Typed(todo, tokens) /\ Going(todo, disk, tokens)
    /\ settled # Absent => todo = << >> /\ Left(settled, disk, tokens)

LEMMA FollowsOn ==
    ASSUME NEW f \in GrantsFiles, NEW at \in Places(f), NEW p \in Places(f),
           ~Before(p, at), p # at
    PROVE  Following(f, at) \in Places(f) /\ ~Before(p, Following(f, at))
<1> DEFINE N == Len(f.grants)
           M == [n \in 1..N |-> Len(f.grants[n].delegate)]
           P == {q \in Nat \X Nat : q[1] \in 1..N /\ q[2] \in 0..M[q[1]]}
<1>1. N \in Nat /\ DOMAIN f.grants = 1..N /\ \A n \in 1..N : M[n] \in Nat
  BY TrustAssumption
<1>2. \A n \in 1..N : DOMAIN buildTree(f.grants[n]) = 0..M[n]
  BY DEF buildTree
<1>3. \A q \in Places(f) : \E n \in DOMAIN f.grants : \E k \in DOMAIN buildTree(f.grants[n]) : q = <<n, k>>
  BY DEF Places
<1>4. \A n \in DOMAIN f.grants : \A k \in DOMAIN buildTree(f.grants[n]) : <<n, k>> \in Places(f)
  BY DEF Places
<1> HIDE DEF N, M
<1>5. \A n, k : <<n, k>> \in Places(f) <=> n \in 1..N /\ k \in 0..M[n]
  BY <1>1, <1>2, <1>3, <1>4
<1>6. \A q \in Places(f) : q = <<q[1], q[2]>> /\ q[1] \in 1..N /\ q[2] \in 0..M[q[1]]
  BY <1>1, <1>2, <1>3
<1> DEFINE n == at[1]  k == at[2]
<1>7. /\ n \in 1..N /\ k \in 0..M[n] /\ p[1] \in 1..N /\ p[2] \in 0..M[p[1]]
      /\ ~(p[1] < n \/ (p[1] = n /\ p[2] < k)) /\ (p[1] = n => p[2] # k)
  BY <1>6 DEF Before
<1> HIDE DEF n, k
<1>8. n < p[1] \/ (n = p[1] /\ k < p[2])
  <2>1. p[1] \in Nat /\ n \in Nat
    BY <1>1, <1>7
  <2>2. CASE p[1] = n
    BY <1>1, <1>7, <2>2
  <2>3. CASE p[1] # n
    BY <1>7, <2>1, <2>3
  <2> QED BY <2>2, <2>3
<1>9. CASE <<n, k + 1>> \in Places(f)
  <2>1. Following(f, at) = <<n, k + 1>>
    BY <1>9 DEF Following, n, k
  <2>2. ~(p[1] < n) /\ ~(p[1] = n /\ p[2] < k + 1)
    <3>1. n \in Nat /\ p[1] \in Nat /\ k \in Nat /\ p[1] = n => p[2] \in Nat
      BY <1>1, <1>7
    <3>2. n \in Nat /\ p[1] \in Nat
      BY <1>1, <1>7
    <3>3. CASE n < p[1]
      BY <3>2, <3>3
    <3>4. CASE n = p[1] /\ k < p[2]
      BY <1>1, <1>7, <3>2, <3>4
    <3> QED BY <1>8, <3>3, <3>4
  <2> QED BY <1>9, <2>1, <2>2 DEF Before
<1>10. CASE <<n, k + 1>> \notin Places(f)
  <2>1. Following(f, at) = <<n + 1, 0>>
    BY <1>10 DEF Following, n, k
  <2>2. k + 1 \notin 0..M[n]
    BY <1>5, <1>7, <1>10
  <2>3. n < p[1]
    <3> SUFFICES ASSUME n = p[1], k < p[2] PROVE FALSE
      BY <1>8
    <3>1. M[n] \in Nat /\ k \in Nat /\ p[2] \in Nat /\ p[2] <= M[n]
      BY <1>1, <1>7
    <3>2. k + 1 \in 0..M[n]
      BY <3>1
    <3> QED BY <2>2, <3>2
  <2>4. n + 1 \in 1..N /\ 0 \in 0..M[n + 1]
    <3>1. n + 1 \in 1..N
      BY <1>1, <1>7, <2>3
    <3>2. M[n + 1] \in Nat
      BY <1>1, <3>1
    <3> QED BY <3>1, <3>2
  <2>5. <<n + 1, 0>> \in Places(f)
    BY <1>5, <2>4
  <2>6. ~(p[1] < n + 1) /\ ~(p[2] < 0)
    <3>1. n \in Nat /\ p[1] \in Nat
      BY <1>1, <1>7
    <3>2. M[p[1]] \in Nat
      BY <1>1, <1>7
    <3>3. p[2] \in Nat
      BY <1>7, <3>2
    <3> QED BY <2>3, <3>1, <3>3
  <2> QED BY <2>1, <2>5, <2>6 DEF Before
<1> QED BY <1>9, <1>10

LEMMA PairedTail ==
    ASSUME NEW s, IsList(s), s # << >>, Paired(s)
    PROVE  Paired(Tail(s))
<1> DEFINE t == Tail(s)
<1>1. /\ \A k \in DOMAIN t : k + 1 \in DOMAIN s /\ t[k] = s[k + 1] /\ k \in Nat \ {0}
      /\ DOMAIN s = 1..Len(s) /\ DOMAIN t = 1..Len(t) /\ Len(t) = Len(s) - 1 /\ Len(s) \in Nat \ {0}
  BY Rests
<1> HIDE DEF t
<1>2. ASSUME NEW k \in DOMAIN t, t[k].op = "truncate"
      PROVE  k + 1 \in DOMAIN t /\ t[k + 1] = Op("fill", t[k].f, t[k].v)
  <2>1. (k + 1) + 1 \in DOMAIN s /\ s[(k + 1) + 1] = Op("fill", t[k].f, t[k].v)
    BY <1>1, <1>2 DEF Paired
  <2>2. k + 1 \in DOMAIN t
    BY <1>1, <2>1
  <2> QED BY <1>1, <2>1, <2>2
<1> QED BY <1>2 DEF Paired, t

LEMMA TokenIsNoSentinel ==
    ASSUME NEW T, IsList(T), NEW v \in DOMAIN T
    PROVE  v \notin Unreadable
<1>1. v \in Nat
  BY DEF IsList
<1> QED BY <1>1, TrustAssumption, SentinelAssumption DEF Unreadable

(* A step of the command that is no node of Apply.                         *)
LEMMA PassedTail ==
    ASSUME NEW s, IsList(s), s # << >>, s[1].op # "apply", NEW p
    PROVE  Passed(Tail(s), p) => Passed(s, p)
<1>1. \A k \in DOMAIN s : k = 1 \/ (k - 1 \in DOMAIN Tail(s) /\ Tail(s)[k - 1] = s[k])
  BY Rests
<1> QED BY <1>1 DEF Passed

(* Files are as in D, and as in E once write `it` is done.                 *)
Written(it, D, E) ==
    \A x \in Files : E[x] = IF x # it.f THEN D[x]
                            ELSE IF it.op = "truncate" THEN Empty ELSE it.v

LEMMA WriteProgress ==
    ASSUME NEW f \in GrantsFiles, Distinct(f), NEW s, NEW D, NEW E, NEW T, IsList(s), IsList(T),
           Progress(s, f, D, T), s # << >>, s[1].op \in {"truncate", "fill"},
           Written(s[1], D, E)
    PROVE  Progress(Tail(s), f, E, T)
<1> DEFINE t == Tail(s)
<1>1. /\ IsList(t) /\ 1 \in DOMAIN s /\ DOMAIN s = 1..Len(s) /\ DOMAIN t = 1..Len(t)
      /\ \A k \in DOMAIN t : k + 1 \in DOMAIN s /\ t[k] = s[k + 1] /\ k \in Nat \ {0}
      /\ \A k \in DOMAIN s : k = 1 \/ (k - 1 \in DOMAIN t /\ t[k - 1] = s[k])
  BY Rests
<1>2. Paired(t) /\ \A p : Passed(t, p) => Passed(s, p)
  BY PairedTail, PassedTail DEF Progress
<1> HIDE DEF t
<1>3. OwnStep(s[1], f, T)
  BY <1>1 DEF Progress, OwnSteps
<1>4. TokenFiles \cap Trust = {} /\ TokenFiles \subseteq Files
  BY TrustAssumption DEF Files
<1>5. ASSUME NEW p \in Places(f), Passed(t, p)
      PROVE  InPlace(f, p, t, E, T)
  <2> DEFINE n == Node(f, p).file
  <2>1. InPlace(f, p, s, D, T)
    BY <1>2, <1>5 DEF Progress
  <2>2. n \in TokenFiles /\ n \in Files /\ n \notin Trust
    BY <1>4, NodeFile
  <2>3. CASE s[1].f = n /\ s[1].op = "truncate"
    <3>1. 1 + 1 \in DOMAIN s /\ s[1 + 1] = Op("fill", n, s[1].v)
      BY <1>1, <2>3 DEF Progress, Paired
    <3> HIDE DEF n
    <3>2. 1 \in DOMAIN t /\ t[1] = Op("fill", n, s[1].v)
      BY <1>1, <3>1
    <3>3. t[1].op = "fill" /\ t[1].f = n
      BY <3>2 DEF Op
    <3> QED BY <3>2, <3>3 DEF InPlace, n
  <2>4. CASE s[1].f = n /\ s[1].op = "fill"
    <3>1. PICK q \in Places(f) : n = Node(f, q).file /\ TokenShaped(s[1].v, Node(f, q), T)
      BY <1>3, <2>2, <2>4 DEF OwnStep
    <3>2. q = p
      BY <3>1 DEF Distinct
    <3>3. E[n] = s[1].v
      BY <2>2, <2>4 DEF Written
    <3> QED BY <3>1, <3>2, <3>3 DEF InPlace
  <2>5. CASE s[1].f # n
    <3>1. E[n] = D[n]
      BY <2>2, <2>5 DEF Written
    <3>2. (\E i \in DOMAIN s : s[i].op = "fill" /\ s[i].f = n)
            => \E i \in DOMAIN t : t[i].op = "fill" /\ t[i].f = n
      BY <1>1, <2>5
    <3> QED BY <2>1, <3>1, <3>2 DEF InPlace
  <2> QED BY <2>3, <2>4, <2>5
<1>6. ASSUME \A k \in DOMAIN t : t[k].op # "prune"
      PROVE  NoOrphan(f, E)
  <2>1. \A k \in DOMAIN s : s[k].op # "prune"
    BY <1>1, <1>6
  <2>2. NoOrphan(f, D)
    BY <2>1 DEF Progress
  <2>3. s[1].f \notin TokenFiles \ DeclaredFiles(f)
    BY <1>3, <1>4 DEF OwnStep, DeclaredFiles
  <2> QED BY <1>4, <2>2, <2>3 DEF NoOrphan, Written
<1>7. OwnSteps(t, f, T)
  BY <1>1 DEF Progress, OwnSteps
<1> QED BY <1>2, <1>5, <1>6, <1>7 DEF Progress, t

LEMMA OtherProgress ==
    ASSUME NEW f \in GrantsFiles, NEW s, NEW D, NEW E, NEW T, IsList(s),
           Progress(s, f, D, T), s # << >>, s[1].op \notin {"truncate", "fill", "apply"},
           \A x \in Files : E[x] = D[x] \/ (x = s[1].f /\ s[1].op = "remove" /\ E[x] = Absent),
           s[1].op = "prune" => NoOrphan(f, D)
    PROVE  Progress(Tail(s), f, E, T)
<1> DEFINE t == Tail(s)
<1>1. /\ IsList(t) /\ 1 \in DOMAIN s
      /\ \A k \in DOMAIN t : k + 1 \in DOMAIN s /\ t[k] = s[k + 1] /\ k \in Nat \ {0}
      /\ \A k \in DOMAIN s : k = 1 \/ (k - 1 \in DOMAIN t /\ t[k - 1] = s[k])
  BY Rests
<1>2. Paired(t) /\ \A p : Passed(t, p) => Passed(s, p)
  BY PairedTail, PassedTail DEF Progress
<1> HIDE DEF t
<1>3. OwnStep(s[1], f, T)
  BY <1>1 DEF Progress, OwnSteps
<1>4. TokenFiles \subseteq Files
  BY DEF Files
<1>5. ASSUME NEW p \in Places(f), Passed(t, p)
      PROVE  InPlace(f, p, t, E, T)
  <2> DEFINE n == Node(f, p).file
  <2>1. InPlace(f, p, s, D, T)
    BY <1>2, <1>5 DEF Progress
  <2>2. n \in DeclaredFiles(f) /\ n \in Files
    BY <1>4, NodeFile
  <2>3. E[n] = D[n]
    BY <1>3, <2>2 DEF OwnStep
  <2>4. (\E i \in DOMAIN s : s[i].op = "fill" /\ s[i].f = n)
          => \E i \in DOMAIN t : t[i].op = "fill" /\ t[i].f = n
    BY <1>1
  <2> QED BY <2>1, <2>3, <2>4 DEF InPlace
<1>6. ASSUME \A k \in DOMAIN t : t[k].op # "prune"
      PROVE  NoOrphan(f, E)
  <2>1. NoOrphan(f, D)
    BY <1>1, <1>6 DEF Progress
  <2> QED BY <1>4, <2>1 DEF NoOrphan
<1>7. OwnSteps(t, f, T)
  BY <1>1 DEF Progress, OwnSteps
<1> QED BY <1>2, <1>5, <1>6, <1>7 DEF Progress, t

LEMMA GrownProgress ==
    ASSUME NEW f \in GrantsFiles, NEW s, NEW D, NEW T, NEW U, Progress(s, f, D, T),
           DOMAIN T \subseteq DOMAIN U, \A j \in DOMAIN T : U[j] = T[j]
    PROVE  Progress(s, f, D, U)
<1>1. \A v, n : TokenShaped(v, n, T) => TokenShaped(v, n, U)
  BY DEF TokenShaped
<1>2. OwnSteps(s, f, U)
  BY <1>1 DEF Progress, OwnSteps, OwnStep
<1> QED BY <1>1, <1>2 DEF Progress, InPlace

(* Every step of s is one of u.                                            *)
Included(s, u) == \A k \in DOMAIN s : \E i \in DOMAIN u : u[i] = s[k]

LEMMA BothWithin ==
    ASSUME NEW s, NEW t, IsList(s), IsList(t)
    PROVE  Included(s, s \o t) /\ Included(t, s \o t)
<1> DEFINE u == s \o t  a == Len(s)  b == Len(t)
<1>1. /\ a \in Nat /\ b \in Nat /\ DOMAIN s = 1..a /\ DOMAIN t = 1..b /\ DOMAIN u = 1..(a + b)
      /\ \A k \in 1..a : u[k] = s[k]
      /\ \A k \in 1..b : u[a + k] = t[k]
  BY ListConcat
<1> HIDE DEF u, a, b
<1>2. \A k \in 1..a : k \in 1..(a + b)
  BY <1>1
<1>3. \A k \in 1..b : a + k \in 1..(a + b)
  BY <1>1
<1> QED BY <1>1, <1>2, <1>3 DEF u, Included

(* Steps put before those of a command that goes on.                       *)
LEMMA PutBefore ==
    ASSUME NEW f \in GrantsFiles, NEW q, NEW s, NEW D, NEW T, IsList(q), IsList(s),
           Progress(s, f, D, T), Paired(q), OwnSteps(q, f, T)
    PROVE  Progress(q \o s, f, D, T)
<1> DEFINE u == q \o s
<1>1. \A k \in DOMAIN u : \/ k \in DOMAIN q /\ u[k] = q[k]
                          \/ k - Len(q) \in DOMAIN s /\ u[k] = s[k - Len(q)] /\ k > Len(q)
  BY Cases
<1>2. Included(s, u)
  BY BothWithin
<1>3. Paired(u)
  <2>1. Paired(s)
    BY DEF Progress
  <2> QED BY <2>1, Joined
<1> HIDE DEF u
<1>4. OwnSteps(u, f, T)
  BY <1>1 DEF Progress, OwnSteps
<1>5. \A p : Passed(u, p) => Passed(s, p)
  BY <1>2 DEF Passed, Included
<1>6. \A p \in Places(f) : InPlace(f, p, s, D, T) => InPlace(f, p, u, D, T)
  BY <1>2 DEF InPlace, Included
<1>7. (\A k \in DOMAIN u : u[k].op # "prune") => \A k \in DOMAIN s : s[k].op # "prune"
  BY <1>2 DEF Included
<1> QED BY <1>3, <1>4, <1>5, <1>6, <1>7 DEF Progress, u

(* The node at the head is done with, and its file, if it has to be, is    *)
(* among the steps w that come next.                                       *)
LEMMA NodeProgress ==
    ASSUME NEW f \in GrantsFiles, NEW s, NEW D, NEW T, IsList(s), s # << >>,
           Progress(s, f, D, T), s[1].op = "apply", NEW w, IsList(w), Paired(w),
           OwnSteps(w, f, T), InPlace(f, s[1].v.at, w, D, T), NEW force
    PROVE  Progress(w \o (Applying(f, Following(f, s[1].v.at), force) \o Tail(s)), f, D, T)
<1> DEFINE t == Tail(s)
           at == s[1].v.at
           next == Applying(f, Following(f, at), force)
           r == next \o t
           u == w \o r
           it == Op("apply", Absent, [file |-> f, at |-> Following(f, at), force |-> force])
<1>1. /\ IsList(t) /\ 1 \in DOMAIN s
      /\ \A k \in DOMAIN t : k + 1 \in DOMAIN s /\ t[k] = s[k + 1] /\ k \in Nat \ {0}
      /\ \A k \in DOMAIN s : k = 1 \/ (k - 1 \in DOMAIN t /\ t[k - 1] = s[k])
  BY Rests
<1>2. Paired(t)
  BY PairedTail DEF Progress
<1>3. at \in Places(f)
  BY <1>1 DEF Progress, OwnSteps, OwnStep
<1>4. /\ IsList(next) /\ Paired(next) /\ OwnSteps(next, f, T)
      /\ Following(f, at) \in Places(f) => \E k \in DOMAIN next : next[k] = it
  <2>1. CASE Following(f, at) \in Places(f)
    <3> DEFINE o == <<it>>
    <3>1. next = o
      BY <2>1 DEF Applying
    <3>2. OwnStep(it, f, T) /\ it.op # "truncate"
      BY <2>1 DEF OwnStep, Op
    <3> HIDE DEF it, next
    <3>3. IsList(o) /\ DOMAIN o = {1} /\ o[1] = it
      BY DEF IsList
    <3> HIDE DEF o
    <3> QED BY <3>1, <3>2, <3>3 DEF Paired, OwnSteps
  <2>2. CASE Following(f, at) \notin Places(f)
    <3> DEFINE o == << >>
    <3>1. next = o
      BY <2>2 DEF Applying
    <3>2. IsList(o) /\ DOMAIN o = {}
      BY LightNone
    <3> HIDE DEF o, next
    <3> QED BY <2>2, <3>1, <3>2 DEF Paired, OwnSteps
  <2> QED BY <2>1, <2>2
<1>5. it.op = "apply" /\ it.v.at = Following(f, at)
  BY DEF Op
<1> HIDE DEF t, next, at, it
<1>6. IsList(r) /\ Paired(r)
  BY <1>1, <1>2, <1>4, Joined
<1>7. IsList(next)
  BY <1>4
<1>8. IsList(t)
  BY <1>1
<1>9. Included(next, r) /\ Included(t, r)
  BY <1>7, <1>8, BothWithin
<1>10. \A k \in DOMAIN r : \/ k \in DOMAIN next /\ r[k] = next[k]
                           \/ k - Len(next) \in DOMAIN t /\ r[k] = t[k - Len(next)] /\ k > Len(next)
  BY <1>7, <1>8, Cases
<1> HIDE DEF r
<1>11. Paired(u)
  BY <1>6, Joined
<1>12. Included(w, u) /\ Included(r, u)
  <2>1. IsList(r)
    BY <1>6
  <2> QED BY <2>1, BothWithin
<1>13. \A k \in DOMAIN u : \/ k \in DOMAIN w /\ u[k] = w[k]
                           \/ k - Len(w) \in DOMAIN r /\ u[k] = r[k - Len(w)] /\ k > Len(w)
  <2>1. IsList(r)
    BY <1>6
  <2> QED BY <2>1, Cases
<1> HIDE DEF u
<1>14. OwnSteps(u, f, T)
  <2>1. OwnSteps(t, f, T)
    BY <1>1 DEF Progress, OwnSteps
  <2>2. OwnSteps(r, f, T)
    BY <1>4, <1>10, <2>1 DEF OwnSteps
  <2> QED BY <1>13, <2>2 DEF OwnSteps
<1>15. Included(t, u) /\ Included(next, u)
  BY <1>9, <1>12 DEF Included
<1>16. ASSUME NEW p \in Places(f), Passed(u, p)
       PROVE  InPlace(f, p, u, D, T)
  <2>1. CASE Before(p, at)
    <3>1. Passed(t, p)
      BY <1>15, <1>16 DEF Passed, Included
    <3>2. Passed(s, p)
      BY <1>1, <2>1, <3>1 DEF Passed, at
    <3>3. InPlace(f, p, s, D, T)
      BY <3>2 DEF Progress
    <3>4. \A i \in DOMAIN s : s[i].op = "fill" => \E k \in DOMAIN t : t[k] = s[i]
      BY <1>1
    <3> QED BY <1>15, <3>3, <3>4 DEF InPlace, Included
  <2>2. CASE p = at
    BY <1>12, <2>2 DEF InPlace, Included, at
  <2>3. CASE ~Before(p, at) /\ p # at
    <3>1. Following(f, at) \in Places(f) /\ ~Before(p, Following(f, at))
      BY <1>3, <2>3, FollowsOn
    <3>2. \E i \in DOMAIN u : u[i] = it
      BY <1>4, <1>15, <3>1 DEF Included
    <3> QED BY <1>5, <1>16, <3>1, <3>2 DEF Passed
  <2> QED BY <2>1, <2>2, <2>3
<1>17. ASSUME \A k \in DOMAIN u : u[k].op # "prune"
       PROVE  NoOrphan(f, D)
  BY <1>1, <1>15, <1>17 DEF Progress, Included
<1> QED BY <1>11, <1>14, <1>16, <1>17 DEF Progress, u, r, t, next, at

(* The last step of a command that goes on is where it was.                *)
Ends(r, u, D, T) ==
    \A k \in DOMAIN r : r[k].op = "applied" =>
        k = Len(r) /\ (Distinct(r[k].v) => Progress(u, r[k].v, D, T))

LEMMA GoingOn ==
    ASSUME NEW q, NEW r, NEW D, NEW T, IsList(q), IsList(r),
           \A k \in DOMAIN q : q[k].op # "applied", Ends(r, q \o r, D, T)
    PROVE  Going(q \o r, D, T)
<1> DEFINE u == q \o r  a == Len(q)  b == Len(r)
<1>1. /\ a \in Nat /\ b \in Nat /\ DOMAIN q = 1..a /\ DOMAIN r = 1..b /\ DOMAIN u = 1..(a + b)
      /\ Len(u) = a + b
      /\ \A k \in 1..a : u[k] = q[k]
      /\ \A k \in 1..b : u[a + k] = r[k]
  <2>1. IsList(q) /\ IsList(r)
    OBVIOUS
  <2> QED BY ONLY <2>1, ListConcat
<1>2. Ends(r, u, D, T)
  OBVIOUS
<1> HIDE DEF u, a
<1>3. \A k \in 1..(a + b) : k \in 1..a \/ (k - a \in 1..b /\ a + (k - a) = k)
  BY <1>1
<1>4. ASSUME NEW k \in DOMAIN u, u[k].op = "applied"
      PROVE  k = Len(u) /\ (Distinct(u[k].v) => Progress(u, u[k].v, D, T))
  <2>1. k \in 1..(a + b) /\ k \notin 1..a
    BY <1>1, <1>4
  <2>2. k - a \in DOMAIN r /\ u[k] = r[k - a] /\ a + (k - a) = k
    BY <1>1, <1>3, <2>1
  <2>3. k - a = b /\ (Distinct(u[k].v) => Progress(u, u[k].v, D, T))
    BY <1>2, <1>4, <2>2 DEF Ends
  <2> QED BY <1>1, <2>1, <2>3
<1> QED BY <1>4 DEF Going, u

LEMMA TypedTail ==
    ASSUME NEW s, NEW T, Typed(s, T), s # << >>
    PROVE  Typed(Tail(s), T) /\ IsList(Tail(s)) /\ 1 \in DOMAIN s /\ ItemTyped(s[1], T)
<1>1. /\ IsList(Tail(s)) /\ 1 \in DOMAIN s
      /\ \A k \in DOMAIN Tail(s) : k + 1 \in DOMAIN s /\ Tail(s)[k] = s[k + 1]
  BY Rests DEF Typed
<1> QED BY <1>1 DEF Typed

LEMMA TypedJoined ==
    ASSUME NEW s, NEW t, NEW T, Typed(s, T), Typed(t, T)
    PROVE  Typed(s \o t, T)
<1> DEFINE u == s \o t
<1>1. IsList(s) /\ IsList(t)
  BY DEF Typed
<1>2. /\ IsList(u)
      /\ \A k \in DOMAIN u : \/ k \in DOMAIN s /\ u[k] = s[k]
                             \/ k - Len(s) \in DOMAIN t /\ u[k] = t[k - Len(s)] /\ k > Len(s)
  BY <1>1, Cases
<1> HIDE DEF u
<1> QED BY <1>2 DEF Typed, u

LEMMA TypedGrown ==
    ASSUME NEW s, NEW T, NEW U, Typed(s, T), DOMAIN T \subseteq DOMAIN U
    PROVE  Typed(s, U)
BY DEF Typed, ItemTyped

(* What is left of a command whose first step is done with.                *)
LEMMA EndsTail ==
    ASSUME NEW s, NEW D, NEW T, NEW u, NEW E, NEW U, Typed(s, T), s # << >>, Going(s, D, T),
           \A f \in GrantsFiles : Distinct(f) /\ Progress(s, f, D, T) => Progress(u, f, E, U)
    PROVE  Ends(Tail(s), u, E, U)
<1> DEFINE t == Tail(s)
<1>1. /\ \A k \in DOMAIN t : k + 1 \in DOMAIN s /\ t[k] = s[k + 1] /\ k \in Nat \ {0}
      /\ Len(t) = Len(s) - 1 /\ Len(s) \in Nat \ {0}
  BY Rests DEF Typed
<1> HIDE DEF t
<1>2. ASSUME NEW k \in DOMAIN t, t[k].op = "applied"
      PROVE  k = Len(t) /\ (Distinct(t[k].v) => Progress(u, t[k].v, E, U))
  <2>1. k + 1 = Len(s) /\ (Distinct(t[k].v) => Progress(s, t[k].v, D, T))
    BY <1>1, <1>2 DEF Going
  <2>2. t[k].v \in GrantsFiles
    BY <1>1, <1>2 DEF Typed, ItemTyped
  <2> QED BY <1>1, <2>1, <2>2
<1> QED BY <1>2 DEF Ends, t

LEMMA GoingTail ==
    ASSUME NEW s, NEW D, NEW T, NEW E, NEW U, Typed(s, T), s # << >>, Going(s, D, T),
           \A f \in GrantsFiles : Distinct(f) /\ Progress(s, f, D, T) => Progress(Tail(s), f, E, U)
    PROVE  Going(Tail(s), E, U)
<1>1. Ends(Tail(s), Tail(s), E, U)
  BY EndsTail
<1> QED BY <1>1 DEF Ends, Going

(* Each step of a command.                                                 *)
LEMMA NoopFacts ==
    ASSUME NoopInv
    PROVE  /\ Typed(todo, tokens) /\ IsList(todo) /\ Going(todo, disk, tokens) /\ IsList(tokens)
           /\ declared \in GrantsFiles /\ TokenFiles \subseteq Files
           /\ todo # << >> => /\ settled = Absent /\ 1 \in DOMAIN todo /\ ItemTyped(todo[1], tokens)
                              /\ Typed(Tail(todo), tokens) /\ IsList(Tail(todo))
BY TypedTail DEF NoopInv, Typed, Files

LEMMA NoopFile ==
    ASSUME NoopInv, NEW f, NEW c, disk' = [disk EXCEPT ![f] = c],
           UNCHANGED <<tokens, declared, settled>>, todo # << >>, todo' = Rest, todo[1].f = f,
           \/ todo[1].op \in {"truncate", "fill"} /\ c = (IF todo[1].op = "truncate" THEN Empty ELSE todo[1].v)
           \/ todo[1].op = "remove" /\ c = Absent
    PROVE  NoopInv'
<1>1. ItemTyped(todo[1], tokens) /\ settled = Absent /\ TokenFiles \subseteq Files
      /\ IsList(todo) /\ IsList(tokens)
  BY NoopFacts
<1>2. f \in Files /\ (f \in TokenFiles => c \in Unreadable \cup DOMAIN tokens)
  BY <1>1, TrustAssumption DEF ItemTyped, Files, Unreadable
<1>3. /\ disk' = [x \in Files |-> disk'[x]]
      /\ \A x \in Files : disk'[x] = IF x = f THEN c ELSE disk[x]
  BY <1>2 DEF NoopInv
<1>4. \A x \in TokenFiles : disk'[x] \in Unreadable \cup DOMAIN tokens
  BY <1>1, <1>2, <1>3 DEF NoopInv
<1>5. ASSUME NEW g \in GrantsFiles, Distinct(g), Progress(todo, g, disk, tokens)
      PROVE  Progress(Tail(todo), g, disk', tokens)
  <2>1. CASE todo[1].op \in {"truncate", "fill"}
    <3>1. Written(todo[1], disk, disk')
      BY <1>3, <2>1 DEF Written
    <3> QED BY <1>1, <1>5, <2>1, <3>1, WriteProgress
  <2>2. CASE todo[1].op = "remove"
    <3>1. \A x \in Files : \/ disk'[x] = disk[x]
                           \/ x = todo[1].f /\ todo[1].op = "remove" /\ disk'[x] = Absent
      BY <1>3, <2>2
    <3> QED BY <1>1, <1>5, <2>2, <3>1, OtherProgress
  <2> QED BY <2>1, <2>2
<1>6. Going(Tail(todo), disk', tokens)
  BY <1>5, NoopFacts, GoingTail
<1> QED BY <1>1, <1>3, <1>4, <1>6, NoopFacts DEF NoopInv, Rest

LEMMA NoopStops ==
    ASSUME NoopInv, todo # << >>, todo' = << >>, UNCHANGED <<disk, tokens, declared, settled>>
    PROVE  NoopInv'
<1> DEFINE e == << >>
<1>1. IsList(e) /\ DOMAIN e = {} /\ todo' = e
  BY LightNone
<1> HIDE DEF e
<1>2. Typed(todo', tokens) /\ Going(todo', disk, tokens)
  BY <1>1 DEF Typed, Going
<1> QED BY <1>2, NoopFacts DEF NoopInv

LEMMA NoopReport ==
    ASSUME NoopInv, Report
    PROVE  NoopInv'
<1>1. /\ todo # << >> /\ todo[1].op \in {"revoked", "applied"} /\ UNCHANGED <<disk, tokens, declared>>
      /\ settled' = (IF todo[1].op = "applied" THEN todo[1].v ELSE settled) /\ todo' = Tail(todo)
  BY DEF Report, At, Rest
<1>2. /\ 1 \in DOMAIN todo /\ settled = Absent /\ IsList(todo) /\ Typed(Tail(todo), tokens)
  BY <1>1, NoopFacts
<1>3. CASE todo[1].op = "revoked"
  <2>1. ASSUME NEW g \in GrantsFiles, Distinct(g), Progress(todo, g, disk, tokens)
        PROVE  Progress(Tail(todo), g, disk, tokens)
    <3>1. \A x \in Files : disk[x] = disk[x]
      OBVIOUS
    <3> QED BY <1>1, <1>2, <1>3, <2>1, <3>1, OtherProgress
  <2>2. Going(Tail(todo), disk, tokens)
    BY <1>1, <2>1, NoopFacts, GoingTail
  <2> QED BY <1>1, <1>2, <1>3, <2>2, NoopFacts DEF NoopInv
<1>4. CASE todo[1].op = "applied"
  <2> DEFINE f == todo[1].v
  <2>1. 1 = Len(todo) /\ (Distinct(f) => Progress(todo, f, disk, tokens))
    BY <1>2, <1>4, NoopFacts DEF Going
  <2>2. DOMAIN todo = {1} /\ Tail(todo) = << >>
    <3>1. /\ DOMAIN todo = 1..Len(todo) /\ Len(Tail(todo)) = Len(todo) - 1
          /\ IsList(Tail(todo))
      BY <1>1, <1>2, Rests
    <3>2. DOMAIN todo = {1} /\ Len(Tail(todo)) = 0
      BY <2>1, <3>1
    <3>3. Tail(todo) = << >>
      <4> DEFINE t == Tail(todo)
      <4>1. t = [k \in 1..Len(t) |-> t[k]] /\ Len(t) = 0
        BY <3>1, <3>2 DEF IsList
      <4> HIDE DEF t
      <4>2. t \in Seq({})
        <5>1. 1..0 = {}
          OBVIOUS
        <5>2. t = [k \in {} |-> t[k]]
          BY <4>1, <5>1
        <5> QED BY <5>2
      <4> QED BY <4>1, <4>2, EmptySeq DEF t
    <3> QED BY <3>2, <3>3
  <2>3. Left(f, disk, tokens)
    <3> SUFFICES ASSUME Distinct(f)
                 PROVE  /\ \A p \in Places(f) : TokenShaped(disk[Node(f, p).file], Node(f, p), tokens)
                        /\ NoOrphan(f, disk)
      BY DEF Left
    <3>1. Progress(todo, f, disk, tokens)
      BY <2>1
    <3> HIDE DEF f
    <3>2. \A k \in DOMAIN todo : todo[k].op = "applied"
      BY <1>4, <2>2
    <3> QED BY <3>1, <3>2 DEF Progress, Passed, InPlace
  <2>4. Going(todo', disk, tokens) /\ todo' = << >>
    <3> DEFINE e == << >>
    <3>1. DOMAIN e = {} /\ todo' = e
      BY <1>1, <2>2
    <3> HIDE DEF e
    <3>2. Going(todo', disk, tokens)
      BY <3>1 DEF Going
    <3> QED BY <1>1, <2>2, <3>2
  <2>5. settled' = f
    BY <1>1, <1>4
  <2> HIDE DEF f
  <2> QED BY <1>1, <1>2, <2>3, <2>4, <2>5, NoopFacts DEF NoopInv
<1> QED BY <1>1, <1>3, <1>4

(* Files of the directory's own, written one after the other.              *)
SetsUp(e) ==
    /\ IsList(e) /\ Paired(e)
    /\ \A k \in DOMAIN e : e[k].op \in {"truncate", "fill"} /\ e[k].f \in Trust

LEMMA SetsUpIs ==
    ASSUME NEW e, SetsUp(e), NEW T, NEW f
    PROVE  IsList(e) /\ Paired(e) /\ Typed(e, T) /\ OwnSteps(e, f, T)
BY DEF SetsUp, Typed, ItemTyped, OwnSteps, OwnStep

LEMMA SetsUpWrite ==
    ASSUME NEW f \in Trust, NEW v
    PROVE  SetsUp(Write(f, v))
<1> DEFINE w == Write(f, v)
<1>1. /\ IsList(w) /\ Len(w) = 2 /\ w[1] = Op("truncate", f, v) /\ w[2] = Op("fill", f, v)
  BY WriteIs
<1> HIDE DEF w
<1>2. DOMAIN w = {1, 2}
  BY <1>1 DEF IsList
<1>3. Paired(w)
  BY <1>1, <1>2 DEF Paired, Op
<1> QED BY <1>1, <1>2, <1>3 DEF SetsUp, Op, w

LEMMA SetsUpJoined ==
    ASSUME NEW s, NEW t, SetsUp(s), SetsUp(t)
    PROVE  SetsUp(s \o t)
<1> DEFINE u == s \o t
<1>1. IsList(s) /\ IsList(t) /\ Paired(s) /\ Paired(t)
  BY DEF SetsUp
<1>2. IsList(u) /\ Paired(u)
  BY <1>1, Joined
<1>3. \A k \in DOMAIN u : \/ k \in DOMAIN s /\ u[k] = s[k]
                          \/ k - Len(s) \in DOMAIN t /\ u[k] = t[k - Len(s)] /\ k > Len(s)
  BY <1>1, Cases
<1> HIDE DEF u
<1> QED BY <1>2, <1>3 DEF SetsUp, u

LEMMA EnsureSetsUp ==
    ASSUME NEW iss
    PROVE  SetsUp(EnsureSetup(iss))
<1> DEFINE v == BuildSignedFeed({}, iss, nkeys + 1)
           a == Write(Key, nkeys + 1)
           b == Write(JWKS, nkeys + 1)
           c == Write(Feed, v)
           e == << >>
<1>1. SetsUp(a) /\ SetsUp(b) /\ SetsUp(c)
  BY SetsUpWrite DEF Trust
<1>2. NewKeySteps(iss) = (a \o b) \o c
  BY DEF NewKeySteps
<1>3. DOMAIN e = {} /\ IsList(e)
  BY LightNone
<1> HIDE DEF a, b, c, e
<1>4. SetsUp((a \o b) \o c)
  BY <1>1, SetsUpJoined
<1>5. SetsUp(e)
  BY <1>3 DEF SetsUp, Paired
<1> QED BY <1>2, <1>4, <1>5 DEF EnsureSetup, e

LEMMA NoopPrune ==
    ASSUME NoopInv, Prune
    PROVE  NoopInv'
<1> DEFINE f == todo[1].v
<1>1. /\ todo # << >> /\ todo[1].op = "prune" /\ UNCHANGED <<disk, tokens, declared, settled>>
  BY DEF Prune, At
<1>2. /\ 1 \in DOMAIN todo /\ settled = Absent /\ IsList(todo) /\ Typed(Tail(todo), tokens)
      /\ Typed(todo, tokens)
  BY <1>1, NoopFacts
<1>3. CASE todo' = Rest /\ Orphans(f) = {}
  <2>1. ASSUME NEW g \in GrantsFiles, Distinct(g), Progress(todo, g, disk, tokens)
        PROVE  Progress(Tail(todo), g, disk, tokens)
    <3>1. \A x \in Files : disk[x] = disk[x]
      OBVIOUS
    <3>2. OwnStep(todo[1], g, tokens)
      BY <1>2, <2>1 DEF Progress, OwnSteps
    <3>3. f = g
      BY <1>1, <3>2 DEF OwnStep
    <3>4. NoOrphan(g, disk)
      BY <1>3, <3>3 DEF Orphans, NoOrphan
    <3> QED BY <1>1, <1>2, <2>1, <3>1, <3>4, OtherProgress
  <2>2. Going(Tail(todo), disk, tokens)
    BY <1>1, <2>1, NoopFacts, GoingTail
  <2> QED BY <1>1, <1>2, <1>3, <2>2, NoopFacts DEF NoopInv, Rest
<1>4. ASSUME NEW o \in Orphans(f), todo' = PruneOne(o) \o todo
      PROVE  NoopInv'
  <2> DEFINE it == Op("remove", o, disk[o])
             r == <<it>>
             A == IF disk[o] # Empty /\ CanRevoke THEN RevokeJTI(disk[o]) ELSE << >>
             q == A \o r
             e == << >>
  <2>1. o \in TokenFiles \ DeclaredFiles(f)
    BY <1>4 DEF Orphans
  <2>2. ItemTyped(it, tokens) /\ it.op = "remove" /\ it.f = o
    BY <2>1 DEF ItemTyped, Op
  <2>3. IsList(r) /\ DOMAIN r = {1} /\ r[1] = it
    BY DEF IsList
  <2>4. DOMAIN e = {} /\ IsList(e)
    BY LightNone
  <2> HIDE DEF it, r, e
  <2>5. SetsUp(A)
    <3>1. SetsUp(e)
      BY <2>4 DEF SetsUp, Paired
    <3>2. Feed \in Trust
      BY DEF Trust
    <3>3. \A v : SetsUp(Write(Feed, v))
      BY <3>2, SetsUpWrite
    <3> QED BY <3>1, <3>3 DEF RevokeJTI, e
  <2>6. todo' = q \o todo
    BY <1>4 DEF PruneOne, r, it
  <2> HIDE DEF A
  <2>7. Paired(r) /\ Typed(r, tokens) /\ IsList(A) /\ Paired(A) /\ Typed(A, tokens)
    BY <2>2, <2>3, <2>5, SetsUpIs DEF Paired, Typed
  <2>8. IsList(q) /\ Paired(q) /\ Typed(q, tokens)
    <3>1. IsList(r) /\ IsList(A)
      BY <2>3, <2>7
    <3> QED BY <2>7, <3>1, Joined, TypedJoined
  <2>9. \A k \in DOMAIN q : \/ k \in DOMAIN A /\ q[k] = A[k]
                            \/ k - Len(A) \in DOMAIN r /\ q[k] = r[k - Len(A)] /\ k > Len(A)
    <3>1. IsList(A)
      BY <2>7
    <3>2. IsList(r)
      BY <2>3
    <3> QED BY <3>1, <3>2, Cases
  <2> HIDE DEF q
  <2>10. \A k \in DOMAIN q : q[k].op # "applied"
    BY <2>2, <2>3, <2>5, <2>9 DEF SetsUp
  <2>11. OwnSteps(q, f, tokens)
    <3>1. OwnStep(it, f, tokens)
      BY <2>1, <2>2 DEF OwnStep
    <3>2. OwnSteps(A, f, tokens)
      BY <2>5, SetsUpIs
    <3> QED BY <2>3, <2>9, <3>1, <3>2 DEF OwnSteps
  <2>12. ASSUME NEW g \in GrantsFiles, Progress(todo, g, disk, tokens)
         PROVE  Progress(q \o todo, g, disk, tokens)
    <3>1. OwnStep(todo[1], g, tokens)
      BY <1>2, <2>12 DEF Progress, OwnSteps
    <3>2. f = g
      BY <1>1, <3>1 DEF OwnStep
    <3>3. OwnSteps(q, g, tokens)
      BY <2>11, <3>2
    <3> HIDE DEF f
    <3> QED BY <1>2, <2>8, <2>12, <3>3, PutBefore
  <2>13. Ends(todo, q \o todo, disk, tokens)
    <3>1. \A k \in DOMAIN todo : todo[k].op = "applied" => todo[k].v \in GrantsFiles
      BY <1>2 DEF Typed, ItemTyped
    <3> QED BY <2>12, <3>1, NoopFacts DEF Going, Ends
  <2>14. Going(q \o todo, disk, tokens)
    <3>1. IsList(q)
      BY <2>8
    <3> QED BY <1>2, <2>10, <2>13, <3>1, GoingOn
  <2>15. Typed(q \o todo, tokens)
    BY <1>2, <2>8, TypedJoined
  <2> QED BY <1>1, <1>2, <2>6, <2>14, <2>15, NoopFacts DEF NoopInv
<1> QED BY <1>1, <1>3, <1>4 DEF Prune

(* A token is minted.                                                      *)
LEMMA TokenAppended ==
    ASSUME IsList(tokens), NEW t, tokens' = Append(tokens, t)
    PROVE  /\ IsList(tokens') /\ DOMAIN tokens \subseteq DOMAIN tokens'
           /\ \A j \in DOMAIN tokens : tokens'[j] = tokens[j]
           /\ Len(tokens) + 1 \in DOMAIN tokens' /\ tokens'[Len(tokens) + 1] = t
<1>1. /\ IsList(tokens') /\ Len(tokens') = Len(tokens) + 1 /\ tokens'[Len(tokens) + 1] = t
      /\ \A k \in 1..Len(tokens) : tokens'[k] = tokens[k]
  BY ListAppend
<1>2. DOMAIN tokens = 1..Len(tokens) /\ DOMAIN tokens' = 1..(Len(tokens) + 1) /\ Len(tokens) \in Nat
  BY <1>1 DEF IsList
<1> QED BY <1>1, <1>2

LEMMA NoopMint ==
    ASSUME NoopInv, MintOne
    PROVE  NoopInv'
<1> DEFINE t == MintGrant(todo[1].v, disk[Key], DefaultIssuer)
<1>1. /\ todo # << >> /\ todo[1].op = "mint" /\ tokens' = Append(tokens, t)
      /\ todo' = Tail(todo) /\ UNCHANGED <<disk, declared, settled>>
  BY DEF MintOne, At, Rest
<1> HIDE DEF t
<1>2. /\ IsList(tokens') /\ DOMAIN tokens \subseteq DOMAIN tokens'
      /\ \A j \in DOMAIN tokens : tokens'[j] = tokens[j]
  BY <1>1, NoopFacts, TokenAppended
<1>3. /\ 1 \in DOMAIN todo /\ settled = Absent /\ IsList(todo) /\ Typed(Tail(todo), tokens)
      /\ Typed(todo, tokens)
  BY <1>1, NoopFacts
<1>4. ASSUME NEW g \in GrantsFiles, Distinct(g), Progress(todo, g, disk, tokens)
      PROVE  Progress(Tail(todo), g, disk, tokens')
  <2>1. OwnStep(todo[1], g, tokens)
    BY <1>3, <1>4 DEF Progress, OwnSteps
  <2> QED BY <1>1, <2>1 DEF OwnStep
<1>5. Going(Tail(todo), disk, tokens')
  BY <1>1, <1>3, <1>4, NoopFacts, GoingTail
<1>6. Typed(Tail(todo), tokens')
  BY <1>2, <1>3, TypedGrown
<1> QED BY <1>1, <1>2, <1>3, <1>5, <1>6, NoopFacts DEF NoopInv

LEMMA NodeGoes ==
    ASSUME NoopInv, todo # << >>, todo[1].op = "apply", NEW U, DOMAIN tokens \subseteq DOMAIN U,
           \A j \in DOMAIN tokens : U[j] = tokens[j], NEW w, Typed(w, U), Paired(w),
           \A k \in DOMAIN w : w[k].op # "applied", OwnSteps(w, todo[1].v.file, U),
           InPlace(todo[1].v.file, todo[1].v.at, w, disk, U), NEW u,
           u = w \o (Applying(todo[1].v.file, Following(todo[1].v.file, todo[1].v.at), todo[1].v.force)
                        \o Tail(todo))
    PROVE  Typed(u, U) /\ Going(u, disk, U)
<1> DEFINE f == todo[1].v.file
           at == todo[1].v.at
           next == Applying(f, Following(f, at), todo[1].v.force)
           it == Op("apply", Absent, [file |-> f, at |-> Following(f, at), force |-> todo[1].v.force])
           t == Tail(todo)
           q == w \o next
<1>1. /\ 1 \in DOMAIN todo /\ IsList(todo) /\ Typed(t, tokens) /\ Typed(todo, tokens)
      /\ f \in GrantsFiles /\ at \in Places(f)
  BY NoopFacts DEF ItemTyped
<1>2. IsList(next) /\ Typed(next, U) /\ \A k \in DOMAIN next : next[k].op # "applied"
  <2>1. CASE Following(f, at) \in Places(f)
    <3> DEFINE o == <<it>>
    <3>1. next = o
      BY <2>1 DEF Applying
    <3>2. ItemTyped(it, U) /\ it.op # "applied"
      BY <1>1, <2>1 DEF ItemTyped, Op
    <3> HIDE DEF it, next
    <3>3. IsList(o) /\ DOMAIN o = {1} /\ o[1] = it
      BY DEF IsList
    <3> HIDE DEF o
    <3> QED BY <3>1, <3>2, <3>3 DEF Typed
  <2>2. CASE Following(f, at) \notin Places(f)
    <3> DEFINE o == << >>
    <3>1. next = o
      BY <2>2 DEF Applying
    <3>2. IsList(o) /\ DOMAIN o = {}
      BY LightNone
    <3> HIDE DEF o, next
    <3> QED BY <3>1, <3>2 DEF Typed
  <2> QED BY <2>1, <2>2
<1>3. ASSUME NEW g \in GrantsFiles, Progress(todo, g, disk, tokens)
      PROVE  Progress(u, g, disk, U)
  <2>1. OwnStep(todo[1], g, tokens)
    BY <1>1, <1>3 DEF Progress, OwnSteps
  <2>2. f = g
    BY <2>1 DEF OwnStep
  <2>3. Progress(todo, g, disk, U)
    BY <1>3, GrownProgress
  <2>4. OwnSteps(w, g, U) /\ InPlace(g, todo[1].v.at, w, disk, U) /\ IsList(w)
    BY <2>2 DEF Typed
  <2>5. u = w \o (Applying(g, Following(g, todo[1].v.at), todo[1].v.force) \o Tail(todo))
    BY <2>2
  <2> HIDE DEF f
  <2>6. Progress(w \o (Applying(g, Following(g, todo[1].v.at), todo[1].v.force) \o Tail(todo)), g, disk, U)
    BY <1>1, <2>3, <2>4, NodeProgress
  <2> QED BY <2>5, <2>6
<1> HIDE DEF next, f, at
<1>4. IsList(w) /\ IsList(t)
  BY <1>1 DEF Typed
<1>5. u = q \o t
  <2>1. u = w \o (next \o t)
    BY DEF next, f, at
  <2>2. IsList(w)
    BY <1>4
  <2>3. IsList(next)
    BY <1>2
  <2>4. IsList(t)
    BY <1>4
  <2> HIDE DEF t
  <2>5. (w \o next) \o t = w \o (next \o t)
    BY <2>2, <2>3, <2>4, Associative
  <2> QED BY <2>1, <2>5
<1>6. Ends(t, u, disk, U)
  BY <1>1, <1>3, NoopFacts, EndsTail
<1>7. Typed(q, U)
  BY <1>2, TypedJoined
<1>8. \A k \in DOMAIN q : q[k].op # "applied"
  <2>1. IsList(w)
    BY <1>4
  <2>2. IsList(next)
    BY <1>2
  <2>3. \A k \in DOMAIN q : \/ k \in DOMAIN w /\ q[k] = w[k]
                            \/ k - Len(w) \in DOMAIN next /\ q[k] = next[k - Len(w)] /\ k > Len(w)
    BY <2>1, <2>2, Cases
  <2> HIDE DEF q
  <2> QED BY <1>2, <2>3
<1> HIDE DEF q
<1>9. Going(q \o t, disk, U)
  <2>1. IsList(q)
    BY <1>7 DEF Typed
  <2>2. IsList(t)
    BY <1>4
  <2>3. Ends(t, q \o t, disk, U)
    BY <1>5, <1>6
  <2> HIDE DEF t
  <2> QED BY <1>8, <2>1, <2>2, <2>3, GoingOn
<1>10. Typed(q \o t, U)
  <2>1. Typed(t, U)
    BY <1>1, TypedGrown
  <2> HIDE DEF t
  <2> QED BY <1>7, <2>1, TypedJoined
<1> QED BY <1>5, <1>9, <1>10

LEMMA NoopNode ==
    ASSUME NoopInv, ApplyNode
    PROVE  NoopInv'
<1> DEFINE v == todo[1].v
           n == Node(v.file, v.at)
           next == Applying(v.file, Following(v.file, v.at), v.force)
           rest == next \o Tail(todo)
<1>1. /\ todo # << >> /\ todo[1].op = "apply" /\ UNCHANGED <<disk, declared, settled>>
  BY DEF ApplyNode, At
<1>2. /\ v.file \in GrantsFiles /\ v.at \in Places(v.file) /\ settled = Absent /\ IsList(tokens)
      /\ Typed(Tail(todo), tokens)
  BY <1>1, NoopFacts DEF ItemTyped
<1>3. n.file \in TokenFiles
  BY <1>2, NodeFile
<1>4. \/ /\ todo' = rest /\ UNCHANGED tokens
         /\ disk[n.file] \notin Unreadable /\ fingerprint(tokens[disk[n.file]]) = fingerprint(n)
      \/ Sign(n, issuer(v.file), rest)
  BY DEF ApplyNode, Rest
<1>5. CASE /\ todo' = rest /\ UNCHANGED tokens
           /\ disk[n.file] \notin Unreadable /\ fingerprint(tokens[disk[n.file]]) = fingerprint(n)
  <2> DEFINE e == << >>
  <2>1. DOMAIN e = {} /\ IsList(e)
    BY LightNone
  <2>2. TokenShaped(disk[n.file], n, tokens)
    BY <1>3, <1>5 DEF TokenShaped, NoopInv
  <2>3. todo' = e \o rest
    <3>1. IsList(next)
      BY <1>2, ApplyingOK
    <3>2. IsList(Tail(todo))
      BY <1>1, NoopFacts
    <3> HIDE DEF next
    <3>3. IsList(rest)
      BY <3>1, <3>2, ListConcat
    <3> QED BY <1>5, <3>3, Empties
  <2> HIDE DEF e
  <2>4. Typed(e, tokens) /\ Paired(e) /\ OwnSteps(e, v.file, tokens) /\ InPlace(v.file, v.at, e, disk, tokens)
    BY <2>1, <2>2 DEF Typed, Paired, OwnSteps, InPlace
  <2>5. \A k \in DOMAIN e : e[k].op # "applied"
    BY <2>1
  <2>6. Typed(todo', tokens) /\ Going(todo', disk, tokens)
    BY <1>1, <2>3, <2>4, <2>5, NodeGoes
  <2> QED BY <1>1, <1>2, <1>5, <2>6, NoopFacts DEF NoopInv
<1>6. CASE Sign(n, issuer(v.file), rest)
  <2> DEFINE t == MintGrant(n, disk[Key], issuer(v.file))
             j == Len(tokens) + 1
             w == Write(n.file, j)
  <2>1. tokens' = Append(tokens, t) /\ todo' = w \o rest
    BY <1>6 DEF Sign
  <2>2. fingerprint(t) = fingerprint(n)
    BY DEF fingerprint, MintGrant
  <2> HIDE DEF t
  <2>3. /\ IsList(tokens') /\ DOMAIN tokens \subseteq DOMAIN tokens'
        /\ \A i \in DOMAIN tokens : tokens'[i] = tokens[i]
        /\ j \in DOMAIN tokens' /\ tokens'[j] = t
    <3>1. IsList(tokens)
      BY NoopFacts
    <3> QED BY <2>1, <3>1, TokenAppended
  <2> HIDE DEF j
  <2>4. TokenShaped(j, n, tokens')
    BY <2>2, <2>3 DEF TokenShaped
  <2>5. /\ IsList(w) /\ Len(w) = 2 /\ w[1] = Op("truncate", n.file, j) /\ w[2] = Op("fill", n.file, j)
    BY WriteIs
  <2> HIDE DEF w
  <2>6. DOMAIN w = {1, 2}
    BY <2>5 DEF IsList
  <2>7. Paired(w)
    BY <2>5, <2>6 DEF Paired, Op
  <2>8. Typed(w, tokens')
    BY <1>3, <2>3, <2>5, <2>6 DEF Typed, ItemTyped, Op
  <2>9. OwnSteps(w, v.file, tokens')
    BY <1>2, <2>4, <2>5, <2>6 DEF OwnSteps, OwnStep, Op
  <2>10. InPlace(v.file, v.at, w, disk, tokens')
    BY <2>5, <2>6 DEF InPlace, Op
  <2>11. \A k \in DOMAIN w : w[k].op # "applied"
    BY <2>5, <2>6 DEF Op
  <2>12. Typed(todo', tokens') /\ Going(todo', disk, tokens')
    BY <1>1, <2>1, <2>3, <2>7, <2>8, <2>9, <2>10, <2>11, NodeGoes
  <2> QED BY <1>1, <1>2, <2>3, <2>12, NoopFacts DEF NoopInv
<1> QED BY <1>4, <1>5, <1>6

LEMMA NoopKept ==
    ASSUME NoopInv, StepOfCommand
    PROVE  NoopInv'
<1>1. CASE Truncate
  <2> DEFINE f == todo[1].f
             c == Empty
  <2>1. /\ todo # << >> /\ todo[1].op = "truncate" /\ disk' = [disk EXCEPT ![f] = c]
        /\ todo' = Rest /\ UNCHANGED <<tokens, declared, settled>>
    BY <1>1 DEF Truncate, At
  <2>2. todo[1].op \in {"truncate", "fill"} /\ c = (IF todo[1].op = "truncate" THEN Empty ELSE todo[1].v)
    BY <2>1
  <2> QED BY <2>1, <2>2, NoopFile
<1>2. CASE Fill
  <2> DEFINE f == todo[1].f
             c == todo[1].v
  <2>1. /\ todo # << >> /\ todo[1].op = "fill" /\ disk' = [disk EXCEPT ![f] = c]
        /\ todo' = Rest /\ UNCHANGED <<tokens, declared, settled>>
    BY <1>2 DEF Fill, At
  <2>2. todo[1].op \in {"truncate", "fill"} /\ c = (IF todo[1].op = "truncate" THEN Empty ELSE todo[1].v)
    BY <2>1
  <2> QED BY <2>1, <2>2, NoopFile
<1>3. CASE RemoveFile
  <2> DEFINE f == todo[1].f
             c == Absent
  <2>1. /\ todo # << >> /\ todo[1].op = "remove" /\ disk' = [disk EXCEPT ![f] = c]
        /\ todo' = Rest /\ UNCHANGED <<tokens, declared, settled>>
    BY <1>3 DEF RemoveFile, At
  <2> QED BY <2>1, NoopFile
<1>4. CASE InitRole
  <2>1. todo # << >> /\ todo[1].op = "roles"
    BY <1>4 DEF InitRole, At
  <2> QED BY <2>1, NoopFacts DEF ItemTyped
<1>5. CASE Kill
  BY <1>5, NoopStops DEF Kill
<1> QED BY <1>1, <1>2, <1>3, <1>4, <1>5, NoopNode, NoopMint, NoopPrune, NoopReport
        DEF StepOfCommand

(* A command begins.                                                       *)
LEMMA FirstPlace ==
    ASSUME NEW f \in GrantsFiles, NEW p \in Places(f)
    PROVE  <<1, 0>> \in Places(f) /\ ~Before(p, <<1, 0>>)
<1> DEFINE N == Len(f.grants)
           M == [n \in 1..N |-> Len(f.grants[n].delegate)]
           first == <<1, 0>>
<1>1. N \in Nat /\ DOMAIN f.grants = 1..N /\ \A n \in 1..N : M[n] \in Nat
  BY TrustAssumption
<1>2. \A n \in 1..N : DOMAIN buildTree(f.grants[n]) = 0..M[n]
  BY DEF buildTree
<1>3. \A q \in Places(f) : \E n \in DOMAIN f.grants : \E k \in DOMAIN buildTree(f.grants[n]) : q = <<n, k>>
  BY DEF Places
<1>4. \A n \in DOMAIN f.grants : \A k \in DOMAIN buildTree(f.grants[n]) : <<n, k>> \in Places(f)
  BY DEF Places
<1> HIDE DEF N, M
<1>5. PICK n \in 1..N : \E k \in 0..M[n] : p = <<n, k>>
  BY <1>1, <1>2, <1>3
<1>6. PICK k \in 0..M[n] : p = <<n, k>>
  BY <1>5
<1>7. n \in Nat /\ k \in Nat /\ 1 <= n /\ 0 <= k /\ 1 \in 1..N
  BY <1>1
<1>8. 0 \in 0..M[1]
  BY <1>1, <1>7
<1>9. <<1, 0>> \in Places(f)
  BY <1>1, <1>2, <1>4, <1>7, <1>8
<1>10. ~(n < 1) /\ ~(k < 0)
  BY <1>7
<1> QED BY <1>6, <1>9, <1>10 DEF Before

LEMMA NoopBegins ==
    ASSUME NoopInv, NEW q, todo' = q, settled' = Absent, UNCHANGED <<disk, tokens, declared>>,
           Typed(q, tokens), Going(q, disk, tokens)
    PROVE  NoopInv'
BY NoopFacts DEF NoopInv

LEMMA OneTyped ==
    ASSUME NEW it, NEW T, ItemTyped(it, T)
    PROVE  Typed(<<it>>, T) /\ IsList(<<it>>) /\ DOMAIN <<it>> = {1} /\ <<it>>[1] = it
<1> DEFINE w == <<it>>
<1>1. DOMAIN w = {1} /\ w[1] = it /\ IsList(w)
  BY DEF IsList
<1> HIDE DEF w
<1>2. Typed(w, T)
  BY <1>1 DEF Typed
<1> QED BY <1>1, <1>2 DEF w

(* A directory that is set up if need be, then one step of another command *)
(* than `apply`.                                                           *)
LEMMA NoopOther ==
    ASSUME NoopInv, NEW e, SetsUp(e), NEW it, it.op \in {"mint", "revoked"},
           todo' = e \o <<it>>, settled' = Absent, UNCHANGED <<disk, tokens, declared>>
    PROVE  NoopInv'
<1> DEFINE r == <<it>>
           q == e \o r
<1>1. ItemTyped(it, tokens)
  BY DEF ItemTyped
<1>2. Typed(r, tokens) /\ IsList(r) /\ DOMAIN r = {1} /\ r[1] = it
  BY <1>1, OneTyped
<1>3. todo' = q
  OBVIOUS
<1> HIDE DEF r
<1>4. Typed(e, tokens) /\ IsList(e)
  BY SetsUpIs
<1>5. Typed(q, tokens)
  BY <1>2, <1>4, TypedJoined
<1>6. \A k \in DOMAIN q : \/ k \in DOMAIN e /\ q[k] = e[k]
                          \/ k - Len(e) \in DOMAIN r /\ q[k] = r[k - Len(e)] /\ k > Len(e)
  <2>1. IsList(e)
    BY <1>4
  <2>2. IsList(r)
    BY <1>2
  <2> QED BY <2>1, <2>2, Cases
<1> HIDE DEF q
<1>7. Going(q, disk, tokens)
  BY <1>2, <1>6 DEF Going, SetsUp
<1> QED BY <1>3, <1>5, <1>7, NoopBegins

LEMMA NoopApply ==
    ASSUME NoopInv, NEW force, NEW prune, Apply(force, prune)
    PROVE  NoopInv'
<1> DEFINE f == declared
           e == EnsureSetup(issuer(f))
           a == Applying(f, <<1, 0>>, force)
           x == Op("prune", Absent, f)
           y == Op("applied", Absent, f)
           p == IF prune THEN <<x, y>> ELSE << >>
           q == e \o a
           u == q \o p
           it == Op("apply", Absent, [file |-> f, at |-> <<1, 0>>, force |-> force])
<1>1. todo' = u /\ settled' = Absent /\ UNCHANGED <<disk, tokens, declared>>
  BY DEF Apply, Run
<1>2. f \in GrantsFiles /\ SetsUp(e)
  BY NoopFacts, EnsureSetsUp
<1>3. /\ IsList(a) /\ Paired(a) /\ OwnSteps(a, f, tokens) /\ Typed(a, tokens)
      /\ \A k \in DOMAIN a : a[k].op = "apply"
      /\ <<1, 0>> \in Places(f) => \E k \in DOMAIN a : a[k] = it
  <2>1. CASE <<1, 0>> \in Places(f)
    <3> DEFINE o == <<it>>
    <3>1. a = o
      BY <2>1 DEF Applying
    <3>2. OwnStep(it, f, tokens) /\ ItemTyped(it, tokens) /\ it.op = "apply"
      BY <1>2, <2>1 DEF OwnStep, ItemTyped, Op
    <3> HIDE DEF it, a
    <3>3. Typed(o, tokens) /\ IsList(o) /\ DOMAIN o = {1} /\ o[1] = it
      BY <3>2, OneTyped
    <3> HIDE DEF o
    <3> QED BY <3>1, <3>2, <3>3 DEF Paired, OwnSteps
  <2>2. CASE <<1, 0>> \notin Places(f)
    <3> DEFINE o == << >>
    <3>1. a = o
      BY <2>2 DEF Applying
    <3>2. IsList(o) /\ DOMAIN o = {}
      BY LightNone
    <3> HIDE DEF o, a, it
    <3> QED BY <2>2, <3>1, <3>2 DEF Paired, OwnSteps, Typed
  <2> QED BY <2>1, <2>2
<1>4. it.op = "apply" /\ it.v.at = <<1, 0>> /\ x.op = "prune" /\ x.v = f /\ y.op = "applied" /\ y.v = f
  BY DEF Op
<1>5. IsList(p) /\ \/ Len(p) = 2 /\ DOMAIN p = {1, 2} /\ p[1] = x /\ p[2] = y
                   \/ DOMAIN p = {}
  <2>1. CASE prune
    <3> DEFINE w == <<x, y>>
    <3>1. IsList(w) /\ Len(w) = 2 /\ DOMAIN w = {1, 2} /\ w[1] = x /\ w[2] = y
      BY DEF IsList
    <3>2. p = w
      BY <2>1
    <3> HIDE DEF p, w
    <3> QED BY <3>1, <3>2
  <2>2. CASE ~prune
    <3> DEFINE w == << >>
    <3>1. IsList(w) /\ DOMAIN w = {}
      BY LightNone
    <3>2. p = w
      BY <2>2
    <3> HIDE DEF p, w
    <3> QED BY <3>1, <3>2
  <2> QED BY <2>1, <2>2
<1> HIDE DEF e, a, x, y, p, it
<1>6. Paired(p) /\ OwnSteps(p, f, tokens) /\ Typed(p, tokens)
  <2>1. /\ OwnStep(x, f, tokens) /\ OwnStep(y, f, tokens)
        /\ ItemTyped(x, tokens) /\ ItemTyped(y, tokens)
    BY <1>2, <1>4 DEF OwnStep, ItemTyped
  <2> QED BY <1>4, <1>5, <2>1 DEF Paired, OwnSteps, Typed
<1>7. IsList(e) /\ Paired(e) /\ Typed(e, tokens) /\ OwnSteps(e, f, tokens)
  BY <1>2, SetsUpIs
<1>8. IsList(q) /\ Paired(q) /\ Typed(q, tokens) /\ Included(a, q)
  <2>1. IsList(e)
    BY <1>7
  <2>2. IsList(a)
    BY <1>3
  <2> QED BY <1>3, <1>7, <2>1, <2>2, Joined, TypedJoined, BothWithin
<1>9. \A k \in DOMAIN q : \/ k \in DOMAIN e /\ q[k] = e[k]
                          \/ k - Len(e) \in DOMAIN a /\ q[k] = a[k - Len(e)] /\ k > Len(e)
  <2>1. IsList(e)
    BY <1>7
  <2>2. IsList(a)
    BY <1>3
  <2> QED BY <2>1, <2>2, Cases
<1> HIDE DEF q
<1>10. OwnSteps(q, f, tokens) /\ \A k \in DOMAIN q : q[k].op # "applied"
  BY <1>2, <1>3, <1>7, <1>9 DEF OwnSteps, SetsUp
<1>11. Paired(u) /\ Typed(u, tokens) /\ Included(q, u) /\ Included(p, u)
  <2>1. IsList(q)
    BY <1>8
  <2>2. IsList(p)
    BY <1>5
  <2> QED BY <1>6, <1>8, <2>1, <2>2, Joined, TypedJoined, BothWithin
<1>12. OwnSteps(u, f, tokens)
  <2>1. IsList(q)
    BY <1>8
  <2>2. IsList(p)
    BY <1>5
  <2>3. \A k \in DOMAIN u : \/ k \in DOMAIN q /\ u[k] = q[k]
                            \/ k - Len(q) \in DOMAIN p /\ u[k] = p[k - Len(q)] /\ k > Len(q)
    BY <2>1, <2>2, Cases
  <2> HIDE DEF u
  <2> QED BY <1>6, <1>10, <2>3 DEF OwnSteps
<1>13. \A r \in Places(f) : ~Passed(u, r)
  <2> SUFFICES ASSUME NEW r \in Places(f), Passed(u, r) PROVE FALSE
    OBVIOUS
  <2>1. <<1, 0>> \in Places(f) /\ ~Before(r, <<1, 0>>)
    BY <1>2, FirstPlace
  <2>2. \E k \in DOMAIN u : u[k] = it
    BY <1>3, <1>8, <1>11, <2>1 DEF Included
  <2> QED BY <1>4, <2>1, <2>2 DEF Passed
<1>14. Going(u, disk, tokens)
  <2>1. CASE DOMAIN p = {}
    <3>1. Ends(p, u, disk, tokens)
      BY <2>1 DEF Ends
    <3>2. IsList(q)
      BY <1>8
    <3>3. IsList(p)
      BY <1>5
    <3> QED BY <1>10, <3>1, <3>2, <3>3, GoingOn
  <2>2. CASE Len(p) = 2 /\ DOMAIN p = {1, 2} /\ p[1] = x /\ p[2] = y
    <3>1. \E k \in DOMAIN u : u[k].op = "prune"
      BY <1>4, <1>11, <2>2 DEF Included
    <3>2. Progress(u, f, disk, tokens)
      BY <1>11, <1>12, <1>13, <3>1 DEF Progress
    <3>3. Ends(p, u, disk, tokens)
      BY <1>4, <2>2, <3>2 DEF Ends
    <3>4. IsList(q)
      BY <1>8
    <3>5. IsList(p)
      BY <1>5
    <3> QED BY <1>10, <3>3, <3>4, <3>5, GoingOn
  <2> QED BY <1>5, <2>1, <2>2
<1> HIDE DEF u
<1> QED BY <1>1, <1>11, <1>14, NoopBegins

LEMMA NoopCommand ==
    ASSUME NoopInv, GrantsCommand
    PROVE  NoopInv'
<1>1. CASE \E n \in DOMAIN declared.grants : Mint(declared.grants[n])
  <2>1. PICK n \in DOMAIN declared.grants : Mint(declared.grants[n])
    BY <1>1
  <2> DEFINE e == EnsureSetup(DefaultIssuer)
             it == Op("mint", Absent, RootNode(declared.grants[n]))
  <2>2. /\ todo' = e \o <<it>> /\ settled' = Absent /\ UNCHANGED <<disk, tokens, declared>>
    BY <2>1 DEF Mint, Run
  <2>3. SetsUp(e) /\ it.op \in {"mint", "revoked"}
    BY EnsureSetsUp DEF Op
  <2> HIDE DEF e, it
  <2> QED BY <2>2, <2>3, NoopOther
<1>2. CASE WhoCan
  <2> DEFINE e == EnsureSetup(issuer(declared))
  <2>1. todo' = e /\ settled' = Absent /\ UNCHANGED <<disk, tokens, declared>>
    BY <1>2 DEF WhoCan, Run
  <2>2. SetsUp(e)
    BY EnsureSetsUp
  <2> HIDE DEF e
  <2>3. Typed(e, tokens) /\ Going(e, disk, tokens)
    BY <2>2, SetsUpIs DEF Going, SetsUp
  <2> QED BY <2>1, <2>3, NoopBegins
<1>3. CASE \E j \in DOMAIN tokens : Revoke(j)
  <2>1. PICK j \in DOMAIN tokens : Revoke(j)
    BY <1>3
  <2> DEFINE v == BuildSignedFeed(disk[Feed].jtis \cup {j}, DefaultIssuer, disk[Key])
             e == Write(Feed, v)
             it == Op("revoked", Feed, j)
  <2>2. /\ todo' = e \o <<it>> /\ settled' = Absent /\ UNCHANGED <<disk, tokens, declared>>
    BY <2>1 DEF Revoke, Run, RevokeJTI
  <2>3. SetsUp(e) /\ it.op \in {"mint", "revoked"}
    BY SetsUpWrite DEF Trust, Op
  <2> HIDE DEF e, it
  <2> QED BY <2>2, <2>3, NoopOther
<1>4. CASE \E f \in GrantsFiles : EditFile(f)
  <2>1. declared' \in GrantsFiles /\ UNCHANGED <<disk, todo, tokens, settled>>
    BY <1>4 DEF EditFile
  <2> QED BY <2>1 DEF NoopInv
<1>5. CASE Tick
  BY <1>5 DEF Tick, NoopInv
<1> QED BY <1>1, <1>2, <1>3, <1>4, <1>5, NoopApply DEF GrantsCommand

LEMMA NoopStart ==
    ASSUME TrustInit
    PROVE  NoopInv
<1> DEFINE o == << >>
<1>1. /\ disk = [f \in Files |-> Absent] /\ todo = o /\ tokens = o
      /\ declared \in GrantsFiles /\ settled = Absent
  BY DEF TrustInit
<1>2. DOMAIN o = {} /\ IsList(o)
  BY LightNone
<1> HIDE DEF o
<1>3. TokenFiles \subseteq Files
  BY DEF Files
<1>4. Typed(todo, tokens) /\ Going(todo, disk, tokens)
  BY <1>1, <1>2 DEF Typed, Going
<1> QED BY <1>1, <1>2, <1>3, <1>4 DEF NoopInv, Unreadable

LEMMA NoopSteps ==
    ASSUME NoopInv, [StepOfCommand \/ GrantsCommand]_trustVars
    PROVE  NoopInv'
<1>1. CASE UNCHANGED trustVars
  BY <1>1 DEF trustVars, NoopInv
<1> QED BY <1>1, NoopKept, NoopCommand

LEMMA NoopReapplies == NoopInv => ReapplyIsNoop
<1> SUFFICES ASSUME NoopInv, settled # Absent, Distinct(settled)
             PROVE  /\ \A at \in Places(settled) :
                          LET node == Node(settled, at)
                          IN  /\ disk[node.file] \notin Unreadable
                              /\ fingerprint(tokens[disk[node.file]]) = fingerprint(node)
                    /\ Orphans(settled) = {}
  BY DEF ReapplyIsNoop
<1>1. /\ \A at \in Places(settled) :
            TokenShaped(disk[Node(settled, at).file], Node(settled, at), tokens)
      /\ NoOrphan(settled, disk)
  BY DEF NoopInv, Left
<1>2. IsList(tokens)
  BY NoopFacts
<1>3. \A j \in DOMAIN tokens : j \notin Unreadable
  BY <1>2, TokenIsNoSentinel
<1> QED BY <1>1, <1>3 DEF TokenShaped, NoOrphan, Orphans

(* "re-applying an unchanged file is a no-op" (Apply): once an `apply      *)
(* --prune` has ended, each node that its file declares has a readable     *)
(* token of its shape and no other token file is left, until another       *)
(* command runs, whatever was killed or forced before it.                  *)
THEOREM ReapplyingChangesNothing == TrustSpec => []ReapplyIsNoop
<1>1. TrustInit => NoopInv
  BY NoopStart
<1>2. NoopInv /\ [StepOfCommand \/ GrantsCommand]_trustVars => NoopInv'
  BY NoopSteps
<1>3. NoopInv => ReapplyIsNoop
  BY NoopReapplies
<1> QED BY <1>1, <1>2, <1>3, PTL DEF TrustSpec

-----------------------------------------------------------------------------
(* What the files of the directory and the steps of a command can hold,    *)
(* when the tokens are T and n keys have been generated.                   *)

Content(f, v, T, n) ==
    \/ f \in TokenFiles /\ v \in Unreadable \cup DOMAIN T
    \/ f \in {Key, JWKS} /\ v \in Unreadable \cup 1..n
    \/ f = Feed /\ (Loadable(v) => v.jtis \subseteq DOMAIN T)
    \/ f = OverlayFile

Contents(d, T, n) == \A f \in Files : Content(f, d[f], T, n)

Known(it, T, n) ==
    \/ it.op \in {"truncate", "fill"} /\ Content(it.f, it.v, T, n)
    \/ it.op = "apply" /\ it.v.file \in GrantsFiles /\ it.v.at \in Places(it.v.file)
    \/ it.op \in {"mint", "prune", "applied"}
    \/ it.op = "roles" /\ it.v \subseteq DOMAIN BuiltinRoles
    \/ it.op = "hook" /\ it.v \in DOMAIN BuiltinRoles
    \/ it.op = "revoked" /\ it.v \in DOMAIN T
    \/ it.op = "remove" /\ it.f \in TokenFiles /\ it.v \in Unreadable \cup DOMAIN T

KnownSteps(s, T, n) == IsList(s) /\ \A k \in DOMAIN s : Known(s[k], T, n)

ContentInv ==
    /\ disk = [f \in Files |-> disk[f]] /\ Contents(disk, tokens, nkeys)
    /\ KnownSteps(todo, tokens, nkeys)
    /\ IsList(tokens) /\ nkeys \in Nat /\ declared \in GrantsFiles
    /\ killed \cup pruned \subseteq DOMAIN tokens

LEMMA KnownTail ==
    ASSUME NEW s, NEW T, NEW n, KnownSteps(s, T, n), s # << >>
    PROVE  KnownSteps(Tail(s), T, n) /\ Known(s[1], T, n)
<1>1. /\ IsList(Tail(s)) /\ 1 \in DOMAIN s
      /\ \A k \in DOMAIN Tail(s) : k + 1 \in DOMAIN s /\ Tail(s)[k] = s[k + 1]
  BY Rests DEF KnownSteps
<1> QED BY <1>1 DEF KnownSteps

LEMMA KnownNone ==
    ASSUME NEW T, NEW n
    PROVE  KnownSteps(<< >>, T, n)
<1> DEFINE e == << >>
<1>1. DOMAIN e = {} /\ IsList(e)
  BY DEF IsList
<1> HIDE DEF e
<1> QED BY <1>1 DEF KnownSteps, e

LEMMA KnownOne ==
    ASSUME NEW it, NEW T, NEW n, Known(it, T, n)
    PROVE  KnownSteps(<<it>>, T, n)
<1> DEFINE w == <<it>>
<1>1. DOMAIN w = {1} /\ w[1] = it /\ IsList(w)
  BY DEF IsList
<1> HIDE DEF w
<1> QED BY <1>1 DEF KnownSteps, w

LEMMA KnownWrite ==
    ASSUME NEW f, NEW v, NEW T, NEW n, Content(f, v, T, n)
    PROVE  KnownSteps(Write(f, v), T, n)
<1> DEFINE w == Write(f, v)
<1>1. IsList(w) /\ Len(w) = 2 /\ w[1] = Op("truncate", f, v) /\ w[2] = Op("fill", f, v)
  BY WriteIs
<1> HIDE DEF w
<1>2. DOMAIN w = {1, 2}
  BY <1>1 DEF IsList
<1>3. Known(w[1], T, n) /\ Known(w[2], T, n)
  BY <1>1 DEF Known, Op
<1> QED BY <1>1, <1>2, <1>3 DEF KnownSteps, w

LEMMA KnownJoined ==
    ASSUME NEW s, NEW t, NEW T, NEW n, KnownSteps(s, T, n), KnownSteps(t, T, n)
    PROVE  KnownSteps(s \o t, T, n)
<1> DEFINE u == s \o t
<1>1. IsList(s) /\ IsList(t)
  BY DEF KnownSteps
<1>2. /\ IsList(u)
      /\ \A k \in DOMAIN u : \/ k \in DOMAIN s /\ u[k] = s[k]
                             \/ k - Len(s) \in DOMAIN t /\ u[k] = t[k - Len(s)] /\ k > Len(s)
  BY <1>1, Cases
<1> HIDE DEF u
<1> QED BY <1>2 DEF KnownSteps, u

(* More tokens and more keys.                                              *)
LEMMA ContentGrown ==
    ASSUME NEW f, NEW v, NEW T, NEW U, NEW n \in Nat, NEW m \in Nat,
           Content(f, v, T, n), DOMAIN T \subseteq DOMAIN U, n <= m
    PROVE  Content(f, v, U, m)
<1>1. 1..n \subseteq 1..m
  OBVIOUS
<1> QED BY <1>1 DEF Content

LEMMA KnownGrown ==
    ASSUME NEW s, NEW T, NEW U, NEW n \in Nat, NEW m \in Nat,
           KnownSteps(s, T, n), DOMAIN T \subseteq DOMAIN U, n <= m
    PROVE  KnownSteps(s, U, m)
<1>1. ASSUME NEW k \in DOMAIN s PROVE Known(s[k], U, m)
  <2>1. Known(s[k], T, n)
    BY DEF KnownSteps
  <2>2. Content(s[k].f, s[k].v, T, n) => Content(s[k].f, s[k].v, U, m)
    BY ContentGrown
  <2> QED BY <2>1, <2>2 DEF Known
<1> QED BY <1>1 DEF KnownSteps

LEMMA ContentsGrown ==
    ASSUME NEW d, NEW T, NEW U, NEW n \in Nat, NEW m \in Nat,
           Contents(d, T, n), DOMAIN T \subseteq DOMAIN U, n <= m
    PROVE  Contents(d, U, m)
<1>1. ASSUME NEW f \in Files PROVE Content(f, d[f], U, m)
  <2>1. Content(f, d[f], T, n)
    BY DEF Contents
  <2> QED BY <2>1, ContentGrown
<1> QED BY <1>1 DEF Contents

-----------------------------------------------------------------------------
(* Each step of a command, and each command.                               *)

LEMMA ContentFacts ==
    ASSUME ContentInv
    PROVE  /\ disk = [f \in Files |-> disk[f]] /\ Contents(disk, tokens, nkeys)
           /\ KnownSteps(todo, tokens, nkeys) /\ KnownSteps(<< >>, tokens, nkeys)
           /\ todo # << >> => KnownSteps(Rest, tokens, nkeys) /\ Known(todo[1], tokens, nkeys)
           /\ IsList(tokens) /\ nkeys \in Nat /\ nkeys <= nkeys /\ declared \in GrantsFiles
           /\ killed \cup pruned \subseteq DOMAIN tokens
BY KnownTail, KnownNone DEF ContentInv, Rest

(* One file is written: truncated, filled, removed or overwritten.         *)
LEMMA ContentWritten ==
    ASSUME ContentInv, NEW f \in Files, NEW c, Content(f, c, tokens, nkeys),
           disk' = [disk EXCEPT ![f] = c], UNCHANGED <<tokens, nkeys, declared>>,
           killed' \cup pruned' \subseteq DOMAIN tokens, KnownSteps(todo', tokens, nkeys)
    PROVE  ContentInv'
<1>1. disk = [x \in Files |-> disk[x]] /\ Contents(disk, tokens, nkeys)
  BY ContentFacts
<1>2. /\ disk' = [x \in Files |-> disk'[x]]
      /\ \A x \in Files : disk'[x] = IF x = f THEN c ELSE disk[x]
  BY <1>1
<1>3. Contents(disk', tokens, nkeys)
  BY <1>1, <1>2 DEF Contents
<1> QED BY <1>2, <1>3, ContentFacts DEF ContentInv

(* A token is minted.                                                      *)
LEMMA ContentMinted ==
    ASSUME ContentInv, NEW t, tokens' = Append(tokens, t),
           UNCHANGED <<disk, nkeys, declared, killed, pruned>>,
           KnownSteps(todo', tokens', nkeys)
    PROVE  ContentInv' /\ DOMAIN tokens \subseteq DOMAIN tokens'
<1>1. IsList(tokens) /\ nkeys \in Nat /\ nkeys <= nkeys /\ Contents(disk, tokens, nkeys)
  BY ContentFacts
<1>2. IsList(tokens') /\ DOMAIN tokens \subseteq DOMAIN tokens'
  BY <1>1, TokenAppended
<1>3. Contents(disk, tokens', nkeys)
  BY <1>1, <1>2, ContentsGrown
<1> QED BY <1>2, <1>3, ContentFacts DEF ContentInv

(* The steps of a command that has minted a token for file f.              *)
LEMMA MintedSteps ==
    ASSUME ContentInv, NEW t, tokens' = Append(tokens, t), NEW f \in TokenFiles,
           NEW s, KnownSteps(s, tokens, nkeys)
    PROVE  KnownSteps(Write(f, Len(tokens) + 1) \o s, tokens', nkeys)
<1>1. IsList(tokens) /\ nkeys \in Nat /\ nkeys <= nkeys
  BY ContentFacts
<1>2. DOMAIN tokens \subseteq DOMAIN tokens' /\ Len(tokens) + 1 \in DOMAIN tokens'
  BY <1>1, TokenAppended
<1>3. Content(f, Len(tokens) + 1, tokens', nkeys)
  BY <1>2 DEF Content
<1>4. KnownSteps(Write(f, Len(tokens) + 1), tokens', nkeys)
  BY <1>3, KnownWrite
<1>5. KnownSteps(s, tokens', nkeys)
  BY <1>1, <1>2, KnownGrown
<1> QED BY <1>4, <1>5, KnownJoined

(* A feed that is written adds a known token to those of the one before.   *)
LEMMA RevokeKnown ==
    ASSUME ContentInv, NEW j \in DOMAIN tokens, CanRevoke
    PROVE  KnownSteps(RevokeJTI(j), tokens, nkeys)
<1> DEFINE v == BuildSignedFeed(disk[Feed].jtis \cup {j}, DefaultIssuer, disk[Key])
<1>1. Loadable(disk[Feed])
  BY DEF CanRevoke, FeedLoads, Loadable
<1>2. Feed \in Files /\ Feed \notin {Key, JWKS, OverlayFile} /\ Feed \notin TokenFiles
  BY TrustAssumption DEF Files, Trust, Key, JWKS, Feed, OverlayFile
<1>3. Content(Feed, disk[Feed], tokens, nkeys)
  BY <1>2, ContentFacts DEF Contents
<1>4. disk[Feed].jtis \subseteq DOMAIN tokens
  BY <1>1, <1>2, <1>3 DEF Content
<1>5. v.jtis = disk[Feed].jtis \cup {j}
  BY DEF BuildSignedFeed
<1> HIDE DEF v
<1>6. Content(Feed, v, tokens, nkeys)
  BY <1>4, <1>5 DEF Content
<1>7. RevokeJTI(j) = Write(Feed, v)
  BY DEF RevokeJTI, v
<1> QED BY <1>6, <1>7, KnownWrite

LEMMA MintedRest ==
    ASSUME ContentInv, NEW t, tokens' = Append(tokens, t), NEW s, KnownSteps(s, tokens, nkeys)
    PROVE  KnownSteps(s, tokens', nkeys) /\ DOMAIN tokens \subseteq DOMAIN tokens'
<1>1. IsList(tokens) /\ nkeys \in Nat /\ nkeys <= nkeys
  BY ContentFacts
<1>2. DOMAIN tokens \subseteq DOMAIN tokens'
  BY <1>1, TokenAppended
<1> QED BY <1>1, <1>2, KnownGrown

LEMMA ContentApplying ==
    ASSUME NEW f \in GrantsFiles, NEW at, NEW force, NEW T, NEW n
    PROVE  KnownSteps(Applying(f, at, force), T, n)
<1> DEFINE it == Op("apply", Absent, [file |-> f, at |-> at, force |-> force])
<1>1. CASE at \in Places(f)
  <2>1. Known(it, T, n)
    BY <1>1 DEF Known, Op
  <2>2. Applying(f, at, force) = <<it>>
    BY <1>1 DEF Applying
  <2> HIDE DEF it
  <2> QED BY <2>1, <2>2, KnownOne
<1>2. CASE at \notin Places(f)
  BY <1>2, KnownNone DEF Applying
<1> QED BY <1>1, <1>2

LEMMA ContentStep ==
    ASSUME ContentInv, StepOfCommand
    PROVE  ContentInv' /\ DOMAIN tokens \subseteq DOMAIN tokens'
<1>1. todo # << >> => KnownSteps(Rest, tokens, nkeys) /\ Known(todo[1], tokens, nkeys)
  BY ContentFacts
<1>2. /\ Files = Trust \cup TokenFiles /\ TokenFiles \cap Trust = {}
      /\ Key \in Trust /\ JWKS \in Trust /\ Feed \in Trust /\ OverlayFile \in Trust
  BY TrustAssumption DEF Files, Trust
<1>3. ASSUME NEW f, NEW c, todo # << >>, todo' = Rest, disk' = [disk EXCEPT ![f] = c],
             Content(f, c, tokens, nkeys), UNCHANGED <<tokens, nkeys, declared>>,
             killed' \cup pruned' \subseteq DOMAIN tokens
      PROVE  ContentInv' /\ DOMAIN tokens \subseteq DOMAIN tokens'
  <2>1. f \in Files
    BY <1>2, <1>3 DEF Content
  <2>2. KnownSteps(todo', tokens, nkeys)
    BY <1>1, <1>3
  <2> QED BY <1>3, <2>1, <2>2, ContentWritten
<1>4. killed \cup pruned \subseteq DOMAIN tokens
  BY ContentFacts
<1>5. CASE Truncate
  <2>1. /\ todo # << >> /\ todo[1].op = "truncate" /\ todo' = Rest
        /\ disk' = [disk EXCEPT ![todo[1].f] = Empty]
        /\ UNCHANGED <<tokens, nkeys, declared, killed, pruned>>
    BY <1>5 DEF Truncate, At
  <2>2. Content(todo[1].f, todo[1].v, tokens, nkeys)
    BY <1>1, <2>1 DEF Known
  <2>3. Content(todo[1].f, Empty, tokens, nkeys)
    BY <2>2 DEF Content, Unreadable, Loadable
  <2> QED BY <1>3, <1>4, <2>1, <2>3
<1>6. CASE Fill
  <2>1. /\ todo # << >> /\ todo[1].op = "fill" /\ todo' = Rest
        /\ disk' = [disk EXCEPT ![todo[1].f] = todo[1].v]
        /\ UNCHANGED <<tokens, nkeys, declared, killed, pruned>>
    BY <1>6 DEF Fill, At
  <2>2. Content(todo[1].f, todo[1].v, tokens, nkeys)
    BY <1>1, <2>1 DEF Known
  <2> QED BY <1>3, <1>4, <2>1, <2>2
<1>7. CASE RemoveFile
  <2>1. /\ todo # << >> /\ todo[1].op = "remove" /\ todo' = Rest
        /\ disk' = [disk EXCEPT ![todo[1].f] = Absent]
        /\ pruned' = pruned \cup ({todo[1].v} \ Unreadable)
        /\ UNCHANGED <<tokens, nkeys, declared, killed>>
    BY <1>7 DEF RemoveFile, At
  <2>2. todo[1].f \in TokenFiles /\ todo[1].v \in Unreadable \cup DOMAIN tokens
    BY <1>1, <2>1 DEF Known
  <2>3. Content(todo[1].f, Absent, tokens, nkeys)
    BY <2>2 DEF Content, Unreadable
  <2>4. killed' \cup pruned' \subseteq DOMAIN tokens
    BY <1>4, <2>1, <2>2
  <2> QED BY <1>3, <2>1, <2>3, <2>4
<1>8. CASE ApplyNode
  <2> DEFINE v == todo[1].v
             n == Node(v.file, v.at)
             next == Applying(v.file, Following(v.file, v.at), v.force)
             rest == next \o Rest
  <2>1. /\ todo # << >> /\ todo[1].op = "apply"
        /\ UNCHANGED <<disk, nkeys, declared, killed, pruned>>
        /\ \/ todo' = rest /\ UNCHANGED tokens
           \/ Sign(n, issuer(v.file), rest)
    BY <1>8 DEF ApplyNode, At
  <2>2. v.file \in GrantsFiles /\ v.at \in Places(v.file)
    BY <1>1, <2>1 DEF Known
  <2>3. n.file \in TokenFiles
    BY <2>2, NodeFile
  <2>4. KnownSteps(next, tokens, nkeys)
    BY <2>2, ContentApplying
  <2>5. KnownSteps(Rest, tokens, nkeys)
    BY <1>1, <2>1
  <2> HIDE DEF next
  <2>6. KnownSteps(rest, tokens, nkeys)
    BY <2>4, <2>5, KnownJoined
  <2> HIDE DEF rest
  <2>7. CASE todo' = rest /\ UNCHANGED tokens
    BY <2>1, <2>6, <2>7, ContentFacts DEF ContentInv
  <2>8. CASE Sign(n, issuer(v.file), rest)
    <3> DEFINE t == MintGrant(n, disk[Key], issuer(v.file))
    <3>1. tokens' = Append(tokens, t) /\ todo' = Write(n.file, Len(tokens) + 1) \o rest
      BY <2>8 DEF Sign
    <3> HIDE DEF t, n
    <3>2. KnownSteps(todo', tokens', nkeys)
      BY <2>3, <2>6, <3>1, MintedSteps
    <3> QED BY <2>1, <3>1, <3>2, ContentMinted
  <2> QED BY <2>1, <2>7, <2>8
<1>9. CASE InitRole
  <2>1. todo # << >> /\ todo[1].op = "roles"
        /\ UNCHANGED <<disk, nkeys, declared, killed, pruned>>
    BY <1>9 DEF InitRole, At
  <2>2. todo[1].v \subseteq DOMAIN BuiltinRoles /\ KnownSteps(Rest, tokens, nkeys)
    BY <1>1, <2>1 DEF Known
  <2>3. PICK role \in todo[1].v :
           /\ tokens' = Append(tokens, MintGrant(RoleNode(role), disk[Key], DefaultIssuer))
           /\ todo' = Write(RoleFile(role), Len(tokens) + 1)
                         \o (IF todo[1].v = {role} THEN << >>
                             ELSE <<Op("roles", Absent, todo[1].v \ {role})>>) \o Rest
    BY <1>9 DEF InitRole
  <2> DEFINE t == MintGrant(RoleNode(role), disk[Key], DefaultIssuer)
             w == Write(RoleFile(role), Len(tokens) + 1)
             it == Op("roles", Absent, todo[1].v \ {role})
             m == IF todo[1].v = {role} THEN << >> ELSE <<it>>
  <2>4. Known(it, tokens, nkeys)
    BY <2>2 DEF Known, Op
  <2>5. KnownSteps(m, tokens, nkeys)
    <3> HIDE DEF it
    <3> QED BY <2>4, KnownOne, KnownNone
  <2>6. RoleFile(role) \in TokenFiles
    BY <2>2 DEF TokenFiles
  <2>7. KnownSteps(m \o Rest, tokens, nkeys)
    <3> HIDE DEF m
    <3> QED BY <2>2, <2>5, KnownJoined
  <2>8. tokens' = Append(tokens, t) /\ todo' = (w \o m) \o Rest
    BY <2>3
  <2>9. todo' = w \o (m \o Rest)
    <3>1. IsList(w)
      BY WriteIs
    <3> HIDE DEF w, m
    <3>2. IsList(m) /\ IsList(Rest)
      BY <2>2, <2>5 DEF KnownSteps
    <3> QED BY <2>8, <3>1, <3>2, Associative
  <2> HIDE DEF t, m
  <2>10. KnownSteps(todo', tokens', nkeys)
    BY <2>6, <2>7, <2>8, <2>9, MintedSteps
  <2> QED BY <2>1, <2>8, <2>10, ContentMinted
<1>10. CASE MintOne
  <2> DEFINE t == MintGrant(todo[1].v, disk[Key], DefaultIssuer)
  <2>1. /\ todo # << >> /\ tokens' = Append(tokens, t) /\ todo' = Rest
        /\ UNCHANGED <<disk, nkeys, declared, killed, pruned>>
    BY <1>10 DEF MintOne, At
  <2> HIDE DEF t
  <2>2. KnownSteps(todo', tokens', nkeys)
    BY <1>1, <2>1, MintedRest
  <2> QED BY <2>1, <2>2, ContentMinted
<1>11. CASE Prune
  <2>1. todo # << >> /\ UNCHANGED <<disk, tokens, nkeys, declared, killed, pruned>>
    BY <1>11 DEF Prune, At
  <2>2. KnownSteps(todo', tokens, nkeys)
    <3>1. CASE todo' = Rest
      BY <1>1, <2>1, <3>1
    <3>2. CASE \E o \in Orphans(todo[1].v) : todo' = PruneOne(o) \o todo
      <4>1. PICK o \in TokenFiles : todo' = PruneOne(o) \o todo /\ disk[o] # Absent
        BY <3>2 DEF Orphans
      <4> DEFINE it == Op("remove", o, disk[o])
                 A == IF disk[o] # Empty /\ CanRevoke THEN RevokeJTI(disk[o]) ELSE << >>
      <4>2. Content(o, disk[o], tokens, nkeys)
        BY <1>2, ContentFacts DEF Contents
      <4>3. disk[o] \in Unreadable \cup DOMAIN tokens
        BY <1>2, <4>2 DEF Content
      <4>4. Known(it, tokens, nkeys)
        BY <4>3 DEF Known, Op
      <4>5. KnownSteps(A, tokens, nkeys)
        <5>1. CASE disk[o] # Empty /\ CanRevoke
          <6>1. disk[o] \in DOMAIN tokens /\ CanRevoke
            BY <4>1, <4>3, <5>1 DEF Unreadable
          <6>2. KnownSteps(RevokeJTI(disk[o]), tokens, nkeys)
            BY <6>1, RevokeKnown
          <6> QED BY <5>1, <6>2
        <5>2. CASE ~(disk[o] # Empty /\ CanRevoke)
          BY <5>2, KnownNone
        <5> QED BY <5>1, <5>2
      <4> HIDE DEF A, it
      <4>6. KnownSteps(<<it>>, tokens, nkeys)
        BY <4>4, KnownOne
      <4>7. KnownSteps(A \o <<it>>, tokens, nkeys)
        BY <4>5, <4>6, KnownJoined
      <4>8. todo' = (A \o <<it>>) \o todo
        BY <4>1 DEF PruneOne, A, it
      <4>9. KnownSteps(todo, tokens, nkeys)
        BY ContentFacts
      <4> QED BY <4>7, <4>8, <4>9, KnownJoined
    <3> QED BY <1>11, <3>1, <3>2 DEF Prune
  <2> QED BY <2>1, <2>2, ContentFacts DEF ContentInv
<1>12. CASE Report
  <2>1. /\ todo # << >> /\ todo[1].op \in {"revoked", "applied"} /\ todo' = Rest
        /\ killed' = IF todo[1].op = "revoked" THEN killed \cup {todo[1].v} ELSE killed
        /\ UNCHANGED <<disk, tokens, nkeys, declared, pruned>>
    BY <1>12 DEF Report, At
  <2>2. todo[1].op = "revoked" => todo[1].v \in DOMAIN tokens
    BY <1>1, <2>1 DEF Known
  <2>3. killed' \cup pruned' \subseteq DOMAIN tokens
    BY <1>4, <2>1, <2>2
  <2> QED BY <1>1, <2>1, <2>3, ContentFacts DEF ContentInv
<1>13. CASE Kill
  <2>1. todo' = << >> /\ UNCHANGED <<disk, tokens, nkeys, declared, killed, pruned>>
    BY <1>13 DEF Kill
  <2> QED BY <2>1, ContentFacts DEF ContentInv
<1> QED BY <1>5, <1>6, <1>7, <1>8, <1>9, <1>10, <1>11, <1>12, <1>13 DEF StepOfCommand

(* A command begins, with keys new keys.                                   *)
LEMMA ContentRuns ==
    ASSUME ContentInv, NEW steps, NEW keys \in {0, 1}, Run(steps, keys), tokens' = tokens,
           KnownSteps(steps, tokens, nkeys + keys)
    PROVE  ContentInv' /\ DOMAIN tokens \subseteq DOMAIN tokens'
<1>1. /\ todo' = steps /\ nkeys' = nkeys + keys /\ UNCHANGED <<disk, declared, killed, pruned>>
  BY DEF Run
<1>2. nkeys \in Nat /\ nkeys' \in Nat /\ nkeys <= nkeys' /\ DOMAIN tokens \subseteq DOMAIN tokens
  BY <1>1, ContentFacts
<1>3. Contents(disk, tokens, nkeys)
  BY ContentFacts
<1>4. Contents(disk, tokens, nkeys')
  BY <1>2, <1>3, ContentsGrown
<1>5. KnownSteps(todo', tokens, nkeys')
  BY <1>1
<1> QED BY <1>1, <1>2, <1>4, <1>5, ContentFacts DEF ContentInv

LEMMA NewKeyKnown ==
    ASSUME ContentInv, NEW iss
    PROVE  KnownSteps(NewKeySteps(iss), tokens, nkeys + 1)
<1> DEFINE m == nkeys + 1
           v == BuildSignedFeed({}, iss, m)
           a == Write(Key, m)  b == Write(JWKS, m)  c == Write(Feed, v)
<1>1. m \in 1..m
  BY ContentFacts
<1>2. v.jtis = {}
  BY DEF BuildSignedFeed
<1>3. NewKeySteps(iss) = (a \o b) \o c
  BY DEF NewKeySteps
<1> HIDE DEF m, v
<1>4. /\ Content(Key, m, tokens, m) /\ Content(JWKS, m, tokens, m)
      /\ Content(Feed, v, tokens, m)
  BY <1>1, <1>2 DEF Content
<1>5. KnownSteps(a, tokens, m) /\ KnownSteps(b, tokens, m) /\ KnownSteps(c, tokens, m)
  BY <1>4, KnownWrite
<1> HIDE DEF a, b, c
<1>6. KnownSteps((a \o b) \o c, tokens, m)
  BY <1>5, KnownJoined
<1> QED BY <1>3, <1>6 DEF m

(* A directory that is set up if it need be, then steps p.                 *)
LEMMA SetupKnown ==
    ASSUME ContentInv, NEW iss, NEW p, KnownSteps(p, tokens, nkeys)
    PROVE  KnownSteps(EnsureSetup(iss) \o p, tokens, nkeys + KeysNeeded) /\ KeysNeeded \in {0, 1}
<1>1. nkeys \in Nat /\ nkeys + KeysNeeded \in Nat /\ nkeys <= nkeys + KeysNeeded
      /\ KeysNeeded \in {0, 1} /\ DOMAIN tokens \subseteq DOMAIN tokens
  BY ContentFacts DEF KeysNeeded
<1>2. KnownSteps(p, tokens, nkeys + KeysNeeded)
  BY <1>1, KnownGrown
<1>3. KnownSteps(EnsureSetup(iss), tokens, nkeys + KeysNeeded)
  <2>1. CASE disk[Key] = Absent
    BY <2>1, NewKeyKnown DEF EnsureSetup, KeysNeeded
  <2>2. CASE disk[Key] # Absent
    BY <2>2, KnownNone DEF EnsureSetup
  <2> QED BY <2>1, <2>2
<1> QED BY <1>1, <1>2, <1>3, KnownJoined

LEMMA ContentSetUp ==
    ASSUME ContentInv, NEW iss, NEW p, KnownSteps(p, tokens, nkeys),
           Run(EnsureSetup(iss) \o p, KeysNeeded), tokens' = tokens
    PROVE  ContentInv' /\ DOMAIN tokens \subseteq DOMAIN tokens'
<1>1. KnownSteps(EnsureSetup(iss) \o p, tokens, nkeys + KeysNeeded) /\ KeysNeeded \in {0, 1}
  BY SetupKnown
<1> QED BY <1>1, ContentRuns

LEMMA ContentRevoke ==
    ASSUME ContentInv, NEW j \in DOMAIN tokens, Revoke(j)
    PROVE  ContentInv' /\ DOMAIN tokens \subseteq DOMAIN tokens'
<1> DEFINE it == Op("revoked", Feed, j)
<1>1. CanRevoke /\ Run(RevokeJTI(j) \o <<it>>, 0) /\ tokens' = tokens
  BY DEF Revoke
<1>2. Known(it, tokens, nkeys)
  BY DEF Known, Op
<1> HIDE DEF it
<1>3. KnownSteps(RevokeJTI(j), tokens, nkeys)
  BY <1>1, RevokeKnown
<1>4. KnownSteps(<<it>>, tokens, nkeys)
  BY <1>2, KnownOne
<1>5. KnownSteps(RevokeJTI(j) \o <<it>>, tokens, nkeys)
  BY <1>3, <1>4, KnownJoined
<1>6. nkeys + 0 = nkeys
  BY ContentFacts
<1> QED BY <1>1, <1>5, <1>6, ContentRuns

LEMMA ContentApply ==
    ASSUME ContentInv, NEW force, NEW prune, Apply(force, prune)
    PROVE  ContentInv' /\ DOMAIN tokens \subseteq DOMAIN tokens'
<1> DEFINE iss == issuer(declared)
           a == Applying(declared, <<1, 0>>, force)
           x == Op("prune", Absent, declared)
           y == Op("applied", Absent, declared)
           b == IF prune THEN <<x, y>> ELSE << >>
<1>1. Run(EnsureSetup(iss) \o a \o b, KeysNeeded) /\ tokens' = tokens
  BY DEF Apply
<1>2. Known(x, tokens, nkeys) /\ Known(y, tokens, nkeys)
  BY DEF Known, Op
<1> HIDE DEF x, y
<1>3. KnownSteps(b, tokens, nkeys)
  <2> DEFINE w == <<x, y>>
  <2>1. IsList(w) /\ DOMAIN w = {1, 2} /\ w[1] = x /\ w[2] = y
    BY DEF IsList
  <2> HIDE DEF w
  <2>2. KnownSteps(w, tokens, nkeys)
    BY <1>2, <2>1 DEF KnownSteps
  <2>3. CASE prune
    BY <2>2, <2>3 DEF w
  <2>4. CASE ~prune
    BY <2>4, KnownNone
  <2> QED BY <2>3, <2>4
<1>4. KnownSteps(a, tokens, nkeys)
  BY ContentFacts, ContentApplying
<1> HIDE DEF a, b, iss
<1>5. KnownSteps(a \o b, tokens, nkeys)
  BY <1>3, <1>4, KnownJoined
<1>6. (EnsureSetup(iss) \o a) \o b = EnsureSetup(iss) \o (a \o b)
  <2>1. IsList(EnsureSetup(iss))
    BY SetupIsList
  <2>2. IsList(a) /\ IsList(b)
    BY <1>3, <1>4 DEF KnownSteps
  <2> QED BY <2>1, <2>2, Associative
<1>7. Run(EnsureSetup(iss) \o (a \o b), KeysNeeded)
  BY <1>1, <1>6
<1> QED BY <1>1, <1>5, <1>7, ContentSetUp

LEMMA ContentCommand ==
    ASSUME ContentInv, GrantsCommand
    PROVE  ContentInv' /\ DOMAIN tokens \subseteq DOMAIN tokens'
<1>1. ASSUME NEW g, Mint(g)
      PROVE  ContentInv' /\ DOMAIN tokens \subseteq DOMAIN tokens'
  <2> DEFINE it == Op("mint", Absent, RootNode(g))
  <2>1. Run(EnsureSetup(DefaultIssuer) \o <<it>>, KeysNeeded) /\ tokens' = tokens
    BY <1>1 DEF Mint
  <2>2. Known(it, tokens, nkeys)
    BY DEF Known, Op
  <2> HIDE DEF it
  <2>3. KnownSteps(<<it>>, tokens, nkeys)
    BY <2>2, KnownOne
  <2> QED BY <2>1, <2>3, ContentSetUp
<1>2. CASE WhoCan
  <2> DEFINE s == EnsureSetup(issuer(declared))
             e == << >>
  <2>1. Run(s, KeysNeeded) /\ tokens' = tokens
    BY <1>2 DEF WhoCan
  <2>2. IsList(s)
    BY SetupIsList
  <2>3. KnownSteps(e, tokens, nkeys)
    BY KnownNone
  <2>4. s \o e = s
    BY <2>2, Empties
  <2> HIDE DEF e
  <2>5. Run(s \o e, KeysNeeded)
    BY <2>1, <2>4
  <2> QED BY <2>1, <2>3, <2>5, ContentSetUp
<1>3. ASSUME NEW f \in GrantsFiles, EditFile(f)
      PROVE  ContentInv' /\ DOMAIN tokens \subseteq DOMAIN tokens'
  BY <1>3 DEF EditFile, ContentInv
<1>4. CASE Tick
  BY <1>4 DEF Tick, ContentInv
<1> QED BY <1>1, <1>2, <1>3, <1>4, ContentApply, ContentRevoke DEF GrantsCommand

LEMMA ContentStart == TrustInit => ContentInv
<1> SUFFICES ASSUME TrustInit PROVE ContentInv
  OBVIOUS
<1>1. /\ disk = [f \in Files |-> Absent] /\ todo = << >> /\ tokens = << >> /\ nkeys = 0
      /\ declared \in GrantsFiles /\ killed = {} /\ pruned = {}
  BY DEF TrustInit
<1>2. IsList(tokens)
  BY <1>1, LightNone
<1>3. Contents(disk, tokens, nkeys)
  BY <1>1 DEF Contents, Content, Files, Trust, Unreadable, Loadable
<1>4. KnownSteps(todo, tokens, nkeys)
  BY <1>1, KnownNone
<1> QED BY <1>1, <1>2, <1>3, <1>4 DEF ContentInv

LEMMA ContentTypes == ContentInv => TrustTypeOK
<1> SUFFICES ASSUME ContentInv PROVE TrustTypeOK
  OBVIOUS
<1>1. /\ Files = Trust \cup TokenFiles /\ TokenFiles \cap Trust = {}
      /\ Key # Feed /\ JWKS # Feed /\ Key # OverlayFile /\ JWKS # OverlayFile /\ Feed # OverlayFile
      /\ {Key, JWKS, Feed, OverlayFile} \subseteq Trust
  BY TrustAssumption DEF Files, Trust, Key, JWKS, Feed, OverlayFile
<1>2. \A f \in Files : Content(f, disk[f], tokens, nkeys)
  BY ContentFacts DEF Contents
<1>3. \A f \in TokenFiles : disk[f] \in Unreadable \cup DOMAIN tokens
  <2> SUFFICES ASSUME NEW f \in TokenFiles PROVE disk[f] \in Unreadable \cup DOMAIN tokens
    OBVIOUS
  <2>1. Content(f, disk[f], tokens, nkeys) /\ f \notin {Key, JWKS, Feed, OverlayFile}
    BY <1>1, <1>2
  <2> QED BY <2>1 DEF Content
<1>4. disk[Key] \in Unreadable \cup 1..nkeys
  <2>1. Content(Key, disk[Key], tokens, nkeys) /\ Key \notin TokenFiles
    BY <1>1, <1>2
  <2> QED BY <1>1, <2>1 DEF Content
<1>5. disk[JWKS] \in Unreadable \cup 1..nkeys
  <2>1. Content(JWKS, disk[JWKS], tokens, nkeys) /\ JWKS \notin TokenFiles
    BY <1>1, <1>2
  <2> QED BY <1>1, <2>1 DEF Content
<1>6. Loadable(disk[Feed]) => disk[Feed].jtis \subseteq DOMAIN tokens
  <2>1. Content(Feed, disk[Feed], tokens, nkeys) /\ Feed \notin TokenFiles
    BY <1>1, <1>2
  <2> QED BY <1>1, <2>1 DEF Content
<1>7. DOMAIN disk = Files
  <2>1. disk = [f \in Files |-> disk[f]]
    BY ContentFacts
  <2> QED BY <2>1
<1> QED BY <1>3, <1>4, <1>5, <1>6, <1>7, ContentFacts DEF TrustTypeOK, Loadable

(* The files of the directory hold what they are for, whatever is applied, *)
(* minted, pruned or revoked and wherever a command is killed: a token file*)
(* an issued token, key.pem and jwks.json a generated key, the feed known  *)
(* jtis, or nothing that can be read.                                      *)
THEOREM DirectoryIsTyped == TrustSpec => []TrustTypeOK
<1>1. TrustInit => ContentInv
  BY ContentStart
<1>2. ContentInv /\ [StepOfCommand \/ GrantsCommand]_trustVars => ContentInv'
  <2> SUFFICES ASSUME ContentInv, [StepOfCommand \/ GrantsCommand]_trustVars PROVE ContentInv'
    OBVIOUS
  <2>1. CASE UNCHANGED trustVars
    BY <2>1 DEF trustVars, ContentInv
  <2> QED BY <2>1, ContentStep, ContentCommand
<1>3. ContentInv => TrustTypeOK
  BY ContentTypes
<1> QED BY <1>1, <1>2, <1>3, PTL DEF TrustSpec

-----------------------------------------------------------------------------
(* The guard.                                                              *)

Phased(c) ==
    /\ c.phase \in {"idle", "keys", "feed", "decide", "allowed"}
    /\ \/ c = NoCheck
       \/ c = [phase |-> c.phase, call |-> c.call, token |-> c.token,
               jwks |-> c.jwks, feed |-> c.feed, dead |-> c.dead, unseen |-> c.unseen]

FeedsKnown(fs, T) == \A f \in fs : f.jtis \subseteq DOMAIN T

GuardContentInv ==
    /\ ContentInv /\ Phased(chk) /\ FeedsKnown(feeds, tokens)
    /\ hook \in DOMAIN BuiltinRoles \cup {Absent}

(* A command; the feed it may have written becomes a known one.            *)
LEMMA TrustedContent ==
    ASSUME GuardContentInv, UNCHANGED <<hook, chk>>,
           ContentInv', DOMAIN tokens \subseteq DOMAIN tokens',
           feeds' = IF disk'[Feed] \in Unreadable THEN feeds ELSE feeds \cup {disk'[Feed]}
    PROVE  GuardContentInv'
<1>1. Feed \in Files /\ Feed \notin {Key, JWKS, OverlayFile} /\ Feed \notin TokenFiles
  BY TrustAssumption DEF Files, Trust, Key, JWKS, Feed, OverlayFile
<1>2. Content(Feed, disk'[Feed], tokens', nkeys')
  BY <1>1 DEF ContentInv, Contents
<1>3. disk'[Feed] \notin Unreadable => disk'[Feed].jtis \subseteq DOMAIN tokens'
  BY <1>1, <1>2 DEF Content, Loadable
<1>4. FeedsKnown(feeds', tokens')
  BY <1>3 DEF GuardContentInv, FeedsKnown
<1> QED BY <1>4 DEF GuardContentInv

LEMMA CheckContent ==
    ASSUME GuardContentInv, Check
    PROVE  GuardContentInv'
<1>1. /\ ContentInv /\ Phased(chk) /\ FeedsKnown(feeds, tokens)
      /\ hook \in DOMAIN BuiltinRoles \cup {Absent}
  BY DEF GuardContentInv
<1>2. ASSUME UNCHANGED <<trustVars, hook, feeds>>, Phased(chk') PROVE GuardContentInv'
  BY <1>1, <1>2 DEF GuardContentInv, ContentInv, trustVars
<1>3. ASSUME NEW call, CheckStart(call) PROVE GuardContentInv'
  <2>1. Phased(chk')
    BY <1>3 DEF CheckStart, Phased
  <2> QED BY <1>2, <1>3, <2>1 DEF CheckStart
<1>4. CASE CheckOff
  <2>1. Phased(chk')
    BY <1>1, <1>4 DEF CheckOff, Phased, NoCheck
  <2> QED BY <1>2, <1>4, <2>1 DEF CheckOff
<1>5. CASE CheckReadKeys
  <2>1. chk = [phase |-> chk.phase, call |-> chk.call, token |-> chk.token,
               jwks |-> chk.jwks, feed |-> chk.feed, dead |-> chk.dead, unseen |-> chk.unseen]
    BY <1>1, <1>5 DEF CheckReadKeys, Phased, NoCheck
  <2>2. Phased(NoCheck)
    BY DEF Phased, NoCheck
  <2>3. ASSUME chk' = [chk EXCEPT !.phase = "feed", !.jwks = disk[JWKS]] PROVE Phased(chk')
    BY <2>1, <2>3 DEF Phased
  <2>4. Phased(chk')
    BY <1>5, <2>2, <2>3 DEF CheckReadKeys
  <2> QED BY <1>2, <1>5, <2>4 DEF CheckReadKeys
<1>6. CASE CheckReadFeed
  <2>1. chk = [phase |-> chk.phase, call |-> chk.call, token |-> chk.token,
               jwks |-> chk.jwks, feed |-> chk.feed, dead |-> chk.dead, unseen |-> chk.unseen]
    BY <1>1, <1>6 DEF CheckReadFeed, Phased, NoCheck
  <2>2. chk' = [chk EXCEPT !.phase = "decide", !.feed = disk[Feed]]
    BY <1>6 DEF CheckReadFeed
  <2>3. Phased(chk')
    BY <2>1, <2>2 DEF Phased
  <2> QED BY <1>2, <1>6, <2>3 DEF CheckReadFeed
<1>7. CASE CheckDecide
  <2>1. Phased(chk')
    <3>1. CASE Allowed
      <4>1. chk = [phase |-> chk.phase, call |-> chk.call, token |-> chk.token,
                   jwks |-> chk.jwks, feed |-> chk.feed, dead |-> chk.dead, unseen |-> chk.unseen]
        BY <1>1, <1>7 DEF CheckDecide, Phased, NoCheck
      <4>2. PICK u : chk' = [chk EXCEPT !.phase = "allowed", !.jwks = Absent, !.feed = Absent,
                                        !.unseen = u]
        BY <1>7, <3>1 DEF CheckDecide
      <4> QED BY <4>1, <4>2 DEF Phased
    <3>2. CASE ~Allowed
      BY <1>7, <3>2 DEF CheckDecide, Phased, NoCheck
    <3> QED BY <3>1, <3>2
  <2> QED BY <1>2, <1>7, <2>1 DEF CheckDecide
<1>8. CASE Execute
  <2>1. /\ \/ UNCHANGED disk
           \/ \E f \in Files : \E c \in Outcomes(f) : disk' = [disk EXCEPT ![f] = c]
        /\ hook' \in {Absent, hook} /\ chk' = NoCheck
        /\ UNCHANGED <<todo, tokens, nkeys, declared, killed, pruned, feeds>>
    BY <1>8 DEF Execute, WriteFile
  <2>2. Phased(chk')
    BY <2>1 DEF Phased, NoCheck
  <2>3. ContentInv'
    <3>1. CASE UNCHANGED disk
      BY <1>1, <2>1, <3>1 DEF ContentInv
    <3>2. CASE \E f \in Files : \E c \in Outcomes(f) : disk' = [disk EXCEPT ![f] = c]
      <4>1. PICK f \in Files : \E c \in Outcomes(f) : disk' = [disk EXCEPT ![f] = c]
        BY <3>2
      <4>2. PICK c \in Outcomes(f) : disk' = [disk EXCEPT ![f] = c]
        BY <4>1
      <4>3. Content(f, c, tokens, nkeys)
        <5>1. c = Empty \/ (f = Feed /\ c.jtis \subseteq DOMAIN tokens)
          BY <1>1 DEF Outcomes, FeedsKnown
        <5> QED BY <5>1 DEF Content, Files, Trust, Unreadable, Loadable
      <4>4. KnownSteps(todo', tokens, nkeys) /\ killed' \cup pruned' \subseteq DOMAIN tokens
        BY <1>1, <2>1, ContentFacts
      <4> QED BY <1>1, <2>1, <4>2, <4>3, <4>4, ContentWritten
    <3> QED BY <2>1, <3>1, <3>2
  <2> QED BY <1>1, <2>1, <2>2, <2>3 DEF GuardContentInv
<1> QED BY <1>3, <1>4, <1>5, <1>6, <1>7, <1>8 DEF Check

(* The overlay may hold anything.                                          *)
LEMMA OverlayContent ==
    ASSUME GuardContentInv, NEW v, Run(Write(OverlayFile, v), 0),
           UNCHANGED <<tokens, hook, chk, feeds>>
    PROVE  GuardContentInv'
<1>1. ContentInv /\ nkeys + 0 = nkeys
  BY ContentFacts DEF GuardContentInv
<1>2. Content(OverlayFile, v, tokens, nkeys)
  BY DEF Content
<1>3. KnownSteps(Write(OverlayFile, v), tokens, nkeys + 0)
  BY <1>1, <1>2, KnownWrite
<1>4. ContentInv'
  BY <1>1, <1>3, ContentRuns
<1> QED BY <1>4 DEF GuardContentInv

LEMMA GuardSetUp ==
    ASSUME ContentInv
    PROVE  KnownSteps(NewKeySteps(DefaultIssuer) \o <<Op("roles", Absent, DOMAIN BuiltinRoles)>>,
                      tokens, nkeys + 1)
<1> DEFINE it == Op("roles", Absent, DOMAIN BuiltinRoles)
<1>1. Known(it, tokens, nkeys + 1)
  BY DEF Known, Op
<1> HIDE DEF it
<1>2. KnownSteps(<<it>>, tokens, nkeys + 1)
  BY <1>1, KnownOne
<1>3. KnownSteps(NewKeySteps(DefaultIssuer), tokens, nkeys + 1)
  BY NewKeyKnown
<1>4. KnownSteps(NewKeySteps(DefaultIssuer) \o <<it>>, tokens, nkeys + 1)
  BY <1>2, <1>3, KnownJoined
<1> QED BY <1>4 DEF it

LEMMA InstallContent ==
    ASSUME GuardContentInv, NEW role \in DOMAIN BuiltinRoles, Install(role)
    PROVE  GuardContentInv'
<1> DEFINE n == IF disk[JWKS] = Absent THEN 1 ELSE 0
           s == NewKeySteps(DefaultIssuer) \o <<Op("roles", Absent, DOMAIN BuiltinRoles)>>
           m == IF disk[JWKS] = Absent THEN s ELSE << >>
           wire == Op("hook", Absent, role)
<1>1. Run(m \o <<wire>>, n) /\ UNCHANGED <<tokens, hook, chk, feeds>> /\ n \in {0, 1}
  BY DEF Install
<1>2. ContentInv
  BY DEF GuardContentInv
<1>3. KnownSteps(m, tokens, nkeys + n)
  <2>1. CASE disk[JWKS] = Absent
    BY <1>2, <2>1, GuardSetUp
  <2>2. CASE disk[JWKS] # Absent
    BY <2>2, KnownNone
  <2> QED BY <2>1, <2>2
<1>4. Known(wire, tokens, nkeys + n)
  BY DEF Known, Op
<1> HIDE DEF m, wire, n
<1>5. KnownSteps(<<wire>>, tokens, nkeys + n)
  BY <1>4, KnownOne
<1>6. KnownSteps(m \o <<wire>>, tokens, nkeys + n)
  BY <1>3, <1>5, KnownJoined
<1>7. ContentInv'
  BY <1>1, <1>2, <1>6, ContentRuns
<1> QED BY <1>1, <1>7 DEF GuardContentInv

LEMMA MintedContent ==
    ASSUME ContentInv, NEW t, tokens' = Append(tokens, t),
           UNCHANGED <<disk, todo, nkeys, declared, killed, pruned>>
    PROVE  ContentInv' /\ DOMAIN tokens \subseteq DOMAIN tokens'
<1>1. KnownSteps(todo, tokens, nkeys)
  BY ContentFacts
<1>2. KnownSteps(todo', tokens', nkeys)
  BY <1>1, MintedRest
<1> QED BY <1>2, ContentMinted

LEMMA OperatorContent ==
    ASSUME GuardContentInv, GuardCommand
    PROVE  GuardContentInv'
<1>1. /\ ContentInv /\ Phased(chk) /\ FeedsKnown(feeds, tokens)
      /\ hook \in DOMAIN BuiltinRoles \cup {Absent}
  BY DEF GuardContentInv
<1>2. CASE Trusted(InitLocal)
  <2>1. ContentInv' /\ DOMAIN tokens \subseteq DOMAIN tokens'
    BY <1>1, <1>2, GuardSetUp, ContentRuns DEF Trusted, InitLocal
  <2> QED BY <1>2, <2>1, TrustedContent DEF Trusted
<1>3. ASSUME NEW j \in DOMAIN tokens, Trusted(Revoke(j)) PROVE GuardContentInv'
  <2>1. ContentInv' /\ DOMAIN tokens \subseteq DOMAIN tokens'
    BY <1>1, <1>3, ContentRevoke DEF Trusted
  <2> QED BY <1>3, <2>1, TrustedContent DEF Trusted
<1>4. ASSUME NEW role, Trusted(MintRoleToken(role)) PROVE GuardContentInv'
  <2> DEFINE t == MintGrant(RoleNode(role), disk[Key], DefaultIssuer)
  <2>1. tokens' = Append(tokens, t) /\ UNCHANGED <<disk, todo, nkeys, declared, killed, pruned>>
    BY <1>4 DEF Trusted, MintRoleToken
  <2> HIDE DEF t
  <2>2. ContentInv' /\ DOMAIN tokens \subseteq DOMAIN tokens'
    BY <1>1, <2>1, MintedContent
  <2> QED BY <1>4, <2>2, TrustedContent DEF Trusted
<1>5. ASSUME NEW j, NEW r, Trusted(MintChildToken(j, "subagent", r)) PROVE GuardContentInv'
  <2> DEFINE t == ChildToken(tokens[j], "subagent", r)
  <2>1. tokens' = Append(tokens, t) /\ UNCHANGED <<disk, todo, nkeys, declared, killed, pruned>>
    BY <1>5 DEF Trusted, MintChildToken
  <2> HIDE DEF t
  <2>2. ContentInv' /\ DOMAIN tokens \subseteq DOMAIN tokens'
    BY <1>1, <2>1, MintedContent
  <2> QED BY <1>5, <2>2, TrustedContent DEF Trusted
<1>6. CASE Uninstall
  BY <1>1, <1>6 DEF Uninstall, GuardContentInv, ContentInv, trustVars
<1>7. CASE mergePreToolUse
  <2>1. /\ todo # << >> /\ todo[1].op = "hook" /\ todo' = Rest /\ hook' \in {hook, todo[1].v}
        /\ UNCHANGED <<disk, tokens, nkeys, declared, killed, pruned, chk, feeds>>
    BY <1>7 DEF mergePreToolUse, At
  <2>2. KnownSteps(Rest, tokens, nkeys) /\ Known(todo[1], tokens, nkeys)
    BY <1>1, <2>1, ContentFacts
  <2>3. todo[1].v \in DOMAIN BuiltinRoles
    BY <2>1, <2>2 DEF Known
  <2>4. ContentInv'
    BY <1>1, <2>1, <2>2 DEF ContentInv
  <2> QED BY <1>1, <2>1, <2>3, <2>4 DEF GuardContentInv
<1>8. ASSUME NEW r, OverlayDeny(r) \/ OverlayAllow(r) \/ handleEdit(r) PROVE GuardContentInv'
  BY <1>8, OverlayContent DEF OverlayDeny, OverlayAllow, handleEdit
<1>9. CASE Trusted(Tick)
  <2>1. ContentInv' /\ DOMAIN tokens \subseteq DOMAIN tokens'
    BY <1>1, <1>9 DEF Trusted, Tick, ContentInv
  <2> QED BY <1>9, <2>1, TrustedContent DEF Trusted
<1> QED BY <1>2, <1>3, <1>4, <1>5, <1>6, <1>7, <1>8, <1>9, InstallContent DEF GuardCommand

LEMMA GuardContentStart == GuardInit => GuardContentInv
<1> SUFFICES ASSUME GuardInit PROVE GuardContentInv
  OBVIOUS
<1>1. TrustInit /\ hook = Absent /\ chk = NoCheck /\ feeds = {}
  BY DEF GuardInit
<1>2. Phased(NoCheck) /\ FeedsKnown({}, tokens)
  BY DEF Phased, NoCheck, FeedsKnown
<1> QED BY <1>1, <1>2, ContentStart DEF GuardContentInv

(* A command of either program that may have published a feed.             *)
LEMMA PublishedContent ==
    ASSUME GuardContentInv, Trusted(StepOfCommand) \/ Trusted(GrantsCommand)
    PROVE  GuardContentInv'
<1>1. ContentInv /\ (StepOfCommand \/ GrantsCommand)
  BY DEF GuardContentInv, Trusted
<1>2. ContentInv' /\ DOMAIN tokens \subseteq DOMAIN tokens'
  BY <1>1, ContentStep, ContentCommand
<1> QED BY <1>2, TrustedContent DEF Trusted

LEMMA GuardContentStep ==
    ASSUME GuardContentInv, [GuardNext]_guardVars
    PROVE  GuardContentInv'
<1>1. CASE UNCHANGED guardVars
  BY <1>1 DEF guardVars, trustVars, GuardContentInv, ContentInv
<1> QED BY <1>1, PublishedContent, OperatorContent, CheckContent DEF GuardNext

LEMMA GuardContentTypes == GuardContentInv => GuardTypeOK
BY ContentTypes DEF GuardContentInv, GuardTypeOK, Phased, FeedsKnown

(* The same under the guard, whose checks let calls write the files of the *)
(* directory: garbage, or a feed that was published once.  A feed that was *)
(* ever published lists issued tokens only, and the hook names a role.     *)
THEOREM GuardIsTyped == GuardSpec => []GuardTypeOK
<1>1. GuardInit => GuardContentInv
  BY GuardContentStart
<1>2. GuardContentInv /\ [GuardNext]_guardVars => GuardContentInv'
  BY GuardContentStep
<1>3. GuardContentInv => GuardTypeOK
  BY GuardContentTypes
<1> QED BY <1>1, <1>2, <1>3, PTL DEF GuardSpec
-----------------------------------------------------------------------------
(* The guard's commands apply and prune nothing.                           *)

GuardOp(it) == it.op \in {"truncate", "fill", "roles", "hook", "revoked"}
GuardOps(s) == IsList(s) /\ \A k \in DOMAIN s : GuardOp(s[k])

ApartInv == GuardOps(todo) /\ pruned = {} /\ settled = Absent

LEMMA OpsJoined ==
    ASSUME NEW s, NEW t, GuardOps(s), GuardOps(t)
    PROVE  GuardOps(s \o t)
<1> DEFINE u == s \o t
<1>1. IsList(s) /\ IsList(t)
  BY DEF GuardOps
<1>2. /\ IsList(u)
      /\ \A k \in DOMAIN u : \/ k \in DOMAIN s /\ u[k] = s[k]
                             \/ k - Len(s) \in DOMAIN t /\ u[k] = t[k - Len(s)] /\ k > Len(s)
  BY <1>1, Cases
<1> HIDE DEF u
<1> QED BY <1>2 DEF GuardOps, u

LEMMA OpsOne ==
    ASSUME NEW it, GuardOp(it)
    PROVE  GuardOps(<<it>>)
<1> DEFINE w == <<it>>
<1>1. DOMAIN w = {1} /\ w[1] = it /\ IsList(w)
  BY DEF IsList
<1> HIDE DEF w
<1> QED BY <1>1 DEF GuardOps, w

LEMMA OpsNone == GuardOps(<< >>)
<1> DEFINE e == << >>
<1>1. DOMAIN e = {} /\ IsList(e)
  BY DEF IsList
<1> HIDE DEF e
<1> QED BY <1>1 DEF GuardOps, e

LEMMA OpsWrite ==
    ASSUME NEW f, NEW v
    PROVE  GuardOps(Write(f, v))
<1> DEFINE w == Write(f, v)
<1>1. IsList(w) /\ Len(w) = 2 /\ w[1] = Op("truncate", f, v) /\ w[2] = Op("fill", f, v)
  BY WriteIs
<1> HIDE DEF w
<1>2. DOMAIN w = {1, 2}
  BY <1>1 DEF IsList
<1>3. GuardOp(w[1]) /\ GuardOp(w[2])
  BY <1>1 DEF GuardOp, Op
<1> QED BY <1>1, <1>2, <1>3 DEF GuardOps, w

LEMMA OpsSetUp == GuardOps(NewKeySteps(DefaultIssuer) \o <<Op("roles", Absent, DOMAIN BuiltinRoles)>>)
<1> DEFINE it == Op("roles", Absent, DOMAIN BuiltinRoles)
           a == Write(Key, nkeys + 1)  b == Write(JWKS, nkeys + 1)
           c == Write(Feed, BuildSignedFeed({}, DefaultIssuer, nkeys + 1))
<1>1. GuardOp(it) /\ NewKeySteps(DefaultIssuer) = (a \o b) \o c
  BY DEF GuardOp, Op, NewKeySteps
<1>2. GuardOps(a) /\ GuardOps(b) /\ GuardOps(c)
  BY OpsWrite
<1> HIDE DEF it, a, b, c
<1>3. GuardOps((a \o b) \o c) /\ GuardOps(<<it>>)
  BY <1>1, <1>2, OpsJoined, OpsOne
<1>4. GuardOps(((a \o b) \o c) \o <<it>>)
  BY <1>3, OpsJoined
<1> QED BY <1>1, <1>4 DEF it

LEMMA ApartStep ==
    ASSUME ApartInv, StepOfCommand
    PROVE  ApartInv'
<1>1. /\ IsList(todo) /\ \A k \in DOMAIN todo : GuardOp(todo[k])
      /\ pruned = {} /\ settled = Absent
  BY DEF ApartInv, GuardOps
<1>2. ASSUME todo # << >> PROVE GuardOp(todo[1]) /\ GuardOps(Tail(todo))
  <2>1. /\ IsList(Tail(todo)) /\ 1 \in DOMAIN todo
        /\ \A k \in DOMAIN Tail(todo) : k + 1 \in DOMAIN todo /\ Tail(todo)[k] = todo[k + 1]
    BY <1>1, <1>2, Rests
  <2> QED BY <1>1, <2>1 DEF GuardOps
<1>3. ~At("apply") /\ ~At("mint") /\ ~At("prune") /\ ~At("remove") /\ ~At("applied")
  BY <1>2 DEF At, GuardOp
<1>4. CASE Truncate \/ Fill \/ Report
  BY <1>1, <1>2, <1>3, <1>4 DEF Truncate, Fill, Report, At, Rest, ApartInv
<1>5. CASE InitRole
  <2>1. PICK role \in todo[1].v :
          todo' = Write(RoleFile(role), Len(tokens) + 1)
                     \o (IF todo[1].v = {role} THEN << >>
                         ELSE <<Op("roles", Absent, todo[1].v \ {role})>>) \o Rest
    BY <1>5 DEF InitRole
  <2> DEFINE a == Write(RoleFile(role), Len(tokens) + 1)
             it == Op("roles", Absent, todo[1].v \ {role})
             b == IF todo[1].v = {role} THEN << >> ELSE <<it>>
  <2>2. GuardOps(a) /\ GuardOp(it)
    BY OpsWrite DEF GuardOp, Op
  <2>3. todo' = (a \o b) \o Rest
    BY <2>1
  <2> HIDE DEF it
  <2>4. GuardOps(b)
    BY <2>2, OpsOne, OpsNone
  <2>5. GuardOps(Rest)
    BY <1>2, <1>5 DEF InitRole, At, Rest
  <2> HIDE DEF a, b
  <2>6. GuardOps(a \o b)
    BY <2>2, <2>4, OpsJoined
  <2>7. GuardOps(todo')
    BY <2>3, <2>5, <2>6, OpsJoined
  <2> QED BY <1>1, <1>5, <2>7 DEF InitRole, ApartInv
<1>6. CASE Kill
  BY <1>1, <1>6, OpsNone DEF Kill, ApartInv
<1> QED BY <1>3, <1>4, <1>5, <1>6 DEF StepOfCommand, ApplyNode, MintOne, Prune, RemoveFile

LEMMA ApartRuns ==
    ASSUME ApartInv, NEW s, NEW n, Run(s, n), GuardOps(s)
    PROVE  ApartInv'
BY DEF ApartInv, Run

LEMMA ApartCommand ==
    ASSUME ApartInv, GuardCommand
    PROVE  ApartInv'
<1>1. CASE Trusted(InitLocal)
  BY <1>1, OpsSetUp, ApartRuns DEF Trusted, InitLocal
<1>2. ASSUME NEW j, Trusted(Revoke(j)) PROVE ApartInv'
  <2> DEFINE it == Op("revoked", Feed, j)
  <2>1. Run(RevokeJTI(j) \o <<it>>, 0) /\ GuardOp(it)
    BY <1>2 DEF Trusted, Revoke, GuardOp, Op
  <2> HIDE DEF it
  <2>2. GuardOps(RevokeJTI(j)) /\ GuardOps(<<it>>)
    BY <2>1, OpsWrite, OpsOne DEF RevokeJTI
  <2>3. GuardOps(RevokeJTI(j) \o <<it>>)
    BY <2>2, OpsJoined
  <2> QED BY <2>1, <2>3, ApartRuns
<1>3. ASSUME NEW role, Install(role) PROVE ApartInv'
  <2> DEFINE n == IF disk[JWKS] = Absent THEN 1 ELSE 0
             s == NewKeySteps(DefaultIssuer) \o <<Op("roles", Absent, DOMAIN BuiltinRoles)>>
             m == IF disk[JWKS] = Absent THEN s ELSE << >>
             wire == Op("hook", Absent, role)
  <2>1. Run(m \o <<wire>>, n) /\ GuardOp(wire)
    BY <1>3 DEF Install, GuardOp, Op
  <2>2. GuardOps(m)
    BY OpsSetUp, OpsNone
  <2> HIDE DEF m, wire, n
  <2>3. GuardOps(<<wire>>)
    BY <2>1, OpsOne
  <2>4. GuardOps(m \o <<wire>>)
    BY <2>2, <2>3, OpsJoined
  <2> QED BY <2>1, <2>4, ApartRuns
<1>4. ASSUME NEW r, OverlayDeny(r) \/ OverlayAllow(r) \/ handleEdit(r) PROVE ApartInv'
  <2>1. PICK v : Run(Write(OverlayFile, v), 0)
    BY <1>4 DEF OverlayDeny, OverlayAllow, handleEdit
  <2> QED BY <2>1, OpsWrite, ApartRuns
<1>5. CASE mergePreToolUse
  <2>1. todo # << >> /\ todo' = Tail(todo) /\ UNCHANGED <<pruned, settled>>
    BY <1>5 DEF mergePreToolUse, At, Rest
  <2>2. IsList(todo) /\ \A k \in DOMAIN todo : GuardOp(todo[k])
    BY DEF ApartInv, GuardOps
  <2>3. /\ IsList(Tail(todo))
        /\ \A k \in DOMAIN Tail(todo) : k + 1 \in DOMAIN todo /\ Tail(todo)[k] = todo[k + 1]
    BY <2>1, <2>2, Rests
  <2>4. GuardOps(Tail(todo))
    BY <2>2, <2>3 DEF GuardOps
  <2> QED BY <2>1, <2>4 DEF ApartInv
<1>6. ASSUME UNCHANGED <<todo, pruned, settled>> PROVE ApartInv'
  BY <1>6 DEF ApartInv
<1>7. CASE Uninstall
  BY <1>6, <1>7 DEF Uninstall, trustVars
<1>8. CASE Trusted(Tick)
  BY <1>6, <1>8 DEF Trusted, Tick
<1>9. ASSUME NEW role, Trusted(MintRoleToken(role)) PROVE ApartInv'
  BY <1>6, <1>9 DEF Trusted, MintRoleToken
<1>10. ASSUME NEW j, NEW r, Trusted(MintChildToken(j, "subagent", r)) PROVE ApartInv'
  BY <1>6, <1>10 DEF Trusted, MintChildToken
<1> QED BY <1>1, <1>2, <1>3, <1>4, <1>5, <1>7, <1>8, <1>9, <1>10 DEF GuardCommand

LEMMA ApartGuard ==
    ASSUME ApartInv, [GuardNext]_guardVars
    PROVE  ApartInv'
<1>1. CASE UNCHANGED guardVars
  BY <1>1 DEF guardVars, trustVars, ApartInv
<1>2. CASE Check
  <2>1. UNCHANGED <<todo, pruned, settled>>
    BY <1>2 DEF Check, CheckStart, CheckOff, CheckReadKeys, CheckReadFeed, CheckDecide,
                Execute, trustVars
  <2> QED BY <2>1 DEF ApartInv
<1>3. CASE Trusted(StepOfCommand)
  BY <1>3, ApartStep DEF Trusted
<1> QED BY <1>1, <1>2, <1>3, ApartCommand DEF GuardNext
=============================================================================
