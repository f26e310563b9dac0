------------------------- MODULE AuditChainProofs -------------------------
(***************************************************************************)
(* What a verification of the audit log shows, and that retention keeps    *)
(* the chain, for any number of verifications, events and changes from     *)
(* outside.                                                                *)
(***************************************************************************)
EXTENDS AuditChain, FiniteSetTheorems, SequenceTheorems, WellFoundedInduction, TLAPS

LEMMA LeastOf ==
    ASSUME NEW S, S \subseteq Nat, S # {}
    PROVE  \E x \in S : \A y \in S : x <= y
<1> DEFINE R == {p \in Nat \X Nat : p[1] < p[2]}
<1>1. IsWellFoundedOn(R, Nat)
  BY NatLessThanWellFounded DEF OpToRel
<1>2. PICK x \in S : \A y \in S : ~(<<y, x>> \in R)
  <2> HIDE DEF R
  <2> QED BY <1>1, WFMin
<1>3. \A y \in S : ~(y < x)
  <2> SUFFICES ASSUME NEW y \in S, y < x PROVE FALSE
    OBVIOUS
  <2>1. <<y, x>> \in Nat \X Nat /\ <<y, x>>[1] < <<y, x>>[2]
    OBVIOUS
  <2> QED BY <1>2, <2>1
<1> QED BY <1>3
-----------------------------------------------------------------------------
(* The rows of a query in their order.                                     *)

UpTo(I, i) == {j \in I : j <= i}

LEMMA UpToFinite ==
    ASSUME NEW n \in Nat, NEW I \in SUBSET (1..n), NEW i
    PROVE  /\ IsFiniteSet(I) /\ Cardinality(I) \in Nat
           /\ IsFiniteSet(UpTo(I, i)) /\ Cardinality(UpTo(I, i)) \in Nat
           /\ Cardinality(UpTo(I, i)) <= Cardinality(I)
<1>1. IsFiniteSet(1..n)
  BY FS_Interval
<1>2. IsFiniteSet(I)
  BY <1>1, FS_Subset
<1>3. UpTo(I, i) \in SUBSET I
  BY DEF UpTo
<1> QED BY <1>2, <1>3, FS_Subset, FS_CardinalityType

(* A later position has more before it.                                    *)
LEMMA UpToGrows ==
    ASSUME NEW n \in Nat, NEW I \in SUBSET (1..n), NEW i \in I, NEW j \in I, i < j
    PROVE  Cardinality(UpTo(I, i)) < Cardinality(UpTo(I, j))
<1>1. UpTo(I, i) \in SUBSET UpTo(I, j) /\ j \in UpTo(I, j) /\ j \notin UpTo(I, i)
  <2>1. \A x \in I : x \in Int
    OBVIOUS
  <2>2. \A x \in I : x <= i => x <= j
    BY <2>1
  <2>3. j <= j /\ ~(j <= i)
    BY <2>1
  <2> QED BY <2>2, <2>3 DEF UpTo
<1>2. /\ IsFiniteSet(UpTo(I, j))
      /\ Cardinality(UpTo(I, j)) \in Nat /\ Cardinality(UpTo(I, i)) \in Nat
  BY UpToFinite
<1>3. /\ Cardinality(UpTo(I, i)) <= Cardinality(UpTo(I, j))
      /\ Cardinality(UpTo(I, j)) = Cardinality(UpTo(I, i)) => UpTo(I, j) = UpTo(I, i)
  BY <1>1, <1>2, FS_Subset
<1> QED BY <1>1, <1>2, <1>3

(* Every rank is taken: the ranks are as many as the positions.            *)
LEMMA NthOf ==
    ASSUME NEW n \in Nat, NEW I \in SUBSET (1..n), NEW k \in 1..Cardinality(I)
    PROVE  Nth(I, k) \in I /\ Cardinality(UpTo(I, Nth(I, k))) = k
<1> DEFINE N == Cardinality(I)
           rank == [i \in I |-> Cardinality(UpTo(I, i))]
<1>1. IsFiniteSet(I) /\ N \in Nat
  BY UpToFinite
<1>2. \A i \in I : rank[i] \in 1..N
  <2> SUFFICES ASSUME NEW i \in I PROVE Cardinality(UpTo(I, i)) \in 1..N
    OBVIOUS
  <2>1. /\ IsFiniteSet(UpTo(I, i)) /\ Cardinality(UpTo(I, i)) \in Nat
        /\ Cardinality(UpTo(I, i)) <= N
    BY UpToFinite
  <2>2. UpTo(I, i) # {}
    BY DEF UpTo
  <2>3. Cardinality(UpTo(I, i)) # 0
    BY <2>1, <2>2, FS_EmptySet
  <2> QED BY <1>1, <2>1, <2>3
<1>3. \A i, j \in I : rank[i] = rank[j] => i = j
  <2> SUFFICES ASSUME NEW i \in I, NEW j \in I, i < j PROVE rank[i] # rank[j]
    OBVIOUS
  <2>1. Cardinality(UpTo(I, i)) < Cardinality(UpTo(I, j))
    BY UpToGrows
  <2>2. Cardinality(UpTo(I, i)) \in Nat /\ Cardinality(UpTo(I, j)) \in Nat
    BY UpToFinite
  <2> QED BY <2>1, <2>2
<1>4. IsFiniteSet(1..N) /\ Cardinality(1..N) = N
  BY <1>1, FS_Interval
<1>5. rank \in Injection(I, 1..N)
  BY <1>2, <1>3 DEF Injection, IsInjective
<1>6. rank \in Surjection(I, 1..N)
  <2> HIDE DEF rank, N
  <2> QED BY <1>4, <1>5, FS_Injection DEF N
<1>7. \E i \in I : rank[i] = k
  BY <1>6 DEF Surjection
<1>8. \E i \in I : Cardinality({j \in I : j <= i}) = k
  BY <1>7 DEF UpTo
<1> QED BY <1>8 DEF Nth, UpTo

(* The selected rows are rows of the log, and stay in order.               *)
LEMMA SelectedRows ==
    ASSUME NEW R, NEW l \in Seq(R), NEW I \in SUBSET (DOMAIN l)
    PROVE  /\ RowsAt(l, I) \in Seq(R) /\ Len(RowsAt(l, I)) = Cardinality(I)
           /\ Cardinality(I) \in Nat
           /\ \A k \in 1..Cardinality(I) :
                 Nth(I, k) \in I /\ RowsAt(l, I)[k] = l[Nth(I, k)]
           /\ \A k, m \in 1..Cardinality(I) : k < m => Nth(I, k) < Nth(I, m)
<1> DEFINE N == Cardinality(I)
<1>1. Len(l) \in Nat /\ I \in SUBSET (1..Len(l)) /\ N \in Nat
  <2>1. Len(l) \in Nat /\ I \in SUBSET (1..Len(l))
    OBVIOUS
  <2> QED BY <2>1, UpToFinite
<1>2. \A k \in 1..N : Nth(I, k) \in I /\ Cardinality(UpTo(I, Nth(I, k))) = k
  BY <1>1, NthOf
<1>3. \A k \in 1..N : l[Nth(I, k)] \in R
  BY <1>1, <1>2
<1>4. ASSUME NEW k \in 1..N, NEW m \in 1..N, k < m
      PROVE  Nth(I, k) < Nth(I, m)
  <2>1. Nth(I, k) \in I /\ Nth(I, m) \in I
    BY <1>2
  <2>2. Nth(I, m) # Nth(I, k)
    BY <1>2, <1>4
  <2>3. Nth(I, m) < Nth(I, k) => Cardinality(UpTo(I, Nth(I, m))) < Cardinality(UpTo(I, Nth(I, k)))
    BY <1>1, <2>1, UpToGrows
  <2>4. ~(m < k) /\ Nth(I, k) \in Nat /\ Nth(I, m) \in Nat
    BY <1>1, <1>4, <2>1
  <2> QED BY <1>2, <2>2, <2>3, <2>4
<1>5. RowsAt(l, I) = [k \in 1..N |-> l[Nth(I, k)]]
  BY DEF RowsAt
<1> HIDE DEF N
<1>6. RowsAt(l, I) \in Seq(R) /\ Len(RowsAt(l, I)) = N
  BY <1>1, <1>3, <1>5
<1> QED BY <1>1, <1>2, <1>4, <1>5, <1>6 DEF N

(* The rows from position p on.                                            *)
LEMMA SelectedSuffix ==
    ASSUME NEW R, NEW l \in Seq(R), NEW p \in 1..(Len(l) + 1)
    PROVE  /\ Cardinality(p..Len(l)) = Len(l) - p + 1
           /\ \A k \in 1..(Len(l) - p + 1) : RowsAt(l, p..Len(l))[k] = l[p + k - 1]
<1> DEFINE I == p..Len(l)
<1>1. Len(l) \in Nat /\ p \in Int /\ I \in SUBSET (1..Len(l)) /\ I \in SUBSET (DOMAIN l)
  OBVIOUS
<1>2. Cardinality(I) = Len(l) - p + 1
  <2>1. Len(l) \in Int
    BY <1>1
  <2>2. Cardinality(I) = IF p > Len(l) THEN 0 ELSE Len(l) - p + 1
    BY <1>1, <2>1, FS_Interval
  <2> QED BY <1>1, <2>2
<1>3. ASSUME NEW k \in 1..Cardinality(I)
      PROVE  Nth(I, k) = p + k - 1
  <2>1. Nth(I, k) \in I /\ Cardinality(UpTo(I, Nth(I, k))) = k
    BY <1>1, NthOf
  <2>2. UpTo(I, Nth(I, k)) = p..Nth(I, k)
    BY <1>1, <2>1 DEF UpTo
  <2>3. Cardinality(p..Nth(I, k)) = Nth(I, k) - p + 1
    <3>1. Nth(I, k) \in Int /\ ~(p > Nth(I, k))
      BY <1>1, <2>1
    <3> QED BY <1>1, <3>1, FS_Interval
  <2>4. Nth(I, k) \in Int /\ k \in Int
    BY <1>1, <1>2, <2>1
  <2> HIDE DEF I
  <2> QED BY <1>1, <2>1, <2>2, <2>3, <2>4
<1>4. \A k \in 1..Cardinality(I) : RowsAt(l, I)[k] = l[Nth(I, k)]
  BY <1>1, SelectedRows
<1> HIDE DEF I
<1>5. \A k \in 1..(Len(l) - p + 1) : RowsAt(l, I)[k] = l[p + k - 1]
  BY <1>2, <1>3, <1>4
<1> QED BY <1>2, <1>5 DEF I

LEMMA SelectedAll ==
    ASSUME NEW R, NEW l \in Seq(R)
    PROVE  RowsAt(l, DOMAIN l) = l
<1>1. DOMAIN l = 1..Len(l) /\ Len(l) \in Nat /\ 1 \in 1..(Len(l) + 1)
  OBVIOUS
<1>2. RowsAt(l, DOMAIN l) \in Seq(R) /\ Len(RowsAt(l, DOMAIN l)) = Cardinality(DOMAIN l)
  BY SelectedRows
<1>3. /\ Cardinality(DOMAIN l) = Len(l)
      /\ \A k \in 1..Len(l) : RowsAt(l, DOMAIN l)[k] = l[k]
  BY <1>1, SelectedSuffix
<1> QED BY <1>2, <1>3, SeqEqual
-----------------------------------------------------------------------------
(* A linked chain is covered by the hash of its last row.                  *)

LEMMA LinkedRow ==
    ASSUME NEW rows \in Seq(RowRecords), NEW wm \in Seq(Contents), Linked(rows, wm),
           NEW i \in DOMAIN rows
    PROVE  /\ rows[i].prev = IF i = 1 THEN wm ELSE rows[i - 1].hash
           /\ Len(rows[i].prev) \in Nat
           /\ Len(rows[i].hash) = Len(rows[i].prev) + 1
           /\ rows[i].hash[Len(rows[i].hash)] = Content(rows[i])
           /\ \A x \in 1..Len(rows[i].prev) : rows[i].hash[x] = rows[i].prev[x]
<1> DEFINE q == rows[i].prev
           c == Content(rows[i])
<1>1. rows[i] \in RowRecords
  OBVIOUS
<1>2. q \in Seq(Contents) /\ c \in Contents
  BY <1>1 DEF RowRecords, Contents, Content
<1>3. rows[i].hash = Append(q, c)
  BY DEF Linked, RowHash
<1> HIDE DEF q, c
<1>4. /\ Len(q) \in Nat /\ Len(Append(q, c)) = Len(q) + 1
      /\ Append(q, c)[Len(q) + 1] = c
      /\ \A x \in 1..Len(q) : Append(q, c)[x] = q[x]
  BY <1>2
<1>5. rows[i].prev = IF i = 1 THEN wm ELSE rows[i - 1].hash
  BY DEF Linked
<1> QED BY <1>3, <1>4, <1>5 DEF q, c

(* The k-th row before an anchored one has the anchor's hash without its   *)
(* last k contents.                                                        *)
LEMMA LinkedPrefix ==
    ASSUME NEW rows \in Seq(RowRecords), NEW wm \in Seq(Contents), Linked(rows, wm),
           NEW n \in DOMAIN rows, NEW k \in 0..(n - 1)
    PROVE  /\ Len(rows[n - k].hash) = Len(rows[n].hash) - k
           /\ \A x \in 1..(Len(rows[n].hash) - k) : rows[n - k].hash[x] = rows[n].hash[x]
<1> DEFINE h == rows[n].hash
           P(j) == /\ Len(rows[n - j].hash) = Len(h) - j
                   /\ \A x \in 1..(Len(h) - j) : rows[n - j].hash[x] = h[x]
           Bad == {j \in 0..(n - 1) : ~P(j)}
<1>1. n \in Nat \ {0} /\ n <= Len(rows) /\ Len(rows) \in Nat
  OBVIOUS
<1>2. SUFFICES ASSUME Bad # {} PROVE FALSE
  OBVIOUS
<1>3. Bad \subseteq Nat
  OBVIOUS
<1>4. PICK m \in Bad : \A j \in Bad : m <= j
  <2> HIDE DEF Bad
  <2> QED BY <1>2, <1>3, LeastOf
<1>5. m \in 0..(n - 1) /\ ~P(m)
  OBVIOUS
<1>6. Len(h) \in Nat
  <2>1. Len(rows[n].prev) \in Nat /\ Len(rows[n].hash) = Len(rows[n].prev) + 1
    BY LinkedRow
  <2> QED BY <2>1
<1>7. P(0)
  BY <1>1, <1>6
<1>8. m # 0
  BY <1>5, <1>7
<1>9. m - 1 \in 0..(n - 1) /\ P(m - 1)
  <2>1. m - 1 \in 0..(n - 1) /\ ~(m <= m - 1)
    BY <1>1, <1>5, <1>8
  <2>2. m - 1 \notin Bad
    BY <1>4, <2>1
  <2> QED BY <2>1, <2>2
<1> DEFINE i == n - (m - 1)
<1>10. i \in DOMAIN rows /\ i # 1 /\ i - 1 = n - m /\ i - 1 \in DOMAIN rows
  <2> DEFINE len == Len(rows)
  <2>1. m \in Int /\ 0 < m /\ m <= n - 1 /\ n \in Int /\ len \in Int /\ n <= len
    BY <1>1, <1>5, <1>8
  <2> HIDE DEF len
  <2>2. i \in 1..len /\ i # 1 /\ i - 1 = n - m /\ i - 1 \in 1..len
    BY <2>1
  <2> QED BY <2>2 DEF len
<1>11. /\ Len(rows[i].hash) = Len(h) - (m - 1)
       /\ \A x \in 1..(Len(h) - (m - 1)) : rows[i].hash[x] = h[x]
  BY <1>9
<1> HIDE DEF i, P, Bad, h
<1>12. /\ rows[i].prev = rows[i - 1].hash
       /\ Len(rows[i].prev) \in Nat
       /\ Len(rows[i].hash) = Len(rows[i].prev) + 1
       /\ \A x \in 1..Len(rows[i].prev) : rows[i].hash[x] = rows[i].prev[x]
  BY <1>10, LinkedRow
<1>13. Len(rows[i - 1].hash) = Len(h) - m
  <2> DEFINE p == Len(rows[i].prev)
             r == Len(rows[i].hash)
             t == Len(h)
  <2>1. p = Len(rows[i - 1].hash)
    BY <1>12
  <2>2. p \in Nat /\ r = p + 1
    BY <1>12
  <2>3. r = t - (m - 1) /\ t \in Nat
    BY <1>6, <1>11
  <2>4. m \in Int
    BY <1>5
  <2> HIDE DEF p, r, t
  <2>5. p = t - m
    BY <2>2, <2>3, <2>4
  <2> QED BY <2>1, <2>5 DEF t
<1>14. \A x \in 1..(Len(h) - m) : rows[i - 1].hash[x] = h[x]
  <2> SUFFICES ASSUME NEW x \in 1..(Len(h) - m) PROVE rows[i - 1].hash[x] = h[x]
    OBVIOUS
  <2>1. x \in 1..(Len(h) - (m - 1)) /\ x \in 1..Len(rows[i].prev)
    BY <1>5, <1>6, <1>12, <1>13
  <2> QED BY <1>11, <1>12, <2>1
<1>15. P(m)
  BY <1>10, <1>13, <1>14 DEF P
<1> QED BY <1>5, <1>15

(* A linked scan that has the anchor's hash at its count is the anchored   *)
(* rows.                                                                   *)
LEMMA LinkedHolds ==
    ASSUME NEW rows \in Seq(RowRecords), NEW wm \in Seq(Contents), Linked(rows, wm),
           NEW a \in Anchors, a.count <= Len(rows), rows[a.count].hash = a.head
    PROVE  Holds(rows, a)
<1> DEFINE n == a.count
<1>1. n \in DOMAIN rows /\ n \in Nat \ {0}
  BY DEF Anchors
<1> SUFFICES ASSUME NEW i \in 1..n
             PROVE  Content(rows[i]) = a.head[Len(a.head) - n + i]
  BY <1>1 DEF Holds
<1>2. n - i \in 0..(n - 1) /\ n - (n - i) = i /\ i \in DOMAIN rows
  BY <1>1
<1>3. /\ Len(rows[n - (n - i)].hash) = Len(rows[n].hash) - (n - i)
      /\ \A x \in 1..(Len(rows[n].hash) - (n - i)) : rows[n - (n - i)].hash[x] = rows[n].hash[x]
  BY <1>1, <1>2, LinkedPrefix
<1>4. /\ Len(rows[i].prev) \in Nat /\ Len(rows[i].hash) = Len(rows[i].prev) + 1
      /\ rows[i].hash[Len(rows[i].hash)] = Content(rows[i])
  BY <1>2, LinkedRow
<1>5. Len(rows[n].prev) \in Nat /\ Len(rows[n].hash) = Len(rows[n].prev) + 1
  BY <1>1, LinkedRow
<1> DEFINE L == Len(rows[i].hash)
           M == Len(rows[n].hash)
<1>6. L = M - (n - i) /\ L \in Nat \ {0} /\ M \in Nat /\ L \in 1..(M - (n - i))
  <2>1. L = M - (n - i)
    BY <1>2, <1>3
  <2>2. L \in Nat \ {0}
    BY <1>4
  <2>3. M \in Nat
    BY <1>5
  <2> HIDE DEF L, M
  <2> QED BY <2>1, <2>2, <2>3
<1>7. rows[i].hash[L] = rows[n].hash[L]
  BY <1>2, <1>3, <1>6
<1>8. M - n + i = L
  <2> HIDE DEF L, M
  <2> QED BY <1>1, <1>6
<1> QED BY <1>4, <1>7, <1>8
-----------------------------------------------------------------------------
(* Types, and what the sequence means: a row of the log is the row written *)
(* under its seq, but for its content.                                     *)

SameRow(r, q) == r.seq = q.seq /\ r.prev = q.prev /\ r.hash = q.hash /\ r.created = q.created

AsWritten(rows, w) ==
    \A i \in DOMAIN rows : rows[i].seq \in DOMAIN w /\ SameRow(rows[i], w[rows[i].seq])

LogOK ==
    /\ log \in Seq(RowRecords) /\ written \in Seq(RowRecords)
    /\ \A i, j \in DOMAIN log : i < j => log[i].seq < log[j].seq
    /\ Len(written) + 1 = nextSeq
    /\ \A i \in DOMAIN written : written[i].seq = i
    /\ \A i \in DOMAIN written : written[i].hash = RowHash(written[i].prev, Content(written[i]))
    /\ AsWritten(log, written)

TypeInv == TypeOK /\ LogOK

(* m is what is left of l: rows may be missing, and contents differ.       *)
Thins(m, l) ==
    /\ m \in Seq(RowRecords)
    /\ \E f \in [DOMAIN m -> DOMAIN l] :
         /\ \A j, k \in DOMAIN m : j < k => f[j] < f[k]
         /\ \A k \in DOMAIN m : SameRow(m[k], l[f[k]])

LEMMA ThinsItself ==
    ASSUME NEW l \in Seq(RowRecords)
    PROVE  Thins(l, l)
<1> DEFINE f == [k \in DOMAIN l |-> k]
<1>1. f \in [DOMAIN l -> DOMAIN l] /\ \A k \in DOMAIN l : f[k] = k
  OBVIOUS
<1> HIDE DEF f
<1> QED BY <1>1 DEF Thins, SameRow

LEMMA SelectedThins ==
    ASSUME NEW l \in Seq(RowRecords), NEW I \in SUBSET (DOMAIN l)
    PROVE  Thins(RowsAt(l, I), l)
<1> DEFINE m == RowsAt(l, I)
           N == Cardinality(I)
           f == [k \in DOMAIN m |-> Nth(I, k)]
<1>1. /\ m \in Seq(RowRecords) /\ Len(m) = N /\ N \in Nat
      /\ \A k \in 1..N : Nth(I, k) \in I /\ m[k] = l[Nth(I, k)]
      /\ \A j, k \in 1..N : j < k => Nth(I, j) < Nth(I, k)
  BY SelectedRows
<1> HIDE DEF m, N
<1>2. DOMAIN m = 1..N
  BY <1>1
<1>3. f \in [DOMAIN m -> DOMAIN l] /\ \A k \in DOMAIN m : f[k] = Nth(I, k)
  BY <1>1, <1>2
<1> HIDE DEF f
<1>4. \A j, k \in DOMAIN m : j < k => f[j] < f[k]
  BY <1>1, <1>2, <1>3
<1>5. \A k \in DOMAIN m : SameRow(m[k], l[f[k]])
  BY <1>1, <1>2, <1>3 DEF SameRow
<1> QED BY <1>1, <1>3, <1>4, <1>5 DEF Thins, m

LEMMA AlteredThins ==
    ASSUME NEW l \in Seq(RowRecords), NEW i \in DOMAIN l, NEW ev \in Events
    PROVE  Thins([l EXCEPT ![i].ev = ev], l)
<1> DEFINE m == [l EXCEPT ![i].ev = ev]
           f == [k \in DOMAIN l |-> k]
<1>1. l[i] \in RowRecords
  OBVIOUS
<1>2. [l[i] EXCEPT !.ev = ev] \in RowRecords /\ SameRow([l[i] EXCEPT !.ev = ev], l[i])
  BY <1>1 DEF RowRecords, SameRow
<1>3. m \in Seq(RowRecords) /\ Len(m) = Len(l) /\ DOMAIN m = DOMAIN l
  BY <1>2, ExceptSeq
<1>4. m[i] = [l[i] EXCEPT !.ev = ev] /\ \A k \in DOMAIN l : k # i => m[k] = l[k]
  OBVIOUS
<1>5. \A k \in DOMAIN m : SameRow(m[k], l[k])
  BY <1>2, <1>3, <1>4 DEF SameRow
<1>6. f \in [DOMAIN m -> DOMAIN l] /\ \A k \in DOMAIN m : f[k] = k
  BY <1>3
<1> HIDE DEF f, m
<1> QED BY <1>3, <1>5, <1>6 DEF Thins, m

LEMMA RemovedThins ==
    ASSUME NEW l \in Seq(RowRecords), NEW i \in DOMAIN l, NEW j \in DOMAIN l, i <= j
    PROVE  Thins(SubSeq(l, 1, i - 1) \o SubSeq(l, j + 1, Len(l)), l)
<1> DEFINE n == Len(l)
           a == SubSeq(l, 1, i - 1)
           b == SubSeq(l, j + 1, n)
           m == a \o b
           f == [k \in DOMAIN m |-> IF k < i THEN k ELSE k + (j - i + 1)]
<1>1. n \in Nat /\ i \in 1..n /\ j \in 1..n /\ DOMAIN l = 1..n
  OBVIOUS
<1>2. /\ a \in Seq(RowRecords) /\ Len(a) = i - 1
      /\ \A k \in 1..(i - 1) : a[k] = l[k]
  BY <1>1, SubSeqProperties
<1>3. /\ b \in Seq(RowRecords) /\ Len(b) = n - j
      /\ \A k \in 1..(n - j) : b[k] = l[j + k]
  <2>1. \A k \in (j + 1)..n : l[k] \in RowRecords
    BY <1>1
  <2>2. j + 1 \in Int /\ n \in Int
    BY <1>1
  <2>3. /\ b \in Seq(RowRecords)
        /\ Len(b) = IF j + 1 <= n THEN n - (j + 1) + 1 ELSE 0
        /\ \A k \in 1..(n - (j + 1) + 1) : b[k] = l[(j + 1) + k - 1]
    <3> HIDE DEF n
    <3> QED BY <2>1, <2>2, SubSeqProperties
  <2> HIDE DEF b, n
  <2>4. \A k \in 1..(n - j) : (j + 1) + k - 1 = j + k /\ k \in 1..(n - (j + 1) + 1)
    BY <1>1
  <2>5. \A k \in 1..(n - j) : b[k] = l[j + k]
    BY <2>3, <2>4
  <2>6. Len(b) = n - j
    <3> DEFINE len == Len(b)
    <3>1. len = IF j + 1 <= n THEN n - (j + 1) + 1 ELSE 0
      BY <2>3
    <3>2. j \in Nat /\ n \in Nat /\ j <= n
      BY <1>1
    <3> HIDE DEF len
    <3>3. len = n - j
      BY <3>1, <3>2
    <3> QED BY <3>3 DEF len
  <2>7. b \in Seq(RowRecords)
    BY <2>3
  <2> QED BY <2>5, <2>6, <2>7
<1> HIDE DEF a, b, n
<1>4. /\ m \in Seq(RowRecords) /\ Len(m) = (i - 1) + (n - j)
      /\ \A k \in 1..Len(m) : m[k] = IF k <= i - 1 THEN a[k] ELSE b[k - (i - 1)]
  <2>1. a \in Seq(RowRecords) /\ b \in Seq(RowRecords)
    BY <1>2, <1>3
  <2>2. /\ m \in Seq(RowRecords) /\ Len(m) = Len(a) + Len(b)
        /\ \A k \in 1..(Len(a) + Len(b)) : m[k] = IF k <= Len(a) THEN a[k] ELSE b[k - Len(a)]
    BY <2>1, ConcatProperties
  <2>3. Len(a) = i - 1 /\ Len(b) = n - j
    BY <1>2, <1>3
  <2> HIDE DEF m
  <2> QED BY <2>2, <2>3
<1> HIDE DEF m
<1>5. DOMAIN m = 1..((i - 1) + (n - j))
  BY <1>4
<1>6. \A k \in DOMAIN m : f[k] = IF k < i THEN k ELSE k + (j - i + 1)
  BY <1>1, <1>5
<1>7. f \in [DOMAIN m -> DOMAIN l]
  BY <1>1, <1>5
<1> HIDE DEF f
<1>8. \A k, h \in DOMAIN m : k < h => f[k] < f[h]
  BY <1>1, <1>5, <1>6
<1>9. \A k \in DOMAIN m : m[k] = l[f[k]]
  <2> SUFFICES ASSUME NEW k \in DOMAIN m PROVE m[k] = l[f[k]]
    OBVIOUS
  <2>1. k \in Int /\ 1 <= k /\ k <= (i - 1) + (n - j)
    BY <1>1, <1>5
  <2>2. CASE k < i
    BY <1>1, <1>2, <1>4, <1>5, <1>6, <2>1, <2>2
  <2>3. CASE ~(k < i)
    <3>1. k - (i - 1) \in 1..(n - j) /\ j + (k - (i - 1)) = k + (j - i + 1)
      BY <1>1, <2>1, <2>3
    <3>2. m[k] = b[k - (i - 1)]
      BY <1>1, <1>2, <1>4, <1>5, <2>1, <2>3
    <3> QED BY <1>3, <1>6, <2>3, <3>1, <3>2
  <2> QED BY <2>2, <2>3
<1>10. \A k \in DOMAIN m : SameRow(m[k], l[f[k]])
  BY <1>9 DEF SameRow
<1> QED BY <1>4, <1>7, <1>8, <1>10 DEF Thins, m, a, b, n
-----------------------------------------------------------------------------
(* What a step does to the log.                                            *)

LEMMA NewRowType ==
    ASSUME TypeOK, NEW ev \in Events, NEW created \in Nat
    PROVE  /\ NewRow(ev, created) \in RowRecords
           /\ NewRow(ev, created).hash = RowHash(NewRow(ev, created).prev, Content(NewRow(ev, created)))
           /\ NewRow(ev, created).seq = nextSeq
<1>1. PrevHash(log) \in Seq(Contents)
  <2>1. log \in Seq(RowRecords) /\ << >> \in Seq(Contents)
    BY DEF TypeOK
  <2>2. log # << >> => log[Len(log)] \in RowRecords
    BY <2>1
  <2> QED BY <2>1, <2>2 DEF PrevHash, Genesis, RowRecords
<1> DEFINE c == [ev |-> ev, created |-> created]
<1>2. c \in Contents
  BY DEF Contents
<1>3. Append(PrevHash(log), c) \in Seq(Contents)
  <2> HIDE DEF c
  <2> QED BY <1>1, <1>2
<1>4. nextSeq \in Nat
  BY DEF TypeOK
<1> QED BY <1>1, <1>3, <1>4 DEF NewRow, RowRecords, RowHash, Content

Appends(ev, created) ==
    /\ log' = Append(log, NewRow(ev, created))
    /\ written' = Append(written, NewRow(ev, created))
    /\ nextSeq' = nextSeq + 1

Thinned == written' = written /\ nextSeq' = nextSeq /\ Thins(log', log)

LEMMA LogSteps ==
    ASSUME TypeOK, [Next]_vars
    PROVE  Thinned \/ \E ev \in Events, created \in Nat : Appends(ev, created)
<1>1. log \in Seq(RowRecords)
  BY DEF TypeOK
<1>2. ASSUME log' = log, written' = written, nextSeq' = nextSeq
      PROVE  Thinned
  BY <1>1, <1>2, ThinsItself DEF Thinned
<1>3. CASE \E ev \in Events, lag \in 0..MaxLag : AppendEvent(ev, lag)
  <2>1. PICK ev \in Events, lag \in 0..MaxLag : AppendEvent(ev, lag)
    BY <1>3
  <2>2. now - lag \in Nat
    BY <2>1, AuditAssumption DEF AppendEvent, TypeOK
  <2> QED BY <2>1, <2>2 DEF AppendEvent, Appends
<1>4. CASE Tick
  BY <1>2, <1>4 DEF Tick
<1>5. CASE \E v \in Verifiers : VerifyStep(v)
  BY <1>2, <1>5 DEF VerifyStep, VerifyCommand, AnchorCommand, VerifyScan, StoreAnchor,
       CheckExternal, VerifyLinks, VerifyAnchor, VerifyPrefix, VerifyEnd, Found, Move
<1>6. CASE MaintenancePrune
  <2>1. CASE PruneRead \/ PruneDelete \/ PruneAbort
    BY <1>2, <2>1 DEF PruneRead, PruneDelete, PruneAbort
  <2>2. CASE PruneCommit
    BY <1>1, <2>2, SelectedThins DEF PruneCommit, Thinned
  <2> QED BY <1>6, <2>1, <2>2 DEF MaintenancePrune
<1>7. CASE DamageStep
  <2>1. CASE \E i \in DOMAIN log, ev \in Events : Alter(i, ev)
    BY <1>1, <2>1, AlteredThins DEF Alter, Damaged, Thinned
  <2>2. CASE \E i, j \in DOMAIN log : Remove(i, j)
    BY <1>1, <2>2, RemovedThins DEF Remove, Damaged, Thinned
  <2>3. CASE DropAnchors
    BY <1>2, <2>3 DEF DropAnchors, Damaged
  <2> QED BY <1>7, <2>1, <2>2, <2>3 DEF DamageStep
<1>8. CASE UNCHANGED vars
  BY <1>2, <1>8 DEF vars
<1> QED BY <1>3, <1>4, <1>5, <1>6, <1>7, <1>8 DEF Next

LEMMA ThinningKeepsLog ==
    ASSUME LogOK, Thinned
    PROVE  LogOK'
<1>1. PICK f \in [DOMAIN log' -> DOMAIN log] :
        /\ \A j, k \in DOMAIN log' : j < k => f[j] < f[k]
        /\ \A k \in DOMAIN log' : SameRow(log'[k], log[f[k]])
  BY DEF Thinned, Thins
<1>2. written' = written /\ nextSeq' = nextSeq /\ log' \in Seq(RowRecords)
  BY DEF Thinned, Thins
<1>3. \A i, j \in DOMAIN log' : i < j => log'[i].seq < log'[j].seq
  BY <1>1 DEF LogOK, SameRow
<1>4. AsWritten(log', written')
  BY <1>1, <1>2 DEF LogOK, AsWritten, SameRow
<1> QED BY <1>2, <1>3, <1>4 DEF LogOK

LEMMA AppendKeepsLog ==
    ASSUME TypeOK, LogOK, NEW ev \in Events, NEW created \in Nat, Appends(ev, created)
    PROVE  LogOK' /\ \A i \in DOMAIN written : written'[i] = written[i]
<1> DEFINE r == NewRow(ev, created)
<1>1. /\ r \in RowRecords /\ r.hash = RowHash(r.prev, Content(r))
      /\ r.seq = nextSeq
  BY NewRowType
<1> HIDE DEF r
<1>2. log' = Append(log, r) /\ written' = Append(written, r) /\ nextSeq' = nextSeq + 1
  BY DEF Appends, r
<1>3. /\ log \in Seq(RowRecords) /\ written \in Seq(RowRecords)
      /\ Len(written) + 1 = nextSeq /\ Len(written) \in Nat /\ Len(log) \in Nat
  BY DEF LogOK
<1>4. /\ log' \in Seq(RowRecords) /\ written' \in Seq(RowRecords)
      /\ Len(log') = Len(log) + 1 /\ Len(written') = Len(written) + 1
      /\ log'[Len(log) + 1] = r /\ written'[nextSeq] = r
      /\ \A i \in 1..Len(log) : log'[i] = log[i]
      /\ \A i \in 1..Len(written) : written'[i] = written[i]
  BY <1>1, <1>2, <1>3
<1>5. /\ DOMAIN log = 1..Len(log) /\ DOMAIN log' = 1..(Len(log) + 1)
      /\ DOMAIN written = 1..Len(written) /\ DOMAIN written' = 1..nextSeq
  BY <1>3, <1>4
<1>6. \A i \in DOMAIN log : /\ log[i].seq \in 1..Len(written)
                            /\ SameRow(log[i], written[log[i].seq])
  BY <1>5 DEF LogOK, AsWritten
<1>7. \A i, j \in DOMAIN log' : i < j => log'[i].seq < log'[j].seq
  <2> SUFFICES ASSUME NEW i \in DOMAIN log', NEW j \in DOMAIN log', i < j
               PROVE  log'[i].seq < log'[j].seq
    OBVIOUS
  <2>1. CASE j = Len(log) + 1
    BY <1>1, <1>3, <1>4, <1>5, <1>6, <2>1
  <2>2. CASE j # Len(log) + 1
    BY <1>3, <1>4, <1>5, <2>2 DEF LogOK
  <2> QED BY <2>1, <2>2
<1>8. \A i \in DOMAIN written' : /\ written'[i].seq = i
                                 /\ written'[i].hash = RowHash(written'[i].prev, Content(written'[i]))
  <2> SUFFICES ASSUME NEW i \in 1..nextSeq
               PROVE  /\ written'[i].seq = i
                      /\ written'[i].hash = RowHash(written'[i].prev, Content(written'[i]))
    BY <1>5
  <2>1. CASE i = nextSeq
    BY <1>1, <1>4, <2>1
  <2>2. CASE i # nextSeq
    <3>1. i \in DOMAIN written /\ written'[i] = written[i]
      BY <1>3, <1>4, <1>5, <2>2
    <3> QED BY <3>1 DEF LogOK
  <2> QED BY <2>1, <2>2
<1>9. AsWritten(log', written')
  <2> SUFFICES ASSUME NEW i \in DOMAIN log'
               PROVE  log'[i].seq \in DOMAIN written' /\ SameRow(log'[i], written'[log'[i].seq])
    BY DEF AsWritten
  <2>1. CASE i = Len(log) + 1
    BY <1>1, <1>3, <1>4, <1>5, <2>1 DEF SameRow
  <2>2. CASE i # Len(log) + 1
    <3>1. i \in DOMAIN log /\ log'[i] = log[i]
      BY <1>3, <1>4, <1>5, <2>2
    <3> QED BY <1>3, <1>4, <1>5, <1>6, <3>1
  <2> QED BY <2>1, <2>2
<1> QED BY <1>2, <1>3, <1>4, <1>5, <1>7, <1>8, <1>9 DEF LogOK
-----------------------------------------------------------------------------
(* Types of the verifications, the anchors and the retention transaction.  *)

Held == {None} \cup Verifications

LEMMA RowsOf ==
    ASSUME TypeOK, NEW v \in Verifiers, verif[v].pc # "none"
    PROVE  /\ verif[v] \in Verifications /\ verif[v].pc # "none"
           /\ verif[v].rows \in Seq(RowRecords)
BY DEF TypeOK, None, Verifications

LEMMA OvertakenType ==
    ASSUME NEW c \in Held
    PROVE  /\ Overtaken(c) \in Held
           /\ Overtaken(c) = c
              \/ /\ c \in Verifications /\ c.pc \notin {"none", "done"}
                 /\ Overtaken(c) = [c EXCEPT !.overtaken = TRUE]
                 /\ Overtaken(c) \in Verifications
BY DEF Held, Overtaken, Verifications, None

(* What a step of its own makes of a verification.                         *)
LEMMA OwnStepType ==
    ASSUME TypeOK, NEW v \in Verifiers,
           \/ VerifyLinks(v) \/ VerifyAnchor(v) \/ VerifyPrefix(v) \/ VerifyEnd(v)
           \/ CheckExternal(v) \/ \E ext \in shipped \cup {None} : VerifyScan(v, ext)
    PROVE  \E c \in Held : Move(v, c)
<1>1. /\ verif[v] \in Held /\ anchor \in Anchors \cup {None} /\ shipped \subseteq Anchors
      /\ log \in Seq(RowRecords)
  BY DEF TypeOK, Held
<1>2. CASE VerifyLinks(v)
  <2>1. verif[v] \in Verifications
    BY <1>2, RowsOf DEF VerifyLinks
  <2>2. /\ [verif[v] EXCEPT !.pc = "anchor"] \in Held
        /\ [verif[v] EXCEPT !.pc = "done", !.ok = FALSE] \in Held
    BY <2>1 DEF Held, Verifications
  <2> QED BY <1>2, <2>2 DEF VerifyLinks, Found
<1>3. CASE VerifyAnchor(v)
  <2>1. verif[v] \in Verifications
    BY <1>3, RowsOf DEF VerifyAnchor
  <2>2. Continue(v) \in {"store", "external"}
    BY DEF Continue
  <2>3. /\ [verif[v] EXCEPT !.pc = Continue(v)] \in Held
        /\ [verif[v] EXCEPT !.pc = "done", !.ok = FALSE] \in Held
        /\ anchor # None => [verif[v] EXCEPT !.pc = "prefix", !.against = anchor] \in Held
    BY <1>1, <2>1, <2>2 DEF Held, Verifications
  <2>4. CASE anchor = None
    BY <1>3, <2>3, <2>4 DEF VerifyAnchor
  <2>5. CASE anchor # None /\ Truncated(verif[v].rows, anchor)
    BY <1>3, <2>3, <2>5 DEF VerifyAnchor, Found
  <2>6. CASE anchor # None /\ ~Truncated(verif[v].rows, anchor)
    BY <1>3, <2>3, <2>6 DEF VerifyAnchor
  <2> QED BY <2>4, <2>5, <2>6
<1>4. CASE VerifyPrefix(v)
  <2>1. verif[v] \in Verifications
    BY <1>4, RowsOf DEF VerifyPrefix
  <2>2. Continue(v) \in {"store", "external"}
    BY DEF Continue
  <2>3. /\ [verif[v] EXCEPT !.pc = Continue(v)] \in Held
        /\ [verif[v] EXCEPT !.pc = "done", !.ok = FALSE] \in Held
        /\ [verif[v] EXCEPT !.pc = Continue(v), !.skipped = TRUE] \in Held
    BY <2>1, <2>2 DEF Held, Verifications
  <2> QED BY <1>4, <2>3 DEF VerifyPrefix, Found
<1>5. CASE VerifyEnd(v)
  BY <1>5 DEF VerifyEnd, Held
<1>6. CASE CheckExternal(v)
  <2>1. verif[v] \in Verifications
    BY <1>6, RowsOf DEF CheckExternal
  <2>2. /\ [verif[v] EXCEPT !.pc = "done"] \in Held
        /\ [verif[v] EXCEPT !.pc = "done", !.ok = FALSE] \in Held
    BY <2>1 DEF Held, Verifications
  <2> QED BY <1>6, <2>2 DEF CheckExternal, Found
<1>7. CASE \E ext \in shipped \cup {None} : VerifyScan(v, ext)
  BY <1>1, <1>7 DEF VerifyScan, Held, Verifications
<1> QED BY <1>2, <1>3, <1>4, <1>5, <1>6, <1>7

LEMMA StoreAnchorType ==
    ASSUME TypeOK, NEW v \in Verifiers, NEW signed \in BOOLEAN, StoreAnchor(v, signed)
    PROVE  /\ anchor' \in Anchors \cup {None} /\ shipped' \subseteq Anchors
           /\ verif' \in [Verifiers -> Held]
<1>1. /\ verif[v] \in Verifications /\ verif[v].pc = "store"
      /\ verif[v].rows \in Seq(RowRecords)
  BY RowsOf DEF StoreAnchor
<1> DEFINE rows == verif[v].rows
           rec == [pc |-> "anchor", count |-> Len(rows), head |-> rows[Len(rows)].hash]
<1>2. rows # << >> => rec \in Anchors
  <2>1. rows # << >> => Len(rows) \in Nat \ {0} /\ rows[Len(rows)] \in RowRecords
    BY <1>1
  <2> QED BY <2>1 DEF Anchors, RowRecords
<1>3. anchor \in Anchors \cup {None} /\ shipped \subseteq Anchors
  BY DEF TypeOK
<1>4. IF rows = << >> THEN UNCHANGED <<anchor, shipped>>
      ELSE /\ anchor' = rec
           /\ shipped' = IF signed THEN shipped \cup {rec} ELSE shipped
  BY DEF StoreAnchor
<1> HIDE DEF rec
<1>5. anchor' \in Anchors \cup {None} /\ shipped' \subseteq Anchors
  BY <1>2, <1>3, <1>4
<1>6. verif' \in [Verifiers -> Held]
  <2>1. [verif[v] EXCEPT !.pc = "done"] \in Held
    BY <1>1 DEF Verifications, Held
  <2>2. \A w \in Verifiers : Overtaken(verif[w]) \in Held
    BY OvertakenType DEF TypeOK, Held
  <2> QED BY <2>1, <2>2 DEF StoreAnchor
<1> QED BY <1>5, <1>6

LEMMA FirstKept ==
    ASSUME TypeOK, NEW cutoff, Kept(log, cutoff) # {}
    PROVE  LET p == Nth(Kept(log, cutoff), 1)
           IN  /\ p \in DOMAIN log /\ ~Aged(log[p], cutoff)
               /\ \A j \in DOMAIN log : j < p => Aged(log[j], cutoff)
               /\ log[p].prev \in Seq(Contents)
<1> DEFINE I == Kept(log, cutoff)
           n == Len(log)
           p == Nth(I, 1)
<1>1. log \in Seq(RowRecords) /\ n \in Nat /\ I \in SUBSET (1..n) /\ DOMAIN log = 1..n
  BY DEF TypeOK, Kept
<1> HIDE DEF n
<1>2. IsFiniteSet(I) /\ Cardinality(I) \in Nat
  BY <1>1, UpToFinite
<1>3. 1 \in 1..Cardinality(I)
  BY <1>2, FS_EmptySet
<1>4. p \in I /\ Cardinality(UpTo(I, p)) = 1
  BY <1>1, <1>3, NthOf
<1>5. \A j \in I : ~(j < p)
  <2> SUFFICES ASSUME NEW j \in I, j < p PROVE FALSE
    OBVIOUS
  <2>1. Cardinality(UpTo(I, j)) < Cardinality(UpTo(I, p))
    BY <1>1, <1>4, UpToGrows
  <2>2. Cardinality(UpTo(I, j)) \in Nat /\ IsFiniteSet(UpTo(I, j))
    BY <1>1, UpToFinite
  <2>3. UpTo(I, j) # {}
    <3>1. j \in Int
      BY <1>1
    <3> QED BY <3>1 DEF UpTo
  <2> HIDE DEF I
  <2>4. Cardinality(UpTo(I, j)) # 0
    BY <2>2, <2>3, FS_EmptySet
  <2> QED BY <1>4, <2>1, <2>2, <2>4
<1>6. p \in DOMAIN log /\ ~Aged(log[p], cutoff)
  BY <1>4 DEF Kept
<1>7. \A j \in DOMAIN log : j < p => Aged(log[j], cutoff)
  BY <1>5 DEF Kept
<1>8. log[p].prev \in Seq(Contents)
  <2>1. log[p] \in RowRecords
    BY <1>1, <1>6
  <2> QED BY <2>1 DEF RowRecords
<1> QED BY <1>6, <1>7, <1>8

LEMMA PruneType ==
    ASSUME TypeOK, MaintenancePrune
    PROVE  prune' \in {None} \cup Deletes \cup Commits /\ watermark' \in Seq(Contents)
<1>1. prune \in {None} \cup Deletes \cup Commits /\ watermark \in Seq(Contents)
  BY DEF TypeOK
<1>2. CASE PruneRead
  <2>1. now - Retention \in Nat
    BY <1>2, AuditAssumption DEF PruneRead, TypeOK
  <2>2. NewWatermark(log, now - Retention) \in Seq(Contents)
    <3>1. << >> \in Seq(Contents)
      OBVIOUS
    <3> QED BY <3>1, FirstKept DEF NewWatermark, Genesis
  <2> QED BY <1>1, <1>2, <2>1, <2>2 DEF PruneRead, Deletes
<1>3. CASE PruneDelete
  <2>1. prune \in Deletes
    BY <1>1, <1>3 DEF PruneDelete, None, Commits
  <2>2. {log[i].seq : i \in {j \in DOMAIN log : Aged(log[j], prune.cutoff)}} \subseteq Nat
    <3>1. \A i \in DOMAIN log : log[i] \in RowRecords
      BY DEF TypeOK
    <3> QED BY <3>1 DEF RowRecords
  <2> QED BY <1>1, <1>3, <2>1, <2>2 DEF PruneDelete, Deletes, Commits
<1>4. CASE PruneCommit
  <2>1. prune \in Commits
    BY <1>1, <1>4 DEF PruneCommit, None, Deletes
  <2> QED BY <1>1, <1>4, <2>1 DEF PruneCommit, Commits
<1>5. CASE PruneAbort
  BY <1>1, <1>5 DEF PruneAbort
<1> QED BY <1>2, <1>3, <1>4, <1>5 DEF MaintenancePrune

LEMMA DamageSteps ==
    ASSUME DamageStep
    PROVE  /\ anchor' \in {anchor, None} /\ damage' = damage + 1
           /\ verif' = [v \in Verifiers |-> Overtaken(verif[v])]
           /\ UNCHANGED <<nextSeq, watermark, shipped, prune, now, written, pruned>>
<1>1. CASE \E i \in DOMAIN log, ev \in Events : Alter(i, ev)
  BY <1>1 DEF Alter, Damaged
<1>2. CASE \E i, j \in DOMAIN log : Remove(i, j)
  BY <1>2 DEF Remove, Damaged
<1>3. CASE DropAnchors
  BY <1>3 DEF DropAnchors, Damaged
<1> QED BY <1>1, <1>2, <1>3 DEF DamageStep

LEMMA TypeStep ==
    ASSUME TypeInv, [Next]_vars
    PROVE  TypeInv'
<1>1. TypeOK /\ LogOK
  BY DEF TypeInv
<1>2. LogOK'
  BY <1>1, LogSteps, ThinningKeepsLog, AppendKeepsLog
<1> DEFINE Rest == /\ watermark \in Seq(Contents)
                   /\ anchor \in Anchors \cup {None} /\ shipped \subseteq Anchors
                   /\ prune \in {None} \cup Deletes \cup Commits
                   /\ verif \in [Verifiers -> Held]
                   /\ now \in Nat /\ damage \in Nat /\ pruned \in BOOLEAN
<1>3. Rest
  BY <1>1 DEF TypeOK, Held
<1>4. \A v \in Verifiers : Overtaken(verif[v]) \in Held
  BY <1>3, OvertakenType
<1>5. Rest'
  <2>1. CASE (\E ev \in Events, lag \in 0..MaxLag : AppendEvent(ev, lag)) \/ Tick
    BY <1>3, <2>1 DEF AppendEvent, Tick
  <2>2. CASE \E v \in Verifiers : VerifyStep(v)
    <3>1. PICK v \in Verifiers : VerifyStep(v)
      BY <2>2
    <3>2. CASE StoreAnchor(v, FALSE) \/ StoreAnchor(v, TRUE)
      <4>1. /\ anchor' \in Anchors \cup {None} /\ shipped' \subseteq Anchors
            /\ verif' \in [Verifiers -> Held]
        BY <1>1, <3>2, StoreAnchorType
      <4> QED BY <1>3, <3>2, <4>1 DEF StoreAnchor
    <3>3. CASE ~(StoreAnchor(v, FALSE) \/ StoreAnchor(v, TRUE))
      <4>1. PICK c \in Held : Move(v, c)
        BY <1>1, <3>1, <3>3, OwnStepType DEF VerifyStep, VerifyCommand, AnchorCommand
      <4> QED BY <1>3, <4>1 DEF Move
    <3> QED BY <3>2, <3>3
  <2>3. CASE MaintenancePrune
    <3>1. prune' \in {None} \cup Deletes \cup Commits /\ watermark' \in Seq(Contents)
      BY <1>1, <2>3, PruneType
    <3>2. verif' \in [Verifiers -> Held] /\ pruned' \in BOOLEAN
      BY <1>3, <1>4, <2>3
         DEF MaintenancePrune, PruneRead, PruneDelete, PruneCommit, PruneAbort
    <3> QED BY <1>3, <2>3, <3>1, <3>2
         DEF MaintenancePrune, PruneRead, PruneDelete, PruneCommit, PruneAbort
  <2>4. CASE DamageStep
    <3>1. /\ anchor' \in {anchor, None} /\ damage' = damage + 1
          /\ verif' = [v \in Verifiers |-> Overtaken(verif[v])]
          /\ UNCHANGED <<nextSeq, watermark, shipped, prune, now, written, pruned>>
      BY <2>4, DamageSteps
    <3> QED BY <1>3, <1>4, <3>1
  <2>5. CASE UNCHANGED vars
    BY <1>3, <2>5 DEF vars
  <2> QED BY <2>1, <2>2, <2>3, <2>4, <2>5 DEF Next
<1> QED BY <1>2, <1>5 DEF TypeInv, TypeOK, LogOK, Held

LEMMA TypeInit == Init => TypeInv
<1> SUFFICES ASSUME Init PROVE TypeInv
  OBVIOUS
<1>1. << >> \in Seq(RowRecords) /\ << >> \in Seq(Contents) /\ Len(<< >>) = 0 /\ DOMAIN << >> = {}
  OBVIOUS
<1>2. LogOK
  BY <1>1 DEF Init, LogOK, AsWritten
<1>3. /\ watermark \in Seq(Contents) /\ anchor \in Anchors \cup {None} /\ shipped \subseteq Anchors
      /\ prune \in {None} \cup Deletes \cup Commits
      /\ verif \in [Verifiers -> {None} \cup Verifications]
      /\ now \in Nat /\ damage \in Nat /\ pruned \in BOOLEAN
  BY <1>1 DEF Init, Genesis
<1> QED BY <1>2, <1>3 DEF TypeInv, TypeOK, LogOK

LEMMA AlwaysTypeInv == Spec => []TypeInv
BY TypeInit, TypeStep, PTL DEF Spec

(* The tables, the anchors, the verifications and the retention            *)
(* transaction keep their types, and the log its order: a row never takes  *)
(* a seq again (NewRow, PruneCommit).                                      *)
THEOREM TypeCorrect == Spec => []TypeOK
<1>1. TypeInv => TypeOK
  BY DEF TypeInv
<1> QED BY <1>1, AlwaysTypeInv, PTL
-----------------------------------------------------------------------------
(* What a verification that passes shows.                                  *)

PrefixOf(r, l) == Len(r) <= Len(l) /\ \A i \in 1..Len(r) : r[i] = l[i]

Extends(w, x) == \A i \in DOMAIN w : i \in DOMAIN x /\ x[i] = w[i]

Active(c) == c.pc \notin {"none", "done"}

LinksPassed(c) ==
    c.pc \in {"anchor", "prefix", "store", "external"} \/ (c.pc = "done" /\ c.ok)

AnchorPassed(c) == c.pc \in {"store", "external"} \/ (c.pc = "done" /\ c.ok)

(* Nothing overtook the verification: its rows are still the first ones.   *)
Current(c, l) ==
    /\ Active(c) => PrefixOf(c.rows, l)
    /\ AnchorPassed(c) /\ c.against # None /\ ~c.skipped => Holds(c.rows, c.against)
    /\ c.pc = "done" /\ c.ok /\ c.ext # None => Holds(c.rows, c.ext)

Sound(c, l, w) ==
    c # None =>
      /\ AsWritten(c.rows, w)
      /\ LinksPassed(c) => \E wm \in Seq(Contents) : Linked(c.rows, wm)
      /\ c.pc \in {"links", "anchor"} => c.against = None
      /\ c.pc = "prefix" => c.against # None /\ ~Truncated(c.rows, c.against)
      /\ c.pc = "store" => c.ext = None
      /\ c.pc = "external" => c.ext # None
      /\ ~c.overtaken => Current(c, l)

EvidenceInv == TypeInv /\ \A v \in Verifiers : Sound(verif[v], log, written)

LEMMA AsWrittenLater ==
    ASSUME NEW rows, NEW w, NEW x, AsWritten(rows, w), Extends(w, x)
    PROVE  AsWritten(rows, x)
BY DEF AsWritten, Extends

LEMMA SoundLater ==
    ASSUME NEW c \in Held, NEW l, NEW m, NEW w, NEW x, Sound(c, l, w), Extends(w, x),
           Len(l) \in Nat, Len(m) \in Nat, PrefixOf(l, m)
    PROVE  Sound(c, m, x)
<1> SUFFICES ASSUME c # None PROVE Sound(c, m, x)
  BY DEF Sound
<1>1. c \in Verifications
  BY DEF Held
<1>2. AsWritten(c.rows, x)
  BY AsWrittenLater DEF Sound
<1>3. ASSUME PrefixOf(c.rows, l) PROVE PrefixOf(c.rows, m)
  <2>1. c.rows \in Seq(RowRecords)
    BY <1>1 DEF Verifications
  <2>2. Len(c.rows) \in Nat
    BY <2>1
  <2> QED BY <1>3, <2>2 DEF PrefixOf
<1>4. Current(c, l) => Current(c, m)
  BY <1>3 DEF Current
<1> QED BY <1>2, <1>4 DEF Sound

LEMMA SoundOvertaken ==
    ASSUME NEW c \in Held, NEW l, NEW m, NEW w, NEW x, Sound(c, l, w), Extends(w, x)
    PROVE  Sound(Overtaken(c), m, x)
<1> SUFFICES ASSUME c # None PROVE Sound(Overtaken(c), m, x)
  BY DEF Sound, Overtaken, None
<1>1. c \in Verifications
  BY DEF Held
<1>2. AsWritten(c.rows, x)
  BY AsWrittenLater DEF Sound
<1>3. CASE ~Active(c)
  <2>1. Overtaken(c) = c
    BY <1>3 DEF Overtaken, Active
  <2>2. Current(c, l) => Current(c, m)
    BY <1>3 DEF Current
  <2> QED BY <1>2, <2>1, <2>2 DEF Sound
<1>4. CASE Active(c)
  <2> DEFINE d == [c EXCEPT !.overtaken = TRUE]
  <2>1. Overtaken(c) = d
    BY <1>4 DEF Overtaken, Active
  <2>2. /\ d.pc = c.pc /\ d.rows = c.rows /\ d.against = c.against /\ d.ext = c.ext
        /\ d.ok = c.ok /\ d.overtaken
    BY <1>1 DEF Verifications
  <2> HIDE DEF d
  <2>3. LinksPassed(d) <=> LinksPassed(c)
    BY <2>2 DEF LinksPassed
  <2>4. Sound(d, m, x)
    BY <1>2, <2>2, <2>3 DEF Sound
  <2> QED BY <2>1, <2>4
<1> QED BY <1>3, <1>4

(* The anchored row was where the scan has it: nothing but appends since.  *)
LEMMA SameHeadHolds ==
    ASSUME TypeOK, NEW c \in Verifications, NEW a \in Anchors, Sound(c, log, written),
           LinksPassed(c), Active(c), ~c.overtaken, ~Truncated(c.rows, a), SameHead(a)
    PROVE  Holds(c.rows, a)
<1>1. c # None
  BY DEF Verifications, None
<1>2. PICK wm \in Seq(Contents) : Linked(c.rows, wm)
  BY <1>1 DEF Sound
<1>3. PrefixOf(c.rows, log)
  BY <1>1 DEF Sound, Current
<1>4. c.rows \in Seq(RowRecords) /\ a.count \in Nat \ {0} /\ Len(c.rows) \in Nat
  <2>1. c.rows \in Seq(RowRecords)
    BY DEF Verifications
  <2> QED BY <2>1 DEF Anchors
<1>5. a.count <= Len(c.rows)
  BY <1>4 DEF Truncated
<1>6. log[a.count].hash = a.head
  BY DEF SameHead, Offset
<1>7. c.rows[a.count].hash = a.head
  BY <1>3, <1>4, <1>5, <1>6 DEF PrefixOf
<1> QED BY <1>2, <1>4, <1>5, <1>7, LinkedHolds

(* A verification between its queries, and one that ends with a finding.   *)
LEMMA SoundActive ==
    ASSUME NEW c \in Held, NEW l, NEW w, Sound(c, l, w), Active(c)
    PROVE  /\ c \in Verifications
           /\ AsWritten(c.rows, w)
           /\ LinksPassed(c) => \E wm \in Seq(Contents) : Linked(c.rows, wm)
           /\ ~c.overtaken => PrefixOf(c.rows, l)
           /\ c.pc \in {"links", "anchor"} => c.against = None
           /\ c.pc = "prefix" => c.against \in Anchors /\ ~Truncated(c.rows, c.against)
           /\ c.pc = "store" => c.ext = None
           /\ c.pc = "external" => c.ext \in Anchors
           /\ AnchorPassed(c) /\ ~c.overtaken /\ c.against # None /\ ~c.skipped
                 => Holds(c.rows, c.against)
<1>1. c \in Verifications /\ c # None
  BY DEF Held, Active, None
<1>2. c.against \in Anchors \cup {None} /\ c.ext \in Anchors \cup {None}
  BY <1>1 DEF Verifications
<1> QED BY <1>1, <1>2 DEF Sound, Current

LEMMA SoundFound ==
    ASSUME NEW c \in Held, NEW l, NEW w, Sound(c, l, w), Active(c)
    PROVE  Sound([c EXCEPT !.pc = "done", !.ok = FALSE], l, w)
<1> DEFINE d == [c EXCEPT !.pc = "done", !.ok = FALSE]
<1>1. c \in Verifications /\ AsWritten(c.rows, w)
  BY SoundActive
<1>2. d.pc = "done" /\ d.rows = c.rows /\ ~d.ok
  BY <1>1 DEF Verifications
<1> HIDE DEF d
<1>3. Sound(d, l, w)
  BY <1>1, <1>2 DEF Sound, LinksPassed, AnchorPassed, Active, Current
<1> QED BY <1>3 DEF d

(* Past the anchor: ext decides what is next.                              *)
LEMMA SoundContinue ==
    ASSUME NEW c \in Held, NEW d, NEW l, NEW w, Sound(c, l, w), Active(c), LinksPassed(c),
           d.pc = IF c.ext = None THEN "store" ELSE "external",
           d.rows = c.rows, d.ext = c.ext, d.overtaken = c.overtaken,
           ~c.overtaken /\ d.against # None /\ ~d.skipped => Holds(c.rows, d.against)
    PROVE  Sound(d, l, w)
<1>1. /\ AsWritten(c.rows, w) /\ \E wm \in Seq(Contents) : Linked(c.rows, wm)
      /\ ~c.overtaken => PrefixOf(c.rows, l)
  BY SoundActive
<1>2. d.pc \in {"store", "external"} /\ (d.pc = "store" <=> d.ext = None)
  OBVIOUS
<1>3. Current(d, l) \/ d.overtaken
  BY <1>1, <1>2 DEF Current, AnchorPassed
<1> QED BY <1>1, <1>2, <1>3 DEF Sound

LEMMA SoundOwnStep ==
    ASSUME EvidenceInv, NEW v \in Verifiers,
           \/ VerifyLinks(v) \/ VerifyAnchor(v) \/ VerifyPrefix(v) \/ VerifyEnd(v)
           \/ CheckExternal(v) \/ \E ext \in shipped \cup {None} : VerifyScan(v, ext)
    PROVE  \E d : Move(v, d) /\ Sound(d, log, written)
<1> DEFINE c == verif[v]
           found == [c EXCEPT !.pc = "done", !.ok = FALSE]
<1>1. TypeOK /\ LogOK /\ Sound(c, log, written) /\ c \in Held
  BY DEF EvidenceInv, TypeInv, TypeOK, Held
<1>2. watermark \in Seq(Contents) /\ anchor \in Anchors \cup {None}
  BY <1>1 DEF TypeOK
<1>3. Continue(v) = IF c.ext = None THEN "store" ELSE "external"
  BY DEF Continue
<1>4. Active(c) => /\ Sound(found, log, written)
                   /\ c \in Verifications
  BY <1>1, SoundFound, SoundActive
<1>5. CASE VerifyLinks(v)
  <2>1. c.pc = "links" /\ Active(c)
    BY <1>5 DEF VerifyLinks, Active
  <2>2. CASE Linked(c.rows, watermark)
    <3> DEFINE d == [c EXCEPT !.pc = "anchor"]
    <3>1. /\ d.pc = "anchor" /\ d.rows = c.rows /\ d.against = c.against
          /\ d.overtaken = c.overtaken
      BY <1>4, <2>1 DEF Verifications
    <3>2. Move(v, d)
      BY <1>5, <2>2 DEF VerifyLinks
    <3>3. AsWritten(c.rows, written) /\ c.against = None
          /\ (~c.overtaken => PrefixOf(c.rows, log))
      BY <1>1, <2>1, SoundActive
    <3> HIDE DEF d, c
    <3>4. Sound(d, log, written)
      BY <1>2, <2>2, <3>1, <3>3 DEF Sound, AnchorPassed, Current
    <3> QED BY <3>2, <3>4
  <2>3. CASE ~Linked(c.rows, watermark)
    BY <1>4, <1>5, <2>1, <2>3 DEF VerifyLinks, Found
  <2> QED BY <2>2, <2>3
<1>6. CASE VerifyAnchor(v)
  <2>1. c.pc = "anchor" /\ Active(c) /\ LinksPassed(c)
    BY <1>6 DEF VerifyAnchor, Active, LinksPassed
  <2>2. /\ AsWritten(c.rows, written) /\ c.against = None
        /\ \E wm \in Seq(Contents) : Linked(c.rows, wm)
        /\ ~c.overtaken => PrefixOf(c.rows, log)
    BY <1>1, <2>1, SoundActive
  <2>3. CASE anchor = None
    <3> DEFINE d == [c EXCEPT !.pc = Continue(v)]
    <3>1. /\ d.pc = Continue(v) /\ d.rows = c.rows /\ d.against = c.against
          /\ d.overtaken = c.overtaken /\ d.ext = c.ext
      BY <1>4, <2>1 DEF Verifications
    <3>2. Move(v, d)
      BY <1>6, <2>3 DEF VerifyAnchor
    <3> HIDE DEF d, c
    <3>3. Sound(d, log, written)
      BY <1>1, <1>3, <2>1, <2>2, <3>1, SoundContinue
    <3> QED BY <3>2, <3>3
  <2>4. CASE anchor # None /\ Truncated(c.rows, anchor)
    BY <1>4, <1>6, <2>1, <2>4 DEF VerifyAnchor, Found
  <2>5. CASE anchor # None /\ ~Truncated(c.rows, anchor)
    <3> DEFINE d == [c EXCEPT !.pc = "prefix", !.against = anchor]
    <3>1. /\ d.pc = "prefix" /\ d.rows = c.rows /\ d.against = anchor
          /\ d.overtaken = c.overtaken
      BY <1>4, <2>1 DEF Verifications
    <3>2. Move(v, d)
      BY <1>6, <2>5 DEF VerifyAnchor
    <3> HIDE DEF d, c
    <3>3. Sound(d, log, written)
      BY <2>2, <2>5, <3>1 DEF Sound, AnchorPassed, Current
    <3> QED BY <3>2, <3>3
  <2> QED BY <2>3, <2>4, <2>5
<1>7. CASE VerifyPrefix(v)
  <2> DEFINE a == c.against
             d == [c EXCEPT !.pc = Continue(v)]
             e == [c EXCEPT !.pc = Continue(v), !.skipped = TRUE]
  <2>1. c.pc = "prefix" /\ Active(c) /\ LinksPassed(c)
    BY <1>7 DEF VerifyPrefix, Active, LinksPassed
  <2>2. c \in Verifications /\ a \in Anchors /\ ~Truncated(c.rows, a)
    BY <1>1, <2>1, SoundActive
  <2>3. /\ d.pc = Continue(v) /\ d.rows = c.rows /\ d.against = a
        /\ d.overtaken = c.overtaken /\ d.ext = c.ext
    BY <2>2 DEF Verifications
  <2>4. /\ e.pc = Continue(v) /\ e.rows = c.rows /\ e.skipped = TRUE
        /\ e.overtaken = c.overtaken /\ e.ext = c.ext
    BY <2>2 DEF Verifications
  <2>5. \/ SameHead(a) /\ Move(v, d)
        \/ Move(v, found) \/ Move(v, e)
    BY <1>7 DEF VerifyPrefix, Found
  <2> HIDE DEF d, e, c, a, found
  <2>6. SameHead(a) /\ ~c.overtaken => Holds(c.rows, a)
    BY <1>1, <2>1, <2>2, SameHeadHolds
  <2>7. SameHead(a) => Sound(d, log, written)
    BY <1>1, <1>3, <2>1, <2>3, <2>6, SoundContinue
  <2>8. Sound(e, log, written)
    BY <1>1, <1>3, <2>1, <2>4, SoundContinue
  <2> QED BY <1>4, <2>1, <2>5, <2>7, <2>8
<1>8. CASE VerifyEnd(v)
  BY <1>8 DEF VerifyEnd, Sound
<1>9. CASE CheckExternal(v)
  <2> DEFINE a == c.ext
             d == [c EXCEPT !.pc = "done"]
  <2>1. c.pc = "external" /\ Active(c) /\ LinksPassed(c) /\ AnchorPassed(c)
    BY <1>9 DEF CheckExternal, Active, LinksPassed, AnchorPassed
  <2>2. /\ c \in Verifications /\ a \in Anchors /\ AsWritten(c.rows, written)
        /\ \E wm \in Seq(Contents) : Linked(c.rows, wm)
        /\ ~c.overtaken /\ c.against # None /\ ~c.skipped => Holds(c.rows, c.against)
    BY <1>1, <2>1, SoundActive
  <2>3. /\ d.pc = "done" /\ d.rows = c.rows /\ d.against = c.against /\ d.ext = a
        /\ d.overtaken = c.overtaken /\ d.skipped = c.skipped
    BY <2>2 DEF Verifications
  <2>4. \/ SameHead(a) /\ ~Truncated(c.rows, a) /\ Move(v, d)
        \/ Move(v, found)
    BY <1>9 DEF CheckExternal, Found
  <2> HIDE DEF d, c, a, found
  <2>5. SameHead(a) /\ ~Truncated(c.rows, a) /\ ~c.overtaken => Holds(c.rows, a)
    BY <1>1, <2>1, <2>2, SameHeadHolds
  <2>6. SameHead(a) /\ ~Truncated(c.rows, a) => Sound(d, log, written)
    BY <2>2, <2>3, <2>5 DEF Sound, Active, Current
  <2> QED BY <1>4, <2>1, <2>4, <2>6
<1>10. CASE \E ext \in shipped \cup {None} : VerifyScan(v, ext)
  <2>1. PICK ext \in shipped \cup {None} : VerifyScan(v, ext)
    BY <1>10
  <2> DEFINE d == [pc |-> "links", ext |-> ext, rows |-> log, against |-> None,
                   ok |-> TRUE, overtaken |-> FALSE, skipped |-> FALSE]
  <2>2. Move(v, d)
    BY <2>1 DEF VerifyScan
  <2>3. AsWritten(log, written) /\ Len(log) \in Nat
    BY <1>1 DEF LogOK
  <2>4. PrefixOf(log, log)
    BY <2>3 DEF PrefixOf
  <2>5. Sound(d, log, written)
    BY <2>3, <2>4 DEF Sound, LinksPassed, AnchorPassed, Active, Current
  <2> QED BY <2>2, <2>5
<1> QED BY <1>5, <1>6, <1>7, <1>8, <1>9, <1>10

LEMMA SoundStore ==
    ASSUME EvidenceInv, NEW v \in Verifiers, NEW signed, StoreAnchor(v, signed)
    PROVE  \A u \in Verifiers : Sound(verif'[u], log, written)
<1> SUFFICES ASSUME NEW u \in Verifiers PROVE Sound(verif'[u], log, written)
  OBVIOUS
<1> DEFINE c == verif[v]
<1>1. \A x \in Verifiers : Sound(verif[x], log, written) /\ verif[x] \in Held
  BY DEF EvidenceInv, TypeInv, TypeOK, Held
<1>2. CASE u = v
  <2> DEFINE d == [c EXCEPT !.pc = "done"]
  <2>1. c.pc = "store" /\ Active(c) /\ LinksPassed(c) /\ AnchorPassed(c)
    BY DEF StoreAnchor, Active, LinksPassed, AnchorPassed
  <2>2. verif'[v] = d
    BY DEF StoreAnchor
  <2> HIDE DEF c, d
  <2>3. Sound(c, log, written) /\ c \in Held
    BY <1>1 DEF c
  <2>4. /\ c \in Verifications /\ c.ext = None /\ AsWritten(c.rows, written)
        /\ \E wm \in Seq(Contents) : Linked(c.rows, wm)
        /\ ~c.overtaken /\ c.against # None /\ ~c.skipped => Holds(c.rows, c.against)
    BY <2>1, <2>3, SoundActive
  <2>5. /\ d.pc = "done" /\ d.rows = c.rows /\ d.against = c.against /\ d.ext = c.ext
        /\ d.overtaken = c.overtaken /\ d.skipped = c.skipped
    BY <2>4 DEF Verifications, d
  <2>6. Sound(d, log, written)
    BY <2>4, <2>5 DEF Sound, Active, Current
  <2> QED BY <1>2, <2>2, <2>6
<1>3. CASE u # v
  <2>1. verif'[u] = Overtaken(verif[u])
    BY <1>3 DEF StoreAnchor
  <2>2. Extends(written, written)
    BY DEF Extends
  <2>3. Sound(Overtaken(verif[u]), log, written)
    BY <1>1, <2>2, SoundOvertaken
  <2> QED BY <2>1, <2>3
<1> QED BY <1>2, <1>3

LEMMA EvidenceStep ==
    ASSUME EvidenceInv, [Next]_vars
    PROVE  EvidenceInv'
<1>1. TypeInv /\ TypeOK /\ LogOK
  BY DEF EvidenceInv, TypeInv
<1>2. \A v \in Verifiers : Sound(verif[v], log, written) /\ verif[v] \in Held
  BY <1>1 DEF EvidenceInv, TypeOK, Held
<1>3. TypeInv'
  BY <1>1, TypeStep
<1>4. Extends(written, written)
  BY DEF Extends
<1> DEFINE Goal == \A v \in Verifiers : Sound(verif'[v], log', written')
<1>5. CASE \E ev \in Events, lag \in 0..MaxLag : AppendEvent(ev, lag)
  <2>1. PICK ev \in Events, lag \in 0..MaxLag : AppendEvent(ev, lag)
    BY <1>5
  <2>2. now - lag \in Nat /\ verif' = verif
    BY <1>1, <2>1, AuditAssumption DEF AppendEvent, TypeOK
  <2>3. Appends(ev, now - lag)
    BY <2>1 DEF AppendEvent, Appends
  <2>4. NewRow(ev, now - lag) \in RowRecords
    BY <1>1, <2>2, NewRowType
  <2>5. /\ Len(log) \in Nat /\ Len(log') = Len(log) + 1 /\ \A i \in 1..Len(log) : log'[i] = log[i]
        /\ Len(written) \in Nat /\ Len(written') = Len(written) + 1
        /\ DOMAIN written = 1..Len(written) /\ DOMAIN written' = 1..(Len(written) + 1)
        /\ \A i \in 1..Len(written) : written'[i] = written[i]
    BY <1>1, <2>3, <2>4 DEF Appends, LogOK
  <2>6. PrefixOf(log, log') /\ Extends(written, written') /\ Len(log') \in Nat
    BY <2>5 DEF PrefixOf, Extends
  <2>7. Goal
    BY <1>2, <2>2, <2>5, <2>6, SoundLater
  <2> QED BY <1>3, <2>7 DEF EvidenceInv
<1>6. ASSUME log' = log, written' = written, verif' = verif
      PROVE  Goal
  BY <1>2, <1>6
<1>7. CASE Tick \/ UNCHANGED vars
  BY <1>3, <1>6, <1>7 DEF Tick, vars, EvidenceInv
<1>8. CASE \E v \in Verifiers : VerifyStep(v)
  <2>1. PICK v \in Verifiers : VerifyStep(v)
    BY <1>8
  <2>2. CASE StoreAnchor(v, FALSE) \/ StoreAnchor(v, TRUE)
    <3>1. log' = log /\ written' = written
      BY <2>2 DEF StoreAnchor
    <3>2. Goal
      BY <2>2, <3>1, SoundStore
    <3> QED BY <1>3, <3>2 DEF EvidenceInv
  <2>3. CASE ~(StoreAnchor(v, FALSE) \/ StoreAnchor(v, TRUE))
    <3>1. PICK d : Move(v, d) /\ Sound(d, log, written)
      BY <2>1, <2>3, SoundOwnStep DEF VerifyStep, VerifyCommand, AnchorCommand
    <3>2. Goal
      BY <1>1, <1>2, <3>1 DEF Move, TypeOK
    <3> QED BY <1>3, <3>2 DEF EvidenceInv
  <2> QED BY <2>2, <2>3
<1>9. CASE MaintenancePrune
  <2>1. CASE PruneRead \/ PruneDelete \/ PruneAbort
    BY <1>3, <1>6, <2>1 DEF PruneRead, PruneDelete, PruneAbort, EvidenceInv
  <2>2. CASE PruneCommit /\ prune.doomed = {}
    <3>1. log' = log
      <4>1. {i \in DOMAIN log : log[i].seq \notin prune.doomed} = DOMAIN log
        BY <2>2
      <4>2. RowsAt(log, DOMAIN log) = log
        BY <1>1, SelectedAll DEF LogOK
      <4> QED BY <2>2, <4>1, <4>2 DEF PruneCommit
    <3> QED BY <1>3, <1>6, <2>2, <3>1 DEF PruneCommit, EvidenceInv
  <2>3. CASE PruneCommit /\ prune.doomed # {}
    <3>1. written' = written /\ \A v \in Verifiers : verif'[v] = Overtaken(verif[v])
      BY <2>3 DEF PruneCommit
    <3>2. Goal
      BY <1>2, <1>4, <3>1, SoundOvertaken
    <3> QED BY <1>3, <3>2 DEF EvidenceInv
  <2> QED BY <1>9, <2>1, <2>2, <2>3 DEF MaintenancePrune
<1>10. CASE DamageStep
  <2>1. written' = written /\ \A v \in Verifiers : verif'[v] = Overtaken(verif[v])
    BY <1>10, DamageSteps
  <2>2. Goal
    BY <1>2, <1>4, <2>1, SoundOvertaken
  <2> QED BY <1>3, <2>2 DEF EvidenceInv
<1> QED BY <1>5, <1>7, <1>8, <1>9, <1>10 DEF Next

(* A scanned row whose link holds is the row that was appended.            *)
LEMMA ScannedAsWritten ==
    ASSUME TypeInv, NEW rows \in Seq(RowRecords), AsWritten(rows, written),
           NEW wm \in Seq(Contents), Linked(rows, wm), NEW i \in DOMAIN rows
    PROVE  rows[i] = written[rows[i].seq]
<1> DEFINE r == rows[i]
           w == written[r.seq]
<1>1. r \in RowRecords
  OBVIOUS
<1>2. r.seq \in DOMAIN written /\ SameRow(r, w)
  BY DEF AsWritten
<1>3. w \in RowRecords /\ w.hash = Append(w.prev, Content(w))
  BY <1>2 DEF TypeInv, LogOK, RowHash
<1>4. r.hash = Append(r.prev, Content(r))
  BY DEF Linked, RowHash
<1>5. Content(r) \in Contents /\ Content(w) \in Contents /\ r.prev \in Seq(Contents)
  BY <1>1, <1>3 DEF Content, Contents, RowRecords
<1>6. Content(r) = Content(w)
  <2> HIDE DEF r, w
  <2>1. Append(r.prev, Content(r)) = Append(r.prev, Content(w))
    BY <1>2, <1>3, <1>4 DEF SameRow
  <2> QED BY <1>5, <2>1, AppendInjective
<1>7. r.ev = w.ev
  BY <1>6 DEF Content
<1> HIDE DEF r, w
<1>8. r = w
  <2>1. \A x \in RowRecords :
           x = [seq |-> x.seq, ev |-> x.ev, created |-> x.created, prev |-> x.prev, hash |-> x.hash]
    BY DEF RowRecords
  <2>2. /\ r.seq = w.seq /\ r.prev = w.prev /\ r.hash = w.hash
        /\ r.created = w.created /\ r.ev = w.ev
    BY <1>2, <1>7 DEF SameRow
  <2> QED BY <1>1, <1>3, <2>1, <2>2
<1> QED BY <1>8 DEF r, w

LEMMA EvidenceIsTamperEvident == EvidenceInv => TamperEvident
<1> SUFFICES ASSUME EvidenceInv, NEW v \in Verifiers, Passed(v)
             PROVE  /\ \A i \in DOMAIN verif[v].rows :
                          verif[v].rows[i] = written[verif[v].rows[i].seq]
                    /\ ~verif[v].overtaken =>
                         /\ verif[v].against # None /\ ~verif[v].skipped
                               => Holds(verif[v].rows, verif[v].against)
                         /\ verif[v].ext # None /\ verif[v].pc = "done"
                               => Holds(verif[v].rows, verif[v].ext)
  BY DEF TamperEvident
<1> DEFINE c == verif[v]
<1>1. TypeInv /\ Sound(c, log, written) /\ c \in Held
  BY DEF EvidenceInv, TypeInv, TypeOK, Held
<1>2. c.pc \in {"store", "done"} /\ c.ok
  BY DEF Passed
<1>3. LinksPassed(c) /\ AnchorPassed(c) /\ c # None
  BY <1>2 DEF LinksPassed, AnchorPassed, None
<1> HIDE DEF c
<1>4. c.rows \in Seq(RowRecords)
  BY <1>1, <1>3 DEF Held, Verifications
<1>5. AsWritten(c.rows, written) /\ \E wm \in Seq(Contents) : Linked(c.rows, wm)
  BY <1>1, <1>3 DEF Sound
<1>6. \A i \in DOMAIN c.rows : c.rows[i] = written[c.rows[i].seq]
  BY <1>1, <1>4, <1>5, ScannedAsWritten
<1>7. ~c.overtaken => Current(c, log)
  BY <1>1, <1>3 DEF Sound
<1>8. ~c.overtaken => /\ c.against # None /\ ~c.skipped => Holds(c.rows, c.against)
                      /\ c.ext # None /\ c.pc = "done" => Holds(c.rows, c.ext)
  BY <1>2, <1>3, <1>7 DEF Current
<1> QED BY <1>6, <1>8 DEF c

LEMMA EvidenceInit == Init => EvidenceInv
BY TypeInit DEF Init, EvidenceInv, Sound

(* A verification that found nothing has read each row as it was appended, *)
(* and, unless it was overtaken, the rows its anchor was taken of (Verify, *)
(* CheckAgainstAnchor).                                                    *)
THEOREM PassedIsEvidence == Spec => []TamperEvident
<1>1. Spec => []EvidenceInv
  BY EvidenceInit, EvidenceStep, PTL DEF Spec
<1> QED BY <1>1, EvidenceIsTamperEvident, PTL
-----------------------------------------------------------------------------
(* A log that nobody touched: no step of the program makes a verification  *)
(* that nothing overtook find something.                                   *)

Untouched == damage = 0 /\ ~pruned

Known(a, l) == a.count \in DOMAIN l /\ l[a.count].hash = a.head

Calm(c, l, latest) ==
    c # None =>
      /\ PrefixOf(c.rows, l)
      /\ c.against # None => Known(c.against, l)
      /\ c.ext # None => Known(c.ext, l)
      /\ Active(c) /\ ~c.overtaken =>
            /\ latest # None => latest.count <= Len(c.rows)
            /\ c.ext # None => c.ext.count <= Len(c.rows)
      /\ c.ok \/ (c.pc = "done" /\ c.overtaken)

CalmState ==
    /\ Linked(log, Genesis) /\ watermark = Genesis
    /\ \A a \in shipped \cup {anchor} : a # None => Known(a, log)
    /\ \A v \in Verifiers : Calm(verif[v], log, anchor)

CalmInv == EvidenceInv /\ (Untouched => CalmState)

LEMMA KnownLater ==
    ASSUME NEW a \in Anchors, NEW l \in Seq(RowRecords), NEW m \in Seq(RowRecords),
           PrefixOf(l, m), Known(a, l)
    PROVE  Known(a, m)
<1>1. Len(l) \in Nat /\ Len(m) \in Nat /\ DOMAIN l = 1..Len(l) /\ DOMAIN m = 1..Len(m)
  OBVIOUS
<1> QED BY <1>1 DEF Known, PrefixOf

LEMMA CalmLater ==
    ASSUME NEW c \in Held, NEW l \in Seq(RowRecords), NEW m \in Seq(RowRecords), NEW latest,
           PrefixOf(l, m), Calm(c, l, latest)
    PROVE  Calm(c, m, latest)
<1> SUFFICES ASSUME c # None PROVE Calm(c, m, latest)
  BY DEF Calm
<1>1. /\ c.rows \in Seq(RowRecords) /\ c.ext \in Anchors \cup {None}
      /\ c.against \in Anchors \cup {None}
  BY DEF Held, Verifications
<1>2. PrefixOf(c.rows, m)
  <2>1. Len(c.rows) \in Nat /\ Len(l) \in Nat /\ Len(m) \in Nat
    BY <1>1
  <2>2. PrefixOf(c.rows, l)
    BY DEF Calm
  <2> QED BY <2>1, <2>2 DEF PrefixOf
<1>3. /\ c.against # None => Known(c.against, m)
      /\ c.ext # None => Known(c.ext, m)
  BY <1>1, KnownLater DEF Calm
<1> QED BY <1>2, <1>3 DEF Calm

(* Whoever was overtaken answers for nothing.                              *)
LEMMA CalmOvertaken ==
    ASSUME NEW c \in Held, NEW l, NEW latest, NEW other, Calm(c, l, latest)
    PROVE  Calm(Overtaken(c), l, other)
<1> SUFFICES ASSUME c # None PROVE Calm(Overtaken(c), l, other)
  BY DEF Calm, Overtaken, None
<1>1. c \in Verifications
  BY DEF Held
<1>2. CASE ~Active(c)
  <2>1. Overtaken(c) = c
    BY <1>2 DEF Overtaken, Active
  <2> QED BY <1>2, <2>1 DEF Calm
<1>3. CASE Active(c)
  <2> DEFINE d == [c EXCEPT !.overtaken = TRUE]
  <2>1. Overtaken(c) = d
    BY <1>3 DEF Overtaken, Active
  <2>2. /\ d.pc = c.pc /\ d.rows = c.rows /\ d.against = c.against /\ d.ext = c.ext
        /\ d.ok = c.ok /\ d.overtaken = TRUE
    BY <1>1 DEF Verifications
  <2>3. c.ok
    BY <1>3 DEF Calm, Active
  <2> HIDE DEF d
  <2>4. Calm(d, l, other)
    BY <2>2, <2>3 DEF Calm
  <2> QED BY <2>1, <2>4
<1> QED BY <1>2, <1>3

LEMMA LinkedScan ==
    ASSUME NEW rows \in Seq(RowRecords), NEW l \in Seq(RowRecords), NEW wm,
           PrefixOf(rows, l), Linked(l, wm)
    PROVE  Linked(rows, wm)
<1>1. /\ Len(rows) \in Nat /\ Len(l) \in Nat /\ Len(rows) <= Len(l)
      /\ DOMAIN rows = 1..Len(rows) /\ DOMAIN l = 1..Len(l)
  BY DEF PrefixOf
<1> SUFFICES ASSUME NEW i \in 1..Len(rows)
             PROVE  /\ rows[i].prev = IF i = 1 THEN wm ELSE rows[i - 1].hash
                    /\ rows[i].hash = RowHash(rows[i].prev, Content(rows[i]))
  BY <1>1 DEF Linked
<1>2. i \in DOMAIN l /\ rows[i] = l[i]
  BY <1>1 DEF PrefixOf
<1>3. i # 1 => rows[i - 1] = l[i - 1]
  BY <1>1 DEF PrefixOf
<1> QED BY <1>2, <1>3 DEF Linked

LEMMA LinkedAppend ==
    ASSUME NEW l \in Seq(RowRecords), NEW r \in RowRecords, Linked(l, Genesis),
           r.prev = PrevHash(l), r.hash = RowHash(r.prev, Content(r))
    PROVE  Linked(Append(l, r), Genesis)
<1> DEFINE m == Append(l, r)
<1>1. /\ Len(l) \in Nat /\ DOMAIN l = 1..Len(l) /\ DOMAIN m = 1..(Len(l) + 1)
      /\ m[Len(l) + 1] = r /\ \A i \in 1..Len(l) : m[i] = l[i]
      /\ l = << >> <=> Len(l) = 0
  OBVIOUS
<1> HIDE DEF m
<1> SUFFICES ASSUME NEW i \in 1..(Len(l) + 1)
             PROVE  /\ m[i].prev = IF i = 1 THEN Genesis ELSE m[i - 1].hash
                    /\ m[i].hash = RowHash(m[i].prev, Content(m[i]))
  BY <1>1 DEF Linked, m
<1>2. CASE i = Len(l) + 1
  <2>1. i # 1 => m[i - 1] = l[Len(l)]
    BY <1>1, <1>2
  <2>2. m[i] = r
    BY <1>1, <1>2
  <2>3. PrevHash(l) = IF i = 1 THEN Genesis ELSE l[Len(l)].hash
    BY <1>1, <1>2 DEF PrevHash
  <2> QED BY <2>1, <2>2, <2>3
<1>3. CASE i # Len(l) + 1
  <2>1. i \in DOMAIN l /\ m[i] = l[i] /\ (i # 1 => m[i - 1] = l[i - 1])
    BY <1>1, <1>3
  <2> QED BY <2>1 DEF Linked
<1> QED BY <1>2, <1>3

LEMMA CalmOwnStep ==
    ASSUME EvidenceInv, CalmState, NEW v \in Verifiers,
           \/ VerifyLinks(v) \/ VerifyAnchor(v) \/ VerifyPrefix(v) \/ VerifyEnd(v)
           \/ CheckExternal(v) \/ \E ext \in shipped \cup {None} : VerifyScan(v, ext)
    PROVE  \E d : Move(v, d) /\ Calm(d, log, anchor)
<1> DEFINE c == verif[v]
           found == [c EXCEPT !.pc = "done", !.ok = FALSE]
<1>1. TypeOK /\ LogOK /\ Sound(c, log, written) /\ c \in Held /\ Calm(c, log, anchor)
  BY DEF EvidenceInv, TypeInv, TypeOK, Held, CalmState
<1>2. anchor \in Anchors \cup {None} /\ log \in Seq(RowRecords) /\ shipped \subseteq Anchors
  BY <1>1 DEF TypeOK
<1>3. Active(c) => /\ c \in Verifications /\ c # None /\ c.rows \in Seq(RowRecords)
                   /\ PrefixOf(c.rows, log) /\ c.ok
                   /\ c.against # None => Known(c.against, log)
                   /\ c.ext # None => Known(c.ext, log)
  BY <1>1 DEF Held, Active, None, Calm, Verifications
<1>4. CASE VerifyLinks(v)
  <2> DEFINE d == [c EXCEPT !.pc = "anchor"]
  <2>1. Active(c)
    BY <1>4 DEF VerifyLinks, Active
  <2>2. Linked(c.rows, watermark)
    BY <1>2, <1>3, <2>1, LinkedScan DEF CalmState
  <2>3. Move(v, d)
    BY <1>4, <2>2 DEF VerifyLinks
  <2>4. /\ d.rows = c.rows /\ d.against = c.against /\ d.ext = c.ext
        /\ d.overtaken = c.overtaken /\ d.ok = c.ok
    BY <1>3, <2>1 DEF Verifications
  <2> HIDE DEF c, d
  <2>5. Calm(d, log, anchor)
    BY <1>1, <1>3, <2>1, <2>4 DEF Calm
  <2> QED BY <2>3, <2>5
<1>5. CASE VerifyAnchor(v)
  <2>1. c.pc = "anchor" /\ Active(c)
    BY <1>5 DEF VerifyAnchor, Active
  <2>2. CASE anchor = None
    <3> DEFINE d == [c EXCEPT !.pc = Continue(v)]
    <3>1. Move(v, d)
      BY <1>5, <2>2 DEF VerifyAnchor
    <3>2. /\ d.rows = c.rows /\ d.against = c.against /\ d.ext = c.ext
          /\ d.overtaken = c.overtaken /\ d.ok = c.ok
      BY <1>3, <2>1 DEF Verifications
    <3> HIDE DEF c, d
    <3>3. Calm(d, log, anchor)
      BY <1>1, <1>3, <2>1, <3>2 DEF Calm
    <3> QED BY <3>1, <3>3
  <2>3. CASE anchor # None /\ Truncated(c.rows, anchor)
    <3>1. Move(v, found)
      BY <1>5, <2>3 DEF VerifyAnchor, Found
    <3>2. /\ found.rows = c.rows /\ found.against = c.against /\ found.ext = c.ext
          /\ found.overtaken = c.overtaken /\ found.pc = "done"
      BY <1>3, <2>1 DEF Verifications
    <3>3. c.overtaken
      <4>1. Len(c.rows) \in Nat /\ anchor.count \in Nat
        BY <1>2, <1>3, <2>1, <2>3 DEF Anchors
      <4> QED BY <1>1, <1>3, <2>1, <2>3, <4>1 DEF Calm, Truncated
    <3> HIDE DEF c, found
    <3>4. Calm(found, log, anchor)
      BY <1>3, <2>1, <3>2, <3>3 DEF Calm, Active
    <3> QED BY <3>1, <3>4
  <2>4. CASE anchor # None /\ ~Truncated(c.rows, anchor)
    <3> DEFINE d == [c EXCEPT !.pc = "prefix", !.against = anchor]
    <3>1. Move(v, d)
      BY <1>5, <2>4 DEF VerifyAnchor
    <3>2. /\ d.rows = c.rows /\ d.against = anchor /\ d.ext = c.ext
          /\ d.overtaken = c.overtaken /\ d.ok = c.ok
      BY <1>3, <2>1 DEF Verifications
    <3>3. Known(anchor, log)
      BY <2>4 DEF CalmState
    <3> HIDE DEF c, d
    <3>4. Calm(d, log, anchor)
      BY <1>1, <1>3, <2>1, <3>2, <3>3 DEF Calm
    <3> QED BY <3>1, <3>4
  <2> QED BY <2>2, <2>3, <2>4
<1>6. CASE VerifyPrefix(v)
  <2> DEFINE d == [c EXCEPT !.pc = Continue(v)]
             e == [c EXCEPT !.pc = Continue(v), !.skipped = TRUE]
  <2>1. c.pc = "prefix" /\ Active(c)
    BY <1>6 DEF VerifyPrefix, Active
  <2>2. c.against # None
    BY <1>1, <1>3, <2>1 DEF Sound
  <2>3. SameHead(c.against)
    BY <1>3, <2>1, <2>2 DEF Known, SameHead, Offset
  <2>4. Move(v, d) \/ Move(v, e)
    BY <1>6, <2>3 DEF VerifyPrefix
  <2>5. /\ d.rows = c.rows /\ d.against = c.against /\ d.ext = c.ext
        /\ d.overtaken = c.overtaken /\ d.ok = c.ok
    BY <1>3, <2>1 DEF Verifications
  <2>6. /\ e.rows = c.rows /\ e.against = c.against /\ e.ext = c.ext
        /\ e.overtaken = c.overtaken /\ e.ok = c.ok
    BY <1>3, <2>1 DEF Verifications
  <2> HIDE DEF c, d, e
  <2>7. Calm(d, log, anchor)
    BY <1>1, <1>3, <2>1, <2>5 DEF Calm
  <2>8. Calm(e, log, anchor)
    BY <1>1, <1>3, <2>1, <2>6 DEF Calm
  <2> QED BY <2>4, <2>7, <2>8
<1>7. CASE VerifyEnd(v)
  BY <1>7 DEF VerifyEnd, Calm
<1>8. CASE CheckExternal(v)
  <2> DEFINE d == [c EXCEPT !.pc = "done"]
  <2>1. c.pc = "external" /\ Active(c)
    BY <1>8 DEF CheckExternal, Active
  <2>2. c.ext # None /\ c.ext \in Anchors \cup {None}
    BY <1>1, <1>3, <2>1 DEF Sound, Verifications
  <2>3. SameHead(c.ext)
    BY <1>3, <2>1, <2>2 DEF Known, SameHead, Offset
  <2>4. Truncated(c.rows, c.ext) => c.overtaken
    <3>1. Len(c.rows) \in Nat /\ c.ext.count \in Nat
      BY <1>3, <2>1, <2>2 DEF Anchors
    <3> QED BY <1>1, <1>3, <2>1, <2>2, <3>1 DEF Calm, Truncated
  <2>5. Move(v, d) \/ (Truncated(c.rows, c.ext) /\ Move(v, found))
    BY <1>8, <2>3 DEF CheckExternal, Found
  <2>6. /\ found.rows = c.rows /\ found.against = c.against /\ found.ext = c.ext
        /\ found.overtaken = c.overtaken /\ found.pc = "done"
    BY <1>3, <2>1 DEF Verifications
  <2>7. /\ d.rows = c.rows /\ d.against = c.against /\ d.ext = c.ext
        /\ d.overtaken = c.overtaken /\ d.ok = c.ok
    BY <1>3, <2>1 DEF Verifications
  <2> HIDE DEF c, d, found
  <2>8. Calm(d, log, anchor)
    BY <1>1, <1>3, <2>1, <2>7 DEF Calm
  <2>9. Truncated(c.rows, c.ext) => Calm(found, log, anchor)
    BY <1>3, <2>1, <2>4, <2>6 DEF Calm, Active
  <2> QED BY <2>5, <2>8, <2>9
<1>9. CASE \E ext \in shipped \cup {None} : VerifyScan(v, ext)
  <2>1. PICK ext \in shipped \cup {None} : VerifyScan(v, ext)
    BY <1>9
  <2> DEFINE d == [pc |-> "links", ext |-> ext, rows |-> log, against |-> None,
                   ok |-> TRUE, overtaken |-> FALSE, skipped |-> FALSE]
  <2>2. Move(v, d)
    BY <2>1 DEF VerifyScan
  <2>3. PrefixOf(log, log)
    <3>1. Len(log) \in Nat
      BY <1>2
    <3> QED BY <3>1 DEF PrefixOf
  <2>4. \A a \in shipped \cup {anchor} : a # None => Known(a, log) /\ a.count <= Len(log)
    <3>1. Len(log) \in Nat /\ DOMAIN log = 1..Len(log)
      BY <1>2
    <3> QED BY <3>1 DEF CalmState, Known
  <2>5. Calm(d, log, anchor)
    BY <2>3, <2>4 DEF Calm
  <2> QED BY <2>2, <2>5
<1> QED BY <1>4, <1>5, <1>6, <1>7, <1>8, <1>9

LEMMA CalmStore ==
    ASSUME EvidenceInv, CalmState, NEW v \in Verifiers, NEW signed \in BOOLEAN,
           StoreAnchor(v, signed)
    PROVE  CalmState'
<1> DEFINE c == verif[v]
           rows == c.rows
           rec == [pc |-> "anchor", count |-> Len(rows), head |-> rows[Len(rows)].hash]
<1>1. \A u \in Verifiers : Calm(verif[u], log, anchor) /\ verif[u] \in Held
  BY DEF EvidenceInv, TypeInv, TypeOK, Held, CalmState
<1>2. c.pc = "store" /\ c \in Verifications /\ c # None /\ rows \in Seq(RowRecords)
  <2>1. c.pc = "store"
    BY DEF StoreAnchor
  <2> QED BY <1>1, <2>1 DEF Held, None, Verifications
<1>3. PrefixOf(rows, log)
  BY <1>1, <1>2 DEF Calm
<1>4. rows # << >> => Known(rec, log)
  <2>1. Len(rows) \in Nat /\ (rows # << >> => Len(rows) # 0)
    BY <1>2
  <2>2. log \in Seq(RowRecords)
    BY DEF EvidenceInv, TypeInv, TypeOK
  <2>3. Len(log) \in Nat /\ DOMAIN log = 1..Len(log)
    BY <2>2
  <2> QED BY <1>3, <2>1, <2>3 DEF Known, PrefixOf
<1>5. /\ IF rows = << >> THEN UNCHANGED <<anchor, shipped>>
         ELSE /\ anchor' = rec
              /\ shipped' = IF signed THEN shipped \cup {rec} ELSE shipped
      /\ log' = log /\ watermark' = watermark
  BY DEF StoreAnchor
<1>6. \A a \in shipped' \cup {anchor'} : a # None => Known(a, log)
  <2> HIDE DEF rec, rows
  <2> QED BY <1>4, <1>5 DEF CalmState
<1>7. ASSUME NEW u \in Verifiers
      PROVE  Calm(verif'[u], log, anchor')
  <2>1. CASE u = v
    <3> DEFINE d == [c EXCEPT !.pc = "done"]
    <3>1. verif'[v] = d
      BY DEF StoreAnchor
    <3>2. /\ d.rows = c.rows /\ d.against = c.against /\ d.ext = c.ext
          /\ d.ok = c.ok /\ d.pc = "done"
      BY <1>2 DEF Verifications
    <3>3. Calm(c, log, anchor)
      BY <1>1
    <3> HIDE DEF c, d
    <3>4. Calm(d, log, anchor')
      BY <1>2, <3>2, <3>3 DEF Calm, Active
    <3> QED BY <2>1, <3>1, <3>4
  <2>2. CASE u # v
    <3>1. verif'[u] = Overtaken(verif[u])
      BY <2>2 DEF StoreAnchor
    <3>2. Calm(Overtaken(verif[u]), log, anchor')
      BY <1>1, CalmOvertaken
    <3> QED BY <3>1, <3>2
  <2> QED BY <2>1, <2>2
<1> QED BY <1>5, <1>6, <1>7 DEF CalmState

LEMMA CalmStep ==
    ASSUME CalmInv, [Next]_vars
    PROVE  CalmInv'
<1>1. EvidenceInv /\ TypeInv /\ TypeOK /\ LogOK
  BY DEF CalmInv, EvidenceInv, TypeInv
<1>2. EvidenceInv'
  BY <1>1, EvidenceStep
<1> SUFFICES ASSUME Untouched' PROVE CalmState'
  BY <1>2 DEF CalmInv
<1>3. ASSUME UNCHANGED <<log, watermark, shipped, anchor, verif, damage, pruned>>
      PROVE  CalmState'
  BY <1>3 DEF CalmState, CalmInv, Untouched
<1>4. CASE \E ev \in Events, lag \in 0..MaxLag : AppendEvent(ev, lag)
  <2>1. PICK ev \in Events, lag \in 0..MaxLag : AppendEvent(ev, lag)
    BY <1>4
  <2> DEFINE r == NewRow(ev, now - lag)
  <2>2. /\ now - lag \in Nat /\ log' = Append(log, r)
        /\ UNCHANGED <<verif, watermark, anchor, shipped, damage, pruned>>
    BY <1>1, <2>1, AuditAssumption DEF AppendEvent, TypeOK
  <2>3. r \in RowRecords /\ r.hash = RowHash(r.prev, Content(r)) /\ r.prev = PrevHash(log)
    BY <1>1, <2>2, NewRowType DEF NewRow
  <2>4. CalmState
    BY <2>2 DEF CalmInv, Untouched
  <2> HIDE DEF r
  <2>5. log \in Seq(RowRecords) /\ log' \in Seq(RowRecords)
    BY <1>1, <2>2, <2>3 DEF LogOK
  <2>6. PrefixOf(log, log')
    <3>1. /\ Len(log) \in Nat /\ Len(log') = Len(log) + 1
          /\ \A i \in 1..Len(log) : log'[i] = log[i]
      BY <2>2, <2>3, <2>5
    <3> QED BY <3>1 DEF PrefixOf
  <2>7. Linked(log', Genesis)
    BY <2>2, <2>3, <2>4, <2>5, LinkedAppend DEF CalmState
  <2>8. \A a \in shipped \cup {anchor} : a # None => Known(a, log')
    BY <1>1, <2>4, <2>5, <2>6, KnownLater DEF CalmState, TypeOK
  <2>9. \A v \in Verifiers : Calm(verif[v], log', anchor)
    <3>1. \A v \in Verifiers : verif[v] \in Held /\ Calm(verif[v], log, anchor)
      BY <1>1, <2>4 DEF TypeOK, Held, CalmState
    <3> QED BY <2>5, <2>6, <3>1, CalmLater
  <2> QED BY <2>2, <2>4, <2>7, <2>8, <2>9 DEF CalmState
<1>5. CASE Tick \/ UNCHANGED vars
  BY <1>3, <1>5 DEF Tick, vars
<1>6. CASE \E v \in Verifiers : VerifyStep(v)
  <2>1. PICK v \in Verifiers : VerifyStep(v)
    BY <1>6
  <2>2. CASE StoreAnchor(v, FALSE) \/ StoreAnchor(v, TRUE)
    <3>1. CalmState
      BY <2>2 DEF CalmInv, Untouched, StoreAnchor
    <3> QED BY <1>1, <2>2, <3>1, CalmStore
  <2>3. CASE ~(StoreAnchor(v, FALSE) \/ StoreAnchor(v, TRUE))
    <3>1. \/ VerifyLinks(v) \/ VerifyAnchor(v) \/ VerifyPrefix(v) \/ VerifyEnd(v)
          \/ CheckExternal(v) \/ \E ext \in shipped \cup {None} : VerifyScan(v, ext)
      BY <2>1, <2>3 DEF VerifyStep, VerifyCommand, AnchorCommand
    <3>2. UNCHANGED <<log, watermark, shipped, anchor, damage, pruned>>
      BY <3>1 DEF VerifyScan, CheckExternal, VerifyLinks, VerifyAnchor, VerifyPrefix,
           VerifyEnd, Found, Move
    <3>3. CalmState
      BY <3>2 DEF CalmInv, Untouched
    <3>4. PICK d : Move(v, d) /\ Calm(d, log, anchor)
      BY <1>1, <3>1, <3>3, CalmOwnStep
    <3>5. \A u \in Verifiers : Calm(verif'[u], log, anchor)
      BY <1>1, <3>3, <3>4 DEF Move, TypeOK, CalmState
    <3> QED BY <3>2, <3>3, <3>5 DEF CalmState
  <2> QED BY <2>2, <2>3
<1>7. CASE MaintenancePrune
  <2>1. CASE PruneRead \/ PruneDelete \/ PruneAbort
    BY <1>3, <2>1 DEF PruneRead, PruneDelete, PruneAbort
  <2>2. CASE PruneCommit
    <3>1. prune.doomed = {}
      BY <1>1, <2>2 DEF PruneCommit, Untouched, TypeOK
    <3>2. log' = log
      <4>1. {i \in DOMAIN log : log[i].seq \notin prune.doomed} = DOMAIN log
        BY <3>1
      <4>2. RowsAt(log, DOMAIN log) = log
        BY <1>1, SelectedAll DEF LogOK
      <4> QED BY <2>2, <4>1, <4>2 DEF PruneCommit
    <3>3. pruned' = pruned
      BY <1>1, <2>2, <3>1 DEF PruneCommit, TypeOK
    <3> QED BY <1>3, <2>2, <3>1, <3>2, <3>3 DEF PruneCommit
  <2> QED BY <1>7, <2>1, <2>2 DEF MaintenancePrune
<1>8. CASE DamageStep
  <2>1. damage' = damage + 1 /\ damage \in Nat
    BY <1>1, <1>8, DamageSteps DEF TypeOK
  <2> QED BY <2>1 DEF Untouched
<1> QED BY <1>4, <1>5, <1>6, <1>7, <1>8 DEF Next

LEMMA CalmInit == Init => CalmInv
<1> SUFFICES ASSUME Init PROVE CalmState
  BY EvidenceInit DEF CalmInv
<1>1. DOMAIN << >> = {}
  OBVIOUS
<1> QED BY <1>1 DEF Init, CalmState, Calm, Linked

(* A verification that finds something is right, whatever is appended      *)
(* while its queries run: the tables were changed from outside, retention  *)
(* has deleted rows, or an anchor was stored since its scan (Verify).      *)
THEOREM FindingsAreRight == Spec => []NoFalseAlarm
<1>1. Spec => []CalmInv
  BY CalmInit, CalmStep, PTL DEF Spec
<1>2. CalmInv => NoFalseAlarm
  <2> SUFFICES ASSUME CalmInv, NEW v \in Verifiers,
                      verif[v].pc = "done", ~verif[v].ok, ~(damage > 0), ~pruned
               PROVE  verif[v].overtaken
    BY DEF NoFalseAlarm
  <2>1. damage \in Nat
    BY DEF CalmInv, EvidenceInv, TypeInv, TypeOK
  <2>2. Calm(verif[v], log, anchor)
    BY <2>1 DEF CalmInv, Untouched, CalmState
  <2>3. verif[v] # None
    BY DEF None
  <2> QED BY <2>2, <2>3 DEF Calm
<1> QED BY <1>1, <1>2, PTL
-----------------------------------------------------------------------------
(* Retention: the row whose prev_hash is to be the watermark stays where   *)
(* it is while rows are appended, and is the first that is not deleted.    *)

Survivor(p) ==
    /\ p \in DOMAIN log /\ prune.wm = log[p].prev
    /\ prune.pc = "delete" =>
         /\ ~Aged(log[p], prune.cutoff)
         /\ \A j \in DOMAIN log : j < p => Aged(log[j], prune.cutoff)
    /\ prune.pc = "commit" =>
         /\ \A j \in DOMAIN log : j < p => log[j].seq \in prune.doomed
         /\ InOrder(log) => \A j \in DOMAIN log : p <= j => log[j].seq \notin prune.doomed

PruneState ==
    /\ prune.pc = "commit" => \A q \in prune.doomed : q < nextSeq
    /\ prune.pc # "none" /\ prune.kept /\ damage = 0 => \E p \in DOMAIN log : Survivor(p)

PruneInv == TypeInv /\ PruneState

LEMMA PruneAppend ==
    ASSUME PruneInv, NEW ev \in Events, NEW lag \in 0..MaxLag, AppendEvent(ev, lag)
    PROVE  PruneState'
<1>1. TypeOK /\ LogOK /\ PruneState
  BY DEF PruneInv, TypeInv
<1> DEFINE r == NewRow(ev, now - lag)
<1>2. /\ now - lag \in Nat /\ log' = Append(log, r) /\ nextSeq' = nextSeq + 1
      /\ UNCHANGED <<prune, damage>>
  BY <1>1, AuditAssumption DEF AppendEvent, TypeOK
<1>3. r \in RowRecords /\ r.seq = nextSeq
  BY <1>1, <1>2, NewRowType
<1> HIDE DEF r
<1>4. /\ Len(log) \in Nat /\ DOMAIN log = 1..Len(log) /\ DOMAIN log' = 1..(Len(log) + 1)
      /\ log'[Len(log) + 1] = r /\ \A i \in 1..Len(log) : log'[i] = log[i]
  BY <1>1, <1>2, <1>3 DEF LogOK
<1>5. nextSeq \in Nat /\ prune \in {None} \cup Deletes \cup Commits
  BY <1>1 DEF TypeOK
<1>6. prune.pc = "commit" => \A q \in prune.doomed : q \in Nat /\ q < nextSeq
  BY <1>1, <1>5 DEF PruneState, Commits, Deletes, None
<1>7. prune.pc = "commit" => \A q \in prune.doomed : q < nextSeq + 1
  BY <1>5, <1>6
<1>8. InOrder(log') => InOrder(log)
  BY <1>4 DEF InOrder
<1>9. ASSUME NEW p \in DOMAIN log, Survivor(p)
      PROVE  p \in DOMAIN log' /\ Survivor(p)'
  <2>1. p \in DOMAIN log' /\ log'[p] = log[p] /\ p <= Len(log) /\ p \in Nat
    BY <1>4
  <2>2. prune.pc = "delete" =>
          \A j \in DOMAIN log' : j < p => Aged(log'[j], prune.cutoff)
    <3> SUFFICES ASSUME prune.pc = "delete", NEW j \in DOMAIN log', j < p
                 PROVE  Aged(log'[j], prune.cutoff)
      OBVIOUS
    <3>1. j \in DOMAIN log /\ log'[j] = log[j]
      BY <1>4, <2>1
    <3> QED BY <1>9, <3>1 DEF Survivor
  <2>3. prune.pc = "commit" =>
          \A j \in DOMAIN log' : j < p => log'[j].seq \in prune.doomed
    <3> SUFFICES ASSUME prune.pc = "commit", NEW j \in DOMAIN log', j < p
                 PROVE  log'[j].seq \in prune.doomed
      OBVIOUS
    <3>1. j \in DOMAIN log /\ log'[j] = log[j]
      BY <1>4, <2>1
    <3> QED BY <1>9, <3>1 DEF Survivor
  <2>4. prune.pc = "commit" /\ InOrder(log') =>
          \A j \in DOMAIN log' : p <= j => log'[j].seq \notin prune.doomed
    <3> SUFFICES ASSUME prune.pc = "commit", InOrder(log'), NEW j \in DOMAIN log', p <= j
                 PROVE  log'[j].seq \notin prune.doomed
      OBVIOUS
    <3>1. CASE j = Len(log) + 1
      BY <1>3, <1>4, <1>5, <1>6, <3>1
    <3>2. CASE j # Len(log) + 1
      <4>1. j \in DOMAIN log /\ log'[j] = log[j]
        BY <1>4, <3>2
      <4> QED BY <1>8, <1>9, <4>1 DEF Survivor
    <3> QED BY <3>1, <3>2
  <2>5. Aged(log'[p], prune.cutoff) = Aged(log[p], prune.cutoff)
    BY <2>1
  <2> QED BY <1>2, <1>9, <2>1, <2>2, <2>3, <2>4, <2>5 DEF Survivor
<1> QED BY <1>1, <1>2, <1>7, <1>9 DEF PruneState

LEMMA PruneReadState ==
    ASSUME PruneInv, PruneRead
    PROVE  PruneState'
<1>1. TypeOK
  BY DEF PruneInv, TypeInv
<1> DEFINE cutoff == now - Retention
           p == Nth(Kept(log, cutoff), 1)
<1>2. /\ prune' = [pc |-> "delete", cutoff |-> cutoff, wm |-> NewWatermark(log, cutoff),
                   kept |-> Kept(log, cutoff) # {}]
      /\ log' = log
  BY DEF PruneRead
<1>3. Kept(log, cutoff) # {} =>
        /\ p \in DOMAIN log /\ ~Aged(log[p], cutoff)
        /\ \A j \in DOMAIN log : j < p => Aged(log[j], cutoff)
        /\ NewWatermark(log, cutoff) = log[p].prev
  BY <1>1, FirstKept DEF NewWatermark
<1> HIDE DEF p
<1>4. prune'.kept => \E q \in DOMAIN log :
                       /\ ~Aged(log[q], cutoff) /\ prune'.wm = log[q].prev
                       /\ \A j \in DOMAIN log : j < q => Aged(log[j], cutoff)
  BY <1>2, <1>3
<1>5. prune'.pc = "delete" /\ prune'.cutoff = cutoff
  BY <1>2
<1> HIDE DEF cutoff
<1>6. ASSUME NEW q \in DOMAIN log, ~Aged(log[q], cutoff), prune'.wm = log[q].prev,
             \A j \in DOMAIN log : j < q => Aged(log[j], cutoff)
      PROVE  Survivor(q)'
  BY <1>2, <1>5, <1>6 DEF Survivor
<1> QED BY <1>2, <1>4, <1>5, <1>6 DEF PruneState

LEMMA PruneDeleteState ==
    ASSUME PruneInv, PruneDelete
    PROVE  PruneState'
<1>1. TypeOK /\ LogOK /\ PruneState
  BY DEF PruneInv, TypeInv
<1>2. prune \in Deletes /\ prune.pc = "delete"
  BY <1>1 DEF PruneDelete, TypeOK, None, Commits
<1> DEFINE doomed == {log[i].seq : i \in {j \in DOMAIN log : Aged(log[j], prune.cutoff)}}
<1>3. /\ prune' = [pc |-> "commit", wm |-> prune.wm, kept |-> prune.kept, doomed |-> doomed]
      /\ UNCHANGED <<log, nextSeq, damage>>
  BY DEF PruneDelete
<1>4. \A i \in DOMAIN log : log[i] \in RowRecords /\ log[i].seq \in DOMAIN written
  BY <1>1 DEF LogOK, AsWritten
<1>5. /\ log \in Seq(RowRecords) /\ written \in Seq(RowRecords)
      /\ Len(written) + 1 = nextSeq /\ Len(written) \in Nat
  BY <1>1 DEF LogOK
<1>6. \A q \in doomed : q < nextSeq
  <2>1. \A q \in DOMAIN written : q < nextSeq
    BY <1>5
  <2> QED BY <1>4, <2>1
<1>7. ASSUME NEW p \in DOMAIN log, Survivor(p)
      PROVE  Survivor(p)'
  <2>1. /\ prune.wm = log[p].prev /\ ~Aged(log[p], prune.cutoff)
        /\ \A j \in DOMAIN log : j < p => Aged(log[j], prune.cutoff)
    BY <1>2, <1>7 DEF Survivor
  <2>2. \A j \in DOMAIN log : j < p => log[j].seq \in doomed
    BY <2>1
  <2>3. ASSUME InOrder(log), NEW j \in DOMAIN log, p <= j, log[j].seq \in doomed
        PROVE  FALSE
    <3>1. PICK i \in DOMAIN log : Aged(log[i], prune.cutoff) /\ log[i].seq = log[j].seq
      BY <2>3
    <3>2. i = j
      <4>1. \A x, y \in DOMAIN log : x < y => log[x].seq < log[y].seq
        BY <1>1 DEF LogOK
      <4>2. log[i].seq \in Nat /\ log[j].seq \in Nat
        BY <1>4 DEF RowRecords
      <4>3. i \in Nat /\ j \in Nat
        BY <1>5
      <4> QED BY <3>1, <4>1, <4>2, <4>3
    <3>3. log[p].created <= log[j].created
      <4>1. p = j \/ p < j
        BY <1>5, <2>3
      <4>2. log[p].created \in Nat
        BY <1>4 DEF RowRecords
      <4> QED BY <2>3, <4>1, <4>2 DEF InOrder
    <3>4. /\ log[p].created \in Nat /\ log[j].created \in Nat /\ prune.cutoff \in Nat
      BY <1>2, <1>4 DEF RowRecords, Deletes
    <3> QED BY <2>1, <3>1, <3>2, <3>3, <3>4 DEF Aged
  <2> HIDE DEF doomed
  <2>4. InOrder(log) => \A j \in DOMAIN log : p <= j => log[j].seq \notin doomed
    BY <2>3
  <2>5. /\ prune'.pc = "commit" /\ prune'.wm = prune.wm /\ prune'.doomed = doomed
        /\ log' = log
    BY <1>3
  <2> QED BY <2>1, <2>2, <2>4, <2>5 DEF Survivor
<1> HIDE DEF doomed
<1> QED BY <1>1, <1>2, <1>3, <1>6, <1>7 DEF PruneState

LEMMA PruneStep ==
    ASSUME PruneInv, [Next]_vars
    PROVE  PruneInv'
<1>1. TypeInv /\ TypeOK /\ PruneState
  BY DEF PruneInv, TypeInv
<1>2. TypeInv'
  BY <1>1, TypeStep
<1>3. ASSUME UNCHANGED <<log, prune, damage, nextSeq>>
      PROVE  PruneState'
  BY <1>1, <1>3 DEF PruneState, Survivor
<1>4. CASE \E ev \in Events, lag \in 0..MaxLag : AppendEvent(ev, lag)
  BY <1>2, <1>4, PruneAppend DEF PruneInv
<1>5. CASE Tick \/ UNCHANGED vars
  BY <1>2, <1>3, <1>5 DEF Tick, vars, PruneInv
<1>6. CASE \E v \in Verifiers : VerifyStep(v)
  BY <1>2, <1>3, <1>6 DEF PruneInv, VerifyStep, VerifyCommand, AnchorCommand, VerifyScan,
       StoreAnchor, CheckExternal, VerifyLinks, VerifyAnchor, VerifyPrefix, VerifyEnd,
       Found, Move
<1>7. CASE MaintenancePrune
  <2>1. CASE PruneCommit \/ PruneAbort
    BY <1>2, <2>1 DEF PruneCommit, PruneAbort, PruneInv, PruneState, None
  <2> QED BY <1>2, <1>7, <2>1, PruneReadState, PruneDeleteState
       DEF MaintenancePrune, PruneInv
<1>8. CASE DamageStep
  <2>1. damage' # 0 /\ UNCHANGED <<prune, nextSeq>>
    BY <1>1, <1>8, DamageSteps DEF TypeOK
  <2> QED BY <1>1, <1>2, <2>1 DEF PruneInv, PruneState
<1> QED BY <1>4, <1>5, <1>6, <1>7, <1>8 DEF Next

LEMMA PruneInit == Init => PruneInv
BY TypeInit DEF Init, PruneInv, PruneState, None

LEMMA LinkedSuffix ==
    ASSUME NEW l \in Seq(RowRecords), NEW wm, Linked(l, wm), NEW p \in DOMAIN l
    PROVE  Linked(RowsAt(l, p..Len(l)), l[p].prev)
<1> DEFINE n == Len(l)
           N == n - p + 1
           m == RowsAt(l, p..n)
<1>1. n \in Nat /\ p \in 1..n /\ p \in 1..(n + 1) /\ DOMAIN l = 1..n /\ N \in Nat
  OBVIOUS
<1>2. Cardinality(p..n) = N /\ \A k \in 1..N : m[k] = l[p + k - 1]
  BY <1>1, SelectedSuffix
<1>3. DOMAIN m = 1..N
  BY <1>1, <1>2 DEF RowsAt
<1> HIDE DEF n, N, m
<1>4. ASSUME NEW k \in 1..N
      PROVE  /\ m[k].prev = IF k = 1 THEN l[p].prev ELSE m[k - 1].hash
             /\ m[k].hash = RowHash(m[k].prev, Content(m[k]))
  <2> DEFINE i == p + k - 1
  <2>1. i \in DOMAIN l /\ (k = 1 => i = p) /\ (k # 1 => i # 1 /\ k - 1 \in 1..N /\ p + (k - 1) - 1 = i - 1)
    BY <1>1 DEF N
  <2>2. m[k] = l[i] /\ (k # 1 => m[k - 1] = l[i - 1])
    BY <1>2, <2>1
  <2> HIDE DEF i
  <2> QED BY <2>1, <2>2 DEF Linked
<1> QED BY <1>3, <1>4 DEF Linked, m, n

LEMMA CommitKeepsChain ==
    ASSUME PruneInv, PruneCommit, damage = 0, prune.kept, InOrder(log), Linked(log, watermark)
    PROVE  Linked(log', watermark')
<1>1. PICK p \in DOMAIN log : Survivor(p)
  BY DEF PruneInv, PruneState, PruneCommit
<1>2. log \in Seq(RowRecords)
  BY DEF PruneInv, TypeInv, TypeOK
<1>3. /\ prune.wm = log[p].prev
      /\ \A j \in DOMAIN log : j < p => log[j].seq \in prune.doomed
      /\ \A j \in DOMAIN log : p <= j => log[j].seq \notin prune.doomed
  BY <1>1 DEF Survivor, PruneCommit
<1>4. {i \in DOMAIN log : log[i].seq \notin prune.doomed} = p..Len(log)
  <2>1. Len(log) \in Nat /\ DOMAIN log = 1..Len(log) /\ p \in 1..Len(log)
    BY <1>2
  <2> QED BY <1>3, <2>1
<1>5. log' = RowsAt(log, p..Len(log))
  BY <1>4 DEF PruneCommit
<1>6. watermark' = log[p].prev
  <2>1. CASE prune.doomed = {}
    <3>1. p = 1
      <4>1. 1 \in DOMAIN log /\ p \in Nat /\ (p # 1 => 1 < p)
        BY <1>2
      <4> QED BY <1>3, <2>1, <4>1
    <3>2. log[1].prev = watermark
      BY <3>1 DEF Linked
    <3> QED BY <2>1, <3>1, <3>2 DEF PruneCommit
  <2>2. CASE prune.doomed # {}
    BY <1>3, <2>2 DEF PruneCommit
  <2> QED BY <2>1, <2>2
<1> QED BY <1>2, <1>5, <1>6, LinkedSuffix

(* Retention keeps the chain linked from its new watermark, whatever is    *)
(* appended between its three statements (pruneAuditChained).              *)
THEOREM RetentionKeepsChain == Spec => PruneKeepsChain
<1>1. Spec => []PruneInv
  BY PruneInit, PruneStep, PTL DEF Spec
<1>2. PruneInv /\ [Next]_vars =>
        [PruneCommit /\ damage = 0 /\ prune.kept /\ InOrder(log) /\ Linked(log, watermark)
           => Linked(log', watermark')]_vars
  BY CommitKeepsChain
<1> QED BY <1>1, <1>2, PTL DEF Spec, PruneKeepsChain
=============================================================================
