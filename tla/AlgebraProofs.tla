--------------------------- MODULE AlgebraProofs ---------------------------
(***************************************************************************)
(* What the proofs about chains use of Constraints and of Ancestry: for    *)
(* every set of values, zones and instants, merging a child's constraints  *)
(* into its parent's never permits what the parent denies; a chain         *)
(* contains its leaf and its parents, is the chain of its parent and one   *)
(* link more, and does not change when the table grows or a row changes    *)
(* elsewhere than in its parent.                                           *)
(***************************************************************************)
EXTENDS Constraints, Ancestry, FiniteSetTheorems, TLAPS

(* intersectAllow returns an allow-list the code can hold.                 *)
LEMMA IntersectAllowType ==
    ASSUME NEW a \in AllowLists, NEW b \in AllowLists
    PROVE  intersectAllow(a, b) \in AllowLists
BY DEF AllowLists, intersectAllow

(* What the merged list admits, the parent's list admits: the sentinel     *)
(* stands for a disjoint intersection, and once in a list it stays.        *)
LEMMA IntersectAllowNarrows ==
    ASSUME NEW a \in AllowLists, NEW b \in AllowLists, NEW v,
           permitList(intersectAllow(a, b), v)
    PROVE  permitList(a, v)
<1>1. CASE a = {}
  BY <1>1 DEF permitList
<1>2. CASE a # {} /\ b = {}
  BY <1>2 DEF permitList, intersectAllow
<1>3. CASE a # {} /\ b # {}
  <2> DEFINE out == (a \cap b) \ {denyAll}
  <2>1. intersectAllow(a, b) = IF out = {} THEN {denyAll} ELSE out
    BY <1>3 DEF intersectAllow
  <2>2. out # {}
    BY <2>1 DEF permitList
  <2>3. denyAll \notin a
    BY <2>2, SentinelAssumption DEF AllowLists
  <2>4. v # Absent => v \in a
    BY <2>1, <2>2 DEF permitList
  <2> QED BY <2>3, <2>4 DEF permitList
<1> QED BY <1>1, <1>2, <1>3

(* The smaller of two caps admits no amount that the first does not.       *)
LEMMA TightenCapNarrows ==
    ASSUME NEW p \in Int \cup {Absent}, NEW c \in Int \cup {Absent}, NEW x \in Int,
           permitAmount(tightenCap(p, c), x)
    PROVE  permitAmount(p, x)
BY SentinelAssumption DEF permitAmount, tightenCap, Smaller

LEMMA TightenCapType ==
    ASSUME NEW p \in Int \cup {Absent}, NEW c \in Int \cup {Absent}
    PROVE  tightenCap(p, c) \in Int \cup {Absent}
BY SentinelAssumption DEF tightenCap, Smaller

(* The merged weekdays exclude every real weekday the parent excludes: a   *)
(* disjoint pair becomes {-1}, which no weekday is.                        *)
LEMMA IntersectIntsNarrows ==
    ASSUME NEW a \in SUBSET (-1..6), NEW b \in SUBSET (-1..6), NEW day \in 0..6,
           intersectInts(a, b) # {} => day \in intersectInts(a, b)
    PROVE  a # {} => day \in a
BY DEF intersectInts

LEMMA IntersectIntsType ==
    ASSUME NEW a \in SUBSET (-1..6), NEW b \in SUBSET (-1..6)
    PROVE  intersectInts(a, b) \in SUBSET (-1..6)
BY DEF intersectInts

LEMMA TightenWindowType ==
    ASSUME NEW p \in TimeWindows \cup {Absent}, NEW c \in TimeWindows \cup {Absent}
    PROVE  tightenWindow(p, c) \in TimeWindows \cup {Absent}
<1>1. CASE p = Absent \/ c = Absent
  BY <1>1 DEF tightenWindow
<1>2. CASE p # Absent /\ c # Absent /\ p.tz # c.tz
  BY <1>2 DEF tightenWindow
<1>3. CASE p # Absent /\ c # Absent /\ p.tz = c.tz
  <2>1. p \in TimeWindows /\ c \in TimeWindows
    BY <1>3
  <2>2. intersectInts(p.weekdays, c.weekdays) \in SUBSET (-1..6)
    BY <2>1, IntersectIntsType DEF TimeWindows
  <2>3. /\ Larger(p.startMin, c.startMin) \in Int
        /\ Smaller(p.endMin, c.endMin) \in Int
    BY <2>1 DEF TimeWindows, Larger, Smaller
  <2> QED BY <1>3, <2>1, <2>2, <2>3 DEF tightenWindow, TimeWindows
<1> QED BY <1>1, <1>2, <1>3

(* The merged window is open only while the parent's is.  In different     *)
(* zones the parent's window is kept and the child's is dropped.           *)
LEMMA TightenWindowNarrows ==
    ASSUME NEW p \in TimeWindows \cup {Absent}, NEW c \in TimeWindows \cup {Absent},
           NEW at \in Instants, permitWindow(tightenWindow(p, c), at)
    PROVE  permitWindow(p, at)
<1>1. CASE p = Absent
  BY <1>1 DEF permitWindow
<1>2. CASE p # Absent /\ (c = Absent \/ p.tz # c.tz)
  BY <1>2 DEF permitWindow, tightenWindow
<1>3. CASE p # Absent /\ c # Absent /\ p.tz = c.tz
  <2> DEFINE w == tightenWindow(p, c)
             local == LocalTime(p.tz, at)
  <2>1. p \in TimeWindows /\ c \in TimeWindows
    BY <1>3
  <2>2. w = [tz       |-> p.tz,
             weekdays |-> intersectInts(p.weekdays, c.weekdays),
             startMin |-> Larger(p.startMin, c.startMin),
             endMin   |-> Smaller(p.endMin, c.endMin)]
    BY <1>3 DEF tightenWindow
  <2>3. w # Absent
    <3>1. /\ intersectInts(p.weekdays, c.weekdays) \in SUBSET (-1..6)
          /\ Larger(p.startMin, c.startMin) \in Int
          /\ Smaller(p.endMin, c.endMin) \in Int
      BY <2>1, IntersectIntsType DEF TimeWindows, Larger, Smaller
    <3>2. w \in TimeWindows
      BY <2>1, <2>2, <3>1 DEF TimeWindows
    <3> QED BY <3>2, SentinelAssumption
  <2>4. Allows(w, at)
    BY <2>3 DEF permitWindow
  <2>5. p.tz \in Zones /\ local \in [weekday : 0..6, minute : 0..1439]
    BY <2>2, <2>4, TimeAssumption DEF Allows
  <2>6. p.weekdays # {} => local.weekday \in p.weekdays
    BY <2>1, <2>2, <2>4, <2>5, IntersectIntsNarrows DEF Allows, TimeWindows
  <2>7. p.startMin <= local.minute /\ local.minute <= p.endMin
    BY <2>1, <2>2, <2>4, <2>5 DEF Allows, TimeWindows, Larger, Smaller
  <2> QED BY <2>5, <2>6, <2>7 DEF permitWindow, Allows
<1> QED BY <1>1, <1>2, <1>3
-----------------------------------------------------------------------------
LEMMA TightenType ==
    ASSUME NEW p \in ConstraintSets, NEW c \in ConstraintSets
    PROVE  Tighten(p, c) \in ConstraintSets
<1>1. \A d \in Dims : intersectAllow(p.allow[d], c.allow[d]) \in AllowLists
  BY IntersectAllowType DEF ConstraintSets
<1>2. /\ tightenCap(p.maxAmount, c.maxAmount) \in Int \cup {Absent}
      /\ tightenCap(p.rate, c.rate) \in Int \cup {Absent}
  BY TightenCapType DEF ConstraintSets
<1>3. tightenWindow(p.window, c.window) \in TimeWindows \cup {Absent}
  BY TightenWindowType DEF ConstraintSets
<1> QED BY <1>1, <1>2, <1>3 DEF Tighten, ConstraintSets

(* Whatever the merged constraint set permits, the parent's permits: what  *)
(* Tighten's comment promises of a single re-delegation.                   *)
THEOREM TightenNarrows ==
    ASSUME NEW p \in ConstraintSets, NEW c \in ConstraintSets, NEW a \in Actions,
           Permit(Tighten(p, c), a)
    PROVE  Permit(p, a)
<1> DEFINE t == Tighten(p, c)
<1>1. permitAmount(p.maxAmount, a.amount)
  <2>1. permitAmount(tightenCap(p.maxAmount, c.maxAmount), a.amount)
    BY DEF Permit, Tighten
  <2> QED BY <2>1, TightenCapNarrows DEF ConstraintSets, Actions
<1>2. ASSUME NEW d \in Dims PROVE permitList(p.allow[d], a.value[d])
  <2>1. permitList(intersectAllow(p.allow[d], c.allow[d]), a.value[d])
    BY DEF Permit, Tighten
  <2>2. p.allow[d] \in AllowLists /\ c.allow[d] \in AllowLists
    BY DEF ConstraintSets
  <2> QED BY <2>1, <2>2, IntersectAllowNarrows
<1>3. permitWindow(p.window, a.at)
  <2>1. permitWindow(tightenWindow(p.window, c.window), a.at)
    BY DEF Permit, Tighten
  <2> QED BY <2>1, TightenWindowNarrows DEF ConstraintSets, Actions
<1> QED BY <1>1, <1>2, <1>3 DEF Permit
-----------------------------------------------------------------------------
LEMMA ChainRange ==
    ASSUME NEW tab, NEW i \in Nat
    PROVE  Chain(tab, i) \subseteq 1..i
BY DEF Chain

LEMMA ChainSelf ==
    ASSUME NEW tab, NEW i \in Nat, i # 0
    PROVE  i \in Chain(tab, i)
BY DEF Chain

LEMMA ChainFinite ==
    ASSUME NEW tab, NEW i \in Nat
    PROVE  IsFiniteSet(Chain(tab, i))
<1>1. IsFiniteSet(1..i)
  BY FS_Interval
<1> QED BY <1>1, ChainRange, FS_Subset

(* The walk up from a link of the chain stays in the chain.                *)
LEMMA ChainClosed ==
    ASSUME NEW tab, WellParented(tab), NEW i \in Nat, 1..i \subseteq DOMAIN tab
    PROVE  ParentClosed(tab, Chain(tab, i))
<1> SUFFICES ASSUME NEW x \in Chain(tab, i), tab[x].parent # 0
             PROVE  tab[x].parent \in Chain(tab, i)
  BY DEF ParentClosed
<1>1. x \in 1..i
  BY ChainRange
<1>2. tab[x].parent \in 0..(x - 1)
  BY <1>1 DEF WellParented
<1>3. tab[x].parent \in 1..i
  BY <1>1, <1>2
<1>4. ASSUME NEW S \in SUBSET (1..i), i \in S, ParentClosed(tab, S)
      PROVE  tab[x].parent \in S
  <2>1. x \in S
    BY <1>4 DEF Chain
  <2> QED BY <1>4, <2>1 DEF ParentClosed
<1> QED BY <1>3, <1>4 DEF Chain

(* The chain is the least such set.                                        *)
LEMMA ChainLeast ==
    ASSUME NEW tab, NEW i \in Nat, NEW S \in SUBSET (1..i),
           i \in S, ParentClosed(tab, S)
    PROVE  Chain(tab, i) \subseteq S
BY DEF Chain

LEMMA ChainRoot ==
    ASSUME NEW tab, NEW i \in Nat, i # 0, tab[i].parent = 0
    PROVE  Chain(tab, i) = {i}
<1>1. {i} \in SUBSET (1..i) /\ ParentClosed(tab, {i})
  BY DEF ParentClosed
<1>2. Chain(tab, i) \subseteq {i}
  BY <1>1, ChainLeast
<1> QED BY <1>2, ChainSelf

(* A derived link's chain is its parent's chain and itself.                *)
LEMMA ChainOfChild ==
    ASSUME NEW tab, WellParented(tab), NEW i \in Nat, i # 0,
           1..i \subseteq DOMAIN tab, tab[i].parent # 0
    PROVE  /\ Chain(tab, i) = Chain(tab, tab[i].parent) \cup {i}
           /\ i \notin Chain(tab, tab[i].parent)
<1> DEFINE p == tab[i].parent
<1>1. p \in 1..(i - 1)
  BY DEF WellParented
<1> HIDE DEF p
<1>2. 1..p \subseteq DOMAIN tab /\ 1..p \subseteq 1..i /\ p \in Nat /\ p # 0
  BY <1>1
<1>3. Chain(tab, p) \subseteq 1..p
  BY <1>2, ChainRange
<1>4. i \notin Chain(tab, p)
  BY <1>1, <1>3
<1>5. Chain(tab, i) \subseteq Chain(tab, p) \cup {i}
  <2>1. ParentClosed(tab, Chain(tab, p))
    BY <1>2, ChainClosed
  <2>2. p \in Chain(tab, p)
    BY <1>2, ChainSelf
  <2>3. ParentClosed(tab, Chain(tab, p) \cup {i})
    BY <2>1, <2>2 DEF ParentClosed, p
  <2>4. Chain(tab, p) \cup {i} \in SUBSET (1..i)
    BY <1>2, <1>3
  <2> QED BY <2>3, <2>4, ChainLeast
<1>6. Chain(tab, p) \cup {i} \subseteq Chain(tab, i)
  <2>1. i \in Chain(tab, i)
    BY ChainSelf
  <2>2. ParentClosed(tab, Chain(tab, i))
    BY ChainClosed
  <2>3. p \in Chain(tab, i)
    BY <2>1, <2>2 DEF ParentClosed, p
  <2>4. ParentClosed(tab, Chain(tab, i) \cap (1..p))
    <3> SUFFICES ASSUME NEW x \in Chain(tab, i) \cap (1..p), tab[x].parent # 0
                 PROVE  tab[x].parent \in Chain(tab, i) \cap (1..p)
      BY DEF ParentClosed
    <3>1. tab[x].parent \in Chain(tab, i)
      BY <2>2 DEF ParentClosed
    <3>2. tab[x].parent \in 0..(x - 1)
      BY <1>2 DEF WellParented
    <3> QED BY <1>2, <3>1, <3>2
  <2>5. Chain(tab, p) \subseteq Chain(tab, i) \cap (1..p)
    BY <1>2, <2>3, <2>4, ChainLeast
  <2> QED BY <2>1, <2>5
<1> QED BY <1>4, <1>5, <1>6 DEF p

(* Growing the table, or changing a row's other columns, leaves chains     *)
(* alone.                                                                  *)
LEMMA ChainStable ==
    ASSUME NEW tab, NEW tab2, NEW i \in Nat,
           \A x \in 1..i : tab2[x].parent = tab[x].parent
    PROVE  Chain(tab2, i) = Chain(tab, i)
<1>1. \A S \in SUBSET (1..i) : ParentClosed(tab2, S) <=> ParentClosed(tab, S)
  BY DEF ParentClosed
<1> QED BY <1>1 DEF Chain

(* The number of links of a chain is a natural number, at least one.       *)
LEMMA ChainCardinalityType ==
    ASSUME NEW tab, NEW i \in Nat, i # 0
    PROVE  Cardinality(Chain(tab, i)) \in Nat \ {0}
<1>1. IsFiniteSet(Chain(tab, i))
  BY ChainFinite
<1>2. Cardinality(Chain(tab, i)) \in Nat
  BY <1>1, FS_CardinalityType
<1>3. Chain(tab, i) # {}
  BY ChainSelf
<1> QED BY <1>1, <1>2, <1>3, FS_EmptySet
=============================================================================
