---------------------------- MODULE Constraints ----------------------------
(***************************************************************************)
(* The constraint algebra of internal/delegation/delegation.go: what a     *)
(* constraint set permits (Permit), how a re-delegation merges two of them *)
(* (Tighten), how scopes are attenuated, and the form in which             *)
(* internal/delegation/chains persists them.                               *)
(*                                                                         *)
(* An allow-list is a set: the code only asks for membership and           *)
(* emptiness.  The three allow-list fields Categories, Tools and Resources *)
(* are one function from dimensions to lists.  A nil pointer, a SQL NULL   *)
(* and an empty string are the value Absent.                               *)
(***************************************************************************)
EXTENDS Integers

CONSTANTS Values,           \* ordinary elements of an allow-list
          denyAll,          \* the sentinel of a disjoint intersection
          Absent,           \* nil, NULL or ""
          TZNames, Zones,   \* time-zone names, and those LoadLocation knows
          Instants,         \* points in time an action can happen at
          LocalTime(_, _)   \* weekday and minute of an instant in a zone

TimeWindows == [tz : TZNames, weekdays : SUBSET (-1..6),
                startMin : Int, endMin : Int]

ASSUME SentinelAssumption ==
    /\ denyAll \notin Values
    /\ Absent \notin Values \cup {denyAll}
    /\ Absent \notin Int /\ Absent \notin TimeWindows

ASSUME TimeAssumption ==
    /\ Zones \subseteq TZNames
    /\ \A z \in Zones, t \in Instants :
          LocalTime(z, t) \in [weekday : 0..6, minute : 0..1439]

Dims == {"categories", "tools", "resources"}

(* An allow-list as the code can hold it: ordinary elements, or the        *)
(* sentinel alone.                                                         *)
AllowLists == (SUBSET Values) \cup {{denyAll}}

ConstraintSets == [maxAmount : Int \cup {Absent},
                   allow     : [Dims -> AllowLists],
                   window    : TimeWindows \cup {Absent},
                   rate      : Int \cup {Absent}]

(* The concrete operation a token holder attempts; an Absent value means   *)
(* the dimension does not apply.                                           *)
Actions == [amount : Int, value : [Dims -> Values \cup {Absent}],
            at : Instants]

Unconstrained == [maxAmount |-> Absent, allow |-> [d \in Dims |-> {}],
                  window |-> Absent, rate |-> Absent]
-----------------------------------------------------------------------------
(* Decision: Permit.                                                       *)

Allows(w, at) ==
    /\ w.tz \in Zones
    /\ w.weekdays # {} => LocalTime(w.tz, at).weekday \in w.weekdays
    /\ w.startMin <= LocalTime(w.tz, at).minute
    /\ LocalTime(w.tz, at).minute <= w.endMin

permitList(allowed, value) ==
    \/ allowed = {}
    \/ denyAll \notin allowed /\ (value # Absent => value \in allowed)

permitAmount(max, amount) == max # Absent => amount <= max

permitWindow(w, at) == w # Absent => Allows(w, at)

(* Rate is not consulted: it is enforced when a token is minted.           *)
Permit(c, a) ==
    /\ permitAmount(c.maxAmount, a.amount)
    /\ \A d \in Dims : permitList(c.allow[d], a.value[d])
    /\ permitWindow(c.window, a.at)
-----------------------------------------------------------------------------
(* Narrowing: Tighten and its parts.                                       *)

(* Mutant: a disjoint intersection is the empty list, which restricts      *)
(* nothing.                                                                *)
MutNoSentinel(a, b) ==
    CASE a = {} -> b
      [] a # {} /\ b = {} -> a
      [] OTHER -> a \cap b

intersectAllow(a, b) ==
    CASE a = {} -> b
      [] a # {} /\ b = {} -> a
      [] OTHER -> LET out == (a \cap b) \ {denyAll}
                  IN  IF out = {} THEN {denyAll} ELSE out

intersectInts(a, b) ==
    CASE a = {} -> b
      [] a # {} /\ b = {} -> a
      [] OTHER -> LET out == {x \in a \cap b : x >= 0}
                  IN  IF out = {} THEN {-1} ELSE out

Smaller(x, y) == IF x <= y THEN x ELSE y
Larger(x, y)  == IF x <= y THEN y ELSE x

tightenWindow(p, c) ==
    CASE p = Absent -> c
      [] p # Absent /\ c = Absent -> p
      [] p # Absent /\ c # Absent /\ p.tz # c.tz -> p
      [] OTHER -> [tz       |-> p.tz,
                   weekdays |-> intersectInts(p.weekdays, c.weekdays),
                   startMin |-> Larger(p.startMin, c.startMin),
                   endMin   |-> Smaller(p.endMin, c.endMin)]

(* The switch Tighten has for MaxAmount, and tightenRate: the smaller cap. *)
tightenCap(p, c) ==
    CASE p = Absent -> c
      [] p # Absent /\ c = Absent -> p
      [] OTHER -> Smaller(p, c)

Tighten(p, c) ==
    [maxAmount |-> tightenCap(p.maxAmount, c.maxAmount),
     allow     |-> [d \in Dims |-> intersectAllow(p.allow[d], c.allow[d])],
     window    |-> tightenWindow(p.window, c.window),
     rate      |-> tightenCap(p.rate, c.rate)]

Attenuate(parent, requested) == requested \cap parent

IsSubset(child, parent) == child \subseteq parent
-----------------------------------------------------------------------------
(* Persisting: the entry points validate and canonicalise; the JSONB       *)
(* column refuses the sentinel, whose first character is U+0000.           *)

Validate(w) ==
    /\ w.startMin \in 0..1439 /\ w.endMin \in 0..1439
    /\ w.startMin <= w.endMin
    /\ w.weekdays \subseteq 0..6
    /\ w.tz \in Zones

(* A resource indicator is the resource it names and how it is spelled.    *)
CanonicalizeResource(r) == [r EXCEPT !.form = "canonical"]

validateConstraints(c) ==
    /\ c.window # Absent => Validate(c.window)
    /\ c.rate # Absent => c.rate >= 0
    /\ c.maxAmount # Absent => c.maxAmount >= 0
    /\ \A r \in c.allow["resources"] : r # denyAll /\ r.form # "invalid"

canonicalizeConstraints(c) ==
    [c EXCEPT !.allow["resources"] = {CanonicalizeResource(r) : r \in @}]

Storable(c) == \A d \in Dims : denyAll \notin c.allow[d]
=============================================================================
