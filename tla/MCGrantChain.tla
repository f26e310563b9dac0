---------------------------- MODULE MCGrantChain ----------------------------
(* Small instances of the constraint algebra and of GrantChain: two tools, *)
(* two time zones an hour apart, four instants, and constraint sets chosen *)
(* so that lists are disjoint or overlap, caps differ, and windows overlap,*)
(* miss each other or are in different zones.  Two MCP servers stand       *)
(* behind the gateway, one of them with a tool that is mapped to no scope. *)
EXTENDS Enforcement, TLC

CONSTANTS t1, t2, r1, r2, r1spelled   \* r1spelled names r1 in another way

MCValues == {t1, t2, r1, r2, r1spelled}
MCZones == {"UTC", "CET"}
MCInstants == 1..4

(* Instants 1 to 4 are 08:00, 12:00, 20:00 and 23:30 UTC on a Monday; CET  *)
(* is one hour ahead, so instant 4 is already Tuesday there.               *)
MCLocalTime(z, t) ==
    CASE z = "UTC" -> [weekday |-> 1, minute |-> <<480, 720, 1200, 1410>>[t]]
      [] z = "CET" -> [weekday |-> IF t = 4 THEN 2 ELSE 1,
                       minute  |-> <<540, 780, 1260, 30>>[t]]

Lists(tools, resources) ==
    [d \in Dims |-> CASE d = "tools" -> tools [] d = "resources" -> resources
                     [] OTHER -> {}]
Window(tz, days, from, to) ==
    [tz |-> tz, weekdays |-> days, startMin |-> from, endMin |-> to]

MCInputs ==
    { Unconstrained,
      [Unconstrained EXCEPT !.maxAmount = 1, !.allow = Lists({t1}, {})],
      [Unconstrained EXCEPT !.maxAmount = 2, !.allow = Lists({t2}, {r1, r2})],
      [Unconstrained EXCEPT !.allow = Lists({t1, t2}, {}),
                            !.window = Window("UTC", {1, 2}, 480, 1200)],
      [Unconstrained EXCEPT !.allow = Lists({}, {r1spelled, r2}),
                            !.window = Window("UTC", {2, 3}, 0, 1439)],
      [Unconstrained EXCEPT !.window = Window("CET", {}, 0, 800)] }

MCProbes == [amount : {1, 2},
             value : {[d \in Dims |-> CASE d = "tools" -> v [] d = "resources" -> w
                                          [] OTHER -> Absent] :
                         v \in {t1, t2, Absent}, w \in {r1, Absent}},
             at : MCInstants]

MCExpiries == {1, 2, Absent}
MCAudiences == {r1, r2}
MCCanonical(v) == IF v = r1spelled THEN r1 ELSE v
MCUpstreams == { [inboundAudience |-> r1, resourceID |-> r1spelled,
                  toolScopes |-> [t \in ToolNames |->
                                     IF t \in {t1, t2} THEN "s1" ELSE Absent]],
                 [inboundAudience |-> r2, resourceID |-> r2,
                  toolScopes |-> [t \in ToolNames |->
                                     IF t = t1 THEN "s1" ELSE Absent]] }
MCNows == 0..2
AgentSymmetry == Permutations(Agents)
=============================================================================
