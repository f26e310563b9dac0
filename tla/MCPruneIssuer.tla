--------------------------- MODULE MCPruneIssuer ---------------------------
(* A grants file that declares its own issuer, and a later version of it   *)
(* with one grant fewer.                                                   *)
EXTENDS OfflineTrust

CONSTANT ownIssuer

MCLocalTime(z, t) == [weekday |-> 1, minute |-> 0]
MCSanitized(s) == s
Grant(name, agent) ==
    [name |-> name, principal |-> "user:u", agent |-> agent, scopes |-> {"s1"},
     aud |-> "api", ttl |-> 3, cnst |-> Unconstrained, delegate |-> << >>]
MCGrantsFiles ==
    { [issuer |-> ownIssuer, grants |-> <<Grant("g1", "agent:a"), Grant("g2", "agent:b")>>],
      [issuer |-> ownIssuer, grants |-> <<Grant("g1", "agent:a")>>] }
MCBuiltinRoles == [role \in {} |-> Absent]

Spec == TrustSpec
=============================================================================
