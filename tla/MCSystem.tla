------------------------------- MODULE MCSystem -------------------------------
(***************************************************************************)
(* The values that TLC checks System with.                                 *)
(***************************************************************************)
EXTENDS System, TLC

CONSTANTS s1, s2,           \* the two request slots, interchangeable
          h1, h2            \* two HTTP requests, likewise
-----------------------------------------------------------------------------
(* OfflineTrust and Guard.                                                 *)

MCLocalTime(z, t) == [weekday |-> 1, minute |-> 0]
MCSanitized(s) == s

Grant(principal, agent, scopes, children) ==
    [name |-> Absent, principal |-> principal, agent |-> agent, scopes |-> scopes,
     aud |-> "api", cnst |-> Unconstrained, ttl |-> 2, delegate |-> children]

MCGrantsFiles ==
    {[issuer |-> Absent, grants |-> gs] :
       gs \in {<<Grant("u", "a", {"r"}, <<[agent |-> "b", scopes |-> {"r"}, cnst |-> Unconstrained]>>)>>,
               <<Grant("u", "a", {"r"}, << >>)>>}}

MCGuardDir == <<"/", "etc", "guard">>
MCCwd == <<"/", "proj">>
MCLinks == (<<"/", "proj", "link">> :> MCGuardDir) @@ (<<"/", "proj", "mark">> :> MCGuardDir \o Feed)
MCRoles == [r \in {"operator"} |-> GuardRoles(MCCwd)[r]]
MCEntries == {Entry("deny-cmd", <<"cat">>)}

Call(tool, paths, exes) ==
    [tool |-> tool, paths |-> paths, unparsed |-> {}, exes |-> exes,
     catastrophic |-> FALSE, host |-> << >>]

(* A command whose output goes to the feed by a path that the guard reads  *)
(* otherwise than the kernel, and a write through a link to the feed, which*)
(* the guard follows when the feed is there.                               *)
MCCalls ==
    {Call("Bash", {<<"link", "..", "guard", "feed.jwt">>}, {<<"cat">>}),
     Call("Write", {<<"src", "..", "mark">>}, {})}
-----------------------------------------------------------------------------
(* Accounts and Tenancy: one administrator besides the superadmin.         *)

MCSlots == {s1, s2}
MCHandlers == {h1, h2}
MCSymmetry == Permutations(MCSlots)
MCBotOrg == [b \in Bots |-> "acme"]
MCRosters == {[o \in Companies |-> IF o = "beta" THEN "admin" ELSE "none"]}
-----------------------------------------------------------------------------
(* GatewayRegistry: rows that collide with the configuration file in slug  *)
(* or audience, and with each other.                                       *)

Row(slug, audience, url) ==
    [slug |-> slug, audience |-> audience, resource |-> url, url |-> url]

MCStatic == {Row("crm", "a1", "u1")}
MCRows == {Row("crm", "a2", "u2"), Row("git", "a2", "u2"), Row("git", "a3", "u3"),
           Row("wiki", "a3", "u4"), Row("wiki", "a1", "u4")}
=============================================================================
