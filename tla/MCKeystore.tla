----------------------------- MODULE MCKeystore -----------------------------
(* A small instance of ResourceServers, and of Keystore in it.  To keep it *)
(* small a behaviour is one of two kinds: operators race and no site       *)
(* starts, or the site runs beside one operator at a time.                 *)
EXTENDS ResourceServers, TLC

CONSTANTS MaxTokens,    \* bound: live tokens
          MaxSiteKeys,  \* bound: keys while a site runs
          MaxSiteTime   \* bound: clock while a site runs

Symmetry == Permutations(Operators)

Racing == \E o, p \in Operators : o # p /\ phase[o] # "down" /\ phase[p] # "down"

Serving == (\E x \in Sites : site[x].pc # "off") \/ DOMAIN revoked # {}

MCNext ==
    /\ SiteNext /\ Cardinality(tokens') <= MaxTokens
    /\ ~(Racing' /\ Serving')
    /\ Serving' => Len(keys') <= MaxSiteKeys /\ now' <= MaxSiteTime

MCSpec == SiteInit /\ [][MCNext]_<<vars, siteVars>>
=============================================================================
