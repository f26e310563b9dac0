\* Two exchanges under a cap of one token per window of two ticks; retention
\* keeps an expired token longer than any exchange lasts.
CONSTANTS
    o1 = o1
    denyAll = denyAll
    Absent = Absent
    Values <- MCResource
    TZNames <- MCZones
    Zones <- MCZones
    Instants <- MCInstants
    LocalTime <- MCLocalTime
    Users = {u1}
    Agents = {a1}
    Orgs = {o1}
    Scopes = {s1}
    orgOf <- MCOrgOf
    memberOf <- MCMemberOf
    Inputs <- InputsRated
    Resources <- MCResource
    TTLs = {0}
    Redelegators = {}
    Revokers = {}
    Exchangers = {x1, x2}
    TokenTTL = 1
    Hour = 2
    TokenGrace = 9
    MaxTokens = 3
    MaxDepth = 3
    MaxRows = 1
    MaxRoots = 1
    MaxRevoked = 1
    MaxTime = 5
SPECIFICATION Spec
SYMMETRY Symmetry
INVARIANT RateCap
CHECK_DEADLOCK FALSE
