\* One exchange at a time against one re-delegation, one tree revocation, the
\* handler path and its cascade, expiry and retention.
CONSTANTS
    o1 = o1
    denyAll = denyAll
    Absent = Absent
    Values <- MCResources
    TZNames <- MCZones
    Zones <- MCZones
    Instants <- MCInstants
    LocalTime <- MCLocalTime
    Users = {u1}
    Agents = {a1, a2}
    Orgs = {o1}
    Scopes = {s1}
    orgOf <- MCOrgOf
    memberOf <- MCMemberOf
    Inputs <- InputsSpelled
    Resources <- MCResources
    TTLs = {1}
    Redelegators = {q1}
    Revokers = {v1}
    Exchangers = {x1}
    TokenTTL = 2
    Hour = 1
    TokenGrace = 0
    MaxTokens = 1
    MaxDepth = 3
    MaxRows = 2
    MaxRoots = 1
    MaxRevoked = 0
    MaxTime = 2
SPECIFICATION Spec
SYMMETRY Symmetry
INVARIANTS ResolvesWholeChain RecordedTokensDie TokenWithinChain
PROPERTY InactiveStaysInactive
CHECK_DEADLOCK FALSE
