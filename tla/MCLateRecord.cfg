\* One delegation, one exchange, one revocation.
CONSTANTS
    o1 = o1
    denyAll = denyAll
    Absent = Absent
    Values <- MCResource
    TZNames <- MCZones
    Zones <- MCZones
    Instants <- MCInstants
    LocalTime <- MCLocalTime
    Users = {u1}
    Agents = {a1}
    Orgs = {o1}
    Scopes = {s1}
    orgOf <- MCOrgOf
    memberOf <- MCMemberOf
    Inputs <- InputsCanonical
    Resources <- MCResource
    TTLs = {0}
    Redelegators = {}
    Revokers = {v1}
    Exchangers = {x1}
    TokenTTL = 1
    Hour = 1
    TokenGrace = 9
    MaxTokens = 1
    MaxDepth = 3
    MaxRows = 1
    MaxRoots = 1
    MaxRevoked = 0
    MaxTime = 0
SPECIFICATION Spec
INVARIANT RevokedDelegationHasNoActiveToken
CHECK_DEADLOCK FALSE
