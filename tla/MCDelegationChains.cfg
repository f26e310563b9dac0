\* A re-delegation races another, a tree revocation, single revocations, the
\* revocation of an agent and the expiry of the rows both started from.
CONSTANTS
    t1 = t1
    u1 = u1
    a1 = a1
    a2 = a2
    a3 = a3
    a4 = a4
    o1 = o1
    o2 = o2
    denyAll = denyAll
    Absent = Absent
    Values <- MCValues
    TZNames <- MCZones
    Zones <- MCZones
    Instants <- MCInstants
    LocalTime <- MCLocalTime
    Users = {u1}
    Agents = {a1, a2, a3, a4}
    Orgs = {o1, o2}
    Scopes = {s1}
    orgOf <- MCOrgOf
    memberOf <- MCMemberOf
    Inputs <- MCInputs
    Resources <- MCNoResources
    TTLs = {1}
    Redelegators = {q1, q2}
    Revokers = {v1}
    MaxDepth = 3
    MaxRows = 3
    MaxRoots = 1
    MaxRevoked = 1
    MaxTime = 1
SPECIFICATION ChainSpec
SYMMETRY Symmetry
INVARIANTS StoredDepth OneTenant ChecksStillHold
PROPERTIES DeadStaysDead TreeRevokeKillsSubtree ImplementsGrants
CHECK_DEADLOCK FALSE
