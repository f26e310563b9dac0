\* A root grant and two under it, as a chain or side by side, with every
\* combination of the constraint sets.
CONSTANTS
    t1 = t1
    t2 = t2
    r1 = r1
    r2 = r2
    r1spelled = r1spelled
    ToolNames = {t1, t2}
    Audiences <- MCAudiences
    Canonical <- MCCanonical
    Upstreams <- MCUpstreams
    DownstreamTTL = 2
    Nows <- MCNows
    denyAll = denyAll
    Absent = Absent
    Values <- MCValues
    TZNames <- MCZones
    Zones <- MCZones
    Instants <- MCInstants
    LocalTime <- MCLocalTime
    Users = {u1}
    Agents = {a1, a2, a3}
    Scopes = {"s1"}
    Inputs <- MCInputs
    Expiries <- MCExpiries
    Probes <- MCProbes
    MaxDepth = 3
    MaxGrants = 3
    MaxRoots = 1
SPECIFICATION Spec
SYMMETRY AgentSymmetry
INVARIANTS AuthorityNarrows NoCycle ProvenanceUnbroken DownstreamNarrows
CHECK_DEADLOCK FALSE
