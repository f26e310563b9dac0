\* One server and two operators whose rotations and prunes race on stale caches,
\* or one operator at a time and a site that starts, polls and ends at any time.
CONSTANTS
    Servers = {s1}
    Operators = {o1, o2}
    Overlap = 3
    ReloadEvery = 1
    TokenTTL = 2
    MaxKeys = 3
    MaxTime = 4
    Sites = {x1}
    MaxStaleness = 0
    MaxRevoked = 1
    MaxTokens = 1
    MaxSiteKeys = 2
    MaxSiteTime = 3
SPECIFICATION MCSpec
SYMMETRY Symmetry
INVARIANTS OneFirstKey TokensKeepVerifying SignerRemains FreshKeysServe StrictSitesStop OnlyRotationDeafens
PROPERTY AcceptedStaysAccepted
CHECK_DEADLOCK FALSE
