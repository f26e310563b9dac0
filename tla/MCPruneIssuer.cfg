SPECIFICATION Spec
CONSTANTS
    Values = {}
    denyAll = denyAll
    Absent = Absent
    TZNames = {"UTC"}
    Zones = {"UTC"}
    Instants = {1}
    LocalTime <- MCLocalTime
    Empty = Empty
    GrantsFiles <- MCGrantsFiles
    Sanitized <- MCSanitized
    BuiltinRoles <- MCBuiltinRoles
    DefaultIssuer = "https://legant.local"
    DefaultMaxDepth = 8
    DefaultAudience = "legant:claude-code"
    FeedTTL = 2
    RoleTTL = 2
    MaxKeys = 1
    MaxTokens = 3
    MaxClock = 1
    ownIssuer = "https://issuer.example"
INVARIANT PrunedAreKilled
CHECK_DEADLOCK FALSE
