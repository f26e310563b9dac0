SPECIFICATION Spec
CONSTANTS
    Values = {}
    denyAll = denyAll
    Absent = Absent
    TZNames = {"UTC"}
    Zones = {"UTC"}
    Instants = {1}
    LocalTime <- MCLocalTime
    Empty = Empty
    GrantsFiles <- MCGrantsFiles
    Sanitized <- MCSanitized
    BuiltinRoles <- MCRoles
    DefaultIssuer = "https://legant.local"
    DefaultMaxDepth = 8
    DefaultAudience = "legant:claude-code"
    FeedTTL = 1
    RoleTTL = 2
    MaxKeys = 1
    MaxTokens = 2
    MaxClock = 1
    GuardDir <- MCGuardDir
    Cwd <- MCCwd
    Links <- MCLinks
    Calls <- MCCalls
    OverlayEntries <- MCEntries
    People = {"root", "ann"}
    Root = "root"
    Companies = {"acme", "beta"}
    Bots = {"bot"}
    botOrg <- MCBotOrg
    s1 = s1
    s2 = s2
    Slots <- MCSlots
    Passwords = {"p", "q"}
    RoleInputs = {"member"}
    Inviting = {"acme"}
    Rosters <- MCRosters
    MaxRegUses = 1
    MaxLinks = 1
    MaxInvites = 1
    MaxSessions = 1
    MaxWrites = 5
    MaxTenantWrites = 2
    Families = {"f"}
    Requests = {1, 2}
    MaxPairs = 4
    Static <- MCStatic
    Rows <- MCRows
    Clients = {1, 2}
    NoAudience = "-"
    MaxEdits = 3
    Emitters = {"server", "gateway"}
    Consoles = {1}
    QueueCap = 1
    RingCap = 2
    ReplayTail = 1
    BufferCap = 1
    MaxBackoff = 2
    MaxEvents = 3
    MaxOutages = 1
    h1 = h1
    h2 = h2
    Handlers <- MCHandlers
    Methods = {"BREW"}
    Codes = {200}
    MaxScrapes = 1
    Kinds = {"user", "agent", "org", "sso"}
    Editable = {"email", "display_name", "name", "description", "slug", "domain", "config"}
    MaxRows = 1
    MaxStatements = 6
SYMMETRY MCSymmetry
INVARIANTS
    SystemTypeOK
    RevokedIsBlocked
    PrunedAreKilled
    ReapplyIsNoop
    CallsStayIsolated
    ActsWithinAuthority
    UsesAreBounded
    LoneRevocationIsFinal
    ConsoleHasNoGap
    ScrapesAreComplete
    OnlyOverlapLosesEdits
CHECK_DEADLOCK FALSE
