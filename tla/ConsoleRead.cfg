SPECIFICATION MCSpec
CONSTANTS
    None = None
    Undefined = Undefined
    NoToken = NoToken
    Deps <- AllDeps
    MaxAsks = 3
    MaxWorld = 1
    MaxClicks = 2
    MaxFaults = 1
    LogTenants = {"t1", "t2"}
    Expired = {"t2"}
    Talks = {k1, k2}
    LogPages = 2
    SessionIds = {"a", "b"}
    Snapshots <- MCSnapshots
    Workspaces = {"w1", "w2"}
    Ranges = {"7d", "30d"}
    DashboardClicks = 1
    UsageTenants = {"t1", "t2"}
    Models = {"", "m1"}
    PerPage = 2
    MaxTraffic = 3
    MaxStatus = 2
    Census <- MCCensus
    LogEntries <- MCLogEntries
    PagesFound <- MCPagesFound
    ResultLimit = 3
    PaletteOpens = 2
    Pages = {"p1", "p2", "p3"}
    Tabs = {"A", "B"}
    AtOnce = 2
    MaxLogins = 2
    MaxLoads = 3
    MaxLost = 1
INVARIANTS
    ReadTypeOK ReadFlagsTrue ShownIsAskedFor ActsOnTheScreen
     TablesTrue BoundarySettles CheckedAndForgotten
PROPERTIES
    KeepsPromise StopsLoading
CHECK_DEADLOCK FALSE
