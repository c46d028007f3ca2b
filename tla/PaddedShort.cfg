CONSTANTS
    None = None
    Nothing = Nothing
    NotKnown = NotKnown
    Peers <- MCPeers
    Origins <- MCOrigins
    Proxies <- MCProxies
    Limit = 2
    Window = 2
    GcThreshold = 2
    MaxCredits = 3
    MaxTime = 4
    MaxHandles = 2
    MaxPoolBytes = 3
    Ttl = 1
    SweepInterval = 2
    Calls = {c1, c2}
    KeyBytes = 2
    MaxKeys = 2
    UploadBudget = 4
    MaxUploads = 1
    FheWorkers = 1
    Registers = {r1}
    Lookups = {l1, l2}
    Payees = {k1}
    ClueKeys = {x1, x2}
    MaxVersion = 2
    MaxDraws = 3
    Requests = {q1, q2}
    MaxChanges = 2
    MinSpan = 4
    MaxBucket = 8
    MaxBlocks = 10
    MaxTipLag = 1
    MaxTip = 14
    MaxConnections = 2
    MaxBacklog = 3
    MaxFailures = 3
    Parts = {"ranges"}
    PoolTicks = 1
SPECIFICATION MCSpec
INVARIANT
    PaddedRangeAccepted
CHECK_DEADLOCK FALSE
