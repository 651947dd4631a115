SPECIFICATION Spec
CONSTANTS
    g = g
    b1 = b1
    b2 = b2
    b3 = b3
    b4 = b4
    f2 = f2
    f3 = f3
    f4 = f4
    p1 = p1
    p2 = p2
    Hash <- LineHash
    Genesis = g
    Parent <- LineParent
    Height <- LineHeight
    ChainWork <- LineHeight
    Size <- LineSize
    Peer = {p1, p2}
    MaxRequestSize = 2
    MaxQueuedBlocks = 1
    MaxMemory = 10
    MaxBlocksInMemory = 10
    SyncTarget = {}
    MaxGetBlocksResponse = 3
    Checkpoints = {b2, b4}
    MaxHeadersSize = 1
    LocalPeers = {p2}
    InvalidWork = {}
    MajorSyncGap = 1
    MaxStalls = 0
    MinSyncPeers = 2
    SyncStrategy = "HeadersFirst"
    PersistentPeers = {}
    Latencies = {10}
    LatencyThreshold = 100
    LatencyThresholdSync = 200
    StartEnabled = {TRUE}
    OrderedDelivery = TRUE
    InitialTips <- BothAtB4
    MaxDisturbances = 1
INVARIANTS NoCrash HeadersNumbered
