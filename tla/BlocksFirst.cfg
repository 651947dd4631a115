SPECIFICATION Spec
CONSTANTS
    g = g
    b1 = b1
    b2 = b2
    b3 = b3
    b4 = b4
    f2 = f2
    f3 = f3
    f4 = f4
    p1 = p1
    p2 = p2
    Hash <- ForkHash
    Genesis = g
    Parent <- ForkParent
    Height <- ForkHeight
    ChainWork <- ForkHeight
    Size <- ForkSize
    Peer = {p1, p2}
    MaxRequestSize = 2
    MaxQueuedBlocks = 2
    MaxMemory = 1
    MaxBlocksInMemory = 2
    SyncTarget = {}
    MaxGetBlocksResponse = 3
    Checkpoints = {b2}
    MaxHeadersSize = 3
    LocalPeers = {}
    InvalidWork = {}
    MajorSyncGap = 1
    MaxStalls = 1
    MinSyncPeers = 1
    SyncStrategy = "BlocksFirst"
    PersistentPeers = {}
    Latencies = {10, 60}
    LatencyThreshold = 100
    LatencyThresholdSync = 200
    StartEnabled = {TRUE, FALSE}
    OrderedDelivery = FALSE
    InitialTips <- OnTheLine
    MaxDisturbances = 1
INVARIANTS NoCrash QueuedBlocksExact DownloadsAccounted RequestsAwaited
PROPERTIES ImplementsImportPipeline
