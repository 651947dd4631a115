SPECIFICATION FairSpec
CONSTANTS
    p1 = p1
    p2 = p2
    k1 = k1
    k2 = k2
    Peer = {p1, p2}
    Height = 3
    Bests <- PeerBests
    Utxos <- UtxosAt
    Targets <- AllTargets
    ConfirmationDepth = 2
    ChunkSize = 2
    MaxDrops = 1
    MaxCrashes = 1
INVARIANTS SnapshotExact 
PROPERTIES EventuallyDone
CHECK_DEADLOCK FALSE
