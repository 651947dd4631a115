SPECIFICATION Spec
CONSTANTS
    g = g
    b1 = b1
    b2 = b2
    f2 = f2
    p1 = p1
    Hash <- TreeHash
    Genesis = g
    Parent <- TreeParent
    Height <- TreeHeight
    ChainWork <- TreeHeight
    Size <- TreeHeight
    Peer = {p1}
    MaxRequestSize = 2
    MaxQueuedBlocks = 2
    MaxMemory = 10
    MaxBlocksInMemory = 10
    SyncTarget = {2}
    Inventories <- TreeInventories
    MaxBatches = 2
INVARIANTS PipelineInv NoCrash ParentFirst
PROPERTY ImplementsImportPipeline
