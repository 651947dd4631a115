CONSTANTS
    a = a
    b = b
    d = d
    r = r
    p1 = p1
    q1 = q1
    m = m
    c1 = c1
    c2 = c2
    c3 = c3
    k = k
    Tx <- PoolTxs
    BaseCoins <- PoolCoins
    BaseHeight = 3
    Packages <- PoolPackages
    MinRelay = 1000
    MaxAncestors = 3
    MaxAncestorSize = 6
    MaxDescendants = 2
    MaxDescendantSize = 6
    MaxReplacements = 2
    MaxSize = 8
    Maturity = 2
    Half = 64
    MaxEntries = 3
    MaxBlocks = 2
    Mined <- PoolBlocks
    MaxPending = 1
    MaxReorgs = 1
SPECIFICATION Spec
INVARIANTS ReplacementJudgedByFee
CHECK_DEADLOCK FALSE
