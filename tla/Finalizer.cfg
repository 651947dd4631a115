CONSTANTS
    g = g
    b1 = b1
    b2 = b2
    b3 = b3
    b4 = b4
    f2 = f2
    f3 = f3
    f4 = f4
    x3 = x3
    y3 = y3
    m2 = m2
    h2 = h2
    w2 = w2
    cb1 = cb1
    cb2 = cb2
    cb3 = cb3
    cb4 = cb4
    cf2 = cf2
    cf3 = cf3
    cx3 = cx3
    cy3 = cy3
    s1 = s1
    t1 = t1
    u1 = u1
    Hash <- TreeHash
    Genesis = g
    Parent <- TreeParent
    Height <- TreeHeight
    ChainWork <- TreeWork
    Size <- TreeSize
    Tx <- TreeTx
    TxsOf <- TreeTxs
    Malformed = {m2}
    BadHeader = {h2}
    BadWitness = {w2}
    Verification = "Full"
    MaxMoney = 20
    Maturity = 1
    InitialSubsidy = 4
    HalvingInterval = 2
    CsvHeight = 100
    Bip30Exceptions = {2}
    Depth = 1
SPECIFICATION Spec
INVARIANTS CoinsExact ImportedAreValid BestHasMostWork FinalizedConfirmed NothingForgotten
CHECK_DEADLOCK FALSE
