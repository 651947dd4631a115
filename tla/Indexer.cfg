CONSTANTS
    g = g
    b1 = b1
    b2 = b2
    b3 = b3
    f2 = f2
    f3 = f3
    t1 = t1
    t2 = t2
    t3 = t3
    t5 = t5
    o1 = o1
    o2 = o2
    o3 = o3
    o5 = o5
    Hash <- TreeHash
    Genesis = g
    Parent <- TreeParent
    Height <- TreeHeight
    ChainWork <- TreeWork
    Size <- TreeSize
    Tx = {t1, t2, t3, t5}
    Output = {o1, o2, o3, o5}
    TxsOf <- TreeTxs
    Inputs <- TreeInputs
    Outputs <- TreeOutputs
    Addressed = {o1, o2, o3}
    BatchSize = 1
    SaveInterval = 2
    MaxCrashes = 2
    MaxFailures = 1
SPECIFICATION Spec
INVARIANTS   TablesAgree
PROPERTY CatchesUp
CHECK_DEADLOCK FALSE
