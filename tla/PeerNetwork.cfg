SPECIFICATION Spec
CONSTANTS
    o = o
    i = i
    t = t
    Addr = {o, i}
    Outbound = {o}
    Usable = {o}
    Tx = {t}
    FeeRate <- MCFeeRate
    AddrLists <- MCAddrLists
    MaxAddresses = 1
    MaxOutbound = 1
    MaxInbound = 1
    SlowLatency = 1
    Relays <- MCRelays
    Latencies <- MCLatencies
    Thresholds = {1, 2}
    StoreLatency = 3
    Capacity = 1
    Filters <- MCFilters
    MaxTxRequestBatch = 1
    MaxArriving = 2
INVARIANTS PeersAgree  AnnouncementsNotLost
PROPERTIES SyncToldOfDrops
CHECK_DEADLOCK FALSE
