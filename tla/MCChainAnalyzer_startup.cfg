SPECIFICATION Spec
CONSTANTS
    g0 = g0
    g1 = g1
    a2 = a2
    a3 = a3
    a4 = a4
    b3 = b3
    c2 = c2
    c3 = c3
    Block <- MCBlock
    Block1 = g1
    Genesis = g1
    Ht <- MCHt
    Chain <- MCChain
    TxCount <- MCTxCount
    StoreNonAssetUTXO = TRUE
    AssetStart = 2
    AssetTx <- MCAssetTx
    PruneKind <- KeepAll
    PruneAge <- NoPruning
    PruneInterval = 1
    Leniency = 1
    HalfRange = 8
    MaxIndexes = 0
    LowerTips = TRUE
    MaxTips = 3
    MaxCrashes = 1
    MaxFaults = 0
    MaxStops = 0
INVARIANT StartsWhereLeftOff
