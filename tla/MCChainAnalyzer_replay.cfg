SPECIFICATION Spec
CONSTANTS
    g0 = g0
    g1 = g1
    a2 = a2
    a3 = a3
    a4 = a4
    b3 = b3
    c2 = c2
    c3 = c3
    Block <- MCBlock
    Block1 = g1
    Genesis = g1
    Ht <- MCHt
    Chain <- MCChain
    TxCount <- MCTxCount
    StoreNonAssetUTXO = FALSE
    AssetStart = 2
    AssetTx <- MCAssetTx
    PruneKind <- PruneAll
    PruneAge = 1
    PruneInterval = 1
    Leniency = 2
    HalfRange = 8
    MaxIndexes = 0
    LowerTips = FALSE
    MaxTips = 4
    MaxCrashes = 1
    MaxFaults = 1
    MaxStops = 1
INVARIANT Replay
INVARIANT AppliedOnce
INVARIANT RollBackRight
INVARIANT SyncedIsWhole
INVARIANT InsertFresh
INVARIANT RestartOnlyPastPrune
PROPERTY ProtectedDepth
