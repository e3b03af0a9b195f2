SPECIFICATION QueriesSpec
CONSTANTS
    X = X
    Y = Y
    Address = {1, 2}
    Aggregable = {X}
    Hybrid = {Y}
    Amount = {2}
    Dust = 1
    Pruned = Pruned
    Orphaned = Orphaned
    UnknownAssetIndex = UnknownAssetIndex
    Depth = 0
    MaxInputs = 1
    MaxTxs = 4
    MaxHeight = 3
    MaxUpsets = 1
INVARIANT UtxosInv
INVARIANT AssetsAddUp
INVARIANT HistoryIsComplete
INVARIANT BalancesReplay
CHECK_DEADLOCK FALSE
