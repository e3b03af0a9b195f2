SPECIFICATION Spec
CONSTANTS
    d1 = d1
    d2 = d2
    A = A
    B = B
    f1 = f1
    f2 = f2
    c1 = c1
    c2 = c2
    Domain = {d1, d2}
    Asset = {A, B}
    Root = A
    EMPTY = EMPTY
    NONE = NONE
    Metadata <- MCMetadata
    Thread = {t1, t2}
    MaxIssued = 3
    MaxRestarts = 1
    Nothing = Nothing
    AutoRemove = {TRUE}
    File = {f1, f2}
    SizeOf <- MCSizeOf
    Issuance <- MCIssuance
    Worker = {w}
    Analyzer = analyzer
    Keeper = keeper
    MaxIssuances = 2
    MaxListed = 1
    MaxErrors = 1
SYMMETRY Symmetry
INVARIANT MastersInv
INVARIANT PoolInv
PROPERTY DecisionsStand
INVARIANT ListFollowed
INVARIANT StoredIsPinned
INVARIANT BadIsOut
CHECK_DEADLOCK FALSE
