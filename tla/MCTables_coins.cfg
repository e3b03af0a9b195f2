SPECIFICATION TablesSpec
CONSTANTS
    o1 = o1
    o2 = o2
    o3 = o3
    a1 = a1
    a2 = a2
    Out = {o1, o2}
    Address = {a1}
    Feed = {}
    Rate <- MCRate
    Ballot = {}
    MaxCast = 0
    Asset = {}
    CountRange = 3
    Leniency = 1
    PruneAge = 1
    PruneInterval = 1
    PruneKinds = {1, 2, 3}
    Reissue = FALSE
    RevokeAgain = FALSE
    DeepRewind = FALSE
    CrashTorn = FALSE
    MaxHeight = 4
    MaxVotes = 4
    MaxCrashes = 1
    Caller = {r1, r2}
    Nobody = Nobody
    TimeFrame = 2
    Margin = 3
    Lag = 1
    Algo = {sha}
    Coin = {o1, o2, o3}
    Owner <- MCOwner
    DigiByte <- MCDigiByte
    Assets <- MCAssets
    Level = {1, 2}
    Effect <- MCEffect
    Delay <- MCDelay
    MaxDepth = 1
    MayTear = FALSE
    MaxTip = 6
    MaxFaults = 1
    First = {o1}
SYMMETRY Symmetry
INVARIANT TablesInv
INVARIANT SumsFollowTheChain
INVARIANT RowsStayTrue
PROPERTY Refines
PROPERTY ProcessedIsErased
CHECK_DEADLOCK FALSE
