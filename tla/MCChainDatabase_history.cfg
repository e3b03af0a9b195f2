SPECIFICATION Spec
CONSTANTS
    o1 = o1
    o2 = o2
    a1 = a1
    a2 = a2
    f1 = f1
    b1 = b1
    b2 = b2
    x1 = x1
    Out = {}
    Address = {}
    Feed = {f1}
    Rate <- MCRate
    Ballot = {b1}
    MaxCast = 1
    Asset = {x1}
    CountRange = 2
    Leniency = 1
    PruneAge = 2
    PruneInterval = 1
    PruneKinds = {1, 2, 3}
    Reissue = FALSE
    RevokeAgain = FALSE
    DeepRewind = FALSE
    CrashTorn = FALSE
    MaxHeight = 4
    MaxVotes = 2
    MaxCrashes = 1
PROPERTY Refines
