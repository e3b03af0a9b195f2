SPECIFICATION Spec
CONSTANTS
    a = a
    b = b
    v = v
    none = none
    c1 = c1
    c2 = c2
    Address = {a, b, v}
    NoAddress = none
    Verifier = v
    Country = {c2}
    Layouts <- MCLayouts
    Issuances <- MCIssuances
    Instructions <- MCInstructions
    Versions <- MCVersions
    Watched <- MCNoWatch
    Rates <- MCRates
    Certified <- MCCertified
    Genesis <- MCGenesis
    MaxIssue = 100
    KeepsPlain = FALSE
    MaxTx = 2
    MaxInputs = 2
    MaxInstructions = 2
    MaxHeight = 2
    Never = 1000
    MinEpoch = 100
    PerSecond = 10
    Coin = 4
    Width = 4096
    StandardRates <- MCStandardRates
    StandardOptions <- MCStandardOptions
    AmountWidth = 2048
    BurnOutput = 31
CHECK_DEADLOCK FALSE
INVARIANT LedgerInv
PROPERTY FixedRulesStay
PROPERTY AssetsBalance
PROPERTY MovesObeyRules
