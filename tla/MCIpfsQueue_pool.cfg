SPECIFICATION FairSpec
CONSTANTS
    t1 = t1
    t2 = t2
    c1 = c1
    domains = domains
    PIN = pin
    ANY = any
    NULL = NULL
    Thread = {t1, t2}
    Caller = {c1}
    Group = {domains}
    AskFor = {domains, any}
    PauseTicks = 1
    Timeout = 2
    MaxTime <- Soon
    MaxJobs = 3
    MaxTimeouts = 1
    MaxErrors = 1
    MaxRestarts = 1
INVARIANT NoJobLost
INVARIANT OneAtATime
INVARIANT FirstComeFirstServed
PROPERTY GroupDone
