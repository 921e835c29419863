CONSTANTS
    i1 = i1
    x1 = x1
    Runs = {r1}
    Influencers = {i1}
    Signals = {x1}
    Owner <- MCOnePost
    MaxRetries = 0
    MaxFaults = 0
    Watchers = {c1}
    MaxConnects = 2
SPECIFICATION FairStreamSpec
INVARIANTS
    StreamTypeOK
    NoGap
    DoneIsComing
PROPERTY EveryWatcherIsTold
