CONSTANTS
    i1 = i1
    i2 = i2
    x1 = x1
    x2 = x2
    Runs = {r1}
    Influencers = {i1}
    Signals = {x1, x2}
    Owner <- MCTwoPosts
    MaxRetries = 1
    MaxFaults = 0
SPECIFICATION FairSpec
PROPERTIES
    EveryRunEnds
    LifecycleSpec
