CONSTANTS
    i1 = i1
    x1 = x1
    Runs = {r1}
    Influencers = {i1}
    Signals = {x1}
    Owner <- MCOwner
    MaxRetries = 1
    MaxFaults = 0
SPECIFICATION UncaughtSpec
PROPERTY RatingConverges
