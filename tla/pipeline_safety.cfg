CONSTANTS
    i1 = i1
    i2 = i2
    x1 = x1
    x2 = x2
    Runs = {r1}
    Influencers = {i1, i2}
    Signals = {x1, x2}
    Owner <- MCOwner
    MaxRetries = 1
    MaxFaults = 1
SPECIFICATION Spec
INVARIANTS
    TypeOK
    LedgerBalances
    NoStrandedRun
    CompletedMeansHandled
    FanInIsABarrier
    RollupCoversRun
PROPERTIES
    TerminalIsFinal
    DoneMarksTheEnd
