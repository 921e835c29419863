CONSTANTS
    r1 = r1
    r2 = r2
    Runs = {r1, r2}
    MaxTime = 4
    Limit = 2
    Uncovered <- MCUncovered
SPECIFICATION ScrapeSpec
INVARIANTS
    ScrapeTypeOK
    WatermarkCoversFeed
    CallReportsItsRows
    FailureStoresNothing
CHECK_DEADLOCK FALSE
