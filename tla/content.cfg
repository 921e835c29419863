CONSTANTS
    q1 = q1
    q2 = q2
    Hashes = {1, 2, 3, 4}
    Instagram = {1, 2, 3}
    Captioned = {2, 4}
    Stored = {1, 2, 3}
    RatedBefore = {1}
    Dist <- MCDist
    CacheMax = 1
    Refused = {1}
    Batch = 2
    CommitEvery = 2
    MaxRetries = 1
    MaxFaults = 1
    Verdict <- MCVerdict
    MinRelevance = 2
    Copies <- MCCopies
    Threshold = 1
    MaxThemes = 2
    FlatLimit = 2
    Queries = {q1, q2}
    Matches <- MCMatches
    Nearness <- MCNearness
    Slots = {1, 2}
    RRF_K = 3
    Pool = 2
    Unit = 20
    Limit = 2
SPECIFICATION ContentSpec
INVARIANTS
    ContentTypeOK
    RatingsAreRooted
    BackfillCountsItsRows
    ThemesAreRight
    FusionIsFaithful
PROPERTY BacklogDrains
