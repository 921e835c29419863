CONSTANTS
    api = api
    messaging = messaging
    worker = worker
    Services = {api, messaging, worker}
    Script <- MCScript
    Files <- MCFiles
    LastImage = 3
    HeadOf <- MCHeadOf
    NoTxn = {3, 4}
    Repeatable = {4}
    MaxStops = 2
SPECIFICATION ReleaseSpec
INVARIANTS
    ReleaseTypeOK
    TakesEffectOnce
    CodeHasItsSchema
PROPERTY RetriesConverge
CHECK_DEADLOCK FALSE
