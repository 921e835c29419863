CONSTANTS
    MaxFaults = 3
    MaxEvents = 5
SPECIFICATION PreviewSpec
INVARIANTS
    PreviewTypeOK
    TornDown
    UpIsWhole
CHECK_DEADLOCK FALSE
