SPECIFICATION Spec
CONSTANTS
    MaxCalls = 4
    MaxOngoing = 2
    MaxBlocks = 2
    MaxCrashes = 1
    MaxCancels = 1
    Exclusive = FALSE
INVARIANTS
    TypeOK
    ReadsBack
    GoneIfDeleted
    RefusedHasCause
    MissingHasCause
    NeverStale
CHECK_DEADLOCK FALSE
