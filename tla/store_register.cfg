SPECIFICATION Spec
CONSTANTS
    MaxCalls = 5
    MaxOngoing = 2
    MaxBlocks = 2
    MaxCrashes = 0
    MaxCancels = 0
    Exclusive = TRUE
PROPERTIES
    ImplementsRegister
CHECK_DEADLOCK FALSE
