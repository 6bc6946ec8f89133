SPECIFICATION Spec
CONSTANTS
    KeySize = 2
    Kinds <- OwnKinds
    Samples <- MCSamples
    MayCut = TRUE
    MayOverlap = TRUE
    MaxRelays = 1
INVARIANTS TypeOK Received SignedSurvives CutRefused CutStateSameEpoch DialectDetected
CHECK_DEADLOCK FALSE
