SPECIFICATION Spec
CONSTANTS
    Users = {alice, bob}
    Shells = {s1, s2}
    MaxKeygens = 2
    MaxEpochs = 4
    MaxAtOnce = 3
INVARIANTS
    TypeOK
    PublishedAfterSaved
    AheadAlone
    AllAtHand
CHECK_DEADLOCK FALSE
SYMMETRY Symmetry
