SPECIFICATION Spec
CONSTANTS
    External = {"a", "b"}
    Resumption = {"r", "s"}
    MaxPSKs = 2
    MaxHeld = 3
    MaxWelcomes = 1
INVARIANTS JoinersHold HoldersJoin
CHECK_DEADLOCK FALSE
