CONSTANTS
  A = A
  B = B
  C = C
  kA = kA
  kB = kB
  kC = kC
  kB2 = kB2
  kBad = kBad
  Clients = {A, B, C}
  GroupIds = {"g"}
  Founders = {A}
  Owner <- MCOwner
  MaxCommits = 3
  UniqueInvites = FALSE
  FreshPackages = TRUE
  KeyPackages = {kB, kC, kB2, kBad}
  SplitKeys = {kB2}
  Unsigned = {kBad}
SPECIFICATION FairSpec
CHECK_DEADLOCK FALSE
INVARIANTS TypeOK Agreement OwnLeafPresent CanFollow
PROPERTIES KeyLostByOwnCall ImplementsHistory CatchesUp
