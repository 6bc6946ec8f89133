CONSTANTS
  A = A
  B = B
  C = C
  kA = kA
  kB = kB
  kC = kC
  kB2 = kB2
  kBad = kBad
  Clients = {A, B}
  GroupIds = {"g"}
  Founders = {A}
  Owner <- MCOwner
  MaxCommits = 2
  UniqueInvites = TRUE
  FreshPackages = FALSE
  KeyPackages = {kB}
  SplitKeys = {}
  Unsigned = {}
SPECIFICATION Spec
CHECK_DEADLOCK FALSE
INVARIANT LeafKeyHeld
