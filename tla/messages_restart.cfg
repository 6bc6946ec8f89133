CONSTANTS
  A = A
  B = B
  Members = {A, B}
  MaxEpochs = 1
  MaxMessages = 2
  MayRestart = TRUE
  MayDiscard = FALSE
  MayDamage = FALSE
SPECIFICATION Spec
INVARIANT KeyAndNonceUsedOnce
