CONSTANTS
  A = A
  B = B
  Members = {A, B}
  MaxEpochs = 2
  MaxMessages = 3
  MayRestart = FALSE
  MayDiscard = FALSE
  MayDamage = TRUE
SPECIFICATION Spec
INVARIANTS TypeOK KeyAndNonceUsedOnce
PROPERTY RatchetsOnlyForward
