CONSTANTS
  A = A
  B = B
  Members = {A, B}
  MaxEpochs = 2
  MaxMessages = 3
  MayRestart = TRUE
  MayDiscard = TRUE
  MayDamage = FALSE
SPECIFICATION Spec
INVARIANTS LostOnlyIfOvertaken StuckOnlyByOwnPast
