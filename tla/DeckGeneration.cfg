SPECIFICATION Spec
CONSTANTS
  File = {f1, f2, f3}
  MaxSlides = 2
  MaxFixes = 2
  MaxPushes = 2
SYMMETRY Symmetry
VIEW Essential
CHECK_DEADLOCK FALSE
INVARIANTS
  ReadyIsInDeck
  VerdictAgrees
  NoSampleText
