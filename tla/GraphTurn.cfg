SPECIFICATION Spec
CONSTANTS
  a1 = a1
  a2 = a2
  b1 = b1
  b2 = b2
  Activity = {a1, a2}
  Block = {b1, b2}
  Locked = {}
  Blank = {b2}
  Deepest = {b2}
  InitialTree <- Tree
  File = {f1}
  Source = {s1}
  Answer = answer
  None = None
  MaxValidationRepairs = 1
  MaxEdits = 2
  MaxRetries = 1
CHECK_DEADLOCK FALSE
INVARIANTS
  AppliedAsMeant
  OriginalUntilExtracted
  AnswerReachesItsGap
PROPERTIES
  TurnEnds
