SPECIFICATION Spec
CONSTANTS
  Slide = {s1, s2}
  Task = {1, 2}
  Run = {1, 2, 3}
  Host = {h1}
  None = None
  Faults = {"enqueue", "twice", "unheard", "giveup", "crash", "read", "work", "refused", "answer", "copy", "stuck"}
SYMMETRY Symmetry
VIEW OneAtATimeView
CONSTRAINT TwoAtATime
CHECK_DEADLOCK FALSE
INVARIANTS
  RegistryExact
  WorkNotDropped
  AcceptedOnly
  ShownIsStored
PROPERTIES
  OthersUntouched
