SPECIFICATION Spec
CONSTANTS
  Slide = {s1, s2}
  Task = {1, 2}
  Run = {1, 2, 3}
  Host = {h1, h2}
  None = None
  Faults = {}
SYMMETRY Symmetry
CHECK_DEADLOCK FALSE
INVARIANT EditsSurvive
