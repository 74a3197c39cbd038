SPECIFICATION Spec
CONSTANTS
  Task = {t1, t2}
  Name = {a, b, c}
  MaxActivities = 2
  MaxPortfolios = 2
  MaxTries = 2
  MaxFaults = 1
SYMMETRY Symmetry
INVARIANTS
  ResultIsComplete
  NeverStuck
  ExtractionIsSaved
