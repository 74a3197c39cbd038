SPECIFICATION MCSpec
CONSTANTS
  Worker = {w1, w2}
  First = w1
  Targets = 2
  None = None
  FixedTotal <- Questions
  MaxTurns = 2
  MaxExtensions = 1
  MaxSaid = 1
  MaxOverlaps = 1
  MaxFailures = 1
  MaxRetries = 2
  MaxCalls = 2
  MaxAttempts = 2
  MaxUnanswered = 2
  MaxBroken = 1
INVARIANTS
  
  OutcomeIsTold
PROPERTIES
  InterviewEnds
