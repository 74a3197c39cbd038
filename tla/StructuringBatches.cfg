SPECIFICATION FSpec
CONSTANTS
  None = None
  ChunkLines = 2
  ListingGap = 1
  MaxContent = 11
  Inputs <- AllInputs
CHECK_DEADLOCK FALSE
INVARIANTS
  NothingForgotten
  AskedOnce
  NoLineLost
