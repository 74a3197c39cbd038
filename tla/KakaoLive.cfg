SPECIFICATION LiveSpec
CONSTANTS
  Worker = {w1, w2}
  NoWorker = NoWorker
  LeaseLapsesUnderLiveOwner = FALSE
  SlowPost = FALSE
CHECK_DEADLOCK FALSE
INVARIANTS
  ToldIsFinal
  ToldTheDelivery
  GivenUpOnlyExpired
  RefundsUncommitted
PROPERTIES
  TurnSettles
