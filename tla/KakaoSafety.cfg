SPECIFICATION Spec
CONSTANTS
  Worker = {w1, w2}
  NoWorker = NoWorker
  LeaseLapsesUnderLiveOwner = TRUE
  SlowPost = TRUE
SYMMETRY Symmetry
VIEW StatusView
CHECK_DEADLOCK FALSE
INVARIANTS
  CallbackOnce
  AnswerAgrees
  RefundedFailed
  PublishedAfterDelivery
PROPERTIES
  PublishedIsFinal
