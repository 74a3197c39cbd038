SPECIFICATION Spec
CONSTANTS
  Request = {r1, r2}
  Session = {s1}
  Run = {x1, x2}
  NoRun = NoRun
  NoRequest = NoRequest
  SessionOf <- OneSession
  LeaseLapsesUnderLiveOwner = TRUE
SYMMETRY Symmetry
INVARIANTS
  TypeOK
  Ownership
  ShownIsCommitted
  RefundNeedsFailure
PROPERTIES
  FencedWrites
  KeepsTheLedger
ACTION_CONSTRAINT OneRetry
