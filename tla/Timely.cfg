SPECIFICATION Spec
CONSTANTS
  Request = {r1, r2}
  Session = {s1}
  Run = {x1, x2, x3}
  NoRun = NoRun
  NoRequest = NoRequest
  SessionOf <- OneSession
  LeaseLapsesUnderLiveOwner = FALSE
SYMMETRY Symmetry
INVARIANTS
  NoRetryBehindLatest
  OneDriverPerSession
