SPECIFICATION LiveSpec
CONSTANTS
  Request = {r1}
  Session = {s1}
  Run = {x1, x2, x3}
  NoRun = NoRun
  NoRequest = NoRequest
  SessionOf <- OneSession
  LeaseLapsesUnderLiveOwner = FALSE
PROPERTIES
  NoStuckRequest
