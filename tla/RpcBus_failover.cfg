CONSTANTS
  Providers = {p1, p2}
  PoolSize = 1
  Methods = {m1}
  Calls = {c1}
  Failing = {"throw"}
  MaxMail = 0
  NoCall = NoCall
  Resolves = {p1, p2}
  Handlers = {"null"}
  Lossy = FALSE
SPECIFICATION Spec
CHECK_DEADLOCK FALSE
PROPERTIES
  FailsOver
