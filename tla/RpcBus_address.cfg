CONSTANTS
  Providers = {p1}
  PoolSize = 2
  Methods = {m1}
  Calls = {c1}
  Failing = {"throw"}
  MaxMail = 0
  NoCall = NoCall
  Resolves = {}
  Handlers = {"null"}
  Lossy = FALSE
SPECIFICATION Spec
CHECK_DEADLOCK FALSE
PROPERTIES
  RequestsReachService
