CONSTANTS
  Providers = {p1, p2}
  PoolSize = 1
  Methods = {m1}
  Calls = {c1, c2}
  Failing = {"throw"}
  MaxMail = 1
  NoCall = NoCall
  Resolves = {p1}
  Handlers = {"null", "throw"}
  Lossy = TRUE
SPECIFICATION Spec
CHECK_DEADLOCK FALSE
INVARIANTS
  TypeOK
PROPERTIES
  KeepsRemoteCall
  EveryInvokeEnds
