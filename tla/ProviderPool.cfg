CONSTANTS
  Providers = {p1}
  PoolSize = 2
  Methods = {m1}
  Calls = {c1, c2, c3}
  Failing = {"reject", "throw", "null"}
  MaxMail = 1
  NoCall = NoCall
SPECIFICATION PoolSpec
INVARIANTS
  CountsConserved
  OneRestartPerFailure
  AtMostOnce
PROPERTIES
  EveryCallLeaves
  ReportedOrRestarted
  RouteesMeter
