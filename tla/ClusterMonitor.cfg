CONSTANTS
  Monitors = {mon}
  Workers = {w1}
  MaxReturns <- WorkersReturn
SPECIFICATION Spec
CHECK_DEADLOCK FALSE
INVARIANTS
  TypeOK
  SeedsCoverMembers
  MonitorKnowsElders
PROPERTIES
  NewsInOrder
  DepartureReported
