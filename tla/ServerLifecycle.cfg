CONSTANTS
  s1 = s1
  s2 = s2
  s3 = s3
  s4 = s4
  Servers = {s1, s2, s3, s4}
  KindOf <- MCKinds
  ClassOf <- MCClasses
  Unsupported = {s4}
  Throwing = {"init", "preStart", "run", "preRestart", "postRestart"}
  MaxFires = 2
  NoServer = NoServer
SPECIFICATION Spec
CHECK_DEADLOCK FALSE
INVARIANTS
  RunsConserved
  RunWhileStarted
  StartsAlternate
  
PROPERTIES
  EveryServerRuns
