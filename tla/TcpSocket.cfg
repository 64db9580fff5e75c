CONSTANTS
  Conns = {c1, c2}
  MaxSent = 2
  MaxPushes = 1
  MaxThrows = 2
  NoRef = NoRef
SPECIFICATION Spec
CHECK_DEADLOCK FALSE
INVARIANTS
  TypeOK
  AnswersToSender
  ConnectionHeldSinceGreeting
  ReadyWindow
PROPERTIES
  ClientStaysCutOff
  HandlersEnd
