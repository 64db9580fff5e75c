CONSTANTS
  i1 = i1
  i2 = i2
  i3 = i3
  b1 = b1
  b2 = b2
  b3 = b3
  b4 = b4
  b5 = b5
  b6 = b6
  b7 = b7
  Interfaces = {i1, i2, i3}
  ScanResults <- Scans
  Beans = {b1, b2, b3, b4, b5, b6, b7}
  Contexts <- SomeBeans
  InterfaceOf <- MCInterfaces
  ProtocolsOf <- MCProtocols
  Malformed = {b7}
  NoBean = NoBean
SPECIFICATION Spec
CHECK_DEADLOCK FALSE
INVARIANTS
  TypeOK
  LostOnlyByDuplicate
  OneServerForAll
PROPERTIES
  PoolUnlessDuplicate
