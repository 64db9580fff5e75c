CONSTANTS
  MaxBytes = 5
  MaxInstances = 3
  MaxErrors = 1
  Nobody = Nobody
  Foreign = Foreign
SPECIFICATION Spec
CHECK_DEADLOCK FALSE
INVARIANTS
  BytesConserved
  QuietLineIntact
PROPERTIES
  LockedOutAfterRestart
  EveryByteLeaves
