CONSTANTS
  Bytes <- AllBytes
  MaxBytes = 2
  Units = {0, 15, 16, 32, 75, 127, 128, 129, 255, 256, 4095, 4096, 65535}
  MaxUnits = 3
SPECIFICATION Spec
CHECK_DEADLOCK FALSE
INVARIANTS
  HexRoundTrip
  AsciiRoundTrip
  UnicodeRoundTrip
  CheckCodeIsParity
