SPECIFICATION Spec
CONSTANTS
  Base = 16
  PDUs <- MCPDUs
  Frames <- MCFrames
  MaxSent = 2
INVARIANTS
  CodecTypeOK
  NoPanic
  InStep
  RoundTrip
CHECK_DEADLOCK FALSE
