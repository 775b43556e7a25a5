\* Inputs of up to six of ten bytes, and longer samples; three levels.
SPECIFICATION BerSpec
CHECK_DEADLOCK FALSE
CONSTANTS
  Bytes <- MCBytes
  Samples <- MCSamples
  MaxLength = 6
  MaxDepth = 2
INVARIANTS
  AcceptsExactlyBer
  NormalFormIsStable
