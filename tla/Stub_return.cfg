SPECIFICATION Spec
CONSTANTS
  Vectors <- MCVectors
  WithCode <- MCWithCode
  IrqBase = 32
  Below <- MCBelow
INVARIANT ReturnsToInterrupted
