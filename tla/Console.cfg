SPECIFICATION Spec
CONSTANTS
  Cols = 3
  Rows = 2
  Numbers <- MCNumbers
  Samples <- MCSamples
  MaxInterrupts = 2
INVARIANTS TypeOK CursorOnScreen LossIsBounded ItoaReadsBack
PROPERTY PrintEnds
