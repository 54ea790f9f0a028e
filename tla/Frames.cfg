\* More frames than PageSize: FreeFrame reaches the bits of other frames.
SPECIFICATION Spec
CONSTANTS
  NFrames = 9
  WordBits = 4
  PageSize = 4
  Pages <- MCPages
  Modes <- MCOneMode
  Reserved <- MCReservedHigh
INVARIANTS TypeOK HeldIsMarked ExclusiveFrames ReservedKept
PROPERTY FrameIsStable
