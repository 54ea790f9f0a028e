SPECIFICATION Spec
CONSTANTS
  Configs <- MCConfigs
  ScanCodes = {28}
  Moves <- MCMoves
  Garbage <- MCGarbage
  Offsets = {1}
  PciFunctions <- MCPciFunctions
  Left <- MCLeft
  Cols = 80
  Rows = 25
  NoByte = NoByte
  MaxFunctions = 2
  MaxKeys = 1
  MaxMoves = 2
INVARIANTS TypeOK PacketsWhole CursorTrail LastPortGiven
PROPERTIES BytesTaken
