SPECIFICATION Spec
CONSTANTS
  NFrames = 64
  WordBits = 8
  PageSize = 4
  TablePages = 4
  DirSize <- MCDirSize
  LowEnd <- MCLowEnd
  VgaStart <- MCVgaStart
  VgaEnd <- MCVgaEnd
  Slack <- MCSlack
  HeapGap <- MCHeapGap
  HeapInit <- MCHeapInit
  HeapLimit <- MCHeapLimit
  LastMods <- MCLastMods
  Reserved <- MCReserved
INVARIANTS TypeOK UsedMemoryMappedIfRoom TablesApart
  OnlyVgaForUser EntriesHaveTables
PROPERTIES BootEnds ImplementsFrames
