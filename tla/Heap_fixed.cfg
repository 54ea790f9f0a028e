\* Clients free what they hold, in any order.
SPECIFICATION Spec
CONSTANTS
  NFrames = 16
  WordBits = 4
  PageSize = 4
  Start = 16
  InitialEnd = 40
  MaxAddress = 40
  MinSize = 24
  AddressMod = 1024
  Requests = {1, 4}
  Aligns = {0}
  GuardPages = {0, 1}
  ClientsFree = TRUE
\* The kernel may stop: a panic or a page fault.
CHECK_DEADLOCK FALSE
INVARIANTS TypeOK SoundUntilDangling
PROPERTIES DataIntact GivesUpOnlyWhenFull ImplementsPool
