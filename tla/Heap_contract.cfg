SPECIFICATION Spec
CONSTANTS
  NFrames = 16
  WordBits = 4
  PageSize = 8
  Start = 16
  InitialEnd = 40
  MaxAddress = 72
  MinSize = 24
  AddressMod = 1024
  Requests = {1, 4, 9}
  Aligns = {0}
  GuardPages = {0, 1}
  ClientsFree = TRUE
CHECK_DEADLOCK FALSE
PROPERTY ContractsToNextPage
