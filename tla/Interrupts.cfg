SPECIFICATION Spec
CONSTANTS
  NUM_OF_IDTS = 64
  m1 = m1
  m2 = m2
  keyboard = keyboard
  keyboard2 = keyboard2
  NoManager = NoManager
  NoHandler = NoHandler
  Lines <- MCLines
  Offset = 32
  Managers <- MCManagers
  First <- m1
  Devices <- MCDevices
  VectorFor <- MCVectorFor
  MaxRequests = 3
  MaxNmis = 1
INVARIANTS TypeOK RequestsDoNotNest InServiceWhileServed ServedByLiveHandler
PROPERTIES EveryRequestServed LiveHandlerStays
