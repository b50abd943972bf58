SPECIFICATION Spec
CONSTANTS
  Packets = {1, 2, 3, 4, 5}
  Frames = {1, 2, 3, 4, 5}
  Size <- Sizes
  MaxBytes = 2
  Capacity = 2
  None = 0
  NoFrame = 0
  MaxCalls = 2
INVARIANTS
  TypeOK
  NobodyOversleeps
  InOrder
PROPERTIES
  ImplementsChannels
  PushReturns
  StopReturns
CHECK_DEADLOCK FALSE
