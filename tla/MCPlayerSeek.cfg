SPECIFICATION Spec
CONSTANTS
  MediaLen = 1
  Faults = {}
  StreamOf <- VideoOnly
  PacketCap = 1
  FrameCap = 1
  MayHold = FALSE
  HasSink = FALSE
  Targets = {0}
  Budget <- TwoSeeks
INVARIANTS
  TypeOK
  FlushedDecodersRest
  OneSeekStale
  GenerationsInOrder
CHECK_DEADLOCK FALSE
