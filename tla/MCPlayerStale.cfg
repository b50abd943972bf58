SPECIFICATION Spec
CONSTANTS
  MediaLen = 2
  Faults = {}
  StreamOf <- VideoAudio
  PacketCap = 1
  FrameCap = 1
  MayHold = FALSE
  HasSink = TRUE
  Targets = {0}
  Budget <- OneSeek
INVARIANT
  DecodedFramesAreFresh
CHECK_DEADLOCK FALSE
