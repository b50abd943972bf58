SPECIFICATION Spec
CONSTANTS
  MediaLen = 3
  Faults = {"open"}
  StreamOf <- VideoAudio
  PacketCap = 1
  FrameCap = 1
  MayHold = FALSE
  HasSink = TRUE
  Targets = {0}
  Budget <- NoSeek
INVARIANTS
  ThreadsOwned
  QuietWhenIdle
PROPERTIES
  EndIsHonest
  PlaybackEnds
  StopReturns
CHECK_DEADLOCK FALSE
