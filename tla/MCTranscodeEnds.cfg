SPECIFICATION Spec
CONSTANTS
  Media <- AudioVideo
  HasAudio = TRUE
  Capacity = 1
  Lag <- LagOne
  Interval = 2
  Kinds = {"timeout", "muxer", "addAudio", "input", "read", "decode",
           "budget", "encode", "save", "flush", "write", "finalize"}
  MaxTroubles = 2
INVARIANTS
  NothingLost
PROPERTIES
  StagesEnd
  WaitReturns
CHECK_DEADLOCK FALSE
