SPECIFICATION Spec
CONSTANTS
  Media <- TwoVideos
  HasAudio = FALSE
  Capacity = 1
  Lag <- LagOne
  Interval = 1
  Kinds = {"pause", "cancel", "timeout", "muxer", "addAudio",
           "input", "read", "decode", "budget", "encode", "save",
           "flush", "write", "finalize"}
  MaxTroubles = 1
INVARIANTS
  TypeOK
  CompletedIsOver
  CheckpointBehind
  SomeStageMoves
PROPERTIES
  ResultIsHonest
  ImplementsJob
CHECK_DEADLOCK FALSE
