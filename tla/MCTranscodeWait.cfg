SPECIFICATION Spec
CONSTANTS
  Media <- OneVideo
  HasAudio = FALSE
  Capacity = 1
  Lag <- LagOne
  Interval = 1
  Kinds = {"cancel"}
  MaxTroubles = 1
PROPERTIES
  WaitEndsWithStages
CHECK_DEADLOCK FALSE
