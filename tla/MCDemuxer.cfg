SPECIFICATION Spec
CONSTANTS
  MediaLen = 3
  Faults = {"open", "read", "seek"}
  MaxCalls = 5
INVARIANTS
  TypeOK
  SeekOwed
  RestsForAReason
  StopHeard
PROPERTIES
  RewindOnlyAfterStaleStart
  StopEnds
  SeekEnds
CHECK_DEADLOCK FALSE
