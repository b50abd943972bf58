SPECIFICATION Spec
CONSTANTS
  MediaLen = 3
  Faults = {}
  MaxCalls = 3
PROPERTY
  SeekTargetKept
CHECK_DEADLOCK FALSE
