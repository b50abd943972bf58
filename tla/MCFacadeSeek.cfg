SPECIFICATION FacSpec
CONSTANT FacCalls = 6
INVARIANT FacSeekPrevails
CHECK_DEADLOCK FALSE
