SPECIFICATION FairSpec
CONSTANTS
  StartRequest = {s1, s2, s3}
  StopRequest = {p1, p2, p3}
  None = None
INVARIANT LoopTracked
PROPERTIES StopEnds StopIsEffective
CHECK_DEADLOCK FALSE
