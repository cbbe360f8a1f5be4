SPECIFICATION FairPacingSpec
CONSTANTS
  Task = {t1, t2, t3}
  NoTask = NoTask
  Weight <- OneTick
  Retries = 2
  RetryBackoff = 1
  RetryAfter = {2}
  Resets = TRUE
PROPERTIES Paced EveryCallEnds
CHECK_DEADLOCK FALSE
