CONSTANTS
  Job = {j1, j2}
  Worker = {w1, w2}
  Apk = {a1}
  Key = {}
  NULL = NULL
  Priority = {1}
  MaxAttempts = 2
  LeaseTicks = 1
  RetryTicks = 1
  MaxRetries = 0
  MaxCrashes = 1
SPECIFICATION FairSpec
PROPERTY EveryJobEnds
CHECK_DEADLOCK FALSE
