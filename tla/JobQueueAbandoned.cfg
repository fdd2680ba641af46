CONSTANTS
  Job = {j1}
  Worker = {w1}
  Apk = {a1}
  Key = {}
  NULL = NULL
  Priority = {1}
  MaxAttempts = 2
  LeaseTicks = 1
  RetryTicks = 1
  MaxRetries = 0
  MaxCrashes = 1
SPECIFICATION Spec
INVARIANT AbandonedIsReclaimable
CHECK_DEADLOCK FALSE
