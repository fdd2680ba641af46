CONSTANTS
  Job = {j1, j2}
  Worker = {w1}
  Apk = {a1}
  Key = {}
  NULL = NULL
  Priority = {1}
  MaxAttempts = 1
  LeaseTicks = 1
  RetryTicks = 0
  MaxRetries = 0
  MaxCrashes = 0
  Request = {r1, r2}
  RetainUploads = FALSE
  MaxFaults = 0
SPECIFICATION ApkSpec
INVARIANT UnprocessedUploadIsKept
CHECK_DEADLOCK FALSE
