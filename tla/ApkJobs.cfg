CONSTANTS
  Job = {j1, j2}
  Worker = {w1, w2}
  Apk = {a1, a2}
  Key = {k1}
  NULL = NULL
  Priority = {1}
  MaxAttempts = 2
  LeaseTicks = 1
  RetryTicks = 0
  MaxRetries = 1
  MaxCrashes = 1
  Request = {r1, r2}
  RetainUploads = FALSE
  MaxFaults = 1
SPECIFICATION ApkSpec
SYMMETRY Symmetry
INVARIANTS
  ApkTypeOK
  SameKeySameJob
  CompletedWasAnalysed
  UnsharedUploadSurvives
  ProcessedUploadIsDeleted
CHECK_DEADLOCK FALSE
