CONSTANTS
  Job = {j1, j2}
  Worker = {w1, w2}
  Apk = {a1}
  Key = {k1}
  NULL = NULL
  Priority = {1}
  MaxAttempts = 2
  LeaseTicks = 1
  RetryTicks = 1
  MaxRetries = 1
  MaxCrashes = 1
SPECIFICATION Spec
SYMMETRY Symmetry
INVARIANTS
  TypeOK
  RowConsistent
  HolderIsFresh
  AttemptBudget
PROPERTIES
  SettledByHolder
  CompletedIsFinal
  ImplementsContract
CHECK_DEADLOCK FALSE
