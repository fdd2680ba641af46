CONSTANTS
  Process = {p1, p2}
  Request = {r1, r2, r3}
  NULL = NULL
  MaxKey = 2
  Legacy = 0
  MaxFaults = 1
  MayTamper = TRUE
SPECIFICATION Spec
SYMMETRY Symmetry
INVARIANTS
  AuditTypeOK
  ChainIntact
  RotationKeepsHistory
  TamperIsDetected
  OnlyFaultsDegrade
  FailClosed
CHECK_DEADLOCK FALSE
