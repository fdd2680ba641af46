CONSTANTS
  Process = {p1}
  Request = {r1}
  NULL = NULL
  MaxKey = 2
  Legacy = 1
  MaxFaults = 0
  MayTamper = FALSE
SPECIFICATION Spec
INVARIANT
  RotationKeepsHistory
CHECK_DEADLOCK FALSE
