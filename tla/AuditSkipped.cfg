CONSTANTS
  Process = {p1}
  Request = {r1}
  NULL = NULL
  MaxKey = 1
  Legacy = 0
  MaxFaults = 0
  MayTamper = FALSE
SPECIFICATION Spec
INVARIANT
  EveryRequestIsAudited
CHECK_DEADLOCK FALSE
