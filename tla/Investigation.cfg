CONSTANTS
  Lines <- MCLines
  MarkedLine = {"sms line"}
  Signals <- SignalsOf
  NULL = NULL
  PlanLimit = 3
  DefaultExperiments <- MCDefaultExperiments
  MaxEvents = 1
  MaxFaults = 2
  Sample <- MCSample
  Environment <- MCEnvironment
  Answer <- MCAnswer
  Pick = {"flow", "access", "loading", "unknown", "twice", "start", "nothing"}
SPECIFICATION Spec
INVARIANTS
  InvestigationTypeOK
  ConfirmedWasObserved
  ContradictedWasTested
  EvidenceIsAccounted
  UnsupportedNeverActs
  DeviceIsCleaned
  PlanTellsResults
  PointsAreObserved
