CONSTANTS
  Lines <- MCLines
  MarkedLine = {}
  Signals <- MCLines
  NULL = NULL
  Threshold = 3
  MaxFindings = 150
  Request = {"r1", "r2"}
  Indicator = {"host", "cert"}
  World <- MCWorld
  MaxPayloads = 2
  MaxManual = 1
  MaxFaults = 2
SPECIFICATION Spec
INVARIANTS
  AnalysesTypeOK
  UploadsAreRemoved
  AnswerMatchesRow
  CompletedIsIndexed
  SightingsAreCounted
  GapsAreReported
PROPERTIES
  SeverityNeverFalls
  RequestsAreAnswered
CHECK_DEADLOCK FALSE
