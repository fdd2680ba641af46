CONSTANTS
  Sample = {s1, s2, s3, s4}
  Process = {p1, p2}
  NULL = NULL
  MaxCampaign = 2
  Isolated = FALSE
  Pick = {"A", "B"}
  Fingerprint <- Fingerprints
SPECIFICATION Spec
INVARIANT
  MembersAreLinked
CHECK_DEADLOCK FALSE
