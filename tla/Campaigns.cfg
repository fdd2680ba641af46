CONSTANTS
  Sample = {s1, s2, s3, s4}
  Process = {p1, p2}
  NULL = NULL
  MaxCampaign = 2
  Isolated = TRUE
  Pick = {"A", "B", "Bridge", "Ran", "Mimic"}
  Fingerprint <- Fingerprints
SPECIFICATION Spec
SYMMETRY Symmetry
INVARIANTS
  CampaignTypeOK
  MembersAreLinked
  AttributesKept
  StrongPairIsFound
  UnanchoredNeverStrong
CHECK_DEADLOCK FALSE
