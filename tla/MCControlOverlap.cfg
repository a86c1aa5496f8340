CONSTANTS
  FamilyCount = 1
  A = A
  p = p
  None = None
  Instruments = {A}
  Profiles = {p}
  Default = p
  Decisions = {"SUPERVISED", "AUTONOMOUS"}
  Views = {"OK"}
  Overlapping = TRUE
  MaxIds = 3
  MaxDeals = 1
  MaxCrashes = 1
  MaxCalls = 2
SPECIFICATION Spec
INVARIANTS RecoveryRestores
PROPERTIES FailedStartHeals
CHECK_DEADLOCK FALSE
