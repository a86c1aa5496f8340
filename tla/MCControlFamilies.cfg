CONSTANTS
  FamilyCount = 2
  A = A
  p = p
  q = q
  None = None
  Instruments = {A}
  Profiles = {p, q}
  Default = p
  Decisions = {"AUTONOMOUS", "EMERGENCY"}
  Views = {"OK"}
  Overlapping = FALSE
  MaxIds = 3
  MaxDeals = 1
  MaxCrashes = 1
  MaxCalls = 1
SPECIFICATION LiveSpec
INVARIANTS RowsTellEngines
PROPERTIES ManualIsNotTakenOver 
CHECK_DEADLOCK FALSE
