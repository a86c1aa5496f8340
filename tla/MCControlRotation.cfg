CONSTANTS
  FamilyCount = 1
  A = A
  B = B
  p = p
  None = None
  Instruments = {A, B}
  Profiles = {p}
  Default = p
  Decisions = {"AUTONOMOUS", "EMERGENCY"}
  Views = {"OK", "CLOSED"}
  Overlapping = FALSE
  MaxIds = 3
  MaxDeals = 2
  MaxCrashes = 0
  MaxCalls = 2
SPECIFICATION Spec
INVARIANTS TypeOK
PROPERTIES  CyclesKeepExits ProtectionOutlivesCycles
SYMMETRY Symmetry
CHECK_DEADLOCK FALSE
