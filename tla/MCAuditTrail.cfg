SPECIFICATION Spec
CONSTANTS
  Sessions = {loop, beside}
  loop = loop
  beside = beside
  MaxCalls = 4
INVARIANTS TypeOK EvidenceIsComplete NewestStateIsTold
CHECK_DEADLOCK FALSE
SYMMETRY SessionSymmetry
