SPECIFICATION Spec
CONSTANTS
  Strategies = {s1, s2}
  MaxIntents = 2
  MaxStarts = 2
  LostAnswersRaise = FALSE
  MayCrash = TRUE
INVARIANTS TypeOK OutcomeIsRecorded  ClosedIsFlat  EngineTracksOpenRow
 
CHECK_DEADLOCK FALSE
SYMMETRY StrategySymmetry
