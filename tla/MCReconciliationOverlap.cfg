SPECIFICATION ReconSpec
CONSTANTS
  Strategies = {s1}
  MaxIntents = 2
  MaxStarts = 1
  LostAnswersRaise = FALSE
  MayCrash = FALSE
  Overlapping = TRUE
PROPERTIES ForcedCloseIsTrue
CHECK_DEADLOCK FALSE
