SPECIFICATION ReconSpec
CONSTANTS
  Strategies = {s1}
  MaxIntents = 2
  MaxStarts = 2
  LostAnswersRaise = TRUE
  MayCrash = FALSE
  Overlapping = TRUE
INVARIANTS OneActiveOwner PassAgrees OneTradePerDeal
CHECK_DEADLOCK FALSE
