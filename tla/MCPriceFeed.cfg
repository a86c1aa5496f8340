SPECIFICATION FairSpec
CONSTANTS
  MaxPriceAge = 0
  StaleAfter = 1
  Debounce = 2
INVARIANTS TypeOK
PROPERTIES FlagsOutlastTheFault PricesKeepComing 
CHECK_DEADLOCK FALSE
