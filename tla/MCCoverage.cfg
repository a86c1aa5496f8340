CONSTANTS
  InstrumentCount = 2
  Class <- MCClass
  ClassBudget <- MCClassBudget
  MaxInstruments = 1
  Seeds = {}
  Tier2Seeds = {1, 2}
  Tradable = {1}
  Choosable = {1}
  Scores = {90}
  Threshold = 75
  BatchSize = 2
  PerMinute = 1
  Interval = 1
  Minute = 2
  Residency = 1
  Cooldown = 2
  TimeToLive = 2
  StaleAfter = 1
SPECIFICATION Spec
INVARIANTS TypeOK PromotionsArePaced
PROPERTIES  CooldownIsKept
CHECK_DEADLOCK FALSE
