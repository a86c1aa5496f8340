CONSTANTS
  Processes = {p, q}
  Trades = {1, 2, 3, 4}
  Strategy <- MCStrategy
  Family <- MCFamily
  Instrument <- MCInstrument
  Currencies <- MCCurrencies
  Wanted <- MCWanted
  Weight <- MCWeight
  MinDeal <- MCMinDeal
  Step <- MCStep
  Limit <- MCLimit
  CycleRisk = 6
  CyclePositions = 2
  MaxPositions = 3
  MaxPerStrategy = 2
  MaxNotional = 6
  GrossLimit = 8
  Tolerance = 50
  Slippages = {1}
  MaxBatch = 3
  MaxCrashes = 1
SPECIFICATION Spec
SYMMETRY Symmetry
INVARIANTS TypeOK CycleFits 
PROPERTIES AdmissionsFit
CHECK_DEADLOCK FALSE
