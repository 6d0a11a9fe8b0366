SPECIFICATION FairSpec
CONSTANTS
  NumMarkets = 2
  NumCycles = 2
  MaxTrade = 3
  MaxMarket = 2
  MaxDaily = 2
  MaxTx = 1
  Day = 0
  MaxPredictions = 2
  MaxTime = 1
  MaxCrashes = 1
INVARIANTS
  ExposureBounded
  BetsAccounted
PROPERTIES
  SubmissionsResolve
