SPECIFICATION PaperFairSpec
CONSTANTS
  PaperMarket = {"m", "n"}
  Category = {"general"}
  CategoryOf <- MCCategoryOf
  NoFirst = {"m"}
  Rank <- MCRank
  Says <- MCSays
  Drift <- MCDrift
  Conviction = {0}
  PaperSignal <- MCSignal
  MinStake = 100
  MaxStake = 1000
  PageLimit = 1
  PageSize = 1
  PaperWorker = "worker"
  Client = {"client"}
  MaxFailed = 1
INVARIANTS
  SettledAsDecided
  LearntFromSettled
PROPERTIES
  OnlyLateMarks
  
CHECK_DEADLOCK FALSE
