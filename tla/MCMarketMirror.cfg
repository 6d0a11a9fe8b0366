SPECIFICATION FairSpec
CONSTANTS
  User = {"u"}
  Bet <- MCBets
  TxOf <- MCTxOf
  Asks <- MCAsks
  Owner = "u"
  Predicted <- MCPredicted
  RecentWindow = 1
  MaxExposure = 3
  EndTime = 1
  SettleTime = 1
  MaxTime = 1
  MaxCrashes = 1
INVARIANTS
  SettlementMirrorsChain
  MirrorNeverExceedsChain
  ScoreIsEarned
PROPERTIES
  RequestsEnd
CHECK_DEADLOCK FALSE
