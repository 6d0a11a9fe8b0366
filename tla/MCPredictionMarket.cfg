SPECIFICATION FairSpec
CONSTANTS
  NumBettors = 3
  Funds = 27
  BetAmounts <- MCBetAmounts
  MaxExposure = 54
  FeeBps = 1000
  StartTime = 1
  EndTime = 2
  DisputeWindow = 1
  MaxTime = 3
INVARIANTS
  Accounts
  WinnersKeepTheirStake
PROPERTIES
  EscrowSpec
  EveryClaimIsPaid
CHECK_DEADLOCK FALSE
