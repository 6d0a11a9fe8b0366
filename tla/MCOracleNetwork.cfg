SPECIFICATION FairSpec
CONSTANTS
  NumOracles = 2
  Market = {m1}
  MaxDeposit = 2
  WeightCaps = {5000, 10000, 20000}
  SlashRates = {5000, 10000}
  MinimumStakes = {1, 2}
INVARIANTS
  BookedAsGiven
  SafeBeforeVerdict
PROPERTIES
  PollSpec
  StakeReturned
