SPECIFICATION Spec
CONSTANTS
  Factory = {f1, f2}
  Engine = "engine"
  OracleConsensus = "OracleConsensus"
  Account = {"council"}
  NoAddress = "none"
  Parameters <- MCParameters
  Configs <- MCConfigs
  Requests <- MCRequests
  NoTerms = NoTerms
  MaxMarkets = 2
  MaxByHand = 1
  MaxTime = 2
SYMMETRY Symmetry
INVARIANTS
  CreationIsComplete
  SettledOnItsTerms
PROPERTIES
  NoRetroactiveSettlement
