SPECIFICATION Spec
CONSTANTS
  Kind = {"agent", "oracle", "proposal", "asset", "market"}
  v1 = v1
  v2 = v2
  q1 = q1
  q2 = q2
  Voter = {v1, v2}
  Amount = {1, 2}
  MinStake = 2
  MaxSupply = 3
  MaxStored = 3
  Request = {q1, q2}
  MaxTx = 5
  MaxReports = 4
SYMMETRY Symmetry
INVARIANTS
  Backed
  RowWasTrue
  CanBeRepaired
PROPERTIES
  ExecutedStays
CHECK_DEADLOCK FALSE
