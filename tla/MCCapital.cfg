\* One vault that holds anything at all is enough.
SPECIFICATION Spec
CONSTANTS
  Vault = {v1}
  MaxAmount = 1
  MaxExposures = {0, 2}
  MaxTotal = 2
INVARIANT
  WithdrawalsSucceed
