SPECIFICATION ReplaySpec
CONSTANTS
  Market = {"m"}
  Agent = {"a"}
  Oracle = {"o"}
  User = {"u"}
  Vault = {"v"}
  LoggedAmount = {1, 2, 3}
  MaxColumn = 2
  MaxEvents = 4
  MaxReplays = 2
  MaxFailures = 1
INVARIANTS
  RowsAsLogged
  OnceIsExact
  OnlyFailuresPass
CHECK_DEADLOCK FALSE
