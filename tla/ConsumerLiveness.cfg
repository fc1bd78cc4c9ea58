SPECIFICATION FairSpec
CONSTANTS
  Ids = {1, 2}
  Tasks = {h1, h2}
  h1 = h1
  h2 = h2
  a = a
  b = b
  Accounts = {a, b}
  Funding = 10
  Tx <- MCTx
  Routes = {"exactly_once"}
  MaxRequest = 2
  Lengths = {1, 2}
  ErrorsNamed = FALSE
  MaxCrashes = 0
  Failures = {"connect", "recv", "rebalance", "fatal"}
  MaxFaults = 2
  NoTask = NoTask
  NoRoute = NoRoute
PROPERTIES
  EveryMessageConsumed
CHECK_DEADLOCK FALSE
