SPECIFICATION Spec
CONSTANTS
  Ids = {1, 2}
  Tasks = {h1, h2}
  h1 = h1
  h2 = h2
  a = a
  b = b
  Accounts = {a, b}
  Funding = 10
  Tx <- MCTx
  Routes = {"exactly_once", "atleast_once"}
  MaxRequest = 2
  Lengths = {1, 2}
  ErrorsNamed = TRUE
  MaxCrashes = 0
  Failures = {"connect", "tracker", "recv", "rebalance", "transient", "fatal"}
  MaxFaults = 2
  NoTask = NoTask
  NoRoute = NoRoute
SYMMETRY Symmetry
INVARIANTS
  NothingSkipped
  ConsumedInTopicOrder
CHECK_DEADLOCK FALSE
