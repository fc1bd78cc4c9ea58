SPECIFICATION Spec
CONSTANTS
  Ids = {1, 2}
  Tasks = {h1}
  h1 = h1
  a = a
  b = b
  Accounts = {a, b}
  Funding = 10
  Tx <- MCTx
  Routes = {"exactly_once", "atleast_once"}
  MaxRequest = 2
  Lengths = {1, 2}
  ErrorsNamed = TRUE
  MaxCrashes = 1
  Failures = {"connect", "tracker", "recv", "rebalance", "commit", "transient", "fatal"}
  MaxFaults = 2
  NoTask = NoTask
  NoRoute = NoRoute
INVARIANTS
  TypeOK
  CountedOncePerCopy
  ItemsAreConsumed
  LossBounded
  
PROPERTIES
  MoneyOnlyFromFunding
  ConsumptionSpec
  NeverBack
CHECK_DEADLOCK FALSE
