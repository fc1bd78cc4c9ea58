SPECIFICATION DrainSpec
CONSTANTS
  Ids = {1, 2, 3}
  PTasks = {p1}
  CTasks = {c1, eoc, aoc}
  p1 = p1
  c1 = c1
  eoc = eoc
  aoc = aoc
  eo = eo
  TxnRoutes = {eo}
  PlainRoutes = {}
  CRoutes = {"exactly_once", "atleast_once"}
  a = a
  b = b
  Accounts = {a, b}
  Funding = 10
  Tx <- MCTx
  MaxLimit = 2
  MaxRequest = 5
  Lengths = {1, 2, 3, 4}
  ErrorsNamed = FALSE
  PMaxCrashes = 1
  CMaxCrashes = 0
  PFailures = {"init"}
  CFailures = {"connect", "recv", "rebalance"}
  PMaxFaults = 1
  CMaxFaults = 1
  EOCall = eoc
  AOCall = aoc
  DriverRoutes = {"exactly_once"}
  NoTask = NoTask
  NoRoute = NoRoute
INVARIANTS
  ConsumedInOrder
  BalancesMatch
  IbansMatch
PROPERTIES
  Drained
CHECK_DEADLOCK FALSE
