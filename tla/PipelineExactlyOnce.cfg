SPECIFICATION Spec
CONSTANTS
  Ids = {1, 2}
  PTasks = {p1}
  CTasks = {c1}
  p1 = p1
  c1 = c1
  eo = eo
  TxnRoutes = {eo}
  PlainRoutes = {}
  CRoutes = {"exactly_once"}
  a = a
  b = b
  Accounts = {a, b}
  Funding = 10
  Tx <- MCTx
  MaxLimit = 2
  MaxRequest = 2
  Lengths = {1, 2, 3, 4}
  ErrorsNamed = TRUE
  PMaxCrashes = 1
  CMaxCrashes = 1
  PFailures = {"init", "connect", "tracker", "delivery", "expiry"}
  CFailures = {"connect", "tracker", "recv", "rebalance", "commit"}
  PMaxFaults = 1
  CMaxFaults = 1
  NoTask = NoTask
  NoRoute = NoRoute
INVARIANTS
  ExtraCountsNeedRestart
PROPERTIES
  ConsumerSpec
  TrackerWrites
CHECK_DEADLOCK FALSE
