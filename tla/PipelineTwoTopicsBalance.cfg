SPECIFICATION Spec
CONSTANTS
  Ids = {1, 2, 3}
  PTasks = {p1}
  CTasks = {c1}
  p1 = p1
  c1 = c1
  eo = eo
  ao = ao
  TxnRoutes = {eo}
  PlainRoutes = {ao}
  CRoutes = {"exactly_once", "atleast_once"}
  a = a
  b = b
  Accounts = {a, b}
  Funding = 10
  Tx <- MCTx
  MaxLimit = 2
  MaxRequest = 2
  Lengths = {1, 2, 3, 4}
  ErrorsNamed = TRUE
  PMaxCrashes = 0
  CMaxCrashes = 0
  PFailures = {}
  CFailures = {}
  PMaxFaults = 0
  CMaxFaults = 0
  NoTask = NoTask
  NoRoute = NoRoute
INVARIANTS
  BalancesMatch
CHECK_DEADLOCK FALSE
