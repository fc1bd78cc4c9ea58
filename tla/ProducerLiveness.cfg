SPECIFICATION FairSpec
CONSTANTS
  Ids = {1, 2}
  Tasks = {h1, h2}
  h1 = h1
  h2 = h2
  eo = eo
  ao = ao
  TxnRoutes = {eo}
  PlainRoutes = {ao}
  MaxLimit = 2
  MaxCrashes = 1
  Failures = {"init", "connect", "ack"}
  MaxFaults = 1
  NoTask = NoTask
  NoRoute = NoRoute
PROPERTIES
  EveryRowProduced
CHECK_DEADLOCK FALSE
