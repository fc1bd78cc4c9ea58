SPECIFICATION FairSpec
CONSTANTS
  Ids = {1, 2}
  Tasks = {h1, h2}
  h1 = h1
  h2 = h2
  eo = eo
  eob = eob
  ao = ao
  TxnRoutes = {eo, eob}
  PlainRoutes = {ao}
  MaxLimit = 2
  MaxCrashes = 0
  Failures = {}
  MaxFaults = 0
  NoTask = NoTask
  NoRoute = NoRoute
PROPERTIES
  EveryRowProduced
CHECK_DEADLOCK FALSE
