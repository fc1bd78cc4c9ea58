SPECIFICATION Spec
CONSTANTS
  Ids = {1, 2, 3}
  Tasks = {h1, h2}
  h1 = h1
  h2 = h2
  eo = eo
  eob = eob
  ao = ao
  TxnRoutes = {eo, eob}
  PlainRoutes = {ao}
  MaxLimit = 2
  MaxCrashes = 1
  Failures = {"init", "connect", "tracker", "delivery", "expiry", "ack"}
  MaxFaults = 1
  NoTask = NoTask
  NoRoute = NoRoute
SYMMETRY Symmetry
INVARIANTS
  TypeOK
  ProducedIsPublished
  TopicsAscending
  NoRowOvertaken
  ExtraCopiesNeedCrash
PROPERTIES
  RecordedIsFinal
  PublicationSpec
CHECK_DEADLOCK FALSE
