SPECIFICATION FairSpec
CONSTANTS
  MaxId = 3
  MaxCounts = 4
  InFlight = 2
  Tests = {"ExactlyOnceGuarantee", "ConsumptionOrder", "ProducerConsumerMatches"}
  Disconnected = TRUE
  NoRoute = NoRoute
  NoResult = NoResult
INVARIANTS
  TypeOK
  PassMeansConsumed
  FailMeansOvertaken
PROPERTIES
  RunEnds
CHECK_DEADLOCK FALSE
