SPECIFICATION FairSpec
CONSTANTS
  MaxId = 6
  a = a
  b = b
  Accounts = {a, b}
  BatchSize = 2
  Failures = {"connect", "schema", "request", "accounts", "insert", "commit", "late"}
  MaxFaults = 1
  MaxCrashes = 2
INVARIANTS
  TypeOK
  TransferAfterFunding
PROPERTIES
  RowsGrowUpwards
  LoadingGoesOn
CHECK_DEADLOCK FALSE
