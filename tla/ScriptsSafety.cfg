SPECIFICATION Spec
CONSTANTS
  Ids = {1, 2, 3, 4, 5}
  a = a
  b = b
  c = c
  Accounts = {a, b, c}
  Funding = 10
  Tx <- MCTx
  PageSize = 2
INVARIANTS
  TypeOK
PROPERTIES
  IbansFailIsReal
CHECK_DEADLOCK FALSE
