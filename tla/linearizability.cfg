SPECIFICATION FairSpec
CONSTANTS
  x = x
  y = y
  a = a
  b = b
  Op <- Operations
  MaxOps = 3
  Timeout = TRUE
INVARIANTS
  ListIsRest
  VerdictRight
PROPERTIES
  Terminates
CHECK_DEADLOCK FALSE
