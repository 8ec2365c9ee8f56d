SPECIFICATION Spec
CONSTANTS
  c0 = c0
  N = 2
  Clerk = {c0}
  NShards = 10
  Script <- OneClerk
  None = None
  MaxElect = 2
  MaxLost = 1
  MaxCrash = 1
INVARIANTS
  TypeOK
  AppliedOnce
  AckedCommitted
  ReadsSeeWrites
  ShareServed
CHECK_DEADLOCK FALSE
