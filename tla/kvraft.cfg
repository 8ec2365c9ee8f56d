SPECIFICATION Spec
CONSTANTS
  s0 = s0
  s1 = s1
  c0 = c0
  c1 = c1
  x = x
  v1 = v1
  v2 = v2
  First = s0
  Server = {s0, s1}
  Clerk = {c0, c1}
  Key = {x}
  Value = {v1, v2}
  Script <- WriteAndRead
  None = None
  MaxElect = 3
  MaxFault = 0
  MaxSnapshot = 0
  MaxInstall = 0
INVARIANTS
  TypeOK
  AckedCommitted
  Linearizable
CHECK_DEADLOCK FALSE
