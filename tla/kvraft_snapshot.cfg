SPECIFICATION FairSpec
CONSTANTS
  s0 = s0
  s1 = s1
  c0 = c0
  c1 = c1
  x = x
  v1 = v1
  v2 = v2
  First = s0
  Server = {s0, s1}
  Clerk = {c0}
  Key = {x}
  Value = {v1, v2}
  Script <- WriteThenAsk
  None = None
  MaxElect = 2
  MaxFault = 1
  MaxSnapshot = 1
  MaxInstall = 1
INVARIANTS
  StateIsLog
  Linearizable
PROPERTIES
  LeaderAnswers
CHECK_DEADLOCK FALSE
