SPECIFICATION SpecAfterTermZero
CONSTANTS
  s0 = s0
  s1 = s1
  s2 = s2
  v1 = v1
  v2 = v2
  v3 = v3
  v4 = v4
  Server = {s0, s1, s2}
  Node0 = s0
  Nil = Nil
  None = None
  Value = {}
  MaxTerm = 2
  Timers = {s0, s1}
  Delayed = {}
  MaxRestart = 0
  MaxSenders = 1
  RVTries = 1
  AETries = 1
  ISTries = 1
  SnapshotAt = {}
  Links <- NoLinks
INVARIANTS
  OneLeaderPerTerm
CHECK_DEADLOCK FALSE
