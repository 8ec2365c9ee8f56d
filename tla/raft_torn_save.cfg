SPECIFICATION SpecLagging
CONSTANTS
  s0 = s0
  s1 = s1
  s2 = s2
  v1 = v1
  v2 = v2
  v3 = v3
  v4 = v4
  Server = {s0, s1, s2}
  Node0 = s0
  Nil = Nil
  None = None
  Value = {v1, v2, v3}
  MaxTerm = 2
  Timers = {}
  Delayed = {}
  MaxRestart = 1
  MaxSenders = 1
  RVTries = 1
  AETries = 1
  ISTries = 1
  SnapshotAt = {2}
  Links <- Links02
INVARIANTS
  StateMachineSafety
CHECK_DEADLOCK FALSE
