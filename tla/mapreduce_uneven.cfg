SPECIFICATION Spec
CONSTANTS
  w1 = w1
  w2 = w2
  None = None
  Worker = {w1, w2}
  Prompt = {w1, w2}
  NMap = 3
  NReduce = 2
  Budget <- NoFailure
INVARIANTS
  MapsBeforeReduce
CHECK_DEADLOCK FALSE
