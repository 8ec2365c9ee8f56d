SPECIFICATION FairSpec
CONSTANTS
  w1 = w1
  w2 = w2
  None = None
  Worker = {w1, w2}
  Prompt = {w1, w2}
  NMap = 6
  NReduce = 4
  Budget <- OneFailure
INVARIANTS
  TypeOK
  OneCallPerWorker
  MapsBeforeReduce
  OutputComplete
  NoCrash
  EveryWorkerWorked
PROPERTIES
  JobEnds
CHECK_DEADLOCK FALSE
