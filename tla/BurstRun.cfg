CONSTANTS
  Messages = {m1, m2, m3}
  Workers = {w1, w2}
  NoOne = nobody
  Prefetch = 2
  Thresholds = {2, 3}
  ConsumerTarget = 2
  KeepQueue = TRUE
  MaxCrashes = 1
  CounterKind = "value"
SPECIFICATION FairSpec
INVARIANTS Inv CompleteMeansExecuted
PROPERTIES NothingRunsAfterExit BurstRunEnds
CHECK_DEADLOCK FALSE
