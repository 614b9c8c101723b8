CONSTANTS
  Messages = {m1, m2, m3}
  Workers = {w1, w2}
  NoOne = nobody
  Prefetch = 2
  Thresholds = {2, 3}
  KeepQueue = FALSE
  MaxCrashes = 2
  CounterKind = "value"
SPECIFICATION FairSpec
INVARIANTS OkMeansDrained ReportWithinRedeliveries MilestonesMatchReport
PROPERTIES NothingRunsAfterExit EveryRunEnds
CHECK_DEADLOCK FALSE
