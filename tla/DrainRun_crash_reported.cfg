CONSTANTS
  Messages = {m1, m2}
  Workers = {w1, w2}
  NoOne = nobody
  Prefetch = 1
  Thresholds = {1, 2}
  KeepQueue = FALSE
  MaxCrashes = 1
  CounterKind = "value"
SPECIFICATION Spec
INVARIANT CrashFailsTheRun
CHECK_DEADLOCK FALSE
