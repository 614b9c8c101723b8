CONSTANTS
  TempFiles = {"counter", "latency"}
  Statuses = {"ok", "timeout", "exhausted"}
  Workers = {"worker1", "worker2"}
  Publishers = {"publisher1", "publisher2"}
SPECIFICATION FairSpec
INVARIANTS Inv OkRunIsClean
PROPERTIES RunOnceReturns
CHECK_DEADLOCK FALSE
