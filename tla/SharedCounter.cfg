CONSTANTS
  Workers = {w1, w2}
  Runner = runner
  NoOne = nobody
  CounterKinds = {"mmap", "value"}
  TasksPerWorker = 2
  MaxCrashes = 2
SPECIFICATION FairCounterSpec
INVARIANT CounterInv
PROPERTIES ImplementsEventCounter PollReturns EverySurvivorCounts
CHECK_DEADLOCK FALSE
