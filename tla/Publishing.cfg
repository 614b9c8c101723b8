CONSTANTS
  Messages = 7
  BurstSize = 5
  Coroutines = {c1, c2, c3}
  MaxCancelled = 2
  BatchSize = 2
  Threads = {t1, t2, t3}
  NoThread = NoThread
  Publishers = {p1, p2}
  PipeSize = 2
SPECIFICATION FairSpec
INVARIANT Inv
PROPERTIES ImplementsPublisher PublishEnds
CHECK_DEADLOCK FALSE
