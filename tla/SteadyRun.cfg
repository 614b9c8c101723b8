CONSTANTS
  m1 = m1
  m2 = m2
  m3 = m3
  p1 = p1
  p2 = p2
  Messages <- MCMessages
  Publishers <- MCPublishers
  Chunk <- MCChunk
  Workers = {w1}
  NoOne = nobody
  Prefetch = 2
  ConsumerTarget = 1
  KeepQueue = FALSE
  MaxCrashes = 1
  CounterKind = "value"
SPECIFICATION FairSpec
INVARIANTS WarmupNotMeasured ExhaustedIsDry PublisherFailureEndsRun
PROPERTIES WorkSpec NothingRunsAfterExit SteadyRunEnds
CHECK_DEADLOCK FALSE
