CONSTANTS
  Workers = {w1, w2}
  NoOne = nobody
  Warmup = {x}
  Measured = {m1, m2}
  Capacity = 2
  Zero = zero
  SamplesPerWorker = 2
  Prefetch = 1
  MaxCrashes = 1
  CounterKind = "value"
  ConsumerTarget = 2
  KeepQueue = TRUE
SPECIFICATION FairLatencySpec
INVARIANTS Inv CountedSlotsAreSamples PercentilesFromSamples ReportsAgree
PROPERTIES LatencyRunEnds
CHECK_DEADLOCK FALSE
