CONSTANTS
  Runs = {"a1", "a2", "a5", "b1", "nogt1", "burst1", "steady1", "lat1", "lat5", "latb1"}
  Statuses = {"ok", "timeout"}
  Benchmark <- MCBenchmark
  Duration <- MCDuration
  Measured <- MCMeasured
  TheoreticalMax <- MCTheoreticalMax
  BaseMax = 60
  Absent = Absent
  MaxWrites = 2
  FirstLines <- MCFirstLines
  Gap = 3
SPECIFICATION Spec
INVARIANTS Inv ChartsAreComplete LabelsReadable
CHECK_DEADLOCK FALSE
