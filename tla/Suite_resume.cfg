CONSTANTS
  Runs = {r1, r2}
  LatencyRuns = {}
  WarmupRuns = 0
  MaxStarts = 3
SPECIFICATION SuiteSpec
INVARIANT ResumeSkipsCompleted
CHECK_DEADLOCK FALSE
