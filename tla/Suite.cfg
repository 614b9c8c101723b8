CONSTANTS
  Runs = {r1, r2, r3}
  LatencyRuns = {r1, r2}
  WarmupRuns = 1
  MaxStarts = 3
SPECIFICATION FairSuiteSpec
INVARIANTS  AveragesMatchFile
PROPERTIES SuiteEnds
CHECK_DEADLOCK FALSE
