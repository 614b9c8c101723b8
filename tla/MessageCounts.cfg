CONSTANTS
  Frameworks = {"base", "steady", "nogt"}
  SleepTimes = {1}
  None = None
  NoCountsFile = NoCountsFile
  Torn = Torn
  Table <- MCTable
  Base <- MCBase
  Window = 40
  Target = 15
  Given = {700}
  Throughputs = {10, 350}
  MaxInvocations = 2
SPECIFICATION CountsSpec
INVARIANTS CountsInv PresetsAreRun SteadyIsCovered
CHECK_DEADLOCK FALSE
