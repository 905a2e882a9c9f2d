SPECIFICATION Spec
CONSTANTS
  Proc <- MCProc
  Pids <- MCPids
  MaxAttempt = 3
  MaxRuns = 3
  MaxErrors = 1
  MaxKills = 2
CHECK_DEADLOCK FALSE
INVARIANTS
  FinalNeverPartial
  InPlaceWhenIdle
PROPERTIES
  MetadataSurvives
