SPECIFICATION FairSpec
CONSTANTS
  v1 = v1
  v2 = v2
  v3 = v3
  Value <- TwoValues
  MaxDepth = 3
  MaxSavepoints = 3
  Faults <- UsageFaults
INVARIANTS
  PendingCountsDown
  ScopesHaveHandles
PROPERTIES
  PoisonedIsInert
  OutermostCleanupNeverPoisons
  CallsReturn
