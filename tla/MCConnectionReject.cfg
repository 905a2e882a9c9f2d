SPECIFICATION Spec
CONSTANTS
  v1 = v1
  v2 = v2
  v3 = v3
  Value <- TwoValues
  MaxDepth = 2
  MaxSavepoints = 2
  Faults = {}
PROPERTY WritesWaitForCommit
