SPECIFICATION Spec
CONSTANTS
  v1 = v1
  v2 = v2
  v3 = v3
  Value <- MCValue
  MaxDepth = 1
  MaxSavepoints = 1
  Faults <- Cancellation
PROPERTY DroppedRollsBackOnNextUse
