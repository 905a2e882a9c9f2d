SPECIFICATION FairSpec
CONSTANTS
  a = a
  b = b
  NoOne = NoOne
  Migrators <- Two
  Versions <- TwoVersions
  NoTx <- OnlySecond
  Parts = 2
  MaxRuns = 4
  Faults <- AllFaults
CHECK_DEADLOCK FALSE
INVARIANTS
  DirtyLeavesNothing
  InOrder
  ScriptAndRowTogether
PROPERTY RunsEnd
