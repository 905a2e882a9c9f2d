SPECIFICATION Spec
CONSTANTS
  q1 = q1
  q2 = q2
  q3 = q3
  Sql <- MCSql
  Capacity = 2
  MaxRows = 3
INVARIANTS
  CacheBounded
  ResultIsFinal
  LastRowFinishesStatement
  ErrorLosesOneRow
