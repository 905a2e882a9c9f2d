SPECIFICATION ConnectSpec
CONSTANTS
  t1 = t1
  t2 = t2
  t3 = t3
  NoTask = NoTask
  Task <- ThreeTasks
  Options <- MCOptions
  Pragmas = 1
  MaxDatabases = 3
  Handle = {1, 2}
  Paths = {"", "a", "/a", "a b", "a/../b", "a?b", "a#b"}
  MaxCalls = 2
  MaxParams = 3
  Params <- MCParams
CHECK_DEADLOCK FALSE
INVARIANTS
  ClonesShareOneDatabase
  OthersStayApart
  NameIsDatabase
  
  UrlReadAsMeant
PROPERTIES
  ConnectsReturn
