SPECIFICATION FairSpec
CONSTANTS
  c1 = c1
  c2 = c2
  alice = alice
  bob = bob
  NoConn = NoConn
  Conns <- MCConns
  Clients <- MCClients
  MaxTx = 1
  RollbackFails = TRUE
INVARIANTS
  OnlyOwnWork
  FateKept
  PreparedIsCommitted
PROPERTIES
  LockComesBack
