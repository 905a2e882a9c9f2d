SPECIFICATION Spec
CONSTANTS
  v1 = v1
  v2 = v2
  v3 = v3
  Value <- MCValue
  MaxDepth = 3
  MaxSavepoints = 4
  Faults <- EngineFaults
SYMMETRY ValueSymmetry
INVARIANTS
  
  NoOrphanTransaction
  ScopesNested
PROPERTIES
  ImplementsNested
