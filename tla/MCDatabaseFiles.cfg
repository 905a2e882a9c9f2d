SPECIFICATION Spec
CONSTANTS
  t1 = t1
  t2 = t2
  t3 = t3
  Task <- MCTask
  MaxLives = 3
SYMMETRY TaskSymmetry
INVARIANTS
  OneLife
PROPERTIES
  DroppedIsGone
  NoFileUnlessAsked
