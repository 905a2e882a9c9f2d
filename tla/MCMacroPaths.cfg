SPECIFICATION Spec
CONSTANT MaxPieces = 3
CHECK_DEADLOCK FALSE
INVARIANT PathsReachTheFacade
