SPECIFICATION Spec
CONSTANT MaxConns = 2
INVARIANTS
  OfferedWorks
  RightDestination
  FailsOnlyWithPf
CHECK_DEADLOCK FALSE
