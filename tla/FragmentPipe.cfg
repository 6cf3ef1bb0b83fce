SPECIFICATION FairSpec
CONSTANTS
  MaxRecord = 2
  MaxStream = 9
  ShortWrites = FALSE
  Trailing = FALSE
INVARIANTS
  TypeOK
  InOrder
  NothingLost
  OneByteInFlight
PROPERTY ImplementsPipe
CHECK_DEADLOCK FALSE
