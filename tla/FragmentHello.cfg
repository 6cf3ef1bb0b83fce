SPECIFICATION Spec
CONSTANTS
  MaxRecord = 1
  MaxStream = 7
  ShortWrites = FALSE
  Trailing = TRUE
INVARIANT HelloOnlyInFragments
CHECK_DEADLOCK FALSE
