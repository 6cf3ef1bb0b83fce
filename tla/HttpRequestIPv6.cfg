SPECIFICATION Spec
CONSTANTS
  Words <- MCWords
  Names <- MCNames
  Userinfos <- MCUserinfos
INVARIANT ServesIPv6
CHECK_DEADLOCK FALSE
