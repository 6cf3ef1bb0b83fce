SPECIFICATION Spec
CONSTANTS
  Words <- MCWords
  Names <- MCNames
  Userinfos <- MCUserinfos
INVARIANTS
  RightServer
  SecretsKept
  FailsOnlyIf
CHECK_DEADLOCK FALSE
