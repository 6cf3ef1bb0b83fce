SPECIFICATION FairSpec
CONSTANT Configs <- MCConfigs
INVARIANTS
  ConfiguredKept
  StackComplete
PROPERTY ServesIfItCan
CHECK_DEADLOCK FALSE
