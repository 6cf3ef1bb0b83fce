SPECIFICATION FairSpec
CONSTANT MaxRequests = 3
INVARIANTS
  ToldWhenOpen
  CopiesAfterHttp
  NoTunnelBehind
PROPERTY NoOrphan
CHECK_DEADLOCK FALSE
