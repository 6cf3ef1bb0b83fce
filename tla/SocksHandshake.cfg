SPECIFICATION FairSpec
CONSTANTS
  NameSizes = {1, 255, 256}
  MaxData = 2
INVARIANTS
  RequestMeansTarget
  OnlyIfGranted
  TunnelStartsClean
PROPERTY HandshakeEnds
CHECK_DEADLOCK FALSE
