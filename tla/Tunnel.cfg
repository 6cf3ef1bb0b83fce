SPECIFICATION TunnelFairSpec
CONSTANTS
  MaxRecord = 1
  MaxStream = 6
  ShortWrites = FALSE
  Trailing = TRUE
  Pieces = {3}
  MaxDown = 1
  DownCap = 1
INVARIANTS
  HelloFlushed
PROPERTIES
  CloseIsLast
  BytesArrive
  EndsWithPeers
CHECK_DEADLOCK FALSE
