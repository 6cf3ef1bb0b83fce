SPECIFICATION Spec
CONSTANTS
  MaxProxies = 2
  MaxTls = 2
INVARIANTS
  HopsInOrder
  RequestArrives
CHECK_DEADLOCK FALSE
