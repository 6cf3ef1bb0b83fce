SPECIFICATION SharedFairSpec
CONSTANTS
  Callers = {t1}
  Clients = {k1}
  Ids = {i1}
  ChanCap = 1
  Conns = {c1}
  Names = {"n1"}
  Literals = {"ip"}
  CacheId = abcd
  Questions <- MCQuestions
  NoQuestion = none
  Kinds = {"addr", "empty", "garbled", "short"}
  CacheCap = 1
  Ttl = 0
  MaxTime = 1
INVARIANTS
  RelayUnmixed
  OneConnection
  NameKeptInside
  RightAddress
  WarnedWhenDohFailed
PROPERTY CallsEnd
CHECK_DEADLOCK FALSE
