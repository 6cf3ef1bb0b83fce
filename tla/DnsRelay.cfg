SPECIFICATION FairSpec
CONSTANTS
  Callers = {t1, t2}
  Clients = {c1, c2}
  Ids = {i1, i2}
  CacheId = abcd
  Questions = {q1, q2}
  NoQuestion = none
  Kinds = {"addr", "short"}
  CacheCap = 1
  Ttl = 0
  MaxTime = 1
  ChanCap = 1
INVARIANTS
  CacheSound
  RightReply
  OneReply
PROPERTY AnswersLeave
CHECK_DEADLOCK FALSE
