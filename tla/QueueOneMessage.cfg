SPECIFICATION Spec
CONSTANTS
  m1 = m1
  m2 = m2
  t1 = t1
  Workers = {w1, w2}
  Ids = {m1}
  Tuples = {t1}
  Messages = {m1}
  MaxCalls = 9
  MaxDequeueCount = 3
  HostMaxDequeueCount = 3
  MaxStalls = 2
  Id <- OwnId
  Tuple <- SameTuple
INVARIANTS
  TypeOK
  NoEventLostByDedupe
CHECK_DEADLOCK FALSE
