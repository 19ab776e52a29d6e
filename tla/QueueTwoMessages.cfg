SPECIFICATION Spec
CONSTANTS
  m1 = m1
  m2 = m2
  t1 = t1
  Workers = {w1, w2}
  Ids = {m1, m2}
  Tuples = {t1}
  Messages = {m1, m2}
  MaxCalls = 9
  MaxDequeueCount = 2
  HostMaxDequeueCount = 2
  MaxStalls = 0
  Id <- OwnId
  Tuple <- SameTuple
INVARIANTS
  NoEventLostByDedupe
  NoOverlapWithoutStall
  NoOrphanedDetails
PROPERTIES
  EverythingSettles
CHECK_DEADLOCK FALSE
