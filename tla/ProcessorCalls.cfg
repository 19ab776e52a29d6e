SPECIFICATION Spec
CONSTANTS
  Workers = {w1, w2}
  Ids = {id1, id2}
  Tuples = {t1}
  MaxCalls = 4
INVARIANTS
  TypeOK
  OneIdPerReservation
  CompletedMeansRaised
  EachExtraRaiseHasACause
CHECK_DEADLOCK FALSE
