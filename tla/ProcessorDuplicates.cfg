SPECIFICATION Spec
CONSTANTS
  Workers = {w1}
  Ids = {id1}
  Tuples = {t1}
  MaxCalls = 2
INVARIANTS
  NoDuplicateSideEffects
CHECK_DEADLOCK FALSE
