SPECIFICATION Spec
CONSTANTS
  Workers = {w1}
  Ids = {id1}
  Tuples = {t1}
  MaxCalls = 1
INVARIANTS
  LastAttemptHandledInline
CHECK_DEADLOCK FALSE
