SPECIFICATION Spec
CONSTANTS
  Callers = {a, b, c}
  RefreshBuffer = 1
  Lifetime = 3
  MaxTime = 6
INVARIANTS
  TypeOK
  FreshUnlessOvertaken
PROPERTIES
  NoNeedlessToken
  EveryCallEnds
CHECK_DEADLOCK FALSE
