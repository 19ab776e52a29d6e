SPECIFICATION Spec
CONSTANTS
  n1 = n1
  n2 = n2
  e1 = e1
  e2 = e2
  e3 = e3
  empty = empty
  a = a
  b = b
  Names = {n1, n2}
  Elements = {e1, e3}
  NameOf <- FirstTwoOfOneName
  Values = {empty, a, b}
  Empty = empty
  Allowed <- AllowedValues
  RemoteElements = {e3}
  ReplaceNames = {n1}
  FormPlugin = TRUE
  NoElement = NoElement
  NoValue = NoValue
  NoRequest = NoRequest
SYMMETRY SameValues
INVARIANTS
  TypeOK
  SentIsValid
  PendingCounted
  ErrorsAreExplained
  LeftoversAreUnchecked
  ResetRunsOnce
PROPERTIES
  SummaryListsInvalid
CHECK_DEADLOCK FALSE
