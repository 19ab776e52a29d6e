SPECIFICATION Spec
CONSTANTS
  MaxAttempts = 2
  ConfiguredRetryDelays = 1
  RerunEntireWorkflow = FALSE
  MaxRuns = 1
  MaxRunAttempts = 2
  MaxRedeliveries = 0
INVARIANTS
  EndedIsShownAsTerminal
CHECK_DEADLOCK FALSE
