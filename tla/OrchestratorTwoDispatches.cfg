SPECIFICATION Spec
CONSTANTS
  MaxAttempts = 2
  ConfiguredRetryDelays = 1
  RerunEntireWorkflow = TRUE
  MaxRuns = 2
  MaxRunAttempts = 2
  MaxRedeliveries = 0
INVARIANTS
  AttemptsInStep
  OutcomeHasEvidence
PROPERTIES
  NoRerunOfSuccess
CHECK_DEADLOCK FALSE
