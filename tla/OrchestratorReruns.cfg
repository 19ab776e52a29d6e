SPECIFICATION Spec
CONSTANTS
  MaxAttempts = 3
  ConfiguredRetryDelays = 2
  RerunEntireWorkflow = FALSE
  MaxRuns = 1
  MaxRunAttempts = 3
  MaxRedeliveries = 1
INVARIANTS
  TypeOK
  AttemptsInStep
  OutcomeHasEvidence
PROPERTIES
  ImplementsContract
  ResultsMatchAttempts
CHECK_DEADLOCK FALSE
