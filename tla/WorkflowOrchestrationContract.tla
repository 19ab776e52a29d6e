--------------------- MODULE WorkflowOrchestrationContract ---------------------
(***************************************************************************)
(* What one workflow orchestration promises to whoever started it and      *)
(* polls its status: it works through attempts one by one, never more than *)
(* the configured maximum, ends exactly once, gives an outcome when it     *)
(* ends normally, and does end. How callbacks, polling and reruns achieve  *)
(* that is left to GithubWorkflowOrchestrator.tla, which implements this.  *)
(***************************************************************************)
EXTENDS Naturals

CONSTANT MaxAttempts

VARIABLES
  runtimeStatus, \* Durable's runtime status of the instance
  attempt,       \* the attempt being worked on
  outcome        \* the reported final outcome

vars == <<runtimeStatus, attempt, outcome>>

Init ==
  /\ runtimeStatus = "Running"
  /\ attempt = 1
  /\ outcome = "None"

StartNextAttempt ==
  /\ runtimeStatus = "Running"
  /\ attempt < MaxAttempts
  /\ attempt' = attempt + 1
  /\ UNCHANGED <<runtimeStatus, outcome>>

ReportOutcome ==
  /\ runtimeStatus = "Running"
  /\ runtimeStatus' = "Completed"
  /\ outcome' \in {"Unknown", "InProgress", "Succeeded", "Failed"}
  /\ UNCHANGED attempt

\* Failing without an outcome, or with the outcome marked as unknown.
FailInstance ==
  /\ runtimeStatus = "Running"
  /\ runtimeStatus' = "Failed"
  /\ outcome' \in {"None", "Unknown"}
  /\ UNCHANGED attempt

Next == StartNextAttempt \/ ReportOutcome \/ FailInstance

Safety == Init /\ [][Next]_vars

Spec == Safety /\ WF_vars(Next)

=============================================================================
