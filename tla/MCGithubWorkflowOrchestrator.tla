--------------------- MODULE MCGithubWorkflowOrchestrator ---------------------
(***************************************************************************)
(* The orchestrator as TLC checks it, and the claims that comments and     *)
(* messages of the code make about it. The bounds are in the .cfg files.   *)
(***************************************************************************)
EXTENDS GithubWorkflowOrchestrator

\* GithubWorkflowOrchestrationState.IsTerminal: "false means the orchestration
\* is still progressing", so an ended instance never shows it as false.
EndedIsShownAsTerminal == ~Running => customStatus.isTerminal

\* GithubWorkflowOrchestrationFinalOutcome.Failed: "The workflow completed
\* unsuccessfully or the known failed outcome was treated as terminal", so the
\* tracked run's current attempt is one that has failed.
FailedOutcomeIsCurrent ==
  customStatus.finalOutcome = "Failed" /\ runId # NoRun =>
    [run |-> runId, attempt |-> runs[runId].attempt, success |-> FALSE] \in results

=============================================================================
