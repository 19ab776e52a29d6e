------------------- MODULE GithubWorkflowOrchestratorProofs --------------------
(***************************************************************************)
(* Proofs about GithubWorkflowOrchestrator for every number of attempts,   *)
(* delays, dispatches, reruns and redeliveries.                            *)
(***************************************************************************)
EXTENDS GithubWorkflowOrchestrator, SequenceTheorems, TLAPS

-----------------------------------------------------------------------------
(* The inductive invariant: types, what each control point implies, and    *)
(* the two properties, strengthened until every step preserves them.       *)

BeforeRun == {"Scheduled", "Dispatching", "AwaitInProgress", "LookingUpRun"}

InRerun == {"Backoff", "Rerunning", "CheckAfterRerunFailure"}

WithRun == {"AwaitCompleted", "CheckAfterTimeout"} \cup InRerun

\* The run is tracked from its first wait for completion on, no run has been
\* rerun before that, and only an outstanding activity has taken effect.
ControlOK ==
  /\ pc \in BeforeRun => runId = NoRun
  /\ pc \in WithRun => runId # NoRun
  /\ runId = NoRun => /\ currentAttempt = 1
                      /\ \A r \in 1 .. Len(runs) : runs[r].attempt = 1
  /\ tookEffect => pc \in {"Dispatching", "Rerunning"}
  /\ pc \in BeforeRun \cup WithRun => customStatus.finalOutcome = "None"

\* AttemptsInStep, with the one attempt that an accepted rerun will account for.
AttemptsInv ==
  runId # NoRun =>
    /\ currentAttempt <= runs[runId].attempt + 1
    /\ pc \in {"AwaitCompleted", "CheckAfterTimeout"} =>
         currentAttempt <= runs[runId].attempt
    /\ pc = "Rerunning" /\ tookEffect => currentAttempt <= runs[runId].attempt
    /\ runs[runId].attempt <= currentAttempt + reExecutions
    /\ pc \in {"Backoff", "Rerunning"} /\ ~tookEffect =>
         runs[runId].attempt + 1 <= currentAttempt + reExecutions

\* Every event, message and conclusion has a result behind it.
ResultsRecorded ==
  /\ completedMessages \subseteq results
  /\ \A i \in 1 .. Len(completedEvents) : completedEvents[i] \in results
  /\ \A r \in 1 .. Len(runs) :
       runs[r].phase \in {"Cleanup", "Completed"} =>
         [run |-> r, attempt |-> runs[r].attempt,
          success |-> runs[r].conclusion = "Success"] \in results

IInv == TypeOK /\ ControlOK /\ AttemptsInv /\ ResultsRecorded /\ OutcomeHasEvidence

-----------------------------------------------------------------------------
(* Types of what the helpers return.                                       *)

USE OrchestratorAssumption

\* RetryDelays is never empty: no configured delays means the default ones.
LEMMA RetryDelaysPositive == RetryDelays \in Nat \ {0}
  BY DEF RetryDelays

LEMMA CreateStateType ==
  ASSUME NEW stage \in Stages, NEW attempt \in Nat, NEW run \in Nat,
         NEW info \in Info, NEW outcome \in FinalOutcomes \cup {"None"},
         NEW terminal \in BOOLEAN
  PROVE  /\ CreateState(stage, attempt, run, info, outcome, terminal) \in Status
         /\ CreateState(stage, attempt, run, info, outcome, terminal).finalOutcome
              = outcome
  BY DEF CreateState, Status

LEMMA NoInfoType == NoInfo \in Info
  BY DEF Info

LEMMA InfoFromSignalType ==
  ASSUME NEW success \in BOOLEAN
  PROVE  InfoFromSignal(success) \in Info
  BY DEF InfoFromSignal, Info, WorkflowRunInfo

\* What GitHub shows of a dispatched run.
LEMMA ObservedInfoType ==
  ASSUME runs \in Seq(Run), NEW r \in 1 .. Len(runs)
  PROVE  /\ ObservedInfo(r) \in Info
         /\ ObservedInfo(r).runAttempt = runs[r].attempt
         /\ ObservedInfo(r).conclusion \in {"None", "Success", "Failure"}
         /\ ObservedInfo(r).status = "Completed" <=> runs[r].phase = "Completed"
         /\ runs[r].phase = "Completed" =>
              ObservedInfo(r).conclusion = runs[r].conclusion
<1>1. runs[r] \in Run
  OBVIOUS
<1>2. /\ runs[r].attempt \in Nat
      /\ runs[r].conclusion \in {"None", "Success", "Failure"}
  BY <1>1 DEF Run
<1>3. ObservedInfo(r) \in WorkflowRunInfo
  BY <1>2 DEF ObservedInfo, WorkflowRunInfo
<1> QED BY <1>2, <1>3 DEF ObservedInfo, Info

-----------------------------------------------------------------------------
(* Type correctness.                                                       *)

LEMMA InitTypeOK == Init => TypeOK
<1> SUFFICES ASSUME Init PROVE TypeOK
  OBVIOUS
<1>1. customStatus \in Status
  BY NoInfoType DEF Init, NoStatus, Status, NoRun
<1>2. evidence \in Result
  BY DEF Init, NoResult, Result, NoRun
<1>3. runs = <<>> /\ inProgressEvents = <<>> /\ completedEvents = <<>>
  BY DEF Init
<1>4. runs \in Seq(Run) /\ Len(runs) = 0 /\ completedEvents \in Seq(Result)
  BY <1>3
<1>5. inProgressEvents \in Seq(1 .. Len(runs))
  BY <1>3
<1>6. lastWorkflowStatus \in Info
  BY NoInfoType DEF Init
<1>7. retryIndex \in 0 .. RetryDelays - 1
  BY RetryDelaysPositive DEF Init
<1>8. /\ pc = "Scheduled" /\ currentAttempt = 1 /\ runId = 0
      /\ tookEffect = FALSE /\ waitTimedOut = FALSE
      /\ inProgressMessages = {} /\ completedMessages = {} /\ results = {}
      /\ redeliveries = 0 /\ reExecutions = 0
  BY DEF Init, NoRun
<1>9. inProgressMessages \subseteq [run : 1 .. Len(runs), attempt : Nat]
  BY <1>8
<1>10. currentAttempt \in Nat \ {0} /\ runId \in 0 .. Len(runs)
  BY <1>4, <1>8
<1>11. completedMessages \subseteq Result /\ results \subseteq Result
  BY <1>8
<1>12. redeliveries \in Nat /\ reExecutions \in Nat
  BY <1>8
<1> QED BY <1>1, <1>2, <1>4, <1>5, <1>6, <1>7, <1>8, <1>9, <1>10, <1>11, <1>12
        DEF TypeOK

\* What the orchestrator's turns leave alone keeps its type.
OutsideTypeOK ==
  /\ runs \in Seq(Run)
  /\ inProgressMessages \subseteq [run : 1 .. Len(runs), attempt : Nat]
  /\ completedMessages \subseteq Result
  /\ redeliveries \in Nat
  /\ reExecutions \in Nat
  /\ results \subseteq Result

LEMMA OrchestrateOutside ==
  ASSUME TypeOK, Orchestrate
  PROVE  OutsideTypeOK' /\ UNCHANGED runs
<1>1. UNCHANGED <<runs, inProgressMessages, completedMessages, redeliveries,
                  reExecutions, results>>
  BY DEF Orchestrate, RunWithoutInput, TriggerWorkflow, WorkflowTriggered,
    DispatchFailed, ReceiveInProgress, InProgressTimeout, RunFound, RunNotFound,
    ReceiveCompleted, CompletedTimeout, ObserveAfterTimeout, StatusCheckFailed,
    BackoffElapsed, RerunTriggered, RerunFailed, RerunAlreadyVisible, RetryRerun,
    RerunNotStarted, messageVars, historyVars
<1> QED BY <1>1 DEF OutsideTypeOK, TypeOK

\* The orchestrator's own variables.
InsideTypeOK ==
  /\ pc \in {"Scheduled", "Dispatching", "AwaitInProgress", "LookingUpRun",
             "AwaitCompleted", "CheckAfterTimeout", "Backoff", "Rerunning",
             "CheckAfterRerunFailure", "Returned", "Faulted"}
  /\ currentAttempt \in Nat \ {0}
  /\ retryIndex \in 0 .. RetryDelays - 1
  /\ runId \in 0 .. Len(runs)
  /\ tookEffect \in BOOLEAN
  /\ waitTimedOut \in BOOLEAN

LEMMA OrchestrateInside ==
  ASSUME TypeOK, Orchestrate
  PROVE  InsideTypeOK'
<1> USE DEF TypeOK, InsideTypeOK, NoRun, historyVars
<1>1. CASE RunWithoutInput BY <1>1, RetryDelaysPositive DEF RunWithoutInput
<1>2. CASE TriggerWorkflow BY <1>2, RetryDelaysPositive DEF TriggerWorkflow
<1>3. CASE WorkflowTriggered BY <1>3, RetryDelaysPositive DEF WorkflowTriggered
<1>4. CASE DispatchFailed BY <1>4, RetryDelaysPositive DEF DispatchFailed
<1>5. CASE ReceiveInProgress BY <1>5, RetryDelaysPositive DEF ReceiveInProgress, AwaitCompletion
<1>6. CASE InProgressTimeout BY <1>6, RetryDelaysPositive DEF InProgressTimeout
<1>7. CASE RunFound BY <1>7, RetryDelaysPositive DEF RunFound, AwaitCompletion
<1>8. CASE RunNotFound BY <1>8, RetryDelaysPositive DEF RunNotFound
<1>9. CASE ReceiveCompleted
  <2>1. UNCHANGED <<tookEffect, waitTimedOut, runs>>
    BY <1>9 DEF ReceiveCompleted
  <2>2. CASE \E info : AttemptFailed(info)
    <3>1. PICK info : AttemptFailed(info)
      BY <2>2
    <3>2. \/ /\ pc' = "Returned"
             /\ UNCHANGED <<currentAttempt, retryIndex, runId>>
          \/ /\ pc' = "Backoff" /\ currentAttempt' = currentAttempt + 1
             /\ retryIndex' = 0 /\ UNCHANGED runId
      BY <3>1 DEF AttemptFailed, Complete, BeginRerun
    <3> QED BY <2>1, <3>2, RetryDelaysPositive
  <2>3. CASE \E info, outcome : Complete(currentAttempt, runId, info, outcome)
    BY <2>1, <2>3 DEF Complete
  <2> QED BY <1>9, <2>2, <2>3 DEF ReceiveCompleted
<1>10. CASE CompletedTimeout BY <1>10, RetryDelaysPositive DEF CompletedTimeout
<1>11. CASE ObserveAfterTimeout
  <2>1. UNCHANGED <<tookEffect, waitTimedOut, runs>>
    BY <1>11 DEF ObserveAfterTimeout
  <2>2. CASE \E info : AttemptFailed(info)
    <3>1. PICK info : AttemptFailed(info)
      BY <2>2
    <3>2. \/ /\ pc' = "Returned"
             /\ UNCHANGED <<currentAttempt, retryIndex, runId>>
          \/ /\ pc' = "Backoff" /\ currentAttempt' = currentAttempt + 1
             /\ retryIndex' = 0 /\ UNCHANGED runId
      BY <3>1 DEF AttemptFailed, Complete, BeginRerun
    <3> QED BY <2>1, <3>2, RetryDelaysPositive
  <2>3. CASE \E info, outcome : Complete(currentAttempt, runId, info, outcome)
    BY <2>1, <2>3 DEF Complete
  <2> QED BY <1>11, <2>2, <2>3 DEF ObserveAfterTimeout
<1>12. CASE StatusCheckFailed BY <1>12, RetryDelaysPositive DEF StatusCheckFailed, Fault
<1>13. CASE BackoffElapsed BY <1>13, RetryDelaysPositive DEF BackoffElapsed
<1>14. CASE RerunTriggered BY <1>14, RetryDelaysPositive DEF RerunTriggered, AwaitCompletion
<1>15. CASE RerunFailed BY <1>15, RetryDelaysPositive DEF RerunFailed
<1>16. CASE RerunAlreadyVisible BY <1>16, RetryDelaysPositive DEF RerunAlreadyVisible, AwaitCompletion
<1>17. CASE RetryRerun BY <1>17, RetryDelaysPositive DEF RetryRerun
<1>18. CASE RerunNotStarted BY <1>18, RetryDelaysPositive DEF RerunNotStarted, Complete
<1> QED BY <1>1, <1>2, <1>3, <1>4, <1>5, <1>6, <1>7, <1>8, <1>9, <1>10, <1>11, <1>12, <1>13, <1>14, <1>15, <1>16, <1>17, <1>18 DEF Orchestrate

\* What a status query shows, and what was last read from GitHub.
ShownTypeOK == customStatus \in Status /\ lastWorkflowStatus \in Info

LEMMA OrchestrateShown ==
  ASSUME TypeOK, ControlOK, Orchestrate
  PROVE  ShownTypeOK'
<1> USE CreateStateType, NoInfoType DEF ShownTypeOK, SetProgress, NoRun, historyVars
<1>t. /\ customStatus \in Status /\ lastWorkflowStatus \in Info
      /\ currentAttempt \in Nat /\ currentAttempt + 1 \in Nat /\ runId \in Nat
  BY DEF TypeOK
<1>s. {"InvalidInput", "TriggeringWorkflow", "WaitingForRunStart",
       "WaitingForCompletion", "CheckingWorkflowStatus",
       "WaitingToRetryRerun", "Completed"} \subseteq Stages
  BY DEF Stages
<1>o. {"Unknown", "InProgress", "Succeeded", "Failed", "None"}
        \subseteq FinalOutcomes \cup {"None"}
  BY DEF FinalOutcomes
<1>f. ASSUME NEW info \in Info, AttemptFailed(info)
      PROVE  ShownTypeOK'
  <2>1. CASE Complete(currentAttempt, runId, info, "Failed")
    BY <2>1, <1>t, <1>s, <1>o DEF Complete
  <2>2. CASE BeginRerun
    BY <2>2, <1>t, <1>s, <1>o DEF BeginRerun
  <2> QED BY <1>f, <2>1, <2>2 DEF AttemptFailed
<1>c. ASSUME NEW info \in Info, NEW outcome \in FinalOutcomes,
             Complete(currentAttempt, runId, info, outcome)
      PROVE  ShownTypeOK'
  BY <1>t, <1>s, <1>o, <1>c DEF Complete
<1>r. ASSUME pc \in WithRun PROVE ObservedInfo(runId) \in Info
  BY <1>r, ObservedInfoType DEF TypeOK, ControlOK
<1>1. CASE RunWithoutInput
  BY <1>1, <1>t, <1>s, <1>o DEF RunWithoutInput
<1>2. CASE TriggerWorkflow
  BY <1>2, <1>t, <1>s, <1>o DEF TriggerWorkflow
<1>3. CASE WorkflowTriggered
  BY <1>3, <1>t, <1>s, <1>o DEF WorkflowTriggered
<1>4. CASE DispatchFailed
  BY <1>4, <1>t, <1>s, <1>o DEF DispatchFailed
<1>5. CASE ReceiveInProgress
  <2>1. Head(inProgressEvents) \in Nat
    BY <1>5 DEF ReceiveInProgress, TypeOK
  <2> QED BY <1>5, <2>1, <1>t, <1>s, <1>o DEF ReceiveInProgress, AwaitCompletion
<1>6. CASE InProgressTimeout
  BY <1>6, <1>t, <1>s, <1>o DEF InProgressTimeout
<1>7. CASE RunFound
  <2>1. Len(runs) \in Nat
    BY DEF TypeOK
  <2> QED BY <1>7, <2>1, <1>t, <1>s, <1>o DEF RunFound, AwaitCompletion
<1>8. CASE RunNotFound
  BY <1>8, <1>t, <1>s, <1>o DEF RunNotFound
<1>9. CASE ReceiveCompleted
  <2>1. Head(completedEvents) \in Result
    BY <1>9 DEF ReceiveCompleted, TypeOK
  <2>2. Head(completedEvents).success \in BOOLEAN
    BY <2>1 DEF Result
  <2>3. InfoFromSignal(Head(completedEvents).success) \in Info
    BY <2>2, InfoFromSignalType
  <2> QED BY <1>9, <2>3, <1>f, <1>c DEF ReceiveCompleted, FinalOutcomes
<1>10. CASE CompletedTimeout
  BY <1>10, <1>t, <1>s, <1>o DEF CompletedTimeout
<1>11. CASE ObserveAfterTimeout
  <2>1. ObservedInfo(runId) \in Info
    BY <1>11, <1>r DEF ObserveAfterTimeout, WithRun
  <2> QED BY <1>11, <2>1, <1>f, <1>c DEF ObserveAfterTimeout, FinalOutcomes
<1>12. CASE StatusCheckFailed
  BY <1>12, <1>t, <1>s, <1>o DEF StatusCheckFailed, Fault
<1>13. CASE BackoffElapsed
  BY <1>13, <1>t, <1>s, <1>o DEF BackoffElapsed
<1>14. CASE RerunTriggered
  BY <1>14, <1>t, <1>s, <1>o DEF RerunTriggered, AwaitCompletion
<1>15. CASE RerunFailed
  BY <1>15, <1>t, <1>s, <1>o DEF RerunFailed
<1>16. CASE RerunAlreadyVisible
  <2>1. ObservedInfo(runId) \in Info
    BY <1>16, <1>r DEF RerunAlreadyVisible, WithRun, InRerun
  <2> QED BY <1>16, <2>1, <1>t, <1>s, <1>o DEF RerunAlreadyVisible, AwaitCompletion
<1>17. CASE RetryRerun
  <2>1. ObservedInfo(runId) \in Info
    BY <1>17, <1>r DEF RetryRerun, WithRun, InRerun
  <2> QED BY <1>17, <2>1, <1>t, <1>s, <1>o DEF RetryRerun
<1>18. CASE RerunNotStarted
  <2>1. ObservedInfo(runId) \in Info
    BY <1>18, <1>r DEF RerunNotStarted, WithRun, InRerun
  <2> QED BY <1>18, <2>1, <1>t, <1>s, <1>o, <1>c DEF RerunNotStarted, FinalOutcomes
<1> QED BY <1>1, <1>2, <1>3, <1>4, <1>5, <1>6, <1>7, <1>8, <1>9, <1>10,
           <1>11, <1>12, <1>13, <1>14, <1>15, <1>16, <1>17, <1>18
        DEF Orchestrate

\* The buffered events, and the result that was acted on.
EventsTypeOK ==
  /\ inProgressEvents \in Seq(1 .. Len(runs))
  /\ completedEvents \in Seq(Result)
  /\ evidence \in Result

LEMMA OrchestrateEvents ==
  ASSUME TypeOK, ControlOK, Orchestrate
  PROVE  EventsTypeOK'
<1>1. UNCHANGED runs
  BY OrchestrateOutside
<1>2. CASE UNCHANGED <<inProgressEvents, completedEvents, evidence>>
  BY <1>1, <1>2 DEF EventsTypeOK, TypeOK
<1>3. CASE ReceiveInProgress
  <2>1. Tail(inProgressEvents) \in Seq(1 .. Len(runs))
    BY <1>3 DEF ReceiveInProgress, TypeOK
  <2> QED BY <1>1, <1>3, <2>1 DEF ReceiveInProgress, historyVars, EventsTypeOK, TypeOK
<1>4. CASE ReceiveCompleted
  <2>1. Head(completedEvents) \in Result /\ Tail(completedEvents) \in Seq(Result)
    BY <1>4 DEF ReceiveCompleted, TypeOK
  <2> QED BY <1>1, <1>4, <2>1 DEF ReceiveCompleted, EventsTypeOK, TypeOK
<1>5. CASE ObserveAfterTimeout
  <2>1. runId \in 1 .. Len(runs)
    BY <1>5 DEF ObserveAfterTimeout, ControlOK, WithRun, NoRun, TypeOK
  <2>2. ObservedInfo(runId).runAttempt \in Nat
    <3>1. runs \in Seq(Run) /\ runs[runId] \in Run
      BY <2>1 DEF TypeOK
    <3>2. runs[runId].attempt \in Nat
      BY <3>1 DEF Run
    <3> QED BY <2>1, <3>1, <3>2, ObservedInfoType
  <2>3. [run |-> runId, attempt |-> ObservedInfo(runId).runAttempt,
         success |-> ObservedInfo(runId).conclusion = "Success"] \in Result
    <3>1. (ObservedInfo(runId).conclusion = "Success") \in BOOLEAN
      OBVIOUS
    <3> HIDE DEF ObservedInfo
    <3> QED BY <2>1, <2>2, <3>1 DEF Result
  <2>4. evidence' \in Result
    BY <1>5, <2>3 DEF ObserveAfterTimeout, TypeOK
  <2> QED BY <1>1, <1>5, <2>4 DEF ObserveAfterTimeout, eventVars, EventsTypeOK, TypeOK
<1> QED
  BY <1>2, <1>3, <1>4, <1>5
     DEF Orchestrate, RunWithoutInput, TriggerWorkflow, WorkflowTriggered,
       DispatchFailed, InProgressTimeout, RunFound, RunNotFound, CompletedTimeout,
       StatusCheckFailed, BackoffElapsed, RerunTriggered, RerunFailed,
       RerunAlreadyVisible, RetryRerun, RerunNotStarted, eventVars, historyVars

LEMMA OrchestrateTypeOK ==
  ASSUME TypeOK, ControlOK, Orchestrate
  PROVE  TypeOK'
  BY OrchestrateOutside, OrchestrateInside, OrchestrateShown, OrchestrateEvents
     DEF TypeOK, OutsideTypeOK, InsideTypeOK, ShownTypeOK, EventsTypeOK

-----------------------------------------------------------------------------
(* The environment's steps.                                                *)

LEMMA RunType ==
  ASSUME TypeOK, NEW r \in 1 .. Len(runs)
  PROVE  runs[r] \in Run /\ runs[r].attempt \in Nat
<1>1. runs \in Seq(Run)
  BY DEF TypeOK
<1>2. runs[r] \in Run
  BY <1>1
<1> QED BY <1>2 DEF Run

\* Replacing one run.
LEMMA ChangedRun ==
  ASSUME TypeOK, NEW r \in 1 .. Len(runs), NEW new \in Run,
         runs' = [runs EXCEPT ![r] = new]
  PROVE  /\ runs' \in Seq(Run)
         /\ Len(runs') = Len(runs)
         /\ runs'[r] = new
         /\ \A q \in 1 .. Len(runs) : q # r => runs'[q] = runs[q]
  BY ExceptSeq DEF TypeOK

\* What GitHub and the callback channel leave alone.
LEMMA EnvironmentInside ==
  ASSUME TypeOK, Environment
  PROVE  /\ UNCHANGED <<pc, currentAttempt, retryIndex, runId, lastWorkflowStatus,
                        customStatus, waitTimedOut, evidence>>
  BY DEF Environment, CreateDispatch, AcceptRerun, PublishInProgress,
         PublishCompleted, FinishCleanup, DeliverInProgress, DeliverCompleted,
         LoseMessage, orchestratorVars, historyVars

\* The run that an action of the orchestrator is about has been dispatched.
LEMMA TrackedRun ==
  ASSUME TypeOK, ControlOK, pc \in WithRun
  PROVE  runId \in 1 .. Len(runs) /\ runId # NoRun
  BY DEF TypeOK, ControlOK, NoRun

\* Replacing a run under its old attempt disturbs neither the control points
\* nor the attempts.
LEMMA SameAttempts ==
  ASSUME TypeOK, ControlOK, AttemptsInv,
         UNCHANGED <<orchestratorVars, tookEffect, reExecutions>>,
         Len(runs') = Len(runs),
         \A q \in 1 .. Len(runs) : runs'[q].attempt = runs[q].attempt
  PROVE  ControlOK' /\ AttemptsInv'
<1>1. UNCHANGED <<pc, currentAttempt, retryIndex, runId, lastWorkflowStatus,
                  customStatus, tookEffect, reExecutions>>
  BY DEF orchestratorVars
<1>2. ControlOK'
  BY <1>1 DEF ControlOK, WithRun, InRerun, BeforeRun
<1>3. CASE runId = NoRun
  BY <1>1, <1>2, <1>3 DEF AttemptsInv, NoRun
<1>4. CASE runId # NoRun
  <2>1. runs'[runId'].attempt = runs[runId].attempt
    <3>1. runId \in 1 .. Len(runs)
      BY <1>4 DEF TypeOK, NoRun
    <3> QED BY <1>1, <3>1
  <2> QED BY <1>1, <1>2, <1>4, <2>1 DEF AttemptsInv, NoRun
<1> QED BY <1>2, <1>3, <1>4

\* Messages keep naming dispatched runs.
LEMMA SameLength ==
  ASSUME TypeOK, Len(runs') = Len(runs), runs' \in Seq(Run),
         UNCHANGED <<orchestratorVars, eventVars, redeliveries, waitTimedOut,
                     evidence>>,
         tookEffect' \in BOOLEAN, reExecutions' \in Nat,
         inProgressMessages' \subseteq [run : 1 .. Len(runs), attempt : Nat],
         completedMessages' \subseteq Result, results' \subseteq Result
  PROVE  TypeOK'
  BY DEF TypeOK, orchestratorVars, eventVars

LEMMA AcceptRerunInvariant ==
  ASSUME IInv, AcceptRerun
  PROVE  IInv'
<1> DEFINE a == runs[runId].announced /\ ~RerunEntireWorkflow
           new == [attempt    |-> runs[runId].attempt + 1,
                   phase      |-> IF a THEN "Tasks" ELSE "Queued",
                   announced  |-> a,
                   conclusion |-> "None"]
<1>1. /\ pc = "Rerunning"
      /\ runs' = [runs EXCEPT ![runId] = new]
      /\ tookEffect' = TRUE
      /\ reExecutions' = IF tookEffect THEN reExecutions + 1 ELSE reExecutions
      /\ UNCHANGED <<orchestratorVars, eventVars, messageVars, redeliveries,
                     waitTimedOut, results, evidence>>
  BY DEF AcceptRerun
<1>2. runId \in 1 .. Len(runs) /\ runId # NoRun
  BY <1>1, TrackedRun DEF IInv, WithRun, InRerun
<1>3. runs[runId] \in Run
  BY <1>2 DEF IInv, TypeOK
<1>4. new \in Run
  <2>1. runs[runId].attempt + 1 \in Nat \ {0} /\ a \in BOOLEAN
    BY <1>3 DEF Run
  <2> HIDE DEF a
  <2> QED BY <2>1 DEF Run, Phases
<1>5. /\ new.attempt = runs[runId].attempt + 1
      /\ new.phase \notin {"Cleanup", "Completed"}
  OBVIOUS
<1> HIDE DEF new
<1>6. /\ runs' \in Seq(Run) /\ Len(runs') = Len(runs) /\ runs'[runId] = new
      /\ \A q \in 1 .. Len(runs) : q # runId => runs'[q] = runs[q]
  BY <1>1, <1>2, <1>4, ChangedRun DEF IInv
<1>7. TypeOK'
  <2>1. reExecutions' \in Nat
    BY <1>1 DEF IInv, TypeOK
  <2> QED BY <1>1, <1>6, <2>1, SameLength DEF IInv, TypeOK, messageVars
<1>8. UNCHANGED <<pc, currentAttempt, runId, customStatus, evidence, results,
                  completedMessages, completedEvents>>
  BY <1>1 DEF orchestratorVars, eventVars, messageVars
<1>9. ControlOK'
  BY <1>1, <1>2, <1>8 DEF IInv, ControlOK
<1>10. AttemptsInv'
  <2>1. /\ runs[runId].attempt \in Nat /\ currentAttempt \in Nat
        /\ reExecutions \in Nat /\ tookEffect \in BOOLEAN
    BY <1>3 DEF IInv, TypeOK, Run
  <2>2. /\ currentAttempt <= runs[runId].attempt + 1
        /\ runs[runId].attempt <= currentAttempt + reExecutions
        /\ ~tookEffect => runs[runId].attempt + 1 <= currentAttempt + reExecutions
    BY <1>1, <1>2 DEF IInv, AttemptsInv
  <2>3. runs'[runId'].attempt = runs[runId].attempt + 1
    BY <1>5, <1>6, <1>8
  <2>4. runs[runId].attempt + 1 <= currentAttempt + reExecutions'
    BY <1>1, <2>1, <2>2
  <2> QED BY <1>1, <1>8, <2>1, <2>2, <2>3, <2>4 DEF AttemptsInv
<1>11. ResultsRecorded'
  BY <1>5, <1>6, <1>8 DEF IInv, ResultsRecorded
<1>12. OutcomeHasEvidence'
  BY <1>8 DEF IInv, OutcomeHasEvidence
<1> QED BY <1>7, <1>9, <1>10, <1>11, <1>12 DEF IInv

\* A dispatch adds a run that nothing refers to yet.
LEMMA CreateDispatchInvariant ==
  ASSUME IInv, CreateDispatch
  PROVE  IInv'
<1> DEFINE new == [attempt |-> 1, phase |-> "Queued", announced |-> FALSE,
                   conclusion |-> "None"]
<1>1. /\ pc = "Dispatching" /\ tookEffect' = TRUE /\ runs' = Append(runs, new)
      /\ UNCHANGED <<orchestratorVars, eventVars, messageVars, historyVars>>
  BY DEF CreateDispatch
<1>2. new \in Run /\ new.attempt = 1 /\ new.phase = "Queued"
  BY DEF Run, Phases
<1> HIDE DEF new
<1>3. /\ runs' \in Seq(Run) /\ Len(runs') = Len(runs) + 1 /\ Len(runs) \in Nat
      /\ \A r \in 1 .. Len(runs) : runs'[r] = runs[r]
      /\ runs'[Len(runs) + 1] = new
  BY <1>1, <1>2, AppendProperties DEF IInv, TypeOK
<1>4. UNCHANGED <<pc, currentAttempt, retryIndex, runId, lastWorkflowStatus,
                  customStatus, inProgressEvents, completedEvents,
                  inProgressMessages, completedMessages, redeliveries,
                  reExecutions, waitTimedOut, results, evidence>>
  BY <1>1 DEF orchestratorVars, eventVars, messageVars, historyVars
<1>5. runId = NoRun
  BY <1>1 DEF IInv, ControlOK, BeforeRun
<1>6. TypeOK'
  <2>1. 1 .. Len(runs) \subseteq 1 .. Len(runs')
    BY <1>3
  <2>2. inProgressEvents' \in Seq(1 .. Len(runs'))
    BY <1>4, <2>1, SeqMonotonic DEF IInv, TypeOK
  <2>3. inProgressMessages' \subseteq [run : 1 .. Len(runs'), attempt : Nat]
    BY <1>4, <2>1 DEF IInv, TypeOK
  <2>4. runId' \in 0 .. Len(runs')
    BY <1>3, <1>4 DEF IInv, TypeOK
  <2> QED BY <1>1, <1>3, <1>4, <2>2, <2>3, <2>4 DEF IInv, TypeOK
<1>7. ControlOK'
  <2>1. \A r \in 1 .. Len(runs') : runs'[r].attempt = 1
    BY <1>2, <1>3, <1>5 DEF IInv, ControlOK
  <2> QED BY <1>1, <1>4, <1>5, <2>1 DEF IInv, ControlOK, BeforeRun, WithRun, InRerun
<1>8. AttemptsInv' /\ OutcomeHasEvidence'
  BY <1>4, <1>5 DEF IInv, AttemptsInv, OutcomeHasEvidence, NoRun
<1>9. ResultsRecorded'
  <2>1. \A r \in 1 .. Len(runs') :
          runs'[r].phase \in {"Cleanup", "Completed"} => r \in 1 .. Len(runs)
    BY <1>2, <1>3
  <2> QED BY <1>3, <1>4, <2>1 DEF IInv, ResultsRecorded
<1> QED BY <1>6, <1>7, <1>8, <1>9 DEF IInv

\* A run that changes phase under its attempt, with the result recorded when it
\* is over, and with at most that result published.
LEMMA RunProgressInvariant ==
  ASSUME IInv, NEW r \in 1 .. Len(runs), NEW new \in Run,
         runs' = [runs EXCEPT ![r] = new],
         new.attempt = runs[r].attempt,
         UNCHANGED <<orchestratorVars, eventVars, tookEffect, redeliveries,
                     reExecutions, waitTimedOut, evidence>>,
         results \subseteq results', results' \subseteq Result,
         inProgressMessages' \subseteq
           inProgressMessages \cup {[run |-> r, attempt |-> runs[r].attempt]},
         completedMessages' \subseteq results',
         new.phase \in {"Cleanup", "Completed"} =>
           [run |-> r, attempt |-> new.attempt,
            success |-> new.conclusion = "Success"] \in results'
  PROVE  IInv'
<1>1. /\ runs' \in Seq(Run) /\ Len(runs') = Len(runs) /\ runs'[r] = new
      /\ \A q \in 1 .. Len(runs) : q # r => runs'[q] = runs[q]
  BY ChangedRun DEF IInv
<1>2. UNCHANGED <<pc, runId, customStatus, evidence, completedEvents, tookEffect,
                  redeliveries, reExecutions, waitTimedOut>>
  BY DEF orchestratorVars, eventVars
<1>3. TypeOK'
  <2>1. runs[r] \in Run
    BY DEF IInv, TypeOK
  <2>2. inProgressMessages' \subseteq [run : 1 .. Len(runs), attempt : Nat]
    BY <2>1 DEF IInv, TypeOK, Run
  <2>3. completedMessages' \subseteq Result
    OBVIOUS
  <2> QED BY <1>1, <1>2, <2>2, <2>3, SameLength DEF IInv, TypeOK
<1>4. ControlOK' /\ AttemptsInv'
  BY <1>1, SameAttempts DEF IInv
<1>5. OutcomeHasEvidence'
  BY <1>2 DEF IInv, OutcomeHasEvidence, NoRun
<1>6. ResultsRecorded'
  <2>1. completedMessages' \subseteq results'
    OBVIOUS
  <2>2. \A i \in 1 .. Len(completedEvents') : completedEvents'[i] \in results'
    BY <1>2 DEF IInv, ResultsRecorded
  <2>3. ASSUME NEW q \in 1 .. Len(runs'),
               runs'[q].phase \in {"Cleanup", "Completed"}
        PROVE  [run |-> q, attempt |-> runs'[q].attempt,
                success |-> runs'[q].conclusion = "Success"] \in results'
    <3>1. CASE q = r BY <3>1, <2>3, <1>1
    <3>2. CASE q # r BY <3>2, <2>3, <1>1 DEF IInv, ResultsRecorded
    <3> QED BY <3>1, <3>2
  <2> QED BY <2>1, <2>2, <2>3 DEF ResultsRecorded
<1> QED BY <1>3, <1>4, <1>5, <1>6 DEF IInv

LEMMA PublishInProgressInvariant ==
  ASSUME IInv, NEW r \in 1 .. Len(runs), PublishInProgress(r)
  PROVE  IInv'
<1> DEFINE attempt == runs[r].attempt
           failure == [run |-> r, success |-> FALSE, attempt |-> attempt]
<1>1. runs[r] \in Run /\ attempt \in Nat
  BY RunType DEF IInv
<1>2. PICK o \in PublishOutcome :
        /\ inProgressMessages' =
             IF o.stored
             THEN inProgressMessages \cup {[run |-> r, attempt |-> attempt]}
             ELSE inProgressMessages
        /\ IF o.jobOk
           THEN /\ runs' = [runs EXCEPT ![r].phase = "Tasks", ![r].announced = TRUE]
                /\ UNCHANGED results
           ELSE /\ runs' = [runs EXCEPT ![r].phase = "Cleanup",
                                        ![r].conclusion = "Failure"]
                /\ results' = results \cup {failure}
  BY DEF PublishInProgress
<1>3. UNCHANGED <<orchestratorVars, eventVars, tookEffect, completedMessages,
                  redeliveries, reExecutions, waitTimedOut, evidence>>
  BY DEF PublishInProgress
<1>4. inProgressMessages' \subseteq
        inProgressMessages \cup {[run |-> r, attempt |-> attempt]}
  BY <1>2
<1>5. results \subseteq Result /\ completedMessages \subseteq results
  BY DEF IInv, TypeOK, ResultsRecorded
<1>6. CASE o.jobOk
  <2> DEFINE new == [runs[r] EXCEPT !.phase = "Tasks", !.announced = TRUE]
  <2>1. new \in Run /\ new.attempt = attempt /\ new.phase = "Tasks"
    BY <1>1 DEF Run, Phases
  <2>2. runs' = [runs EXCEPT ![r] = new] /\ results' = results
    BY <1>2, <1>6
  <2> HIDE DEF new
  <2> QED BY <1>3, <1>4, <1>5, <2>1, <2>2, RunProgressInvariant
<1>7. CASE ~o.jobOk
  <2> DEFINE new == [runs[r] EXCEPT !.phase = "Cleanup", !.conclusion = "Failure"]
  <2>1. new \in Run /\ new.attempt = attempt /\ new.conclusion = "Failure"
    BY <1>1 DEF Run, Phases
  <2>2. runs' = [runs EXCEPT ![r] = new] /\ results' = results \cup {failure}
    BY <1>2, <1>7
  <2>3. (new.conclusion = "Success") = FALSE
    BY <2>1
  <2> HIDE DEF new
  <2>4. [run |-> r, attempt |-> new.attempt, success |-> new.conclusion = "Success"]
          = failure
    BY <2>1, <2>3
  <2>5. failure \in Result
    BY <1>1 DEF Result
  <2>6. results' \subseteq Result /\ completedMessages' \subseteq results'
    BY <1>3, <1>5, <2>2, <2>5
  <2> QED BY <1>3, <1>4, <2>1, <2>2, <2>4, <2>6, RunProgressInvariant
<1> QED BY <1>6, <1>7

LEMMA PublishCompletedInvariant ==
  ASSUME IInv, NEW r \in 1 .. Len(runs), PublishCompleted(r)
  PROVE  IInv'
<1> DEFINE attempt == runs[r].attempt
           result(s) == [run |-> r, attempt |-> attempt, success |-> s]
<1>1. runs[r] \in Run /\ attempt \in Nat
  BY RunType DEF IInv
<1>2. PICK success \in BOOLEAN, o \in PublishOutcome :
        LET concluded == [result(success) EXCEPT !.success = success /\ o.jobOk]
        IN /\ completedMessages' = IF o.stored
                                   THEN completedMessages \cup {result(success)}
                                   ELSE completedMessages
           /\ runs' = [runs EXCEPT ![r].phase = "Cleanup",
                         ![r].conclusion = IF concluded.success THEN "Success"
                                                                ELSE "Failure"]
           /\ results' = results \cup {result(success), concluded}
  BY DEF PublishCompleted
<1>3. UNCHANGED <<orchestratorVars, eventVars, tookEffect, inProgressMessages,
                  redeliveries, reExecutions, waitTimedOut, evidence>>
  BY DEF PublishCompleted
<1> DEFINE ok  == success /\ o.jobOk
           new == [runs[r] EXCEPT !.phase = "Cleanup",
                     !.conclusion = IF ok THEN "Success" ELSE "Failure"]
<1>4. ok \in BOOLEAN /\ [result(success) EXCEPT !.success = ok] = result(ok)
  BY DEF PublishOutcome
<1>5. /\ runs' = [runs EXCEPT ![r] = new]
      /\ results' = results \cup {result(success), result(ok)}
      /\ completedMessages' \subseteq completedMessages \cup {result(success)}
  BY <1>2, <1>4
<1>6. /\ new \in Run /\ new.attempt = attempt
      /\ (new.conclusion = "Success") = ok
  BY <1>1, <1>4 DEF Run, Phases
<1>7. result(success) \in Result /\ result(ok) \in Result
  BY <1>1, <1>4 DEF Result
<1>8. results \subseteq Result /\ completedMessages \subseteq results
  BY DEF IInv, TypeOK, ResultsRecorded
<1> HIDE DEF new, ok
<1>9. [run |-> r, attempt |-> new.attempt, success |-> new.conclusion = "Success"]
        \in results'
  BY <1>5, <1>6
<1>10. /\ results \subseteq results' /\ results' \subseteq Result
       /\ completedMessages' \subseteq results'
  BY <1>5, <1>7, <1>8
<1>11. inProgressMessages' \subseteq
         inProgressMessages \cup {[run |-> r, attempt |-> runs[r].attempt]}
  BY <1>3
<1> QED BY <1>3, <1>5, <1>6, <1>9, <1>10, <1>11, RunProgressInvariant

LEMMA FinishCleanupInvariant ==
  ASSUME IInv, NEW r \in 1 .. Len(runs), FinishCleanup(r)
  PROVE  IInv'
<1> DEFINE new == [runs[r] EXCEPT !.phase = "Completed"]
<1>1. /\ runs[r].phase = "Cleanup"
      /\ runs' = [runs EXCEPT ![r] = new]
      /\ UNCHANGED <<orchestratorVars, eventVars, tookEffect, messageVars, historyVars>>
  BY DEF FinishCleanup
<1>2. /\ new \in Run /\ new.attempt = runs[r].attempt
      /\ new.conclusion = runs[r].conclusion
  BY RunType DEF IInv, Run, Phases
<1> HIDE DEF new
<1>3. UNCHANGED <<inProgressMessages, completedMessages, redeliveries, reExecutions,
                  waitTimedOut, results, evidence>>
  BY <1>1 DEF messageVars, historyVars
<1>4. [run |-> r, attempt |-> new.attempt, success |-> new.conclusion = "Success"]
        \in results'
  BY <1>1, <1>2, <1>3 DEF IInv, ResultsRecorded
<1>5. /\ results \subseteq results' /\ results' \subseteq Result
      /\ completedMessages' \subseteq results'
  BY <1>3 DEF IInv, TypeOK, ResultsRecorded
<1> QED BY <1>1, <1>2, <1>3, <1>4, <1>5, RunProgressInvariant

\* A delivered message leaves the queue or stays, and its event is appended to
\* the buffer or, when the instance has ended, dropped.
LEMMA DeliverInProgressInvariant ==
  ASSUME IInv, NEW m \in inProgressMessages, DeliverInProgress(m)
  PROVE  IInv'
<1>1. UNCHANGED <<orchestratorVars, completedEvents, tookEffect, runs,
                  completedMessages, reExecutions, waitTimedOut, results, evidence>>
  BY DEF DeliverInProgress
<1>2. UNCHANGED <<pc, currentAttempt, retryIndex, runId, lastWorkflowStatus,
                  customStatus>>
  BY <1>1 DEF orchestratorVars
<1>3. m.run \in 1 .. Len(runs)
  BY DEF IInv, TypeOK
<1>4. inProgressEvents' \in Seq(1 .. Len(runs))
  <2>1. inProgressEvents' \in {inProgressEvents, Append(inProgressEvents, m.run)}
    BY DEF DeliverInProgress, RaiseEvent
  <2>2. Append(inProgressEvents, m.run) \in Seq(1 .. Len(runs))
    BY <1>3, AppendProperties DEF IInv, TypeOK
  <2> QED BY <2>1, <2>2 DEF IInv, TypeOK
<1>5. inProgressMessages' \subseteq inProgressMessages /\ redeliveries' \in Nat
  BY DEF DeliverInProgress, Consume, IInv, TypeOK
<1>6. TypeOK'
  BY <1>1, <1>2, <1>4, <1>5 DEF IInv, TypeOK
<1>7. ControlOK' /\ AttemptsInv'
  BY <1>1, SameAttempts DEF IInv, TypeOK
<1>8. ResultsRecorded' /\ OutcomeHasEvidence'
  BY <1>1, <1>2 DEF IInv, ResultsRecorded, OutcomeHasEvidence, NoRun
<1> QED BY <1>6, <1>7, <1>8 DEF IInv

LEMMA DeliverCompletedInvariant ==
  ASSUME IInv, NEW m \in completedMessages, DeliverCompleted(m)
  PROVE  IInv'
<1>1. UNCHANGED <<orchestratorVars, inProgressEvents, tookEffect, runs,
                  inProgressMessages, reExecutions, waitTimedOut, results, evidence>>
  BY DEF DeliverCompleted
<1>2. UNCHANGED <<pc, currentAttempt, retryIndex, runId, lastWorkflowStatus,
                  customStatus>>
  BY <1>1 DEF orchestratorVars
<1>3. m \in Result /\ m \in results
  BY DEF IInv, TypeOK, ResultsRecorded
<1>4. /\ completedEvents' \in Seq(Result)
      /\ \A i \in 1 .. Len(completedEvents') : completedEvents'[i] \in results
  <2>1. completedEvents' \in {completedEvents, Append(completedEvents, m)}
    BY DEF DeliverCompleted, RaiseEvent
  <2>2. completedEvents \in Seq(Result)
    BY DEF IInv, TypeOK
  <2>3. /\ Append(completedEvents, m) \in Seq(Result)
        /\ Len(Append(completedEvents, m)) = Len(completedEvents) + 1
        /\ \A i \in 1 .. Len(completedEvents) :
             Append(completedEvents, m)[i] = completedEvents[i]
        /\ Append(completedEvents, m)[Len(completedEvents) + 1] = m
    BY <1>3, <2>2, AppendProperties
  <2>4. \A i \in 1 .. Len(completedEvents) : completedEvents[i] \in results
    BY DEF IInv, ResultsRecorded
  <2>5. \A i \in 1 .. Len(completedEvents) + 1 :
          i \in 1 .. Len(completedEvents) \/ i = Len(completedEvents) + 1
    BY <2>2
  <2> QED BY <1>3, <2>1, <2>2, <2>3, <2>4, <2>5
<1>5. completedMessages' \subseteq completedMessages /\ redeliveries' \in Nat
  BY DEF DeliverCompleted, Consume, IInv, TypeOK
<1>6. TypeOK'
  BY <1>1, <1>2, <1>4, <1>5 DEF IInv, TypeOK
<1>7. ControlOK' /\ AttemptsInv'
  BY <1>1, SameAttempts DEF IInv, TypeOK
<1>8. ResultsRecorded' /\ OutcomeHasEvidence'
  BY <1>1, <1>2, <1>4, <1>5 DEF IInv, ResultsRecorded, OutcomeHasEvidence, NoRun
<1> QED BY <1>6, <1>7, <1>8 DEF IInv

LEMMA LoseMessageInvariant ==
  ASSUME IInv, LoseMessage
  PROVE  IInv'
<1>1. /\ UNCHANGED <<orchestratorVars, eventVars, tookEffect, runs, historyVars>>
      /\ inProgressMessages' \subseteq inProgressMessages
      /\ completedMessages' \subseteq completedMessages
  BY DEF LoseMessage
<1>2. UNCHANGED <<pc, currentAttempt, retryIndex, runId, lastWorkflowStatus,
                  customStatus, inProgressEvents, completedEvents, redeliveries,
                  reExecutions, waitTimedOut, results, evidence>>
  BY <1>1 DEF orchestratorVars, eventVars, historyVars
<1>3. TypeOK'
  BY <1>1, <1>2 DEF IInv, TypeOK
<1>4. ControlOK' /\ AttemptsInv'
  BY <1>1, <1>2, SameAttempts DEF IInv, TypeOK
<1>5. ResultsRecorded' /\ OutcomeHasEvidence'
  BY <1>1, <1>2 DEF IInv, ResultsRecorded, OutcomeHasEvidence, NoRun
<1> QED BY <1>3, <1>4, <1>5 DEF IInv

LEMMA EnvironmentInvariant ==
  ASSUME IInv, Environment
  PROVE  IInv'
<1>1. DOMAIN runs = 1 .. Len(runs)
  BY DEF IInv, TypeOK
<1> QED
  BY <1>1, CreateDispatchInvariant, AcceptRerunInvariant, PublishInProgressInvariant,
     PublishCompletedInvariant, FinishCleanupInvariant, DeliverInProgressInvariant,
     DeliverCompletedInvariant, LoseMessageInvariant
     DEF Environment

-----------------------------------------------------------------------------
(* The orchestrator's turns: control points and attempts.                  *)

LEMMA OrchestrateControl ==
  ASSUME IInv, Orchestrate
  PROVE  ControlOK'
<1>t. /\ runs \in Seq(Run) /\ Len(runs) \in Nat /\ runId \in 0 .. Len(runs)
      /\ tookEffect \in BOOLEAN
  BY DEF IInv, TypeOK
<1>u. UNCHANGED runs
  BY OrchestrateOutside DEF IInv
<1> USE DEF IInv, ControlOK, BeforeRun, WithRun, InRerun, NoRun, SetProgress,
            CreateState, historyVars
<1>c. ASSUME pc \in {"AwaitCompleted", "CheckAfterTimeout"}, UNCHANGED tookEffect,
             BeginRerun \/ \E info, outcome : Complete(currentAttempt, runId, info, outcome)
      PROVE  ControlOK'
  <2>1. CASE BeginRerun
    BY <2>1, <1>c, <1>u DEF BeginRerun
  <2>2. ASSUME NEW info, NEW outcome, Complete(currentAttempt, runId, info, outcome)
        PROVE  ControlOK'
    BY <2>2, <1>c, <1>u DEF Complete
  <2> QED BY <1>c, <2>1, <2>2
<1>1. CASE RunWithoutInput
  BY <1>1, <1>t, <1>u DEF RunWithoutInput
<1>2. CASE TriggerWorkflow
  BY <1>2, <1>t, <1>u DEF TriggerWorkflow
<1>3. CASE WorkflowTriggered
  BY <1>3, <1>t, <1>u DEF WorkflowTriggered
<1>4. CASE DispatchFailed
  BY <1>4, <1>t, <1>u DEF DispatchFailed
<1>5. CASE ReceiveInProgress
  <2>1. Head(inProgressEvents) \in 1 .. Len(runs)
    BY <1>5 DEF ReceiveInProgress, TypeOK
  <2> QED BY <1>5, <2>1, <1>t, <1>u DEF ReceiveInProgress, AwaitCompletion
<1>6. CASE InProgressTimeout
  BY <1>6, <1>t, <1>u DEF InProgressTimeout
<1>7. CASE RunFound
  BY <1>7, <1>t, <1>u DEF RunFound, AwaitCompletion
<1>8. CASE RunNotFound
  BY <1>8, <1>t, <1>u DEF RunNotFound
<1>9. CASE ReceiveCompleted
  BY <1>9, <1>c DEF ReceiveCompleted, AttemptFailed
<1>10. CASE CompletedTimeout
  BY <1>10, <1>t, <1>u DEF CompletedTimeout
<1>11. CASE ObserveAfterTimeout
  BY <1>11, <1>c DEF ObserveAfterTimeout, AttemptFailed
<1>12. CASE StatusCheckFailed
  BY <1>12, <1>t, <1>u DEF StatusCheckFailed, Fault
<1>13. CASE BackoffElapsed
  BY <1>13, <1>t, <1>u DEF BackoffElapsed
<1>14. CASE RerunTriggered
  BY <1>14, <1>t, <1>u DEF RerunTriggered, AwaitCompletion
<1>15. CASE RerunFailed
  BY <1>15, <1>t, <1>u DEF RerunFailed
<1>16. CASE RerunAlreadyVisible
  BY <1>16, <1>t, <1>u DEF RerunAlreadyVisible, AwaitCompletion
<1>17. CASE RetryRerun
  BY <1>17, <1>t, <1>u DEF RetryRerun
<1>18. CASE RerunNotStarted
  BY <1>18, <1>t, <1>u DEF RerunNotStarted, Complete
<1> QED BY <1>1, <1>2, <1>3, <1>4, <1>5, <1>6, <1>7, <1>8, <1>9, <1>10,
           <1>11, <1>12, <1>13, <1>14, <1>15, <1>16, <1>17, <1>18
        DEF Orchestrate

LEMMA OrchestrateAttempts ==
  ASSUME IInv, Orchestrate
  PROVE  AttemptsInv'
<1>t. /\ currentAttempt \in Nat \ {0} /\ reExecutions \in Nat /\ tookEffect \in BOOLEAN
      /\ runId \in 0 .. Len(runs) /\ runs \in Seq(Run)
      /\ \A r \in 1 .. Len(runs) : runs[r].attempt \in Nat \ {0}
  <2>1. \A r \in 1 .. Len(runs) : runs[r] \in Run
    BY RunType DEF IInv
  <2> QED BY <2>1 DEF IInv, TypeOK, Run
<1>u. UNCHANGED <<runs, reExecutions>>
  BY OrchestrateOutside DEF IInv, Orchestrate, RunWithoutInput, TriggerWorkflow,
     WorkflowTriggered, DispatchFailed, ReceiveInProgress, InProgressTimeout,
     RunFound, RunNotFound, ReceiveCompleted, CompletedTimeout,
     ObserveAfterTimeout, StatusCheckFailed, BackoffElapsed, RerunTriggered,
     RerunFailed, RerunAlreadyVisible, RetryRerun, RerunNotStarted, historyVars
<1>a. AttemptsInv /\ ControlOK
  BY DEF IInv
<1>o. ASSUME runId \in 1 .. Len(runs)
      PROVE  ObservedInfo(runId).runAttempt = runs[runId].attempt
  BY <1>o, <1>t, ObservedInfoType
<1> USE DEF AttemptsInv, NoRun, historyVars
<1>c. ASSUME pc \in {"AwaitCompleted", "CheckAfterTimeout"}, UNCHANGED tookEffect,
             BeginRerun \/ \E info, outcome : Complete(currentAttempt, runId, info, outcome)
      PROVE  AttemptsInv'
  <2>1. CASE BeginRerun
    BY <2>1, <1>c, <1>a, <1>t, <1>u DEF BeginRerun
  <2>2. ASSUME NEW info, NEW outcome, Complete(currentAttempt, runId, info, outcome)
        PROVE  AttemptsInv'
    BY <2>2, <1>c, <1>a, <1>t, <1>u DEF Complete
  <2> QED BY <1>c, <2>1, <2>2
<1>n. ASSUME runId = NoRun, currentAttempt = 1, runId' \in 1 .. Len(runs),
             currentAttempt' = 1, UNCHANGED tookEffect, pc' = "AwaitCompleted"
      PROVE  AttemptsInv'
  <2>1. runs[runId'].attempt = 1
    BY <1>n, <1>a DEF ControlOK
  <2> QED BY <2>1, <1>n, <1>t, <1>u
<1>1. CASE RunWithoutInput
  BY <1>1, <1>a, <1>u DEF RunWithoutInput, ControlOK, BeforeRun
<1>2. CASE TriggerWorkflow
  BY <1>2, <1>a, <1>u DEF TriggerWorkflow, ControlOK, BeforeRun
<1>3. CASE WorkflowTriggered
  BY <1>3, <1>a, <1>u DEF WorkflowTriggered, ControlOK, BeforeRun
<1>4. CASE DispatchFailed
  BY <1>4, <1>a, <1>u DEF DispatchFailed, ControlOK, BeforeRun
<1>5. CASE ReceiveInProgress
  <2>1. Head(inProgressEvents) \in 1 .. Len(runs)
    BY <1>5 DEF ReceiveInProgress, IInv, TypeOK
  <2> QED BY <1>5, <2>1, <1>a, <1>n
          DEF ReceiveInProgress, AwaitCompletion, ControlOK, BeforeRun
<1>6. CASE InProgressTimeout
  BY <1>6, <1>a, <1>u DEF InProgressTimeout, ControlOK, BeforeRun
<1>7. CASE RunFound
  <2>1. Len(runs) \in 1 .. Len(runs)
    BY <1>7, <1>t DEF RunFound
  <2> QED BY <1>7, <2>1, <1>a, <1>n
          DEF RunFound, AwaitCompletion, ControlOK, BeforeRun
<1>8. CASE RunNotFound
  BY <1>8, <1>a, <1>u DEF RunNotFound, ControlOK, BeforeRun
<1>9. CASE ReceiveCompleted
  BY <1>9, <1>c DEF ReceiveCompleted, AttemptFailed
<1>10. CASE CompletedTimeout
  BY <1>10, <1>a, <1>t, <1>u DEF CompletedTimeout, ControlOK
<1>11. CASE ObserveAfterTimeout
  BY <1>11, <1>c DEF ObserveAfterTimeout, AttemptFailed
<1>12. CASE StatusCheckFailed
  BY <1>12, <1>a, <1>t, <1>u DEF StatusCheckFailed, Fault, ControlOK
<1>13. CASE BackoffElapsed
  BY <1>13, <1>a, <1>t, <1>u DEF BackoffElapsed, ControlOK
<1>14. CASE RerunTriggered
  BY <1>14, <1>a, <1>t, <1>u DEF RerunTriggered, AwaitCompletion, ControlOK
<1>15. CASE RerunFailed
  BY <1>15, <1>a, <1>t, <1>u DEF RerunFailed, ControlOK
<1>16. CASE RerunAlreadyVisible
  <2>1. runId \in 1 .. Len(runs)
    BY <1>16, <1>a, <1>t DEF RerunAlreadyVisible, ControlOK, WithRun, InRerun
  <2> QED BY <1>16, <2>1, <1>a, <1>t, <1>u, <1>o DEF RerunAlreadyVisible, AwaitCompletion, ControlOK
<1>17. CASE RetryRerun
  <2>1. runId \in 1 .. Len(runs)
    BY <1>17, <1>a, <1>t DEF RetryRerun, ControlOK, WithRun, InRerun
  <2> QED BY <1>17, <2>1, <1>a, <1>t, <1>u, <1>o DEF RetryRerun, ControlOK
<1>18. CASE RerunNotStarted
  <2>1. runId \in 1 .. Len(runs)
    BY <1>18, <1>a, <1>t DEF RerunNotStarted, ControlOK, WithRun, InRerun
  <2> QED BY <1>18, <2>1, <1>a, <1>t, <1>u, <1>o DEF RerunNotStarted, Complete, ControlOK
<1> QED BY <1>1, <1>2, <1>3, <1>4, <1>5, <1>6, <1>7, <1>8, <1>9, <1>10,
           <1>11, <1>12, <1>13, <1>14, <1>15, <1>16, <1>17, <1>18
        DEF Orchestrate

-----------------------------------------------------------------------------
(* The orchestrator's turns: results and evidence.                         *)

LEMMA OrchestrateResults ==
  ASSUME IInv, Orchestrate
  PROVE  ResultsRecorded'
<1>1. UNCHANGED <<runs, completedMessages, results>>
  BY OrchestrateOutside DEF IInv, Orchestrate, RunWithoutInput, TriggerWorkflow,
     WorkflowTriggered, DispatchFailed, ReceiveInProgress, InProgressTimeout,
     RunFound, RunNotFound, ReceiveCompleted, CompletedTimeout,
     ObserveAfterTimeout, StatusCheckFailed, BackoffElapsed, RerunTriggered,
     RerunFailed, RerunAlreadyVisible, RetryRerun, RerunNotStarted, messageVars,
     historyVars
<1>2. CASE UNCHANGED completedEvents
  BY <1>1, <1>2 DEF IInv, ResultsRecorded
<1>3. CASE ReceiveCompleted
  <2>1. completedEvents \in Seq(Result) /\ completedEvents # <<>>
    BY <1>3 DEF ReceiveCompleted, IInv, TypeOK
  <2>2. /\ completedEvents' = Tail(completedEvents)
        /\ Len(completedEvents') = Len(completedEvents) - 1
        /\ \A i \in 1 .. Len(completedEvents') :
             completedEvents'[i] = completedEvents[i + 1]
    BY <1>3, <2>1, HeadTailProperties DEF ReceiveCompleted
  <2>3. \A i \in 1 .. Len(completedEvents') : i + 1 \in 1 .. Len(completedEvents)
    BY <2>1, <2>2
  <2>4. \A i \in 1 .. Len(completedEvents') : completedEvents'[i] \in results
    BY <2>2, <2>3 DEF IInv, ResultsRecorded
  <2> QED BY <1>1, <2>4 DEF IInv, ResultsRecorded
<1> QED BY <1>2, <1>3 DEF Orchestrate, RunWithoutInput, TriggerWorkflow,
     WorkflowTriggered, DispatchFailed, ReceiveInProgress, InProgressTimeout,
     RunFound, RunNotFound, CompletedTimeout,
     ObserveAfterTimeout, StatusCheckFailed, BackoffElapsed, RerunTriggered,
     RerunFailed, RerunAlreadyVisible, RetryRerun, RerunNotStarted, eventVars

\* The result that an evaluation acts on is recorded, and a failure when it does
\* not succeed.
LEMMA OrchestrateEvidence ==
  ASSUME IInv, Orchestrate
  PROVE  OutcomeHasEvidence'
<1>u. UNCHANGED results
  BY OrchestrateOutside DEF IInv, Orchestrate, RunWithoutInput, TriggerWorkflow,
     WorkflowTriggered, DispatchFailed, ReceiveInProgress, InProgressTimeout,
     RunFound, RunNotFound, ReceiveCompleted, CompletedTimeout,
     ObserveAfterTimeout, StatusCheckFailed, BackoffElapsed, RerunTriggered,
     RerunFailed, RerunAlreadyVisible, RetryRerun, RerunNotStarted, historyVars
<1>a. OutcomeHasEvidence /\ ControlOK
  BY DEF IInv
<1> USE DEF OutcomeHasEvidence, NoRun, SetProgress, CreateState, historyVars
<1>f. ASSUME NEW info, AttemptFailed(info), evidence' \in results, ~evidence'.success
      PROVE  OutcomeHasEvidence'
  <2>1. CASE BeginRerun
    BY <2>1, <1>f, <1>u DEF BeginRerun
  <2>2. CASE Complete(currentAttempt, runId, info, "Failed")
    BY <2>2, <1>f, <1>u DEF Complete
  <2> QED BY <1>f, <2>1, <2>2 DEF AttemptFailed
<1>s. ASSUME NEW info, Complete(currentAttempt, runId, info, "Succeeded"),
             evidence' \in results, evidence'.success
      PROVE  OutcomeHasEvidence'
  BY <1>s, <1>u DEF Complete
<1>1. CASE RunWithoutInput
  BY <1>1, <1>a, <1>u DEF RunWithoutInput, ControlOK, WithRun, InRerun, BeforeRun
<1>2. CASE TriggerWorkflow
  BY <1>2, <1>a, <1>u DEF TriggerWorkflow, ControlOK, WithRun, InRerun, BeforeRun
<1>3. CASE WorkflowTriggered
  BY <1>3, <1>a, <1>u DEF WorkflowTriggered, ControlOK, WithRun, InRerun, BeforeRun
<1>4. CASE DispatchFailed
  BY <1>4, <1>a, <1>u DEF DispatchFailed, ControlOK, WithRun, InRerun, BeforeRun
<1>5. CASE ReceiveInProgress
  BY <1>5, <1>a, <1>u DEF ReceiveInProgress, AwaitCompletion, ControlOK, WithRun, InRerun, BeforeRun
<1>6. CASE InProgressTimeout
  BY <1>6, <1>a, <1>u DEF InProgressTimeout, ControlOK, WithRun, InRerun, BeforeRun
<1>7. CASE RunFound
  BY <1>7, <1>a, <1>u DEF RunFound, AwaitCompletion, ControlOK, WithRun, InRerun, BeforeRun
<1>8. CASE RunNotFound
  BY <1>8, <1>a, <1>u DEF RunNotFound, ControlOK, WithRun, InRerun, BeforeRun
<1>9. CASE ReceiveCompleted
  <2>1. completedEvents \in Seq(Result) /\ completedEvents # <<>>
    BY <1>9 DEF ReceiveCompleted, IInv, TypeOK
  <2>2. Head(completedEvents) = completedEvents[1] /\ 1 \in 1 .. Len(completedEvents)
    BY <2>1
  <2>3. evidence' = Head(completedEvents) /\ Head(completedEvents) \in results
    BY <1>9, <2>2 DEF ReceiveCompleted, IInv, ResultsRecorded
  <2> QED BY <1>9, <2>3, <1>f, <1>s DEF ReceiveCompleted
<1>10. CASE CompletedTimeout
  BY <1>10, <1>a, <1>u DEF CompletedTimeout, ControlOK, WithRun, InRerun, BeforeRun
<1>11. CASE ObserveAfterTimeout
  <2>1. runId \in 1 .. Len(runs)
    BY <1>11, TrackedRun DEF ObserveAfterTimeout, IInv, WithRun
  <2>2. CASE ObservedInfo(runId).status # "Completed"
    <3>1. Complete(currentAttempt, runId, ObservedInfo(runId), "InProgress")
          /\ UNCHANGED evidence
      BY <1>11, <2>2 DEF ObserveAfterTimeout
    <3> QED BY <3>1 DEF Complete
  <2>3. CASE ObservedInfo(runId).status = "Completed"
    <3>1. /\ runs[runId].phase = "Completed"
          /\ ObservedInfo(runId).runAttempt = runs[runId].attempt
          /\ ObservedInfo(runId).conclusion = runs[runId].conclusion
      BY <2>1, <2>3, ObservedInfoType DEF IInv, TypeOK
    <3>2. evidence' = [run |-> runId, attempt |-> runs[runId].attempt,
                       success |-> runs[runId].conclusion = "Success"]
      BY <1>11, <2>3, <3>1 DEF ObserveAfterTimeout
    <3>3. evidence' \in results
      BY <2>1, <3>1, <3>2 DEF IInv, ResultsRecorded
    <3>4. evidence'.success <=> runs[runId].conclusion = "Success"
      BY <3>2
    <3>5. IF runs[runId].conclusion = "Success"
          THEN Complete(currentAttempt, runId, ObservedInfo(runId), "Succeeded")
          ELSE AttemptFailed(ObservedInfo(runId))
      BY <1>11, <2>3, <3>1 DEF ObserveAfterTimeout
    <3> QED BY <3>3, <3>4, <3>5, <1>f, <1>s
  <2> QED BY <2>2, <2>3
<1>12. CASE StatusCheckFailed
  BY <1>12, <1>a, <1>u DEF StatusCheckFailed, Fault, ControlOK, WithRun, InRerun, BeforeRun
<1>13. CASE BackoffElapsed
  BY <1>13, <1>a, <1>u DEF BackoffElapsed, ControlOK, WithRun, InRerun, BeforeRun
<1>14. CASE RerunTriggered
  BY <1>14, <1>a, <1>u DEF RerunTriggered, AwaitCompletion, ControlOK, WithRun, InRerun, BeforeRun
<1>15. CASE RerunFailed
  BY <1>15, <1>a, <1>u DEF RerunFailed, ControlOK, WithRun, InRerun, BeforeRun
<1>16. CASE RerunAlreadyVisible
  BY <1>16, <1>a, <1>u DEF RerunAlreadyVisible, AwaitCompletion, ControlOK, WithRun, InRerun, BeforeRun
<1>17. CASE RetryRerun
  BY <1>17, <1>a, <1>u DEF RetryRerun, ControlOK, WithRun, InRerun, BeforeRun
<1>18. CASE RerunNotStarted
  BY <1>18, <1>a, <1>u DEF RerunNotStarted, Complete, ControlOK, WithRun, InRerun, BeforeRun
<1> QED BY <1>1, <1>2, <1>3, <1>4, <1>5, <1>6, <1>7, <1>8, <1>9, <1>10,
           <1>11, <1>12, <1>13, <1>14, <1>15, <1>16, <1>17, <1>18
        DEF Orchestrate

LEMMA NextInvariant == IInv /\ [Next]_vars => IInv'
<1> SUFFICES ASSUME IInv, [Next]_vars PROVE IInv'
  OBVIOUS
<1>1. CASE Orchestrate
  BY <1>1, OrchestrateTypeOK, OrchestrateControl, OrchestrateAttempts,
     OrchestrateResults, OrchestrateEvidence
     DEF IInv
<1>2. CASE Environment
  BY <1>2, EnvironmentInvariant
<1>3. CASE UNCHANGED vars
  BY <1>3 DEF vars, orchestratorVars, eventVars, messageVars, historyVars, IInv,
              TypeOK, ControlOK, AttemptsInv, ResultsRecorded, OutcomeHasEvidence, NoRun
<1> QED BY <1>1, <1>2, <1>3 DEF Next

LEMMA InitInvariant == Init => IInv
<1> SUFFICES ASSUME Init PROVE IInv
  OBVIOUS
<1>1. TypeOK
  BY InitTypeOK
<1>2. ControlOK /\ AttemptsInv
  BY DEF Init, ControlOK, AttemptsInv, BeforeRun, WithRun, InRerun, NoStatus, NoRun
<1>3. ResultsRecorded /\ OutcomeHasEvidence
  BY DEF Init, ResultsRecorded, OutcomeHasEvidence, NoStatus, NoRun
<1> QED BY <1>1, <1>2, <1>3 DEF IInv

-----------------------------------------------------------------------------
(* The theorems.                                                           *)

\* The inductive invariant holds throughout, whatever callbacks are lost, late or
\* repeated and whatever activities fail or run again.
THEOREM Invariant == Spec => []IInv
<1>1. Init => IInv
  BY InitInvariant
<1>2. IInv /\ [Next]_vars => IInv'
  BY NextInvariant
<1> QED BY <1>1, <1>2, PTL DEF Spec

\* Every variable keeps its type, and every run that is tracked or named in a
\* message has been dispatched.
THEOREM TypeCorrect == Spec => []TypeOK
<1>1. IInv => TypeOK
  BY DEF IInv
<1> QED BY <1>1, Invariant, PTL

\* Attempts of the orchestration and of the tracked run stay in step, for any
\* maximum of attempts and any list of rerun delays.
THEOREM AttemptsStayInStep == Spec => []AttemptsInStep
<1>1. IInv => AttemptsInStep
  BY DEF IInv, AttemptsInv, AttemptsInStep
<1> QED BY <1>1, Invariant, PTL

\* Every success and every failure of a tracked run that is reported, and every
\* rerun that is requested, rests on a result some attempt came to.
THEOREM OutcomesHaveEvidence == Spec => []OutcomeHasEvidence
<1>1. IInv => OutcomeHasEvidence
  BY DEF IInv
<1> QED BY <1>1, Invariant, PTL

-----------------------------------------------------------------------------
(* The orchestrator implements its contract: each turn starts an attempt,  *)
(* ends the instance, or is a stutter of the contract.                     *)

\* What a turn of the orchestrator must do to be a step of the contract.
ContractStep ==
  \/ /\ Running' /\ currentAttempt' = currentAttempt
     /\ customStatus'.finalOutcome = "None"
  \/ /\ Running' /\ currentAttempt < MaxAttempts
     /\ currentAttempt' = currentAttempt + 1
     /\ customStatus'.finalOutcome = "None"
  \/ /\ pc' = "Returned" /\ currentAttempt' = currentAttempt
     /\ customStatus'.finalOutcome \in FinalOutcomes
  \/ /\ pc' = "Faulted" /\ currentAttempt' = currentAttempt
     /\ customStatus'.finalOutcome \in {"None", "Unknown"}

LEMMA ContractSteps ==
  ASSUME Running, customStatus.finalOutcome = "None", ContractStep
  PROVE  [Contract!Next]_(Contract!vars)
<1>1. CASE /\ Running' /\ currentAttempt' = currentAttempt
           /\ customStatus'.finalOutcome = "None"
  BY <1>1 DEF Running, Contract!vars
<1>2. CASE /\ Running' /\ currentAttempt < MaxAttempts
           /\ currentAttempt' = currentAttempt + 1
           /\ customStatus'.finalOutcome = "None"
  BY <1>2 DEF Running, Contract!Next, Contract!StartNextAttempt
<1>3. CASE /\ pc' = "Returned" /\ currentAttempt' = currentAttempt
           /\ customStatus'.finalOutcome \in FinalOutcomes
  BY <1>3 DEF Running, FinalOutcomes, Contract!Next, Contract!ReportOutcome
<1>4. CASE /\ pc' = "Faulted" /\ currentAttempt' = currentAttempt
           /\ customStatus'.finalOutcome \in {"None", "Unknown"}
  BY <1>4 DEF Running, Contract!Next, Contract!FailInstance
<1> QED BY <1>1, <1>2, <1>3, <1>4 DEF ContractStep

\* The two ways a result is settled.
LEMMA SettledIsContractStep ==
  ASSUME IInv, Running, NEW info, NEW outcome \in FinalOutcomes,
         Complete(currentAttempt, runId, info, outcome) \/ AttemptFailed(info)
  PROVE  ContractStep
<1>1. currentAttempt \in Nat /\ MaxAttempts \in Nat
  BY OrchestratorAssumption DEF IInv, TypeOK
<1>2. CASE Complete(currentAttempt, runId, info, outcome)
  BY <1>2 DEF Complete, CreateState, ContractStep
<1>3. CASE AttemptFailed(info) /\ currentAttempt >= MaxAttempts
  BY <1>3 DEF AttemptFailed, Complete, CreateState, ContractStep, FinalOutcomes
<1>4. CASE AttemptFailed(info) /\ ~(currentAttempt >= MaxAttempts)
  BY <1>1, <1>4 DEF AttemptFailed, BeginRerun, SetProgress, CreateState, Running,
                    ContractStep
<1> QED BY <1>2, <1>3, <1>4

LEMMA OrchestrateIsContractStep ==
  ASSUME IInv, Orchestrate
  PROVE  Running /\ customStatus.finalOutcome = "None" /\ ContractStep
<1> USE DEF CreateState, SetProgress
<1>a. TypeOK /\ ControlOK
  BY DEF IInv
<1>b. Running => customStatus.finalOutcome = "None"
  BY <1>a DEF TypeOK, ControlOK, Running, BeforeRun, WithRun, InRerun
<1>1. CASE RunWithoutInput
  BY <1>1, <1>b DEF RunWithoutInput, Running, ContractStep, FinalOutcomes
<1>2. CASE TriggerWorkflow
  BY <1>2, <1>b DEF TriggerWorkflow, Running, ContractStep
<1>3. CASE WorkflowTriggered
  BY <1>3, <1>b DEF WorkflowTriggered, Running, ContractStep
<1>4. CASE DispatchFailed
  BY <1>4, <1>b DEF DispatchFailed, Running, ContractStep, FinalOutcomes
<1>5. CASE ReceiveInProgress
  BY <1>5, <1>b DEF ReceiveInProgress, AwaitCompletion, Running, ContractStep
<1>6. CASE InProgressTimeout
  BY <1>6, <1>b DEF InProgressTimeout, Running, ContractStep
<1>7. CASE RunFound
  BY <1>7, <1>b DEF RunFound, AwaitCompletion, Running, ContractStep
<1>8. CASE RunNotFound
  BY <1>8, <1>b DEF RunNotFound, Running, ContractStep
<1>9. CASE ReceiveCompleted
  <2>1. Running
    BY <1>9 DEF ReceiveCompleted, Running
  <2> DEFINE info == InfoFromSignal(Head(completedEvents).success)
  <2>2. \/ Complete(currentAttempt, runId, info, "Succeeded")
        \/ AttemptFailed(info)
    BY <1>9 DEF ReceiveCompleted
  <2>3. "Succeeded" \in FinalOutcomes
    BY DEF FinalOutcomes
  <2> HIDE DEF info
  <2> QED BY <1>b, <2>1, <2>2, <2>3, SettledIsContractStep
<1>10. CASE CompletedTimeout
  BY <1>10, <1>b DEF CompletedTimeout, Running, ContractStep
<1>11. CASE ObserveAfterTimeout
  <2>1. Running
    BY <1>11 DEF ObserveAfterTimeout, Running
  <2> DEFINE info == ObservedInfo(runId)
  <2>2. \/ Complete(currentAttempt, runId, info, "InProgress")
        \/ Complete(currentAttempt, runId, info, "Succeeded")
        \/ AttemptFailed(info)
    BY <1>11 DEF ObserveAfterTimeout
  <2>3. "Succeeded" \in FinalOutcomes /\ "InProgress" \in FinalOutcomes
    BY DEF FinalOutcomes
  <2> HIDE DEF info
  <2> QED BY <1>b, <2>1, <2>2, <2>3, SettledIsContractStep
<1>12. CASE StatusCheckFailed
  BY <1>12, <1>b DEF StatusCheckFailed, Fault, Running, ContractStep
<1>13. CASE BackoffElapsed
  BY <1>13, <1>b DEF BackoffElapsed, Running, ContractStep
<1>14. CASE RerunTriggered
  BY <1>14, <1>b DEF RerunTriggered, AwaitCompletion, Running, ContractStep
<1>15. CASE RerunFailed
  BY <1>15, <1>b DEF RerunFailed, Running, ContractStep
<1>16. CASE RerunAlreadyVisible
  BY <1>16, <1>b DEF RerunAlreadyVisible, AwaitCompletion, Running, ContractStep
<1>17. CASE RetryRerun
  BY <1>17, <1>b DEF RetryRerun, Running, ContractStep
<1>18. CASE RerunNotStarted
  BY <1>18, <1>b DEF RerunNotStarted, Complete, Running, ContractStep, FinalOutcomes
<1> QED BY <1>1, <1>2, <1>3, <1>4, <1>5, <1>6, <1>7, <1>8, <1>9, <1>10,
           <1>11, <1>12, <1>13, <1>14, <1>15, <1>16, <1>17, <1>18
        DEF Orchestrate

LEMMA EnvironmentStutters ==
  ASSUME Environment PROVE UNCHANGED orchestratorVars
BY DEF Environment, CreateDispatch, AcceptRerun, PublishInProgress,
       PublishCompleted, FinishCleanup, DeliverInProgress, DeliverCompleted,
       LoseMessage

\* Every behaviour of the orchestrator, whatever its environment does, is one the
\* contract allows: attempts advance one at a time and never past the maximum,
\* the outcome appears in the step that ends the instance, and an ended instance
\* stays as it is. That the instance ends is liveness and left to TLC.
THEOREM ImplementsContractSafety == Spec => Contract!Safety
<1>1. Init => Contract!Init
  BY DEF Init, NoStatus, Contract!Init
<1>2. IInv /\ [Next]_vars => [Contract!Next]_(Contract!vars)
  <2> SUFFICES ASSUME IInv, [Next]_vars PROVE [Contract!Next]_(Contract!vars)
    OBVIOUS
  <2>1. CASE Orchestrate
    BY <2>1, OrchestrateIsContractStep, ContractSteps
  <2>2. CASE Environment
    BY <2>2, EnvironmentStutters DEF orchestratorVars, Contract!vars
  <2>3. CASE UNCHANGED vars
    BY <2>3 DEF vars, orchestratorVars, Contract!vars
  <2> QED BY <2>1, <2>2, <2>3 DEF Next
<1> QED BY <1>1, <1>2, Invariant, PTL DEF Spec, Contract!Safety

=============================================================================
