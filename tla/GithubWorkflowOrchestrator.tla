---------------------- MODULE GithubWorkflowOrchestrator ----------------------
(***************************************************************************)
(* One instance of the Durable orchestration that dispatches a GitHub      *)
(* workflow, waits for its queue callbacks and reruns it when it fails,    *)
(* together with the parties it talks to:                                  *)
(*                                                                         *)
(*   - the orchestrator itself (GithubWorkflowOrchestrator.cs), one action *)
(*     per turn that Durable Task gives it;                                *)
(*   - the activities, which take effect at GitHub at least once and whose *)
(*     outcome is recorded separately from that effect;                    *)
(*   - the GitHub run: its jobs publish the two callbacks and the run only *)
(*     becomes "completed" after the job that reports completion;          *)
(*   - the callback channel (publisher, default-queue, queue processor),   *)
(*     reduced to what the orchestrator can notice: a message is           *)
(*     delivered late, out of order, lost, or delivered again.             *)
(*     ExampleQueue.tla models the inside of that channel.                *)
(***************************************************************************)
EXTENDS Naturals, Sequences, FiniteSets

CONSTANTS
  MaxAttempts,           \* OrchestratorInput.MaxAttempts
  ConfiguredRetryDelays, \* number of entries in Github:RerunTriggerRetryDelays
  RerunEntireWorkflow,   \* OrchestratorInput.RerunEntireWorkflow
  MaxRuns,               \* bound: dispatches that reach GitHub
  MaxRunAttempts,        \* bound: attempts of one GitHub run
  MaxRedeliveries        \* bound: deliveries that leave the message queued

ASSUME OrchestratorAssumption ==
  /\ MaxAttempts \in Nat
  /\ ConfiguredRetryDelays \in Nat
  /\ RerunEntireWorkflow \in BOOLEAN
  /\ MaxRuns \in Nat
  /\ MaxRunAttempts \in Nat
  /\ MaxRedeliveries \in Nat

VARIABLES
  pc,                 \* where the orchestrator's code is suspended
  currentAttempt,     \* the orchestration attempt
  retryIndex,         \* position in the rerun backoff loop
  runId,              \* the run the orchestrator tracks, NoRun until known
  lastWorkflowStatus, \* the last WorkflowRunInfo read in the backoff loop
  customStatus,       \* what a status query shows
  inProgressEvents,   \* Durable's buffer of GithubWorkflowInProgress events
  completedEvents,    \* Durable's buffer of GithubWorkflowCompleted events
  tookEffect,         \* the outstanding activity has changed GitHub
  runs,               \* GitHub's runs of this instance, oldest first
  inProgressMessages, \* queued GithubWorkflowInProgress messages
  completedMessages,  \* queued GithubWorkflowCompleted messages
  redeliveries,       \* history: deliveries that left the message queued
  reExecutions,       \* history: reruns by an activity that had rerun before
  waitTimedOut,       \* history: a wait for completion has timed out
  results,            \* history: what attempts reported or concluded
  evidence            \* history: the result the orchestrator last acted on

orchestratorVars == <<pc, currentAttempt, retryIndex, runId,
                      lastWorkflowStatus, customStatus>>
eventVars   == <<inProgressEvents, completedEvents>>
messageVars == <<inProgressMessages, completedMessages>>
historyVars == <<redeliveries, reExecutions, waitTimedOut, results, evidence>>
vars == <<orchestratorVars, eventVars, tookEffect, runs, messageVars, historyVars>>

-----------------------------------------------------------------------------
(* Values. A run is known by its position in runs, so that runs are        *)
(* ordered by creation; 0 is the default the code passes to its wait.      *)

NoRun == 0

Stages == {"InvalidInput", "TriggeringWorkflow", "WaitingForRunStart",
           "WaitingForCompletion", "CheckingWorkflowStatus",
           "WaitingToRetryRerun", "Completed"}

FinalOutcomes == {"Unknown", "InProgress", "Succeeded", "Failed"}

WorkflowRunInfo == [status     : {"InProgress", "Completed"},
                    conclusion : {"None", "Success", "Failure"},
                    runAttempt : Nat]

NoInfo == [status |-> "None", conclusion |-> "None", runAttempt |-> 0]

NoStatus == [stage |-> "None", currentAttempt |-> 0, runId |-> NoRun,
             observed |-> NoInfo, finalOutcome |-> "None", isTerminal |-> FALSE]

Phases == {"Queued", "Tasks", "Cleanup", "Completed"}

Result == [run : Nat, attempt : Nat, success : BOOLEAN]

NoResult == [run |-> NoRun, attempt |-> 0, success |-> FALSE]

\* An empty list in configuration means the three default delays.
RetryDelays == IF ConfiguredRetryDelays = 0 THEN 3 ELSE ConfiguredRetryDelays

Running == pc \notin {"Returned", "Faulted"}

-----------------------------------------------------------------------------
(* Helpers of the orchestrator.                                            *)

CreateState(stage, attempt, run, info, outcome, terminal) ==
  [stage |-> stage, currentAttempt |-> attempt, runId |-> run,
   observed |-> info, finalOutcome |-> outcome, isTerminal |-> terminal]

SetProgress(stage, attempt, run, info) ==
  customStatus' = CreateState(stage, attempt, run, info, "None", FALSE)

Complete(attempt, run, info, outcome) ==
  /\ pc' = "Returned"
  /\ customStatus' = CreateState("Completed", attempt, run, info, outcome, TRUE)
  /\ UNCHANGED <<currentAttempt, retryIndex, runId, lastWorkflowStatus>>

\* An exception no handler catches: the instance fails, its status stays.
Fault ==
  /\ pc' = "Faulted"
  /\ UNCHANGED <<currentAttempt, retryIndex, runId, lastWorkflowStatus,
                 customStatus>>

\* What a completion event tells when the payload is all there is.
InfoFromSignal(success) ==
  [status |-> "Completed", runAttempt |-> 0,
   conclusion |-> IF success THEN "Success" ELSE "Failure"]

\* What GetWorkflowRunStatusActivity reads from GitHub.
ObservedInfo(r) ==
  IF runs[r].phase = "Completed"
  THEN [status |-> "Completed", conclusion |-> runs[r].conclusion,
        runAttempt |-> runs[r].attempt]
  ELSE [status |-> "InProgress", conclusion |-> "None",
        runAttempt |-> runs[r].attempt]

\* Defect: the new attempt is not counted.
BeginRerunNotCounted ==
  /\ pc' = "Backoff"
  /\ retryIndex' = 0
  /\ lastWorkflowStatus' = NoInfo
  /\ SetProgress("WaitingToRetryRerun", currentAttempt, runId, NoInfo)
  /\ UNCHANGED <<currentAttempt, runId>>

\* The next attempt enters the backoff loop with its first delay.
BeginRerun ==
  /\ pc' = "Backoff"
  /\ currentAttempt' = currentAttempt + 1
  /\ retryIndex' = 0
  /\ lastWorkflowStatus' = NoInfo
  /\ SetProgress("WaitingToRetryRerun", currentAttempt + 1, runId, NoInfo)
  /\ UNCHANGED runId

\* A failed attempt ends the orchestration when it was the last one.
AttemptFailed(info) ==
  IF currentAttempt >= MaxAttempts
  THEN Complete(currentAttempt, runId, info, "Failed")
  ELSE BeginRerun

AwaitCompletion(run, info) ==
  /\ pc' = "AwaitCompleted"
  /\ runId' = run
  /\ SetProgress("WaitingForCompletion", currentAttempt, run, info)

-----------------------------------------------------------------------------
(* The orchestrator's turns.                                               *)

Init ==
  /\ pc = "Scheduled"
  /\ currentAttempt = 1
  /\ retryIndex = 0
  /\ runId = NoRun
  /\ lastWorkflowStatus = NoInfo
  /\ customStatus = NoStatus
  /\ inProgressEvents = <<>>
  /\ completedEvents = <<>>
  /\ tookEffect = FALSE
  /\ runs = <<>>
  /\ inProgressMessages = {}
  /\ completedMessages = {}
  /\ redeliveries = 0
  /\ reExecutions = 0
  /\ waitTimedOut = FALSE
  /\ results = {}
  /\ evidence = NoResult

RunWithoutInput ==
  /\ pc = "Scheduled"
  /\ pc' = "Returned"
  /\ customStatus' =
       CreateState("InvalidInput", 1, NoRun, NoInfo, "Unknown", TRUE)
  /\ UNCHANGED <<currentAttempt, retryIndex, runId, lastWorkflowStatus,
                 eventVars, tookEffect, runs, messageVars, historyVars>>

TriggerWorkflow ==
  /\ pc = "Scheduled"
  /\ pc' = "Dispatching"
  /\ SetProgress("TriggeringWorkflow", currentAttempt, NoRun, NoInfo)
  /\ UNCHANGED <<currentAttempt, retryIndex, runId, lastWorkflowStatus,
                 eventVars, tookEffect, runs, messageVars, historyVars>>

WorkflowTriggered ==
  /\ pc = "Dispatching"
  /\ tookEffect
  /\ pc' = "AwaitInProgress"
  /\ tookEffect' = FALSE
  /\ SetProgress("WaitingForRunStart", currentAttempt, NoRun, NoInfo)
  /\ UNCHANGED <<currentAttempt, retryIndex, runId, lastWorkflowStatus,
                 eventVars, runs, messageVars, historyVars>>

\* catch (TaskFailedException): either activity of TriggerWorkflowAsync.
DispatchFailed ==
  /\ pc \in {"Dispatching", "LookingUpRun"}
  /\ pc' = "Returned"
  /\ tookEffect' = FALSE
  /\ customStatus' =
       CreateState("InvalidInput", currentAttempt, NoRun, NoInfo, "Failed", TRUE)
  /\ UNCHANGED <<currentAttempt, retryIndex, runId, lastWorkflowStatus,
                 eventVars, runs, messageVars, historyVars>>

ReceiveInProgress ==
  /\ pc = "AwaitInProgress"
  /\ inProgressEvents # <<>>
  /\ inProgressEvents' = Tail(inProgressEvents)
  /\ AwaitCompletion(Head(inProgressEvents), NoInfo)
  /\ UNCHANGED <<currentAttempt, retryIndex, lastWorkflowStatus,
                 completedEvents, tookEffect, runs, messageVars, historyVars>>

InProgressTimeout ==
  /\ pc = "AwaitInProgress"
  /\ inProgressEvents = <<>>
  /\ pc' = "LookingUpRun"
  /\ UNCHANGED <<currentAttempt, retryIndex, runId, lastWorkflowStatus,
                 customStatus, eventVars, tookEffect, runs, messageVars,
                 historyVars>>

RunFound ==
  /\ pc = "LookingUpRun"
  /\ runs # <<>>
  /\ AwaitCompletion(Len(runs), NoInfo)
  /\ UNCHANGED <<currentAttempt, retryIndex, lastWorkflowStatus, eventVars,
                 tookEffect, runs, messageVars, historyVars>>

\* The listing failed, or the run is not on its first page: a terminal
\* status is set and the TimeoutException escapes.
RunNotFound ==
  /\ pc = "LookingUpRun"
  /\ pc' = "Faulted"
  /\ customStatus' = CreateState("WaitingForRunStart", currentAttempt, NoRun,
                                 NoInfo, "Unknown", TRUE)
  /\ UNCHANGED <<currentAttempt, retryIndex, runId, lastWorkflowStatus,
                 eventVars, tookEffect, runs, messageVars, historyVars>>

\* Defect: the event's payload is not looked at; its arrival is a failure.
ReceiveCompletedAsFailure ==
  /\ pc = "AwaitCompleted"
  /\ completedEvents # <<>>
  /\ completedEvents' = Tail(completedEvents)
  /\ evidence' = Head(completedEvents)
  /\ AttemptFailed(InfoFromSignal(FALSE))
  /\ UNCHANGED <<inProgressEvents, tookEffect, runs, messageVars, redeliveries,
                 reExecutions, waitTimedOut, results>>

\* Defect: its arrival is a success.
ReceiveCompletedAsSuccess ==
  /\ pc = "AwaitCompleted"
  /\ completedEvents # <<>>
  /\ completedEvents' = Tail(completedEvents)
  /\ evidence' = Head(completedEvents)
  /\ Complete(currentAttempt, runId, InfoFromSignal(TRUE), "Succeeded")
  /\ UNCHANGED <<inProgressEvents, tookEffect, runs, messageVars, redeliveries,
                 reExecutions, waitTimedOut, results>>

\* The event carries success only; run and attempt are the model's record of
\* where it came from.
ReceiveCompleted ==
  /\ pc = "AwaitCompleted"
  /\ completedEvents # <<>>
  /\ completedEvents' = Tail(completedEvents)
  /\ evidence' = Head(completedEvents)
  /\ LET success == Head(completedEvents).success IN
       IF success
       THEN Complete(currentAttempt, runId, InfoFromSignal(success), "Succeeded")
       ELSE AttemptFailed(InfoFromSignal(success))
  /\ UNCHANGED <<inProgressEvents, tookEffect, runs, messageVars, redeliveries,
                 reExecutions, waitTimedOut, results>>

CompletedTimeout ==
  /\ pc = "AwaitCompleted"
  /\ completedEvents = <<>>
  /\ pc' = "CheckAfterTimeout"
  /\ waitTimedOut' = TRUE
  /\ SetProgress("CheckingWorkflowStatus", currentAttempt, runId, NoInfo)
  /\ UNCHANGED <<currentAttempt, retryIndex, runId, lastWorkflowStatus,
                 eventVars, tookEffect, runs, messageVars, redeliveries,
                 reExecutions, results, evidence>>

\* Defect: a run that is still in progress counts as failed.
ObserveAfterTimeoutIncomplete ==
  /\ pc = "CheckAfterTimeout"
  /\ LET info == ObservedInfo(runId) IN
       IF info.conclusion = "Success"
       THEN /\ evidence' = [run |-> runId, attempt |-> info.runAttempt,
                            success |-> TRUE]
            /\ Complete(currentAttempt, runId, info, "Succeeded")
       ELSE AttemptFailed(info) /\ UNCHANGED evidence
  /\ UNCHANGED <<eventVars, tookEffect, runs, messageVars, redeliveries,
                 reExecutions, waitTimedOut, results>>

ObserveAfterTimeout ==
  /\ pc = "CheckAfterTimeout"
  /\ LET info == ObservedInfo(runId) IN
       \/ /\ info.status # "Completed"
          /\ Complete(currentAttempt, runId, info, "InProgress")
          /\ UNCHANGED evidence
       \/ /\ info.status = "Completed"
          /\ evidence' = [run |-> runId, attempt |-> info.runAttempt,
                          success |-> info.conclusion = "Success"]
          /\ IF info.conclusion = "Success"
             THEN Complete(currentAttempt, runId, info, "Succeeded")
             ELSE AttemptFailed(info)
  /\ UNCHANGED <<eventVars, tookEffect, runs, messageVars, redeliveries,
                 reExecutions, waitTimedOut, results>>

\* GetWorkflowRunStatusActivity has failed on each of its retries.
StatusCheckFailed ==
  /\ pc \in {"CheckAfterTimeout", "CheckAfterRerunFailure"}
  /\ Fault
  /\ UNCHANGED <<eventVars, tookEffect, runs, messageVars, historyVars>>

BackoffElapsed ==
  /\ pc = "Backoff"
  /\ pc' = "Rerunning"
  /\ UNCHANGED <<currentAttempt, retryIndex, runId, lastWorkflowStatus,
                 customStatus, eventVars, tookEffect, runs, messageVars,
                 historyVars>>

RerunTriggered ==
  /\ pc = "Rerunning"
  /\ tookEffect
  /\ tookEffect' = FALSE
  /\ AwaitCompletion(runId, lastWorkflowStatus)
  /\ UNCHANGED <<currentAttempt, retryIndex, lastWorkflowStatus, eventVars,
                 runs, messageVars, historyVars>>

\* The exception does not tell whether GitHub has accepted the rerun.
RerunFailed ==
  /\ pc = "Rerunning"
  /\ pc' = "CheckAfterRerunFailure"
  /\ tookEffect' = FALSE
  /\ SetProgress("CheckingWorkflowStatus", currentAttempt, runId,
                 lastWorkflowStatus)
  /\ UNCHANGED <<currentAttempt, retryIndex, runId, lastWorkflowStatus,
                 eventVars, runs, messageVars, historyVars>>

\* Defect: the attempt GitHub reports is not compared with the one awaited.
RerunAlreadyVisibleUnchecked ==
  /\ pc = "CheckAfterRerunFailure"
  /\ lastWorkflowStatus' = ObservedInfo(runId)
  /\ AwaitCompletion(runId, ObservedInfo(runId))
  /\ UNCHANGED <<currentAttempt, retryIndex, eventVars, tookEffect, runs,
                 messageVars, historyVars>>

RerunAlreadyVisible ==
  /\ pc = "CheckAfterRerunFailure"
  /\ ObservedInfo(runId).runAttempt >= currentAttempt
  /\ lastWorkflowStatus' = ObservedInfo(runId)
  /\ AwaitCompletion(runId, ObservedInfo(runId))
  /\ UNCHANGED <<currentAttempt, retryIndex, eventVars, tookEffect, runs,
                 messageVars, historyVars>>

\* Defect: the loop runs once past the last delay.
RetryRerunOffByOne ==
  /\ pc = "CheckAfterRerunFailure"
  /\ ObservedInfo(runId).runAttempt < currentAttempt
  /\ retryIndex < RetryDelays
  /\ pc' = "Backoff"
  /\ retryIndex' = retryIndex + 1
  /\ lastWorkflowStatus' = ObservedInfo(runId)
  /\ SetProgress("WaitingToRetryRerun", currentAttempt, runId,
                 ObservedInfo(runId))
  /\ UNCHANGED <<currentAttempt, runId, eventVars, tookEffect, runs,
                 messageVars, historyVars>>

\* Defect: the loop never advances to the next delay.
RetryRerunForever ==
  /\ pc = "CheckAfterRerunFailure"
  /\ ObservedInfo(runId).runAttempt < currentAttempt
  /\ pc' = "Backoff"
  /\ lastWorkflowStatus' = ObservedInfo(runId)
  /\ SetProgress("WaitingToRetryRerun", currentAttempt, runId,
                 ObservedInfo(runId))
  /\ UNCHANGED <<currentAttempt, retryIndex, runId, eventVars, tookEffect, runs,
                 messageVars, historyVars>>

RetryRerun ==
  /\ pc = "CheckAfterRerunFailure"
  /\ ObservedInfo(runId).runAttempt < currentAttempt
  /\ retryIndex + 1 < RetryDelays
  /\ pc' = "Backoff"
  /\ retryIndex' = retryIndex + 1
  /\ lastWorkflowStatus' = ObservedInfo(runId)
  /\ SetProgress("WaitingToRetryRerun", currentAttempt, runId,
                 ObservedInfo(runId))
  /\ UNCHANGED <<currentAttempt, runId, eventVars, tookEffect, runs,
                 messageVars, historyVars>>

RerunNotStarted ==
  /\ pc = "CheckAfterRerunFailure"
  /\ ObservedInfo(runId).runAttempt < currentAttempt
  /\ retryIndex + 1 >= RetryDelays
  /\ Complete(currentAttempt, runId, ObservedInfo(runId), "Failed")
  /\ UNCHANGED <<eventVars, tookEffect, runs, messageVars, historyVars>>

Orchestrate ==
  \/ RunWithoutInput \/ TriggerWorkflow \/ WorkflowTriggered \/ DispatchFailed
  \/ ReceiveInProgress \/ InProgressTimeout \/ RunFound \/ RunNotFound
  \/ ReceiveCompleted \/ CompletedTimeout \/ ObserveAfterTimeout
  \/ StatusCheckFailed \/ BackoffElapsed \/ RerunTriggered \/ RerunFailed
  \/ RerunAlreadyVisible \/ RetryRerun \/ RerunNotStarted

-----------------------------------------------------------------------------
(* Effects of the activities at GitHub. Durable runs an activity at least  *)
(* once, so each may happen again until the outcome is recorded.           *)

CreateDispatch ==
  /\ pc = "Dispatching"
  /\ Len(runs) < MaxRuns
  /\ tookEffect' = TRUE
  /\ runs' = Append(runs, [attempt |-> 1, phase |-> "Queued",
                           announced |-> FALSE, conclusion |-> "None"])
  /\ UNCHANGED <<orchestratorVars, eventVars, messageVars, historyVars>>

\* GitHub refuses while the run is active, cleanup included, and has nothing
\* to rerun when only failed jobs are asked for and none failed. A job that
\* succeeded before keeps its outputs unless the entire workflow reruns.
AcceptRerun ==
  /\ pc = "Rerunning"
  /\ runs[runId].phase = "Completed"
  /\ RerunEntireWorkflow \/ runs[runId].conclusion = "Failure"
  /\ runs[runId].attempt < MaxRunAttempts
  /\ LET announced == runs[runId].announced /\ ~RerunEntireWorkflow IN
       runs' = [runs EXCEPT ![runId] =
                  [attempt    |-> runs[runId].attempt + 1,
                   phase      |-> IF announced THEN "Tasks" ELSE "Queued",
                   announced  |-> announced,
                   conclusion |-> "None"]]
  /\ tookEffect' = TRUE
  /\ reExecutions' = IF tookEffect THEN reExecutions + 1 ELSE reExecutions
  /\ UNCHANGED <<orchestratorVars, eventVars, messageVars, redeliveries,
                 waitTimedOut, results, evidence>>

-----------------------------------------------------------------------------
(* The jobs of a run. A publishing job can fail before or after the        *)
(* message is stored; when it fails the run concludes with failure.        *)

PublishOutcome == {o \in [stored : BOOLEAN, jobOk : BOOLEAN] : o.jobOk => o.stored}

PublishInProgress(r) ==
  /\ runs[r].phase = "Queued"
  /\ \E o \in PublishOutcome :
       /\ inProgressMessages' =
            IF o.stored
            THEN inProgressMessages \cup {[run |-> r, attempt |-> runs[r].attempt]}
            ELSE inProgressMessages
       /\ IF o.jobOk
          THEN /\ runs' = [runs EXCEPT ![r].phase = "Tasks",
                                       ![r].announced = TRUE]
               /\ UNCHANGED results
          ELSE /\ runs' = [runs EXCEPT ![r].phase = "Cleanup",
                                       ![r].conclusion = "Failure"]
               /\ results' = results \cup {[run |-> r, success |-> FALSE,
                                            attempt |-> runs[r].attempt]}
  /\ UNCHANGED <<orchestratorVars, eventVars, tookEffect, completedMessages,
                 redeliveries, reExecutions, waitTimedOut, evidence>>

\* The message says what the other jobs came to; GitHub's conclusion counts
\* the publishing job as well.
PublishCompleted(r) ==
  /\ runs[r].phase = "Tasks"
  /\ \E success \in BOOLEAN, o \in PublishOutcome :
       LET reported  == [run |-> r, attempt |-> runs[r].attempt,
                         success |-> success]
           concluded == [reported EXCEPT !.success = success /\ o.jobOk]
       IN /\ completedMessages' = IF o.stored
                                  THEN completedMessages \cup {reported}
                                  ELSE completedMessages
          /\ runs' = [runs EXCEPT ![r].phase = "Cleanup",
                        ![r].conclusion = IF concluded.success THEN "Success"
                                                               ELSE "Failure"]
          /\ results' = results \cup {reported, concluded}
  /\ UNCHANGED <<orchestratorVars, eventVars, tookEffect, inProgressMessages,
                 redeliveries, reExecutions, waitTimedOut, evidence>>

FinishCleanup(r) ==
  /\ runs[r].phase = "Cleanup"
  /\ runs' = [runs EXCEPT ![r].phase = "Completed"]
  /\ UNCHANGED <<orchestratorVars, eventVars, tookEffect, messageVars,
                 historyVars>>

-----------------------------------------------------------------------------
(* The callback channel. Durable drops an event for an ended instance.     *)

\* The message is gone, or is to be delivered again.
Consume(queue, m) ==
  \/ queue' = queue \ {m} /\ UNCHANGED redeliveries
  \/ /\ redeliveries < MaxRedeliveries
     /\ redeliveries' = redeliveries + 1
     /\ UNCHANGED queue

RaiseEvent(events, payload) ==
  events' = IF Running THEN Append(events, payload) ELSE events

DeliverInProgress(m) ==
  /\ Consume(inProgressMessages, m)
  /\ RaiseEvent(inProgressEvents, m.run)
  /\ UNCHANGED <<orchestratorVars, completedEvents, tookEffect, runs,
                 completedMessages, reExecutions, waitTimedOut, results,
                 evidence>>

DeliverCompleted(m) ==
  /\ Consume(completedMessages, m)
  /\ RaiseEvent(completedEvents, m)
  /\ UNCHANGED <<orchestratorVars, inProgressEvents, tookEffect, runs,
                 inProgressMessages, reExecutions, waitTimedOut, results,
                 evidence>>

\* The processor gave up on its last attempt and consumed the message.
LoseMessage ==
  /\ \/ /\ \E m \in inProgressMessages :
             inProgressMessages' = inProgressMessages \ {m}
        /\ UNCHANGED completedMessages
     \/ /\ \E m \in completedMessages :
             completedMessages' = completedMessages \ {m}
        /\ UNCHANGED inProgressMessages
  /\ UNCHANGED <<orchestratorVars, eventVars, tookEffect, runs, historyVars>>

Environment ==
  \/ CreateDispatch
  \/ AcceptRerun
  \/ \E r \in DOMAIN runs :
       PublishInProgress(r) \/ PublishCompleted(r) \/ FinishCleanup(r)
  \/ \E m \in inProgressMessages : DeliverInProgress(m)
  \/ \E m \in completedMessages : DeliverCompleted(m)
  \/ LoseMessage

Next == Orchestrate \/ Environment

(* Durable timers fire and every outstanding activity is eventually        *)
(* recorded as returned or failed; nothing is assumed of GitHub or of the  *)
(* queue.                                                                  *)
Spec == Init /\ [][Next]_vars /\ WF_vars(Orchestrate)

-----------------------------------------------------------------------------
(* Properties.                                                             *)

Info == WorkflowRunInfo \cup {NoInfo}

Status == [stage : Stages \cup {"None"}, currentAttempt : Nat, runId : Nat,
           observed : Info, finalOutcome : FinalOutcomes \cup {"None"},
           isTerminal : BOOLEAN]

Run == [attempt : Nat \ {0}, phase : Phases, announced : BOOLEAN,
        conclusion : {"None", "Success", "Failure"}]

\* Every variable keeps its type; the run the orchestrator tracks and every
\* run that a message or an event names has been dispatched.
TypeOK ==
  /\ pc \in {"Scheduled", "Dispatching", "AwaitInProgress", "LookingUpRun",
             "AwaitCompleted", "CheckAfterTimeout", "Backoff", "Rerunning",
             "CheckAfterRerunFailure", "Returned", "Faulted"}
  /\ currentAttempt \in Nat \ {0}
  /\ retryIndex \in 0 .. RetryDelays - 1
  /\ runs \in Seq(Run)
  /\ runId \in 0 .. Len(runs)
  /\ lastWorkflowStatus \in Info
  /\ customStatus \in Status
  /\ inProgressEvents \in Seq(1 .. Len(runs))
  /\ completedEvents \in Seq(Result)
  /\ tookEffect \in BOOLEAN
  /\ inProgressMessages \subseteq [run : 1 .. Len(runs), attempt : Nat]
  /\ completedMessages \subseteq Result
  /\ redeliveries \in Nat
  /\ reExecutions \in Nat
  /\ waitTimedOut \in BOOLEAN
  /\ results \subseteq Result
  /\ evidence \in Result

\* Attempts of the orchestration and attempts of the GitHub run stay in step,
\* whatever is lost, repeated or late: the run is at the orchestration's
\* attempt once its rerun is known to have started, at most one behind before
\* that, and ahead only by the times that an activity which had already rerun
\* it did so again.
AttemptsInStep ==
  runId # NoRun =>
    /\ runs[runId].attempt <= currentAttempt + reExecutions
    /\ currentAttempt <= runs[runId].attempt + 1
    /\ pc \in {"AwaitCompleted", "CheckAfterTimeout"} =>
         currentAttempt <= runs[runId].attempt

\* No outcome is made up: a reported success or failure of a tracked run rests
\* on a result that some attempt reported or concluded, and a rerun is only
\* requested on the strength of a failure.
OutcomeHasEvidence ==
  /\ customStatus.finalOutcome = "Succeeded" =>
       evidence \in results /\ evidence.success
  /\ (customStatus.finalOutcome = "Failed" /\ runId # NoRun)
       \/ pc \in {"Backoff", "Rerunning", "CheckAfterRerunFailure"} =>
       evidence \in results /\ ~evidence.success

\* The circumstances under which an event may be older than the attempt that
\* consumes it: the waits match on the event's name only.
MayMismatch ==
  waitTimedOut \/ redeliveries > 0 \/ reExecutions > 0 \/ Len(runs) > 1

\* Without a timed out wait, a repeated delivery, a repeated activity or a
\* second dispatch, the result acted upon is always the tracked run's current
\* attempt, although the waits do not correlate on run or attempt.
ResultsMatchAttempts ==
  [][evidence' # evidence =>
       \/ MayMismatch
       \/ evidence'.run = runId /\ evidence'.attempt = currentAttempt]_vars

\* Under the same circumstances no run that has concluded with success is
\* started again, also when the entire workflow is rerun.
NoRerunOfSuccess ==
  [][\A r \in DOMAIN runs :
       runs'[r].attempt # runs[r].attempt =>
         runs[r].conclusion = "Failure" \/ MayMismatch']_vars

Contract == INSTANCE WorkflowOrchestrationContract WITH
  runtimeStatus <- IF pc = "Returned" THEN "Completed"
                   ELSE IF pc = "Faulted" THEN "Failed" ELSE "Running",
  attempt <- currentAttempt,
  outcome <- customStatus.finalOutcome

\* The orchestrator implements the contract its caller relies on: attempts
\* advance one at a time up to the maximum, the outcome is given once, with
\* the end of the instance, and the instance does end: no combination of lost
\* callbacks, refused reruns and failing activities keeps it waiting or looping.
ImplementsContract == Contract!Spec

=============================================================================
