----------------------- MODULE OrchestratorResultProofs ------------------------
(***************************************************************************)
(* The waits of the orchestrator take the next event of the right name,    *)
(* whichever run and attempt it is from. Proved here, for every number of  *)
(* attempts, reruns and delays: as long as no wait timed out and nothing   *)
(* happened twice, that event is nevertheless the current attempt's, and   *)
(* no run that succeeded is started again.                                 *)
(***************************************************************************)
EXTENDS GithubWorkflowOrchestratorProofs

-----------------------------------------------------------------------------
(* The inductive invariant. In calm circumstances there is at most one     *)
(* result on its way, the one of the run's current attempt; and a rerun    *)
(* that GitHub has yet to accept follows a failure, which has been taken   *)
(* from the buffer.                                                        *)

Pending ==
  completedMessages \cup {completedEvents[i] : i \in 1 .. Len(completedEvents)}

Concluded(r) == runs[r].phase \in {"Cleanup", "Completed"}

OneResultPending ==
  /\ Len(completedEvents) <= 1
  /\ \A m \in completedMessages : completedMessages = {m} /\ completedEvents = <<>>

PendingIsCurrent ==
  \A m \in Pending :
    /\ m.run \in 1 .. Len(runs)
    /\ m.attempt = runs[m.run].attempt
    /\ Concluded(m.run)
    /\ ~m.success => runs[m.run].conclusion = "Failure"

RerunAfterFailure ==
  pc \in InRerun /\ runs[runId].attempt < currentAttempt =>
    Pending = {} /\ Concluded(runId) /\ runs[runId].conclusion = "Failure"

ResultsOK == OneResultPending /\ PendingIsCurrent /\ RerunAfterFailure

ChecksAreLate == pc = "CheckAfterTimeout" => waitTimedOut

CalmInv == ChecksAreLate /\ (MayMismatch \/ ResultsOK)

-----------------------------------------------------------------------------
(* Circumstances never become calm again.                                  *)

LEMMA AtMostOne == \A n \in Nat : n <= 1 \/ ~(n > 1) => n = 0 \/ n = 1
  OBVIOUS

LEMMA CalmBefore ==
  ASSUME IInv, Next, ~MayMismatch'
  PROVE  ~MayMismatch /\ Len(runs) \in {0, 1}
<1>1. TypeOK /\ TypeOK'
  BY NextInvariant DEF IInv
<1>2. /\ Len(runs) \in Nat /\ Len(runs') \in Nat
      /\ redeliveries \in Nat /\ redeliveries' \in Nat
      /\ reExecutions \in Nat /\ reExecutions' \in Nat
      /\ waitTimedOut \in BOOLEAN
  BY <1>1 DEF TypeOK
<1>3. /\ waitTimedOut => waitTimedOut'
      /\ redeliveries' \in {redeliveries, redeliveries + 1}
      /\ reExecutions' \in {reExecutions, reExecutions + 1}
  <2>1. CASE Orchestrate
    <3>1. UNCHANGED <<redeliveries, reExecutions>>
      BY <2>1 DEF Orchestrate, RunWithoutInput, TriggerWorkflow, WorkflowTriggered,
        DispatchFailed, ReceiveInProgress, InProgressTimeout, RunFound, RunNotFound,
        ReceiveCompleted, CompletedTimeout, ObserveAfterTimeout, StatusCheckFailed,
        BackoffElapsed, RerunTriggered, RerunFailed, RerunAlreadyVisible, RetryRerun,
        RerunNotStarted, historyVars
    <3>2. waitTimedOut => waitTimedOut'
      BY <2>1 DEF Orchestrate, RunWithoutInput, TriggerWorkflow, WorkflowTriggered,
        DispatchFailed, ReceiveInProgress, InProgressTimeout, RunFound, RunNotFound,
        ReceiveCompleted, CompletedTimeout, ObserveAfterTimeout, StatusCheckFailed,
        BackoffElapsed, RerunTriggered, RerunFailed, RerunAlreadyVisible, RetryRerun,
        RerunNotStarted, historyVars
    <3> QED BY <3>1, <3>2
  <2>2. CASE Environment
    <3>1. UNCHANGED waitTimedOut
      BY <1>1, <2>2, EnvironmentInside
    <3>2. redeliveries' \in {redeliveries, redeliveries + 1}
      BY <2>2 DEF Environment, CreateDispatch, AcceptRerun, PublishInProgress,
        PublishCompleted, FinishCleanup, DeliverInProgress, DeliverCompleted,
        LoseMessage, Consume, historyVars
    <3>3. reExecutions' \in {reExecutions, reExecutions + 1}
      BY <2>2 DEF Environment, CreateDispatch, AcceptRerun, PublishInProgress,
        PublishCompleted, FinishCleanup, DeliverInProgress, DeliverCompleted,
        LoseMessage, historyVars
    <3> QED BY <3>1, <3>2, <3>3
  <2> QED BY <2>1, <2>2 DEF Next
<1>4. Len(runs) <= Len(runs')
  <2>1. CASE UNCHANGED runs
    BY <1>2, <2>1
  <2>2. CASE CreateDispatch
    BY <1>1, <1>2, <2>2 DEF CreateDispatch, TypeOK, Run, Phases
  <2>3. ASSUME NEW r, NEW new, runs' = [runs EXCEPT ![r] = new]
        PROVE  Len(runs) <= Len(runs')
    <3>1. DOMAIN runs' = DOMAIN runs
      BY <2>3
    <3>2. DOMAIN runs = 1 .. Len(runs) /\ DOMAIN runs' = 1 .. Len(runs')
      BY <1>1 DEF TypeOK
    <3> QED BY <1>2, <3>1, <3>2
  <2>4. CASE AcceptRerun
    BY <2>3, <2>4 DEF AcceptRerun
  <2>5. ASSUME NEW r \in DOMAIN runs, PublishInProgress(r)
        PROVE  \E new : runs' = [runs EXCEPT ![r] = new]
    <3>1. \/ runs' = [runs EXCEPT ![r] = [runs[r] EXCEPT !.phase = "Tasks",
                                                         !.announced = TRUE]]
          \/ runs' = [runs EXCEPT ![r] = [runs[r] EXCEPT !.phase = "Cleanup",
                                                         !.conclusion = "Failure"]]
      BY <2>5 DEF PublishInProgress
    <3> QED BY <3>1
  <2>6. ASSUME NEW r \in DOMAIN runs, PublishCompleted(r)
        PROVE  \E new : runs' = [runs EXCEPT ![r] = new]
    <3>1. \E c : runs' = [runs EXCEPT ![r] = [runs[r] EXCEPT !.phase = "Cleanup",
                                                             !.conclusion = c]]
      BY <2>6 DEF PublishCompleted
    <3> QED BY <3>1
  <2>7. ASSUME NEW r \in DOMAIN runs, FinishCleanup(r)
        PROVE  \E new : runs' = [runs EXCEPT ![r] = new]
    <3>1. runs' = [runs EXCEPT ![r] = [runs[r] EXCEPT !.phase = "Completed"]]
      BY <2>7 DEF FinishCleanup
    <3> QED BY <3>1
  <2>8. CASE Orchestrate
    BY <1>1, <2>1, <2>8, OrchestrateOutside
  <2> QED
    BY <2>1, <2>2, <2>3, <2>4, <2>5, <2>6, <2>7, <2>8
       DEF Next, Environment, DeliverInProgress, DeliverCompleted, LoseMessage
<1>5. /\ ~waitTimedOut' /\ ~(redeliveries' > 0) /\ ~(reExecutions' > 0)
      /\ ~(Len(runs') > 1)
  BY DEF MayMismatch
<1>6. ~waitTimedOut
  BY <1>3, <1>5
<1>7. ~(redeliveries > 0)
  BY <1>2, <1>3, <1>5
<1>8. ~(reExecutions > 0)
  BY <1>2, <1>3, <1>5
<1>9. Len(runs) \in {0, 1} /\ ~(Len(runs) > 1)
  <2>1. \A m, n \in Nat : m <= n /\ ~(n > 1) => ~(m > 1)
    OBVIOUS
  <2>2. ~(Len(runs) > 1)
    BY <1>2, <1>4, <1>5, <2>1
  <2> QED BY <1>2, <2>2, AtMostOne
<1> QED BY <1>6, <1>7, <1>8, <1>9 DEF MayMismatch

-----------------------------------------------------------------------------
(* Steps that leave the runs alone.                                        *)

\* A step that adds no result and enters no rerun.
LEMMA QuietStep ==
  ASSUME ResultsOK, UNCHANGED <<runs, currentAttempt, completedEvents>>,
         completedMessages' \subseteq completedMessages,
         pc' \in InRerun => pc \in InRerun /\ UNCHANGED runId
  PROVE  ResultsOK'
<1>1. Pending' \subseteq Pending
  BY DEF Pending
<1>2. OneResultPending'
  BY DEF ResultsOK, OneResultPending
<1>3. PendingIsCurrent'
  BY <1>1 DEF ResultsOK, PendingIsCurrent, Concluded
<1>4. RerunAfterFailure'
  BY <1>1 DEF ResultsOK, RerunAfterFailure, Concluded
<1> QED BY <1>2, <1>3, <1>4 DEF ResultsOK

\* In calm circumstances the event that ends a wait is from the current attempt.
LEMMA ReceivedIsCurrent ==
  ASSUME IInv, ResultsOK, ~MayMismatch, ReceiveCompleted
  PROVE  /\ runId = 1 /\ Len(runs) = 1
         /\ runs[runId].attempt = currentAttempt
         /\ evidence' = completedEvents[1] /\ evidence' \in Pending
         /\ evidence'.run = runId /\ evidence'.attempt = currentAttempt
         /\ Pending' = {}
<1>1. /\ completedEvents \in Seq(Result) /\ completedEvents # <<>>
      /\ pc = "AwaitCompleted" /\ runs \in Seq(Run) /\ reExecutions \in Nat
      /\ currentAttempt \in Nat /\ Len(runs) \in Nat
  BY DEF ReceiveCompleted, IInv, TypeOK
<1>2. runId \in 1 .. Len(runs) /\ runId # NoRun
  BY <1>1, TrackedRun DEF IInv, WithRun
<1>3. runId = 1 /\ Len(runs) = 1 /\ reExecutions = 0
  <2>1. ~(Len(runs) > 1) /\ ~(reExecutions > 0)
    BY DEF MayMismatch
  <2>2. Len(runs) = 1
    <3>1. Len(runs) = 0 \/ Len(runs) = 1
      BY <1>1, <2>1, AtMostOne
    <3> QED BY <1>2, <3>1
  <2>3. reExecutions = 0
    BY <1>1, <2>1
  <2> QED BY <1>2, <2>2, <2>3
<1>4. runs[runId].attempt = currentAttempt
  <2>1. runs[runId].attempt \in Nat
    BY <1>2, RunType DEF IInv
  <2>2. /\ currentAttempt <= runs[runId].attempt
        /\ runs[runId].attempt <= currentAttempt + reExecutions
    BY <1>1, <1>2 DEF IInv, AttemptsInv
  <2> QED BY <1>1, <1>3, <2>1, <2>2
<1>5. Len(completedEvents) = 1 /\ completedMessages = {}
  <2>1. Len(completedEvents) <= 1 /\ completedMessages = {}
    BY <1>1 DEF ResultsOK, OneResultPending
  <2>2. Len(completedEvents) \in Nat /\ Len(completedEvents) # 0
    BY <1>1
  <2> QED BY <2>1, <2>2, AtMostOne
<1>6. evidence' = completedEvents[1] /\ completedEvents' = <<>>
      /\ UNCHANGED completedMessages
  <2>1. evidence' = Head(completedEvents) /\ completedEvents' = Tail(completedEvents)
        /\ UNCHANGED completedMessages
    BY DEF ReceiveCompleted, messageVars
  <2>2. Head(completedEvents) = completedEvents[1] /\ Tail(completedEvents) = <<>>
    <3>1. Len(completedEvents) <= 1
      BY <1>5
    <3>2. Tail(completedEvents) = <<>>
      BY <1>1, <3>1
    <3> QED BY <1>1, <3>2
  <2> QED BY <2>1, <2>2
<1>7. evidence' \in Pending
  BY <1>5, <1>6 DEF Pending
<1>8. evidence'.run = runId /\ evidence'.attempt = currentAttempt
  BY <1>3, <1>4, <1>7 DEF ResultsOK, PendingIsCurrent
<1>9. Pending' = {}
  BY <1>5, <1>6 DEF Pending
<1> QED BY <1>3, <1>4, <1>6, <1>7, <1>8, <1>9

LEMMA ReceiveCompletedStep ==
  ASSUME IInv, ResultsOK, ~MayMismatch, ReceiveCompleted
  PROVE  ResultsOK'
<1>1. /\ runId = 1 /\ Len(runs) = 1 /\ Pending' = {} /\ UNCHANGED runs
      /\ evidence' = Head(completedEvents)
      /\ evidence' \in Pending /\ evidence'.run = runId
  BY ReceivedIsCurrent DEF ReceiveCompleted
<1>2. OneResultPending' /\ PendingIsCurrent'
  <2>1. completedMessages' = {} /\ \A i \in 1 .. Len(completedEvents') : FALSE
    BY <1>1 DEF Pending
  <2>2. completedEvents' \in Seq(Result)
    BY OrchestrateTypeOK DEF IInv, Orchestrate, TypeOK
  <2>3. Len(completedEvents') = 0
    BY <2>1, <2>2
  <2> QED BY <1>1, <2>1, <2>3 DEF OneResultPending, PendingIsCurrent
<1>3. RerunAfterFailure'
  <2>1. CASE evidence'.success
    <3>1. pc' = "Returned"
      BY <1>1, <2>1 DEF ReceiveCompleted, Complete
    <3> QED BY <3>1 DEF RerunAfterFailure, InRerun
  <2>2. CASE ~evidence'.success
    <3>1. Concluded(runId) /\ runs[runId].conclusion = "Failure"
      BY <1>1, <2>2 DEF ResultsOK, PendingIsCurrent
    <3>2. UNCHANGED runId
      BY <1>1, <2>2 DEF ReceiveCompleted, AttemptFailed, Complete, BeginRerun
    <3> QED BY <1>1, <3>1, <3>2 DEF RerunAfterFailure, Concluded
  <2> QED BY <2>1, <2>2
<1> QED BY <1>2, <1>3 DEF ResultsOK

LEMMA OrchestrateResultsOK ==
  ASSUME IInv, CalmInv, Orchestrate, ~MayMismatch, ~MayMismatch'
  PROVE  ChecksAreLate' /\ ResultsOK'
<1>1. ResultsOK /\ ~waitTimedOut /\ ~waitTimedOut' /\ pc # "CheckAfterTimeout"
  BY DEF CalmInv, ChecksAreLate, MayMismatch
<1>2. CASE ReceiveCompleted
  <2>1. pc' # "CheckAfterTimeout"
    BY <1>2 DEF ReceiveCompleted, Complete, AttemptFailed, BeginRerun
  <2> QED BY <1>1, <1>2, <2>1, ReceiveCompletedStep DEF ChecksAreLate
<1>3. CASE CompletedTimeout \/ ObserveAfterTimeout
  BY <1>1, <1>3 DEF CompletedTimeout, ObserveAfterTimeout
<1>4. CASE ~(ReceiveCompleted \/ CompletedTimeout \/ ObserveAfterTimeout)
  <2>1. /\ UNCHANGED <<currentAttempt, completedEvents, completedMessages>>
        /\ pc' \in InRerun => pc \in InRerun /\ UNCHANGED runId
        /\ pc' # "CheckAfterTimeout"
    BY <1>1, <1>4 DEF Orchestrate, RunWithoutInput, TriggerWorkflow, WorkflowTriggered,
      DispatchFailed, ReceiveInProgress, InProgressTimeout, RunFound, RunNotFound,
      StatusCheckFailed, BackoffElapsed, RerunTriggered, RerunFailed,
      RerunAlreadyVisible, RetryRerun, RerunNotStarted, AwaitCompletion, Complete,
      Fault, eventVars, messageVars, InRerun
  <2>2. UNCHANGED runs
    BY OrchestrateOutside DEF IInv
  <2> QED BY <1>1, <2>1, <2>2, QuietStep DEF ChecksAreLate
<1> QED BY <1>2, <1>3, <1>4

-----------------------------------------------------------------------------
(* Steps of GitHub, of the jobs and of the callback channel.               *)

\* The first dispatch finds no results, as there is no run to have them.
LEMMA DispatchStep ==
  ASSUME IInv, ResultsOK, CreateDispatch, Len(runs) = 0
  PROVE  ResultsOK'
<1>1. UNCHANGED <<completedEvents, completedMessages, pc>> /\ pc = "Dispatching"
  BY DEF CreateDispatch, eventVars, messageVars, orchestratorVars
<1>2. Pending = {} /\ Pending' = Pending
  BY <1>1 DEF ResultsOK, PendingIsCurrent, Pending
<1> QED BY <1>1, <1>2 DEF ResultsOK, OneResultPending, PendingIsCurrent,
                          RerunAfterFailure, InRerun

\* A rerun is accepted after a failure only, and starts without results.
LEMMA AcceptedAfterFailure ==
  ASSUME IInv, ResultsOK, AcceptRerun, ~MayMismatch'
  PROVE  /\ runId \in 1 .. Len(runs) /\ Pending = {}
         /\ runs[runId].conclusion = "Failure"
         /\ runs'[runId].attempt = currentAttempt
<1>1. runId \in 1 .. Len(runs) /\ runId # NoRun /\ pc = "Rerunning"
  BY TrackedRun DEF AcceptRerun, IInv, WithRun, InRerun
<1>2. /\ runs \in Seq(Run) /\ currentAttempt \in Nat /\ reExecutions \in Nat
      /\ tookEffect \in BOOLEAN
  BY DEF IInv, TypeOK
<1>3. runs[runId].attempt \in Nat
  BY <1>1, RunType DEF IInv
<1>4. ~tookEffect /\ reExecutions = 0
  BY <1>2 DEF AcceptRerun, MayMismatch
<1>5. runs[runId].attempt + 1 = currentAttempt
  <2>1. /\ currentAttempt <= runs[runId].attempt + 1
        /\ runs[runId].attempt + 1 <= currentAttempt + reExecutions
    BY <1>1, <1>4 DEF IInv, AttemptsInv
  <2> QED BY <1>2, <1>3, <1>4, <2>1
<1>6. Pending = {} /\ runs[runId].conclusion = "Failure"
  BY <1>1, <1>2, <1>3, <1>5 DEF ResultsOK, RerunAfterFailure, InRerun
<1>7. runs'[runId].attempt = runs[runId].attempt + 1
  BY <1>1, <1>2 DEF AcceptRerun
<1> QED BY <1>1, <1>5, <1>6, <1>7

LEMMA AcceptRerunStep ==
  ASSUME IInv, ResultsOK, AcceptRerun, ~MayMismatch'
  PROVE  ResultsOK'
<1>1. UNCHANGED <<completedEvents, completedMessages, runId, currentAttempt>>
  BY DEF AcceptRerun, eventVars, messageVars, orchestratorVars
<1>2. Pending = {} /\ Pending' = {}
  BY <1>1, AcceptedAfterFailure DEF Pending
<1>3. currentAttempt \in Nat /\ runs'[runId].attempt = currentAttempt
  BY AcceptedAfterFailure DEF IInv, TypeOK
<1> QED BY <1>1, <1>2, <1>3 DEF ResultsOK, OneResultPending, PendingIsCurrent,
                                RerunAfterFailure

\* A job that leaves a run's attempt and failure as they are, once there are any.
LEMMA JobStep ==
  ASSUME IInv, ResultsOK, NEW r \in 1 .. Len(runs), NEW new \in Run,
         runs' = [runs EXCEPT ![r] = new], new.attempt = runs[r].attempt,
         Concluded(r) => /\ new.phase \in {"Cleanup", "Completed"}
                         /\ new.conclusion = runs[r].conclusion,
         UNCHANGED <<orchestratorVars, completedEvents, completedMessages>>
  PROVE  ResultsOK'
<1>1. /\ Len(runs') = Len(runs) /\ runs'[r] = new
      /\ \A q \in 1 .. Len(runs) : q # r => runs'[q] = runs[q]
  BY ChangedRun DEF IInv
<1>2. \A q \in 1 .. Len(runs) :
        /\ runs'[q].attempt = runs[q].attempt
        /\ Concluded(q) => Concluded(q)' /\ runs'[q].conclusion = runs[q].conclusion
  BY <1>1 DEF Concluded
<1>3. Pending' = Pending /\ UNCHANGED <<pc, runId, currentAttempt>>
  BY DEF Pending, orchestratorVars
<1>4. OneResultPending'
  BY DEF ResultsOK, OneResultPending
<1>5. PendingIsCurrent'
  BY <1>1, <1>2, <1>3 DEF ResultsOK, PendingIsCurrent
<1>6. RerunAfterFailure'
  <2>1. pc \in InRerun => runId \in 1 .. Len(runs)
    BY TrackedRun DEF IInv, WithRun
  <2> QED BY <1>2, <1>3, <2>1 DEF ResultsOK, RerunAfterFailure
<1> QED BY <1>4, <1>5, <1>6 DEF ResultsOK

LEMMA PublishInProgressStep ==
  ASSUME IInv, ResultsOK, NEW r \in 1 .. Len(runs), PublishInProgress(r)
  PROVE  ResultsOK'
<1>1. runs[r] \in Run /\ ~Concluded(r)
  BY RunType DEF IInv, PublishInProgress, Concluded
<1>2. UNCHANGED <<orchestratorVars, completedEvents, completedMessages>>
  BY DEF PublishInProgress, eventVars
<1>3. PICK new \in {[runs[r] EXCEPT !.phase = "Tasks", !.announced = TRUE],
                    [runs[r] EXCEPT !.phase = "Cleanup", !.conclusion = "Failure"]} :
        runs' = [runs EXCEPT ![r] = new]
  BY DEF PublishInProgress
<1>4. new \in Run /\ new.attempt = runs[r].attempt
  BY <1>1, <1>3 DEF Run, Phases
<1> QED BY <1>1, <1>2, <1>3, <1>4, JobStep

LEMMA FinishCleanupStep ==
  ASSUME IInv, ResultsOK, NEW r \in 1 .. Len(runs), FinishCleanup(r)
  PROVE  ResultsOK'
<1> DEFINE new == [runs[r] EXCEPT !.phase = "Completed"]
<1>1. runs' = [runs EXCEPT ![r] = new]
  BY DEF FinishCleanup
<1>2. /\ new \in Run /\ new.attempt = runs[r].attempt
      /\ new.phase = "Completed" /\ new.conclusion = runs[r].conclusion
  BY RunType DEF IInv, Run, Phases
<1>3. UNCHANGED <<orchestratorVars, completedEvents, completedMessages>>
  BY DEF FinishCleanup, eventVars, messageVars
<1> HIDE DEF new
<1> QED BY <1>1, <1>2, <1>3, JobStep

\* The report of an attempt is the only result on its way: the run's earlier ones
\* were taken before it was rerun.
LEMMA PublishCompletedStep ==
  ASSUME IInv, ResultsOK, NEW r \in 1 .. Len(runs), PublishCompleted(r), Len(runs) = 1
  PROVE  ResultsOK'
<1>1. runs[r] \in Run /\ ~Concluded(r) /\ r = 1
  BY RunType DEF IInv, PublishCompleted, Concluded
<1>2. Pending = {} /\ completedMessages = {}
  BY <1>1 DEF ResultsOK, PendingIsCurrent, Pending
<1>3. completedEvents = <<>>
  <2>1. completedEvents \in Seq(Result)
    BY DEF IInv, TypeOK
  <2> QED BY <1>2, <2>1 DEF Pending
<1>4. UNCHANGED <<orchestratorVars, completedEvents>>
  BY DEF PublishCompleted, eventVars
<1>5. PICK success \in BOOLEAN, ok \in BOOLEAN :
        /\ completedMessages' \subseteq
             {[run |-> r, attempt |-> runs[r].attempt, success |-> success]}
        /\ runs' = [runs EXCEPT ![r] = [runs[r] EXCEPT !.phase = "Cleanup",
                      !.conclusion = IF success /\ ok THEN "Success" ELSE "Failure"]]
  <2>1. PICK success \in BOOLEAN, o \in PublishOutcome :
          LET reported  == [run |-> r, attempt |-> runs[r].attempt,
                            success |-> success]
              concluded == [reported EXCEPT !.success = success /\ o.jobOk]
          IN /\ completedMessages' = IF o.stored
                                     THEN completedMessages \cup {reported}
                                     ELSE completedMessages
             /\ runs' = [runs EXCEPT ![r].phase = "Cleanup",
                           ![r].conclusion = IF concluded.success THEN "Success"
                                                                  ELSE "Failure"]
    BY DEF PublishCompleted
  <2>2. o.jobOk \in BOOLEAN
    BY DEF PublishOutcome
  <2> WITNESS success \in BOOLEAN, o.jobOk \in BOOLEAN
  <2> QED BY <1>2, <2>1, <2>2
<1> DEFINE new == [runs[r] EXCEPT !.phase = "Cleanup",
                     !.conclusion = IF success /\ ok THEN "Success" ELSE "Failure"]
<1>6. /\ new \in Run /\ new.attempt = runs[r].attempt /\ new.phase = "Cleanup"
      /\ ~success => new.conclusion = "Failure"
  BY <1>1 DEF Run, Phases
<1> HIDE DEF new
<1>7. Len(runs') = Len(runs) /\ runs'[r] = new
  BY <1>5, <1>6, ChangedRun DEF IInv, new
<1>8. Pending' = completedMessages'
  BY <1>3, <1>4 DEF Pending
<1>9. OneResultPending'
  BY <1>3, <1>4, <1>5 DEF OneResultPending
<1>10. PendingIsCurrent'
  BY <1>5, <1>6, <1>7, <1>8 DEF PendingIsCurrent, Concluded
<1>11. RerunAfterFailure'
  <2>1. pc \in InRerun => runId = r
    BY <1>1, TrackedRun DEF IInv, WithRun
  <2>2. UNCHANGED <<pc, runId, currentAttempt>>
    BY <1>4 DEF orchestratorVars
  <2> QED BY <1>1, <1>6, <1>7, <2>1, <2>2 DEF ResultsOK, RerunAfterFailure
<1> QED BY <1>9, <1>10, <1>11 DEF ResultsOK

\* A delivery that leaves nothing behind moves the result into the buffer, or
\* drops it when the instance has ended.
LEMMA DeliverCompletedStep ==
  ASSUME IInv, ResultsOK, NEW m \in completedMessages, DeliverCompleted(m),
         redeliveries' = 0
  PROVE  ResultsOK'
<1>1. UNCHANGED <<orchestratorVars, runs>>
  BY DEF DeliverCompleted
<1>2. completedMessages = {m} /\ completedEvents = <<>> /\ redeliveries \in Nat
  BY DEF ResultsOK, OneResultPending, IInv, TypeOK
<1>3. completedMessages' = {}
  BY <1>2 DEF DeliverCompleted, Consume
<1>4. completedEvents' = <<m>> \/ completedEvents' = <<>>
  BY <1>2 DEF DeliverCompleted, RaiseEvent
<1>5. Len(completedEvents') \in {0, 1} /\ Pending' \subseteq Pending
  BY <1>3, <1>4 DEF Pending
<1>6. OneResultPending'
  <2>1. Len(completedEvents') <= 1
    BY <1>5
  <2> QED BY <1>3, <2>1 DEF OneResultPending
<1>7. PendingIsCurrent'
  BY <1>1, <1>5 DEF ResultsOK, PendingIsCurrent, Concluded
<1>8. RerunAfterFailure'
  BY <1>1, <1>5 DEF ResultsOK, RerunAfterFailure, Concluded, orchestratorVars
<1> QED BY <1>6, <1>7, <1>8 DEF ResultsOK

LEMMA EnvironmentResultsOK ==
  ASSUME IInv, CalmInv, Environment, ~MayMismatch, ~MayMismatch'
  PROVE  ChecksAreLate' /\ ResultsOK'
<1>1. ResultsOK /\ DOMAIN runs = 1 .. Len(runs)
  BY DEF CalmInv, IInv, TypeOK
<1>2. Len(runs) \in {0, 1} /\ redeliveries' = 0
  <2>1. Next
    BY DEF Next
  <2>2. Len(runs) \in {0, 1} /\ TypeOK'
    BY <2>1, CalmBefore, NextInvariant DEF IInv
  <2> QED BY <2>2 DEF MayMismatch, TypeOK
<1>3. ChecksAreLate'
  BY EnvironmentInside DEF IInv, CalmInv, ChecksAreLate
<1>4. CASE CreateDispatch
  <2>1. Len(runs') = Len(runs) + 1 /\ TypeOK'
    BY <1>4, EnvironmentInvariant DEF CreateDispatch, IInv, TypeOK, Run, Phases
  <2>2. Len(runs) = 0
    BY <1>2, <2>1 DEF MayMismatch
  <2> QED BY <1>1, <1>3, <1>4, <2>2, DispatchStep
<1>5. CASE AcceptRerun
  BY <1>1, <1>3, <1>5, AcceptRerunStep
<1>6. ASSUME NEW r \in DOMAIN runs,
             PublishInProgress(r) \/ PublishCompleted(r) \/ FinishCleanup(r)
      PROVE  ResultsOK'
  <2>1. r \in 1 .. Len(runs) /\ Len(runs) = 1
    BY <1>1, <1>2
  <2> QED BY <1>1, <1>6, <2>1, PublishInProgressStep, PublishCompletedStep,
             FinishCleanupStep
<1>7. CASE \E m \in completedMessages : DeliverCompleted(m)
  BY <1>1, <1>2, <1>3, <1>7, DeliverCompletedStep
<1>8. CASE LoseMessage \/ \E m \in inProgressMessages : DeliverInProgress(m)
  <2>1. /\ UNCHANGED <<orchestratorVars, runs, completedEvents>>
        /\ completedMessages' \subseteq completedMessages
    BY <1>8 DEF LoseMessage, DeliverInProgress, eventVars
  <2> QED BY <1>1, <1>3, <2>1, QuietStep DEF orchestratorVars
<1> QED BY <1>3, <1>4, <1>5, <1>6, <1>7, <1>8 DEF Environment

-----------------------------------------------------------------------------
(* The invariant and the theorems.                                         *)

\* A check after a time-out follows one.
LEMMA LateChecks ==
  ASSUME IInv, CalmInv, Next PROVE ChecksAreLate'
<1>1. CASE Orchestrate
  BY <1>1 DEF Orchestrate, RunWithoutInput, TriggerWorkflow, WorkflowTriggered,
    DispatchFailed, ReceiveInProgress, InProgressTimeout, RunFound, RunNotFound,
    ReceiveCompleted, CompletedTimeout, ObserveAfterTimeout, StatusCheckFailed,
    BackoffElapsed, RerunTriggered, RerunFailed, RerunAlreadyVisible, RetryRerun,
    RerunNotStarted, AwaitCompletion, AttemptFailed, BeginRerun, Complete, Fault,
    ChecksAreLate
<1>2. CASE Environment
  BY <1>2, EnvironmentInside DEF IInv, CalmInv, ChecksAreLate
<1> QED BY <1>1, <1>2 DEF Next

LEMMA CalmInvInit == Init => CalmInv
<1> SUFFICES ASSUME Init PROVE CalmInv
  OBVIOUS
<1>1. Pending = {} /\ Len(completedEvents) = 0
  BY DEF Init, Pending
<1> QED BY <1>1 DEF Init, CalmInv, ChecksAreLate, ResultsOK, OneResultPending,
                    PendingIsCurrent, RerunAfterFailure, InRerun

LEMMA CalmInvNext == IInv /\ CalmInv /\ [Next]_vars => CalmInv'
<1> SUFFICES ASSUME IInv, CalmInv, [Next]_vars PROVE CalmInv'
  OBVIOUS
<1>1. CASE Next
  BY <1>1, LateChecks, CalmBefore, OrchestrateResultsOK, EnvironmentResultsOK
     DEF CalmInv, Next
<1>2. CASE UNCHANGED vars
  BY <1>2 DEF vars, orchestratorVars, eventVars, messageVars, historyVars, CalmInv,
              ChecksAreLate, MayMismatch, ResultsOK, OneResultPending,
              PendingIsCurrent, RerunAfterFailure, Pending, Concluded
<1> QED BY <1>1, <1>2

\* In calm circumstances at most one result is on its way and it is from the
\* current attempt, in every behaviour.
THEOREM CalmResults == Spec => []CalmInv
<1> QED BY CalmInvInit, CalmInvNext, Invariant, PTL DEF Spec

\* The waits do not correlate on run or attempt; without a wait that timed out, a
\* repeated delivery or activity, or a second dispatch, the result acted on is
\* nevertheless that of the tracked run's current attempt.
THEOREM ResultsAreCurrent == Spec => ResultsMatchAttempts
<1>1. IInv /\ CalmInv /\ [Next]_vars =>
        [evidence' # evidence =>
           \/ MayMismatch
           \/ evidence'.run = runId /\ evidence'.attempt = currentAttempt]_vars
  <2> SUFFICES ASSUME IInv, CalmInv, Next, evidence' # evidence, ~MayMismatch
               PROVE  evidence'.run = runId /\ evidence'.attempt = currentAttempt
    OBVIOUS
  <2>1. ResultsOK /\ pc # "CheckAfterTimeout"
    BY DEF CalmInv, ChecksAreLate, MayMismatch
  <2>2. ReceiveCompleted
    <3>1. ~Environment
      BY EnvironmentInside DEF IInv
    <3> QED
      BY <2>1, <3>1 DEF Next, Orchestrate, RunWithoutInput, TriggerWorkflow,
        WorkflowTriggered, DispatchFailed, ReceiveInProgress, InProgressTimeout,
        RunFound, RunNotFound, CompletedTimeout, ObserveAfterTimeout,
        StatusCheckFailed, BackoffElapsed, RerunTriggered, RerunFailed,
        RerunAlreadyVisible, RetryRerun, RerunNotStarted, historyVars
  <2> QED BY <2>1, <2>2, ReceivedIsCurrent
<1> QED BY <1>1, Invariant, CalmResults, PTL DEF Spec, ResultsMatchAttempts

\* In the same circumstances no run that has concluded with success is started
\* again, not even when the entire workflow is rerun.
THEOREM SuccessIsNotRerun == Spec => NoRerunOfSuccess
<1>1. IInv /\ CalmInv /\ [Next]_vars =>
        [\A r \in DOMAIN runs :
           runs'[r].attempt # runs[r].attempt =>
             runs[r].conclusion = "Failure" \/ MayMismatch']_vars
  <2> SUFFICES ASSUME IInv, CalmInv, Next, NEW r \in DOMAIN runs,
                      runs'[r].attempt # runs[r].attempt, ~MayMismatch'
               PROVE  runs[r].conclusion = "Failure"
    OBVIOUS
  <2>1. ResultsOK /\ runs \in Seq(Run) /\ Len(runs) \in {0, 1}
    BY CalmBefore DEF CalmInv, IInv, TypeOK
  <2>2. r \in 1 .. Len(runs) /\ runs[r] \in Run
    BY <2>1
  <2>3. ASSUME NEW q \in DOMAIN runs, NEW new, new.attempt = runs[q].attempt,
               runs' = [runs EXCEPT ![q] = new]
        PROVE  FALSE
    BY <2>3
  <2>4. ASSUME NEW q \in DOMAIN runs, PublishInProgress(q) PROVE FALSE
    <3>1. runs[q] \in Run
      BY <2>1, <2>4
    <3>2. PICK new \in {[runs[q] EXCEPT !.phase = "Tasks", !.announced = TRUE],
                        [runs[q] EXCEPT !.phase = "Cleanup", !.conclusion = "Failure"]} :
            runs' = [runs EXCEPT ![q] = new]
      BY <2>4 DEF PublishInProgress
    <3>3. new.attempt = runs[q].attempt
      BY <3>1, <3>2 DEF Run
    <3> QED BY <2>3, <3>2, <3>3
  <2>5. ASSUME NEW q \in DOMAIN runs, PublishCompleted(q) PROVE FALSE
    <3>1. runs[q] \in Run
      BY <2>1, <2>5
    <3>2. PICK c : runs' = [runs EXCEPT ![q] = [runs[q] EXCEPT !.phase = "Cleanup",
                                                               !.conclusion = c]]
      BY <2>5 DEF PublishCompleted
    <3>3. [runs[q] EXCEPT !.phase = "Cleanup", !.conclusion = c].attempt
            = runs[q].attempt
      BY <3>1 DEF Run
    <3> QED BY <2>3, <3>2, <3>3
  <2>6. ASSUME NEW q \in DOMAIN runs, FinishCleanup(q) PROVE FALSE
    <3>1. runs[q] \in Run
      BY <2>1, <2>6
    <3>2. runs' = [runs EXCEPT ![q] = [runs[q] EXCEPT !.phase = "Completed"]]
      BY <2>6 DEF FinishCleanup
    <3>3. [runs[q] EXCEPT !.phase = "Completed"].attempt = runs[q].attempt
      BY <3>1 DEF Run
    <3> QED BY <2>3, <3>2, <3>3
  <2>7. ~UNCHANGED runs
    OBVIOUS
  <2>8. ~CreateDispatch
    <3>1. ASSUME CreateDispatch PROVE FALSE
      <4>1. PICK new : runs' = Append(runs, new)
        BY <3>1 DEF CreateDispatch
      <4>2. runs'[r] = runs[r]
        BY <2>1, <2>2, <4>1
      <4> QED BY <4>2
    <3> QED BY <3>1
  <2>9. AcceptRerun
    BY <2>4, <2>5, <2>6, <2>7, <2>8, OrchestrateOutside
       DEF Next, Environment, DeliverInProgress, DeliverCompleted, LoseMessage, IInv
  <2>10. runId \in 1 .. Len(runs) /\ runs[runId].conclusion = "Failure"
    BY <2>1, <2>9, AcceptedAfterFailure
  <2> QED BY <2>1, <2>2, <2>10
<1> QED BY <1>1, Invariant, CalmResults, PTL DEF Spec, NoRerunOfSuccess

=============================================================================
