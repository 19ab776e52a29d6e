----------------------------- MODULE ExampleQueue -----------------------------
(***************************************************************************)
(* default-queue and its poison queue as the Functions host serves them,   *)
(* the two functions of ExampleQueue, and the workflow message processor   *)
(* they call (WorkflowMessageProcessor.tla, whose variables and steps are  *)
(* used as they are).                                                      *)
(*                                                                         *)
(* The host leases a message to an invocation, deletes it when the         *)
(* function returns, makes it visible again when the function throws or    *)
(* the lease runs out, and moves it to the poison queue when it has been   *)
(* dequeued HostMaxDequeueCount times. An invocation can be killed, and    *)
(* can outlive its lease.                                                  *)
(***************************************************************************)
EXTENDS Naturals, FiniteSets

CONSTANTS
  Workers, Ids, Tuples, MaxCalls, \* as in WorkflowMessageProcessor
  Messages,            \* messages put on default-queue
  Id,                  \* its MessageBody.Id
  Tuple,               \* the dedupe tuple of a workflow message's payload
  MaxDequeueCount,     \* QueueConstants.MaxDequeueCount
  HostMaxDequeueCount, \* maxDequeueCount in host.json
  MaxStalls            \* bound: leases that run out on an invocation at work

Kinds == {"Workflow",        \* a workflow message that parses
          "Throwing",        \* one whose handler throws each time, or has none
          "SimpleThrowing",  \* one whose failures are handled inline
          "Fine",            \* one that is processed without fault
          "Malformed"}       \* one whose envelope does not validate

ASSUME QueueAssumption ==
  /\ Id \in [Messages -> Ids]
  /\ Tuple \in [Messages -> Tuples]
  /\ HostMaxDequeueCount \in Nat \ {0}
  /\ MaxCalls \in Nat /\ MaxStalls \in Nat
  \* QueueConstants: "ensure this const value stays in-sync with host.json"
  /\ MaxDequeueCount = HostMaxDequeueCount

VARIABLES
  frame, table, writes, calls, raises, raisedBy, reservedBy, cleanups,
  interrupted, overlaps,
  kind,        \* what RunAsync makes of each message's body
  queue,       \* where each message is, and how often it was dequeued
  holder,      \* the invocation whose pop receipt is valid for it
  stage,       \* how far each invocation of RunAsync is
  job,         \* the message it was invoked with
  attempt,     \* the dequeueCount it was invoked with
  exceptions,  \* ids with a MessageExceptionTableEntity row
  readDetails, \* the poison handler has read a row for the message
  stalls       \* history: leases that ran out on an invocation at work

Processor == INSTANCE WorkflowMessageProcessor

processorVars == <<frame, table, writes, calls, raises, raisedBy, reservedBy,
                   cleanups, interrupted, overlaps>>
poisonVars == <<exceptions, readDetails>>
invocationVars == <<stage, job, attempt>>
vars == <<processorVars, kind, queue, holder, invocationVars, poisonVars, stalls>>

-----------------------------------------------------------------------------

\* No invocation, no message.
Nobody == "nobody"

ASSUME NobodyAssumption == Nobody \notin Workers \cup Messages

Settled == {"Deleted", "Drained", "LeftInPoison"}

LastAttempt(w) == attempt[w] = MaxDequeueCount

SetStage(w, s) == stage' = [stage EXCEPT ![w] = s] /\ UNCHANGED <<job, attempt>>

EndInvocation(w) ==
  /\ stage' = [stage EXCEPT ![w] = "Idle"]
  /\ job' = [job EXCEPT ![w] = Nobody]
  /\ attempt' = [attempt EXCEPT ![w] = 0]

Move(m, place) == queue' = [queue EXCEPT ![m].place = place]

\* catch (Exception) when (lastAttempt) of RunAsync.
FailInTry(w) == SetStage(w, IF LastAttempt(w) THEN "StoringException"
                                              ELSE "Failed")

-----------------------------------------------------------------------------

Init ==
  /\ Processor!Init
  /\ kind \in [Messages -> Kinds]
  /\ queue = [m \in Messages |->
                [place |-> "Visible", dequeueCount |-> 0, poisonCount |-> 0]]
  /\ holder = [m \in Messages |-> Nobody]
  /\ stage = [w \in Workers |-> "Idle"]
  /\ job = [w \in Workers |-> Nobody]
  /\ attempt = [w \in Workers |-> 0]
  /\ exceptions = {}
  /\ readDetails = [m \in Messages |-> FALSE]
  /\ stalls = 0

\* The host leases a visible message to a new invocation.
Dequeue(w, m) ==
  /\ stage[w] = "Idle"
  /\ queue[m].place = "Visible"
  /\ queue[m].dequeueCount < HostMaxDequeueCount
  /\ queue' = [queue EXCEPT ![m].place = "Leased", ![m].dequeueCount = @ + 1]
  /\ holder' = [holder EXCEPT ![m] = w]
  /\ job' = [job EXCEPT ![w] = m]
  /\ attempt' = [attempt EXCEPT ![w] = queue[m].dequeueCount + 1]
  /\ stage' = [stage EXCEPT ![w] = "Validating"]
  /\ UNCHANGED <<processorVars, poisonVars, stalls>>

\* A message dequeued too often is not passed to the function any more.
MoveToPoison(m) ==
  /\ queue[m].place = "Visible"
  /\ queue[m].dequeueCount >= HostMaxDequeueCount
  /\ Move(m, "Poison")
  /\ UNCHANGED <<processorVars, holder, invocationVars, poisonVars, stalls>>

\* ValidateQueueMessageEnvelope and CreateIfNotExistsAsync are outside the try.
FailValidation(w) ==
  /\ stage[w] = "Validating"
  /\ SetStage(w, "Failed")
  /\ UNCHANGED <<processorVars, queue, holder, poisonVars, stalls>>

DispatchWorkflow(w) ==
  /\ stage[w] = "Validating"
  /\ kind[job[w]] = "Workflow"
  /\ Processor!Call(w, Id[job[w]], Tuple[job[w]], LastAttempt(w))
  /\ SetStage(w, "Processing")
  /\ UNCHANGED <<queue, holder, poisonVars, stalls>>

DispatchOther(w) ==
  /\ stage[w] = "Validating"
  /\ \/ kind[job[w]] = "Fine" /\ SetStage(w, "Succeeded")
     \/ kind[job[w]] = "Throwing" /\ FailInTry(w)
     \/ /\ kind[job[w]] = "SimpleThrowing"
        /\ SetStage(w, IF LastAttempt(w) THEN "Succeeded" ELSE "Failed")
  /\ UNCHANGED <<processorVars, queue, holder, poisonVars, stalls>>

Process(w) ==
  /\ stage[w] = "Processing"
  /\ Processor!Step(w)
  /\ UNCHANGED <<queue, holder, invocationVars, poisonVars, stalls>>

ProcessEnds(w) ==
  /\ stage[w] = "Processing"
  /\ \/ frame[w].pc = "Returned" /\ SetStage(w, "Succeeded")
     \/ frame[w].pc = "Thrown" /\ FailInTry(w)
     \/ frame[w].pc = "Killed" /\ EndInvocation(w)
  /\ Processor!Dismiss(w)
  /\ UNCHANGED <<queue, holder, poisonVars, stalls>>

\* The exception reaches the host whether or not its details were stored.
StoreException(w) ==
  /\ stage[w] = "StoringException"
  /\ \/ exceptions' = exceptions \cup {Id[job[w]]}
     \/ UNCHANGED exceptions
  /\ SetStage(w, "Failed")
  /\ UNCHANGED <<processorVars, queue, holder, readDetails, stalls>>

\* The host settles the message, if the invocation still holds its lease.
Release(w, place) ==
  /\ EndInvocation(w)
  /\ IF holder[job[w]] = w
     THEN Move(job[w], place) /\ holder' = [holder EXCEPT ![job[w]] = Nobody]
     ELSE UNCHANGED <<queue, holder>>
  /\ UNCHANGED <<processorVars, poisonVars, stalls>>

DeleteMessage(w) ==
  /\ stage[w] = "Succeeded"
  /\ Release(w, "Deleted")

RejectMessage(w) ==
  /\ stage[w] = "Failed"
  /\ Release(w, IF attempt[w] >= HostMaxDequeueCount
                THEN "Poison" ELSE "Visible")

\* The lease of a killed invocation stays until it runs out.
KillInvocation(w) ==
  /\ \/ /\ stage[w] = "Processing"
        /\ Processor!Kill(w)
        /\ UNCHANGED invocationVars
     \/ /\ stage[w] \in {"Validating", "StoringException", "Succeeded", "Failed"}
        /\ EndInvocation(w)
        /\ UNCHANGED processorVars
  /\ UNCHANGED <<queue, holder, poisonVars, stalls>>

LeaseExpires(m) ==
  /\ queue[m].place = "Leased"
  /\ Move(m, "Visible")
  /\ holder' = [holder EXCEPT ![m] = Nobody]
  /\ \/ /\ \A w \in Workers : job[w] # m
        /\ UNCHANGED stalls
     \/ /\ \E w \in Workers : job[w] = m
        /\ stalls < MaxStalls
        /\ stalls' = stalls + 1
  /\ UNCHANGED <<processorVars, invocationVars, poisonVars>>

\* RunExceptionHandler drops what it cannot parse, and otherwise looks for the
\* details of the exception first.
ReadPoison(m) ==
  /\ queue[m].place = "Poison"
  /\ IF kind[m] = "Malformed"
     THEN Move(m, "Drained") /\ UNCHANGED readDetails
     ELSE /\ Move(m, "Handling")
          /\ readDetails' = [readDetails EXCEPT ![m] = Id[m] \in exceptions]
  /\ UNCHANGED <<processorVars, holder, invocationVars, exceptions, stalls>>

\* Defect: the details are not removed with the message.
DrainPoisonKeepingDetails(m) ==
  /\ queue[m].place = "Handling"
  /\ Move(m, "Drained")
  /\ UNCHANGED <<processorVars, holder, invocationVars, poisonVars, stalls>>

\* Defect: the handler puts the message back on default-queue.
DrainPoisonIntoQueue(m) ==
  /\ queue[m].place = "Handling"
  /\ queue' = [queue EXCEPT ![m] = [place |-> "Visible", dequeueCount |-> 0,
                                   poisonCount |-> 0]]
  /\ exceptions' = exceptions \ {Id[m]}
  /\ UNCHANGED <<processorVars, holder, invocationVars, readDetails, stalls>>

DrainPoison(m) ==
  /\ queue[m].place = "Handling"
  /\ exceptions' = IF readDetails[m] THEN exceptions \ {Id[m]} ELSE exceptions
  /\ Move(m, "Drained")
  /\ UNCHANGED <<processorVars, holder, invocationVars, readDetails, stalls>>

\* Reading or deleting the row failed, or the process ended, before or after
\* the row was gone. The host leaves a message that keeps failing where it is.
PoisonHandlerFails(m) ==
  /\ queue[m].place \in {"Poison", "Handling"}
  /\ LET count == queue[m].poisonCount + 1 IN
       queue' = [queue EXCEPT ![m].poisonCount = count,
                   ![m].place = IF count < HostMaxDequeueCount
                                THEN "Poison" ELSE "LeftInPoison"]
  /\ \/ UNCHANGED exceptions
     \/ /\ queue[m].place = "Handling" /\ readDetails[m]
        /\ exceptions' = exceptions \ {Id[m]}
  /\ UNCHANGED <<processorVars, holder, invocationVars, readDetails, stalls>>

Invocation(w) ==
  \/ FailValidation(w) \/ DispatchWorkflow(w) \/ DispatchOther(w)
  \/ Process(w) \/ ProcessEnds(w) \/ StoreException(w)
  \/ DeleteMessage(w) \/ RejectMessage(w)

Host(m) ==
  \/ \E w \in Workers : Dequeue(w, m)
  \/ MoveToPoison(m) \/ LeaseExpires(m)
  \/ ReadPoison(m) \/ DrainPoison(m) \/ PoisonHandlerFails(m)

Next ==
  /\ \/ \E w \in Workers : Invocation(w) \/ KillInvocation(w)
     \/ \E m \in Messages : Host(m)
  /\ UNCHANGED kind

(* An invocation that is not killed goes on, and the host keeps serving    *)
(* every message: it dequeues the visible ones, and a lease runs out.      *)
Spec ==
  /\ Init /\ [][Next]_vars
  /\ \A w \in Workers : WF_vars(Invocation(w) /\ UNCHANGED kind)
  /\ \A m \in Messages : WF_vars(Host(m) /\ UNCHANGED kind)

-----------------------------------------------------------------------------
(* Properties.                                                             *)

\* Every variable keeps its type, no message is dequeued more often than the
\* host allows, and only a leased message has a holder.
TypeOK ==
  /\ Processor!TypeOK
  /\ kind \in [Messages -> Kinds]
  /\ queue \in [Messages -> [place : {"Visible", "Leased", "Poison", "Handling"}
                                       \cup Settled,
                             dequeueCount : 0 .. HostMaxDequeueCount,
                             poisonCount : 0 .. HostMaxDequeueCount]]
  /\ holder \in [Messages -> Workers \cup {Nobody}]
  /\ stage \in [Workers -> {"Idle", "Validating", "Processing",
                            "StoringException", "Succeeded", "Failed"}]
  /\ job \in [Workers -> Messages \cup {Nobody}]
  /\ attempt \in [Workers -> 0 .. HostMaxDequeueCount]
  /\ exceptions \subseteq Ids
  /\ readDetails \in [Messages -> BOOLEAN]
  /\ stalls \in Nat
  /\ \A m \in Messages : holder[m] # Nobody <=> queue[m].place = "Leased"

WorkflowMessages(t) == {m \in Messages : kind[m] = "Workflow" /\ Tuple[m] = t}

\* No event is lost by deduplication: when every message of a tuple has been
\* consumed as processed and the event was never raised, one of them had used
\* up its attempts.
NoEventLostByDedupe ==
  \A t \in Tuples :
    /\ WorkflowMessages(t) # {}
    /\ \A m \in WorkflowMessages(t) : queue[m].place = "Deleted"
    /\ raises[t] = 0
    => \E m \in WorkflowMessages(t) : queue[m].dequeueCount = MaxDequeueCount

\* No two invocations work on one reservation at the same time, unless a lease
\* ran out on an invocation at work or the same body was queued twice.
NoOverlapWithoutStall ==
  \A t \in Tuples :
    overlaps[t] > 0 =>
      \/ stalls > 0
      \/ \E m, n \in WorkflowMessages(t) : m # n /\ Id[m] = Id[n]

\* Stored exception details never outlive the messages they are for, unless an
\* invocation stored them after its lease had run out.
NoOrphanedDetails ==
  \A i \in exceptions :
    stalls > 0 \/ \E m \in Messages : /\ Id[m] = i
                                   /\ queue[m].place \notin {"Deleted", "Drained"}

\* Every message leaves the queues, or is left in the poison queue after all
\* its deliveries there have failed.
EverythingSettles == \A m \in Messages : <>[](queue[m].place \in Settled)

=============================================================================
