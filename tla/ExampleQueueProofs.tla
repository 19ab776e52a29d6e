-------------------------- MODULE ExampleQueueProofs --------------------------
(***************************************************************************)
(* Proofs about ExampleQueue for any number of invocations, messages, ids, *)
(* tuples, deliveries and stalls. The steps of the message processor that  *)
(* an invocation takes are steps of WorkflowMessageProcessor, so that what *)
(* WorkflowMessageProcessorProofs shows of them is used here as it is.     *)
(***************************************************************************)
EXTENDS ExampleQueue, TLAPS

Proved == INSTANCE WorkflowMessageProcessorProofs

USE QueueAssumption, NobodyAssumption DEF Settled

-----------------------------------------------------------------------------
(* The inductive invariant.                                                *)

HasCall(w) == frame[w].pc # "Idle"

\* An invocation that is not idle has a message, which was dequeued at least as
\* often as it was told; it stores exceptions on the last attempt only.
JobsOK ==
  \A w \in Workers :
    /\ stage[w] = "Idle" <=> job[w] = Nobody
    /\ HasCall(w) <=> stage[w] = "Processing"
    /\ job[w] # Nobody => attempt[w] <= queue[job[w]].dequeueCount
    /\ stage[w] = "StoringException" => kind[job[w]] # "Malformed" /\ LastAttempt(w)

\* A call works for the message its invocation has.
CallsOK ==
  \A w \in Workers :
    HasCall(w) => /\ job[w] \in WorkflowMessages(frame[w].tuple)
                  /\ frame[w].id = Id[job[w]]
                  /\ frame[w].lastAttempt = LastAttempt(w)

\* The poison handler has not used up its deliveries of a message it can get.
PoisonCounted ==
  \A m \in Messages :
    queue[m].place # "LeftInPoison" => queue[m].poisonCount < HostMaxDequeueCount

\* As long as no lease ran out on it, an invocation has its message to itself.
Exclusive ==
  stalls = 0 => \A w \in Workers : job[w] # Nobody => holder[job[w]] = w

\* No two invocations have been given the same id for a tuple.
Unshared(t) ==
  /\ stalls = 0
  /\ \A m, n \in WorkflowMessages(t) : Id[m] = Id[n] => m = n

AtWork(w, t) ==
  frame[w].pc \in {"Raise", "Commit", "Cleanup"} /\ frame[w].tuple = t

\* The unfinished row of a tuple then belongs to the one call at work on it.
OneAtWork ==
  \A t \in Tuples : Unshared(t) =>
    /\ overlaps[t] = 0
    /\ \A w \in Workers :
         AtWork(w, t) => /\ table[t].status = "Processing"
                         /\ table[t].id = frame[w].id

Exhausted(t) ==
  \E m \in WorkflowMessages(t) : queue[m].dequeueCount = MaxDequeueCount

\* A tuple's event has not been raised, and no attempt at it was the last one.
Undecided(t) == raises[t] = 0 /\ ~Exhausted(t)

ReservedByOther(t, i) == table[t] # Proved!NoRow /\ table[t].id # i

\* The row is as it was added, for one of the tuple's messages.
RowAsAdded(t) ==
  table[t] # Proved!NoRow =>
    /\ table[t].status = "Processing"
    /\ \E m \in WorkflowMessages(t) : Id[m] = table[t].id

\* Its calls have not gone past raising, and the skipped ones met another's row.
CallsSkipOthers(t) ==
  \A w \in Workers :
    HasCall(w) /\ frame[w].tuple = t =>
      /\ frame[w].pc \notin {"Commit", "Cleanup"}
      /\ frame[w].pc = "ReadExisting" => table[t] # Proved!NoRow
      /\ frame[w].pc = "Returned" => ReservedByOther(t, frame[w].id)

\* So have the messages that were consumed, or are about to be.
ConsumedWereSkipped(t) ==
  /\ \A w \in Workers :
       stage[w] = "Succeeded" /\ job[w] \in WorkflowMessages(t) =>
         ReservedByOther(t, Id[job[w]])
  /\ \A m \in WorkflowMessages(t) :
       queue[m].place = "Deleted" => ReservedByOther(t, Id[m])

SkippedForOthers ==
  \A t \in Tuples :
    Undecided(t) => RowAsAdded(t) /\ CallsSkipOthers(t) /\ ConsumedWereSkipped(t)

\* A message whose details are stored has had its last attempt, so that it can
\* only go to the poison queue, where they are found.
Keeper(m, i) ==
  /\ Id[m] = i /\ kind[m] # "Malformed"
  /\ queue[m].dequeueCount = MaxDequeueCount
  /\ \/ queue[m].place \in {"Visible", "Leased", "Poison", "LeftInPoison"}
     \/ queue[m].place = "Handling" /\ readDetails[m]
  /\ \A w \in Workers : job[w] = m => stage[w] \in {"StoringException", "Failed"}

DetailsKept ==
  stalls = 0 => \A i \in exceptions : \E m \in Messages : Keeper(m, i)

IInv ==
  /\ TypeOK
  /\ Proved!IInv /\ Proved!RaisesCounted
  /\ JobsOK /\ CallsOK /\ PoisonCounted
  /\ Exclusive /\ OneAtWork
  /\ SkippedForOthers
  /\ DetailsKept

-----------------------------------------------------------------------------
(* The processor's definitions under the two names.                        *)

LEMMA SameState ==
  /\ Processor!TypeOK = Proved!TypeOK
  /\ Processor!Init = Proved!Init
  BY DEF Processor!TypeOK, Processor!Frame, Processor!Steps, Processor!Ended,
         Processor!RowType, Processor!NoRow, Processor!Idle, Processor!Init,
         Processor!AnyTag,
         Proved!TypeOK, Proved!Frame, Proved!Steps, Proved!Ended,
         Proved!RowType, Proved!NoRow, Proved!Idle, Proved!Init, Proved!AnyTag

LEMMA SameSteps ==
  ASSUME NEW w \in Workers
  PROVE  /\ Processor!Step(w) <=> Proved!Step(w)
         /\ Processor!Kill(w) <=> Proved!Kill(w)
         /\ Processor!Dismiss(w) <=> Proved!Dismiss(w)
         /\ \A id \in Ids, t \in Tuples, lastAttempt \in BOOLEAN :
              Processor!Call(w, id, t, lastAttempt) <=> Proved!Call(w, id, t, lastAttempt)
<1> USE DEF Processor!storeVars, Processor!raiseVars, Processor!causeVars,
        Processor!historyVars, Processor!NoRow, Processor!AnyTag, Processor!Ended,
        Processor!Steps, Processor!Idle, Processor!Row, Processor!At,
        Processor!Goto, Processor!Throw, Processor!Write,
        Proved!storeVars, Proved!raiseVars, Proved!causeVars,
        Proved!historyVars, Proved!NoRow, Proved!AnyTag, Proved!Ended,
        Proved!Steps, Proved!Idle, Proved!Row, Proved!At,
        Proved!Goto, Proved!Throw, Proved!Write
<1>1. Processor!Reserve(w) <=> Proved!Reserve(w)
  BY DEF Processor!Reserve, Proved!Reserve
<1>2. Processor!ReadExisting(w) <=> Proved!ReadExisting(w)
  BY DEF Processor!ReadExisting, Proved!ReadExisting,
         Processor!BusyElsewhere, Proved!BusyElsewhere
<1>3. Processor!Raise(w) <=> Proved!Raise(w)
  BY DEF Processor!Raise, Proved!Raise, Processor!Interrupt, Proved!Interrupt
<1>4. Processor!Commit(w) <=> Proved!Commit(w)
  BY DEF Processor!Commit, Proved!Commit, Processor!Interrupt, Proved!Interrupt
<1>5. Processor!Cleanup(w) <=> Proved!Cleanup(w)
  BY DEF Processor!Cleanup, Proved!Cleanup
<1>6. Processor!Kill(w) <=> Proved!Kill(w)
  BY DEF Processor!Kill, Proved!Kill, Processor!Interrupt, Proved!Interrupt
<1>7. Processor!Dismiss(w) <=> Proved!Dismiss(w)
  BY DEF Processor!Dismiss, Proved!Dismiss
<1>8. \A id \in Ids, t \in Tuples, lastAttempt \in BOOLEAN :
        Processor!Call(w, id, t, lastAttempt) <=> Proved!Call(w, id, t, lastAttempt)
  BY DEF Processor!Call, Proved!Call
<1>9. Processor!Step(w) <=> Proved!Step(w)
  BY <1>1, <1>2, <1>3, <1>4, <1>5 DEF Processor!Step, Proved!Step
<1> QED BY <1>6, <1>7, <1>8, <1>9

\* What an invocation does to the processor's variables is a step of it.
ProcessorStep == Proved!Next \/ UNCHANGED Proved!vars

LEMMA NextIsProcessorStep ==
  ASSUME IInv, [Next]_vars PROVE ProcessorStep
<1>1. UNCHANGED processorVars => UNCHANGED Proved!vars
  BY DEF processorVars, Proved!vars, Proved!storeVars, Proved!historyVars,
         Proved!raiseVars, Proved!causeVars
<1>2. ASSUME NEW w \in Workers, Invocation(w) \/ KillInvocation(w)
      PROVE  ProcessorStep
  <2>1. ASSUME Processor!Step(w) \/ Processor!Kill(w) \/ Processor!Dismiss(w)
        PROVE  ProcessorStep
    BY <2>1, SameSteps DEF Proved!Next, ProcessorStep
  <2>2. CASE DispatchWorkflow(w)
    <3>1. job[w] \in Messages
      BY <2>2 DEF IInv, TypeOK, JobsOK, DispatchWorkflow
    <3>2. Id[job[w]] \in Ids /\ Tuple[job[w]] \in Tuples /\ LastAttempt(w) \in BOOLEAN
      BY <3>1 DEF LastAttempt
    <3>3. Proved!Call(w, Id[job[w]], Tuple[job[w]], LastAttempt(w))
      BY <2>2, <3>2, SameSteps DEF DispatchWorkflow
    <3> QED BY <3>2, <3>3 DEF Proved!Next, ProcessorStep
  <2>3. CASE UNCHANGED processorVars
    BY <2>3, <1>1 DEF ProcessorStep
  <2> QED
    BY <1>2, <2>1, <2>2, <2>3
       DEF Invocation, KillInvocation, FailValidation, DispatchOther, Process,
           ProcessEnds, StoreException, DeleteMessage, RejectMessage, Release
<1>3. ASSUME NEW m \in Messages, Host(m) PROVE UNCHANGED processorVars
  BY <1>3 DEF Host, Dequeue, MoveToPoison, LeaseExpires, ReadPoison, DrainPoison,
              PoisonHandlerFails
<1>4. CASE UNCHANGED vars
  BY <1>4, <1>1 DEF vars, ProcessorStep
<1> QED BY <1>1, <1>2, <1>3, <1>4 DEF Next, ProcessorStep

\* So the processor's own invariants hold however the host drives it.
LEMMA ProcessorInvariant ==
  ASSUME IInv, [Next]_vars PROVE Proved!IInv' /\ Proved!RaisesCounted'
<1>1. [Proved!Next]_(Proved!vars)
  BY NextIsProcessorStep DEF ProcessorStep
<1>2. Proved!IInv'
  BY <1>1, Proved!NextInvariant DEF IInv
<1> QED BY <1>1, <1>2, Proved!NextCounted DEF IInv

-----------------------------------------------------------------------------
(* What the steps of a call do to its frame, its tuple's row and the       *)
(* counts of its raises and overlaps.                                      *)

\* Only the program counter and the ETag of a frame change while it has a call.
SameCall(w) ==
  /\ frame'[w].pc # "Idle"
  /\ frame'[w].id = frame[w].id
  /\ frame'[w].tuple = frame[w].tuple
  /\ frame'[w].lastAttempt = frame[w].lastAttempt
  /\ \A v \in Workers \ {w} : frame'[v] = frame[v]

LEMMA MovedFrame ==
  ASSUME Proved!TypeOK, NEW w \in Workers, HasCall(w),
         NEW s \in Proved!Steps \cup Proved!Ended,
         \/ Proved!Goto(w, s)
         \/ \E e : frame' = [frame EXCEPT ![w].pc = s, ![w].etag = e]
  PROVE  SameCall(w) /\ frame'[w].pc = s
<1>1. frame[w] \in Proved!Frame /\ frame \in [Workers -> Proved!Frame \cup {Proved!Idle}]
  BY Proved!FrameOfCall DEF HasCall, Proved!TypeOK
<1>2. s # "Idle"
  BY DEF Proved!Steps, Proved!Ended
<1>3. CASE Proved!Goto(w, s)
  <2>1. frame' = [frame EXCEPT ![w] = [frame[w] EXCEPT !.pc = s]]
    BY <1>3 DEF Proved!Goto
  <2> QED BY <2>1, <1>1, <1>2 DEF SameCall, Proved!Frame
<1>4. CASE \E e : frame' = [frame EXCEPT ![w].pc = s, ![w].etag = e]
  <2>1. PICK e : frame' = [frame EXCEPT ![w].pc = s, ![w].etag = e]
    BY <1>4
  <2>2. frame' = [frame EXCEPT ![w] = [[frame[w] EXCEPT !.pc = s] EXCEPT !.etag = e]]
    BY <2>1, <1>1
  <2> QED BY <2>2, <1>1, <1>2 DEF SameCall, Proved!Frame
<1> QED BY <1>3, <1>4

\* An exception ends the call, or leads to the clean-up of what it owns.
LEMMA ThrownFrame ==
  ASSUME Proved!TypeOK, NEW w \in Workers, HasCall(w),
         NEW owned \in BOOLEAN, NEW completed \in BOOLEAN,
         Proved!Throw(w, owned, completed)
  PROVE  /\ SameCall(w)
         /\ frame'[w].pc \in {"Thrown", "Returned", "Cleanup"}
         /\ frame'[w].pc = "Cleanup" => owned /\ ~completed
         /\ frame'[w].pc # "Thrown" => frame[w].lastAttempt
         /\ frame'[w].pc = "Returned" => ~owned \/ completed
<1>1. frame[w].lastAttempt \in BOOLEAN
  BY Proved!FrameOfCall DEF HasCall, Proved!Frame
<1>2. PICK s \in {"Thrown", "Returned", "Cleanup"} :
        /\ Proved!Goto(w, s)
        /\ s = "Cleanup" => owned /\ ~completed
        /\ s # "Thrown" => frame[w].lastAttempt
        /\ s = "Returned" => ~owned \/ completed
  BY <1>1 DEF Proved!Throw
<1> QED BY <1>2, MovedFrame DEF Proved!Steps, Proved!Ended

LEMMA ReserveEffect ==
  ASSUME Proved!TypeOK, NEW w \in Workers, Proved!Reserve(w)
  PROVE  /\ HasCall(w) /\ SameCall(w) /\ UNCHANGED <<raises, overlaps>>
         /\ \/ /\ table[frame[w].tuple] = Proved!NoRow
               /\ table' = [table EXCEPT ![frame[w].tuple] =
                              Proved!Row(frame[w].id, "Processing")]
               /\ frame'[w].pc \in {"Raise", "ReadExisting", "Thrown", "Returned"}
            \/ /\ UNCHANGED table
               /\ \/ /\ table[frame[w].tuple] # Proved!NoRow
                     /\ frame'[w].pc = "ReadExisting"
                  \/ frame'[w].pc \in {"Thrown", "Returned"}
         /\ frame'[w].pc = "Returned" => frame[w].lastAttempt
<1>1. HasCall(w)
  BY DEF Proved!Reserve, Proved!At, HasCall
<1>2. UNCHANGED <<raises, overlaps>>
  BY DEF Proved!Reserve, Proved!raiseVars, Proved!causeVars
<1>3. ASSUME NEW s \in {"Raise", "ReadExisting"}, Proved!Goto(w, s)
      PROVE  SameCall(w) /\ frame'[w].pc = s
  BY <1>3, <1>1, MovedFrame DEF Proved!Steps
<1>4. ASSUME Proved!Throw(w, FALSE, FALSE)
      PROVE  /\ SameCall(w) /\ frame'[w].pc \in {"Thrown", "Returned"}
             /\ frame'[w].pc = "Returned" => frame[w].lastAttempt
  BY <1>4, <1>1, ThrownFrame
<1>5. CASE /\ table[frame[w].tuple] = Proved!NoRow
           /\ Proved!Write(frame[w].tuple, Proved!Row(frame[w].id, "Processing"))
           /\ \/ Proved!Goto(w, "Raise")
              \/ Proved!Goto(w, "ReadExisting")
              \/ Proved!Throw(w, FALSE, FALSE)
  BY <1>1, <1>2, <1>3, <1>4, <1>5 DEF Proved!Write
<1>6. CASE UNCHANGED table /\ table[frame[w].tuple] # Proved!NoRow /\ Proved!Goto(w, "ReadExisting")
  BY <1>1, <1>2, <1>3, <1>6
<1>7. CASE UNCHANGED table /\ Proved!Throw(w, FALSE, FALSE)
  BY <1>1, <1>2, <1>4, <1>7
<1> QED BY <1>5, <1>6, <1>7 DEF Proved!Reserve, Proved!storeVars

Resumes(w) ==
  /\ table[frame[w].tuple].status = "Processing"
  /\ table[frame[w].tuple].id = frame[w].id

LEMMA ReadExistingEffect ==
  ASSUME Proved!TypeOK, NEW w \in Workers, Proved!ReadExisting(w)
  PROVE  /\ HasCall(w) /\ SameCall(w) /\ UNCHANGED <<table, raises>>
         /\ frame[w].pc = "ReadExisting"
         /\ \/ /\ Resumes(w) /\ frame'[w].pc = "Raise"
               /\ overlaps' = IF Proved!BusyElsewhere(w)
                              THEN [overlaps EXCEPT ![frame[w].tuple] = @ + 1]
                              ELSE overlaps
            \/ /\ ~Resumes(w) /\ frame'[w].pc = "Returned"
               /\ UNCHANGED overlaps
            \/ /\ frame'[w].pc \in {"Thrown", "Returned"}
               /\ frame'[w].pc = "Returned" => frame[w].lastAttempt
               /\ UNCHANGED overlaps
<1>1. HasCall(w) /\ frame[w].pc = "ReadExisting"
  BY DEF Proved!ReadExisting, Proved!At, HasCall
<1>2. UNCHANGED <<table, raises>>
  BY DEF Proved!ReadExisting, Proved!raiseVars, Proved!storeVars
<1>3. CASE /\ Resumes(w)
           /\ \E e : frame' = [frame EXCEPT ![w].pc = "Raise", ![w].etag = e]
           /\ overlaps' = IF Proved!BusyElsewhere(w)
                          THEN [overlaps EXCEPT ![frame[w].tuple] = @ + 1]
                          ELSE overlaps
  BY <1>1, <1>2, <1>3, MovedFrame DEF Proved!Steps
<1>4. CASE ~Resumes(w) /\ Proved!Goto(w, "Returned") /\ UNCHANGED overlaps
  BY <1>1, <1>2, <1>4, MovedFrame DEF Proved!Ended
<1>5. CASE Proved!Throw(w, FALSE, FALSE) /\ UNCHANGED overlaps
  BY <1>1, <1>2, <1>5, ThrownFrame
<1> QED BY <1>3, <1>4, <1>5 DEF Proved!ReadExisting, Resumes

LEMMA RaiseEffect ==
  ASSUME Proved!TypeOK, NEW w \in Workers, Proved!Raise(w)
  PROVE  /\ HasCall(w) /\ SameCall(w) /\ UNCHANGED <<table, overlaps>>
         /\ frame[w].pc = "Raise"
         /\ \/ /\ raises' = [raises EXCEPT ![frame[w].tuple] = @ + 1]
               /\ frame'[w].pc \in {"Commit", "Thrown", "Cleanup"}
            \/ /\ UNCHANGED raises
               /\ frame'[w].pc \in {"Thrown", "Cleanup"}
         /\ frame'[w].pc = "Cleanup" => frame[w].lastAttempt
<1>1. HasCall(w) /\ frame[w].pc = "Raise"
  BY DEF Proved!Raise, Proved!At, HasCall
<1>2. UNCHANGED <<table, overlaps>>
  BY DEF Proved!Raise, Proved!storeVars
<1>3. ASSUME Proved!Throw(w, TRUE, FALSE)
      PROVE  /\ SameCall(w) /\ frame'[w].pc \in {"Thrown", "Cleanup"}
             /\ frame'[w].pc = "Cleanup" => frame[w].lastAttempt
  BY <1>3, <1>1, ThrownFrame
<1>4. CASE /\ raises' = [raises EXCEPT ![frame[w].tuple] = @ + 1]
           /\ Proved!Goto(w, "Commit") \/ Proved!Throw(w, TRUE, FALSE)
  BY <1>1, <1>2, <1>3, <1>4, MovedFrame DEF Proved!Steps
<1>5. CASE UNCHANGED raises /\ Proved!Throw(w, TRUE, FALSE)
  BY <1>1, <1>2, <1>3, <1>5
<1> QED BY <1>4, <1>5 DEF Proved!Raise, Proved!raiseVars

LEMMA CommitEffect ==
  ASSUME Proved!TypeOK, NEW w \in Workers, Proved!Commit(w)
  PROVE  /\ HasCall(w) /\ SameCall(w) /\ UNCHANGED <<raises, overlaps>>
         /\ frame[w].pc = "Commit" /\ frame'[w].pc \in {"Thrown", "Returned"}
         /\ \/ UNCHANGED table
            \/ table' = [table EXCEPT ![frame[w].tuple] =
                           Proved!Row(frame[w].id, "Completed")]
<1>1. HasCall(w) /\ frame[w].pc = "Commit"
  BY DEF Proved!Commit, Proved!At, HasCall
<1>2. UNCHANGED <<raises, overlaps>>
  BY DEF Proved!Commit, Proved!raiseVars
<1>3. ASSUME Proved!Goto(w, "Returned") \/ Proved!Throw(w, TRUE, TRUE)
      PROVE  SameCall(w) /\ frame'[w].pc \in {"Thrown", "Returned"}
  BY <1>3, <1>1, ThrownFrame, MovedFrame DEF Proved!Ended
<1> QED BY <1>1, <1>2, <1>3 DEF Proved!Commit, Proved!Write, Proved!storeVars

LEMMA CleanupEffect ==
  ASSUME Proved!TypeOK, NEW w \in Workers, Proved!Cleanup(w)
  PROVE  /\ HasCall(w) /\ SameCall(w) /\ UNCHANGED <<raises, overlaps>>
         /\ frame[w].pc = "Cleanup" /\ frame'[w].pc \in {"Thrown", "Returned"}
         /\ \/ UNCHANGED table
            \/ table' = [table EXCEPT ![frame[w].tuple] = Proved!NoRow]
<1>1. HasCall(w) /\ frame[w].pc = "Cleanup"
  BY DEF Proved!Cleanup, Proved!At, HasCall
<1>2. UNCHANGED <<raises, overlaps>>
  BY DEF Proved!Cleanup, Proved!raiseVars
<1>3. ASSUME Proved!Goto(w, "Returned") \/ Proved!Goto(w, "Thrown")
      PROVE  SameCall(w) /\ frame'[w].pc \in {"Thrown", "Returned"}
  BY <1>3, <1>1, MovedFrame DEF Proved!Ended
<1> QED BY <1>1, <1>2, <1>3 DEF Proved!Cleanup

LEMMA KillEffect ==
  ASSUME Proved!TypeOK, NEW w \in Workers, Proved!Kill(w)
  PROVE  /\ HasCall(w) /\ SameCall(w) /\ UNCHANGED <<table, raises, overlaps>>
         /\ frame'[w].pc = "Killed"
<1>1. HasCall(w)
  BY DEF Proved!Kill, Proved!Steps, HasCall
<1>2. UNCHANGED <<table, raises, overlaps>>
  BY DEF Proved!Kill, Proved!raiseVars, Proved!storeVars
<1> QED BY <1>1, <1>2, MovedFrame DEF Proved!Kill, Proved!Ended

\* In short: a call keeps its message, and a killed or ended one stays ended.
LEMMA StepSameCall ==
  ASSUME Proved!TypeOK, NEW w \in Workers, Proved!Step(w) \/ Proved!Kill(w)
  PROVE  HasCall(w) /\ SameCall(w)
  BY ReserveEffect, ReadExistingEffect, RaiseEffect, CommitEffect, CleanupEffect,
     KillEffect DEF Proved!Step

LEMMA CallEffect ==
  ASSUME Proved!TypeOK, NEW w \in Workers, NEW id \in Ids, NEW t \in Tuples,
         NEW lastAttempt \in BOOLEAN, Proved!Call(w, id, t, lastAttempt)
  PROVE  /\ ~HasCall(w) /\ UNCHANGED <<table, raises, overlaps>>
         /\ frame'[w].pc = "Reserve" /\ frame'[w].id = id /\ frame'[w].tuple = t
         /\ frame'[w].lastAttempt = lastAttempt
         /\ \A v \in Workers \ {w} : frame'[v] = frame[v]
  BY DEF Proved!Call, Proved!At, Proved!TypeOK, Proved!storeVars, Proved!raiseVars,
         Proved!causeVars, HasCall

LEMMA DismissEffect ==
  ASSUME Proved!TypeOK, NEW w \in Workers, Proved!Dismiss(w)
  PROVE  /\ frame[w].pc \in Proved!Ended /\ frame'[w].pc = "Idle"
         /\ UNCHANGED <<table, raises, overlaps>>
         /\ \A v \in Workers \ {w} : frame'[v] = frame[v]
  BY DEF Proved!Dismiss, Proved!TypeOK, Proved!storeVars, Proved!historyVars,
         Proved!raiseVars, Proved!causeVars, Proved!Idle

-----------------------------------------------------------------------------
(* Types, jobs and leases.                                                 *)

Places == {"Visible", "Leased", "Poison", "Handling"} \cup Settled

Stages == {"Idle", "Validating", "Processing", "StoringException", "Succeeded",
           "Failed"}

\* TypeOK without the processor's.
QueueTypeOK ==
  /\ kind \in [Messages -> Kinds]
  /\ queue \in [Messages -> [place : Places,
                             dequeueCount : 0 .. HostMaxDequeueCount,
                             poisonCount : 0 .. HostMaxDequeueCount]]
  /\ holder \in [Messages -> Workers \cup {Nobody}]
  /\ stage \in [Workers -> Stages]
  /\ job \in [Workers -> Messages \cup {Nobody}]
  /\ attempt \in [Workers -> 0 .. HostMaxDequeueCount]
  /\ exceptions \subseteq Ids
  /\ readDetails \in [Messages -> BOOLEAN]
  /\ stalls \in Nat
  /\ \A m \in Messages : holder[m] # Nobody <=> queue[m].place = "Leased"

LEMMA TypesOfBoth == TypeOK <=> Proved!TypeOK /\ QueueTypeOK
  BY SameState DEF TypeOK, QueueTypeOK, Places, Stages

LEMMA TypesOfBothNext ==
  ASSUME Proved!TypeOK', QueueTypeOK' PROVE TypeOK'
<1>1. Processor!TypeOK'
  BY DEF Processor!TypeOK, Processor!Frame, Processor!Steps, Processor!Ended,
         Processor!RowType, Processor!NoRow, Processor!Idle, Processor!AnyTag,
         Proved!TypeOK, Proved!Frame, Proved!Steps, Proved!Ended,
         Proved!RowType, Proved!NoRow, Proved!Idle, Proved!AnyTag
<1> QED BY <1>1 DEF TypeOK, QueueTypeOK, Places, Stages

HostOK == QueueTypeOK /\ JobsOK /\ PoisonCounted /\ Exclusive

LEMMA HostFacts == IInv => HostOK /\ CallsOK /\ Proved!TypeOK
  BY TypesOfBoth DEF IInv, HostOK

\* A message that moves keeps its counts, and the other messages stay.
LEMMA MoveEffect ==
  ASSUME QueueTypeOK, NEW m \in Messages, NEW place \in Places, Move(m, place)
  PROVE  /\ queue' \in [Messages -> [place : Places,
                                     dequeueCount : 0 .. HostMaxDequeueCount,
                                     poisonCount : 0 .. HostMaxDequeueCount]]
         /\ queue'[m].place = place
         /\ \A n \in Messages \ {m} : queue'[n] = queue[n]
         /\ \A n \in Messages : /\ queue'[n].dequeueCount = queue[n].dequeueCount
                                /\ queue'[n].poisonCount = queue[n].poisonCount
<1>1. queue' = [queue EXCEPT ![m] = [queue[m] EXCEPT !.place = place]]
  BY DEF Move
<1> QED BY <1>1 DEF QueueTypeOK

LEMMA SetStageEffect ==
  ASSUME QueueTypeOK, NEW w \in Workers, NEW s \in Stages, SetStage(w, s)
  PROVE  /\ stage' \in [Workers -> Stages] /\ stage'[w] = s
         /\ \A v \in Workers \ {w} : stage'[v] = stage[v]
         /\ UNCHANGED <<job, attempt>>
  BY DEF SetStage, QueueTypeOK

LEMMA EndInvocationEffect ==
  ASSUME QueueTypeOK, NEW w \in Workers, EndInvocation(w)
  PROVE  /\ stage' \in [Workers -> Stages] /\ stage'[w] = "Idle"
         /\ job' \in [Workers -> Messages \cup {Nobody}] /\ job'[w] = Nobody
         /\ attempt' \in [Workers -> 0 .. HostMaxDequeueCount]
         /\ \A v \in Workers \ {w} : /\ stage'[v] = stage[v] /\ job'[v] = job[v]
                                     /\ attempt'[v] = attempt[v]
  BY DEF EndInvocation, QueueTypeOK, Stages

\* The invocation of a busy worker has a message.
LEMMA BusyHasJob ==
  ASSUME HostOK, NEW w \in Workers, stage[w] # "Idle"
  PROVE  job[w] \in Messages /\ job[w] # Nobody
  BY DEF HostOK, QueueTypeOK, JobsOK

\* A step that changes how far an invocation is, and nothing else of the queue,
\* whatever it does to the processor's call.
StageStep(w, s) ==
  /\ SetStage(w, s) /\ s \in Stages
  /\ stage[w] # "Idle" /\ s # "Idle"
  /\ s = "StoringException" => kind[job[w]] # "Malformed" /\ LastAttempt(w)
  /\ frame'[w].pc # "Idle" <=> s = "Processing"
  /\ \A v \in Workers \ {w} : frame'[v] = frame[v]

LEMMA StageStepHostOK ==
  ASSUME HostOK, NEW w \in Workers, NEW s, StageStep(w, s),
         UNCHANGED <<kind, queue, holder, readDetails, stalls>>,
         exceptions' \subseteq Ids
  PROVE  HostOK'
<1>1. /\ stage' \in [Workers -> Stages] /\ stage'[w] = s
      /\ \A v \in Workers \ {w} : stage'[v] = stage[v]
      /\ UNCHANGED <<job, attempt>>
  BY SetStageEffect DEF HostOK, StageStep
<1>2. QueueTypeOK'
  BY <1>1 DEF HostOK, QueueTypeOK
<1>3. JobsOK'
  BY <1>1 DEF HostOK, JobsOK, StageStep, HasCall, LastAttempt
<1>4. PoisonCounted' /\ Exclusive'
  BY <1>1 DEF HostOK, PoisonCounted, Exclusive
<1> QED BY <1>2, <1>3, <1>4 DEF HostOK

\* An invocation ends and leaves its message where it is.
LEMMA EndInvocationHostOK ==
  ASSUME HostOK, NEW w \in Workers, EndInvocation(w),
         UNCHANGED <<kind, queue, holder, exceptions, readDetails, stalls>>,
         frame'[w].pc = "Idle", \A v \in Workers \ {w} : frame'[v] = frame[v]
  PROVE  HostOK'
<1>1. QueueTypeOK'
  BY EndInvocationEffect DEF HostOK, QueueTypeOK
<1>2. JobsOK'
  BY EndInvocationEffect DEF HostOK, JobsOK, HasCall, LastAttempt
<1>3. PoisonCounted' /\ Exclusive'
  BY EndInvocationEffect DEF HostOK, PoisonCounted, Exclusive
<1> QED BY <1>1, <1>2, <1>3 DEF HostOK

\* The host settles the message an invocation has worked for, if it still may.
LEMMA ReleaseHostOK ==
  ASSUME HostOK, NEW w \in Workers, NEW place \in {"Deleted", "Poison", "Visible"},
         stage[w] \in {"Succeeded", "Failed"}, Release(w, place), UNCHANGED kind
  PROVE  HostOK'
<1> DEFINE m == job[w]
<1>1. m \in Messages /\ m # Nobody /\ ~HasCall(w)
  BY BusyHasJob DEF HostOK, JobsOK
<1>2. UNCHANGED <<frame, exceptions, readDetails, stalls>> /\ EndInvocation(w)
  BY DEF Release, processorVars, poisonVars
<1>3. CASE UNCHANGED <<queue, holder>>
  BY <1>1, <1>2, <1>3, EndInvocationHostOK DEF HasCall
<1>4. CASE holder[m] = w /\ Move(m, place) /\ holder' = [holder EXCEPT ![m] = Nobody]
  <2>1. /\ queue' \in [Messages -> [place : Places,
                                    dequeueCount : 0 .. HostMaxDequeueCount,
                                    poisonCount : 0 .. HostMaxDequeueCount]]
        /\ queue'[m].place = place
        /\ \A n \in Messages \ {m} : queue'[n] = queue[n]
        /\ \A n \in Messages : /\ queue'[n].dequeueCount = queue[n].dequeueCount
                               /\ queue'[n].poisonCount = queue[n].poisonCount
    BY <1>1, <1>4, MoveEffect DEF HostOK, Places
  <2>2. QueueTypeOK'
    <3>1. \A n \in Messages : holder'[n] # Nobody <=> queue'[n].place = "Leased"
      BY <1>1, <1>4, <2>1 DEF HostOK, QueueTypeOK
    <3>2. holder' \in [Messages -> Workers \cup {Nobody}]
      BY <1>4 DEF HostOK, QueueTypeOK
    <3> QED
      BY <1>2, <2>1, <3>1, <3>2, EndInvocationEffect DEF HostOK, QueueTypeOK
  <2>3. JobsOK'
    <3> SUFFICES ASSUME NEW v \in Workers
                 PROVE  /\ stage'[v] = "Idle" <=> job'[v] = Nobody
                        /\ HasCall(v)' <=> stage'[v] = "Processing"
                        /\ job'[v] # Nobody =>
                             attempt'[v] <= queue'[job'[v]].dequeueCount
                        /\ stage'[v] = "StoringException" =>
                             kind'[job'[v]] # "Malformed" /\ LastAttempt(v)'
      BY DEF JobsOK
    <3>1. CASE v = w
      BY <1>1, <1>2, <3>1, EndInvocationEffect DEF HostOK, HasCall
    <3>2. CASE v # w
      <4>1. /\ stage'[v] = stage[v] /\ job'[v] = job[v] /\ attempt'[v] = attempt[v]
            /\ frame'[v] = frame[v] /\ kind' = kind
        BY <1>2, <3>2, EndInvocationEffect DEF HostOK
      <4>2. job[v] # Nobody => job[v] \in Messages
        BY DEF HostOK, QueueTypeOK
      <4> QED BY <2>1, <4>1, <4>2 DEF HostOK, JobsOK, HasCall, LastAttempt
    <3> QED BY <3>1, <3>2
  <2>4. PoisonCounted'
    <3>1. queue[m].place = "Leased"
      BY <1>1, <1>4 DEF HostOK, QueueTypeOK
    <3> QED BY <1>1, <2>1, <3>1 DEF HostOK, PoisonCounted
  <2>5. Exclusive'
    BY <1>1, <1>2, <1>4, EndInvocationEffect DEF HostOK, Exclusive, QueueTypeOK
  <2> QED BY <2>2, <2>3, <2>4, <2>5 DEF HostOK
<1> QED BY <1>3, <1>4 DEF Release

\* Every step of an invocation keeps types, jobs and leases.
LEMMA InvocationHostOK ==
  ASSUME IInv, NEW w \in Workers, Invocation(w) \/ KillInvocation(w), UNCHANGED kind
  PROVE  HostOK'
<1>1. HostOK /\ CallsOK /\ Proved!TypeOK
  BY HostFacts
<1>2. /\ stage[w] # "Idle" => job[w] \in Messages
      /\ HasCall(w) <=> stage[w] = "Processing"
      /\ exceptions \subseteq Ids
      /\ stage = [stage EXCEPT ![w] = stage[w]]
  BY <1>1, BusyHasJob DEF HostOK, JobsOK, QueueTypeOK
<1>3. CASE FailValidation(w)
  <2>1. StageStep(w, "Failed")
    BY <1>2, <1>3 DEF FailValidation, StageStep, Stages, processorVars, HasCall
  <2> QED BY <1>1, <1>2, <1>3, <2>1, StageStepHostOK DEF FailValidation, poisonVars
<1>4. CASE DispatchWorkflow(w)
  <2>1. Proved!Call(w, Id[job[w]], Tuple[job[w]], LastAttempt(w))
        /\ Id[job[w]] \in Ids /\ Tuple[job[w]] \in Tuples /\ LastAttempt(w) \in BOOLEAN
    BY <1>2, <1>4, SameSteps DEF DispatchWorkflow, LastAttempt
  <2>2. frame'[w].pc = "Reserve" /\ \A v \in Workers \ {w} : frame'[v] = frame[v]
    BY <1>1, <2>1, CallEffect
  <2>3. StageStep(w, "Processing")
    BY <1>4, <2>2 DEF DispatchWorkflow, StageStep, Stages
  <2> QED BY <1>1, <1>2, <1>4, <2>3, StageStepHostOK DEF DispatchWorkflow, poisonVars
<1>5. CASE DispatchOther(w)
  <2>1. PICK s \in {"Succeeded", "Failed", "StoringException"} :
          /\ SetStage(w, s)
          /\ s = "StoringException" => kind[job[w]] # "Malformed" /\ LastAttempt(w)
    BY <1>5 DEF DispatchOther, FailInTry
  <2>2. StageStep(w, s)
    BY <1>2, <1>5, <2>1 DEF DispatchOther, StageStep, Stages, processorVars, HasCall
  <2> QED BY <1>1, <1>2, <1>5, <2>2, StageStepHostOK DEF DispatchOther, poisonVars
<1>6. ASSUME stage[w] = "Processing", Processor!Step(w) \/ Processor!Kill(w),
             UNCHANGED <<queue, holder, stage, job, attempt, exceptions, readDetails, stalls>>
      PROVE  HostOK'
  <2>1. SameCall(w)
    BY <1>1, <1>6, SameSteps, StepSameCall
  <2>2. StageStep(w, "Processing")
    BY <1>2, <1>6, <2>1 DEF StageStep, SetStage, SameCall, Stages
  <2> QED BY <1>1, <1>2, <1>6, <2>2, StageStepHostOK
<1>7. CASE Process(w)
  BY <1>6, <1>7 DEF Process, invocationVars, poisonVars
<1>8. CASE ProcessEnds(w)
  <2>1. frame'[w].pc = "Idle" /\ \A v \in Workers \ {w} : frame'[v] = frame[v]
    BY <1>1, <1>8, SameSteps, DismissEffect DEF ProcessEnds
  <2>2. UNCHANGED <<queue, holder, exceptions, readDetails, stalls>>
    BY <1>8 DEF ProcessEnds, poisonVars
  <2>3. CASE EndInvocation(w)
    BY <1>1, <2>1, <2>2, <2>3, EndInvocationHostOK
  <2>4. ASSUME NEW s \in {"Succeeded", "Failed", "StoringException"}, SetStage(w, s),
               s = "StoringException" => LastAttempt(w)
        PROVE  HostOK'
    <3>1. kind[job[w]] = "Workflow"
      BY <1>1, <1>2, <1>8 DEF ProcessEnds, CallsOK, WorkflowMessages
    <3>2. StageStep(w, s)
      BY <1>8, <2>1, <2>4, <3>1 DEF ProcessEnds, StageStep, Stages
    <3> QED BY <1>1, <1>2, <2>2, <3>2, StageStepHostOK
  <2> QED BY <1>8, <2>3, <2>4 DEF ProcessEnds, FailInTry
<1>9. CASE StoreException(w)
  <2>1. StageStep(w, "Failed")
    BY <1>2, <1>9 DEF StoreException, StageStep, Stages, processorVars, HasCall
  <2>2. exceptions' \subseteq Ids
    BY <1>2, <1>9 DEF StoreException
  <2> QED BY <1>1, <1>9, <2>1, <2>2, StageStepHostOK DEF StoreException
<1>10. CASE DeleteMessage(w)
  BY <1>1, <1>10, ReleaseHostOK DEF DeleteMessage
<1>11. CASE RejectMessage(w)
  BY <1>1, <1>11, ReleaseHostOK DEF RejectMessage
<1>12. CASE KillInvocation(w)
  <2>1. CASE stage[w] = "Processing" /\ Processor!Kill(w) /\ UNCHANGED invocationVars
    BY <1>6, <1>12, <2>1 DEF KillInvocation, invocationVars, poisonVars
  <2>2. CASE /\ stage[w] \in {"Validating", "StoringException", "Succeeded", "Failed"}
             /\ EndInvocation(w) /\ UNCHANGED processorVars
    BY <1>1, <1>2, <1>12, <2>2, EndInvocationHostOK
       DEF KillInvocation, processorVars, poisonVars, HasCall
  <2> QED BY <1>12, <2>1, <2>2 DEF KillInvocation
<1> QED
  BY <1>3, <1>4, <1>5, <1>7, <1>8, <1>9, <1>10, <1>11, <1>12 DEF Invocation

\* A message that no invocation has the lease of changes place.
LEMMA MoveHostOK ==
  ASSUME HostOK, NEW m \in Messages, NEW place \in Places \ {"Leased", "LeftInPoison"},
         Move(m, place), queue[m].place \notin {"Leased", "LeftInPoison"},
         UNCHANGED <<kind, frame, holder, stage, job, attempt, stalls>>,
         exceptions' \subseteq Ids, readDetails' \in [Messages -> BOOLEAN]
  PROVE  HostOK'
<1>1. /\ queue' \in [Messages -> [place : Places,
                                  dequeueCount : 0 .. HostMaxDequeueCount,
                                  poisonCount : 0 .. HostMaxDequeueCount]]
      /\ queue'[m].place = place
      /\ \A n \in Messages \ {m} : queue'[n] = queue[n]
      /\ \A n \in Messages : /\ queue'[n].dequeueCount = queue[n].dequeueCount
                             /\ queue'[n].poisonCount = queue[n].poisonCount
  BY MoveEffect DEF HostOK
<1>2. QueueTypeOK'
  BY <1>1 DEF HostOK, QueueTypeOK
<1>3. JobsOK'
  BY <1>1 DEF HostOK, QueueTypeOK, JobsOK, HasCall, LastAttempt
<1>4. PoisonCounted' /\ Exclusive'
  BY <1>1 DEF HostOK, PoisonCounted, Exclusive
<1> QED BY <1>2, <1>3, <1>4 DEF HostOK

LEMMA DequeueHostOK ==
  ASSUME HostOK, NEW w \in Workers, NEW m \in Messages, Dequeue(w, m), UNCHANGED kind
  PROVE  HostOK'
<1>1. queue' = [queue EXCEPT ![m] = [[queue[m] EXCEPT !.place = "Leased"]
                                       EXCEPT !.dequeueCount = @ + 1]]
  BY DEF Dequeue, HostOK, QueueTypeOK
<1>2. /\ queue' \in [Messages -> [place : Places,
                                  dequeueCount : 0 .. HostMaxDequeueCount,
                                  poisonCount : 0 .. HostMaxDequeueCount]]
      /\ queue'[m].place = "Leased"
      /\ queue'[m].dequeueCount = queue[m].dequeueCount + 1
      /\ queue'[m].poisonCount = queue[m].poisonCount
      /\ \A n \in Messages \ {m} : queue'[n] = queue[n]
  <2>1. queue[m].dequeueCount + 1 \in 0 .. HostMaxDequeueCount /\ "Leased" \in Places
    BY DEF Dequeue, HostOK, QueueTypeOK, Places
  <2> DEFINE e == [[queue[m] EXCEPT !.place = "Leased"] EXCEPT !.dequeueCount = @ + 1]
  <2>2. /\ e \in [place : Places, dequeueCount : 0 .. HostMaxDequeueCount,
                poisonCount : 0 .. HostMaxDequeueCount]
        /\ e.place = "Leased" /\ e.dequeueCount = queue[m].dequeueCount + 1
        /\ e.poisonCount = queue[m].poisonCount
    <3>1. queue[m] \in [place : Places, dequeueCount : 0 .. HostMaxDequeueCount,
                        poisonCount : 0 .. HostMaxDequeueCount]
      BY DEF HostOK, QueueTypeOK
    <3> QED BY <2>1, <3>1
  <2> HIDE DEF e
  <2>3. queue' = [queue EXCEPT ![m] = e]
    BY <1>1 DEF e
  <2> QED BY <2>2, <2>3 DEF HostOK, QueueTypeOK
<1>3. /\ holder' = [holder EXCEPT ![m] = w] /\ job' = [job EXCEPT ![w] = m]
      /\ attempt' = [attempt EXCEPT ![w] = queue[m].dequeueCount + 1]
      /\ stage' = [stage EXCEPT ![w] = "Validating"]
      /\ UNCHANGED <<frame, exceptions, readDetails, stalls>>
      /\ stage[w] = "Idle" /\ queue[m].place = "Visible"
      /\ queue[m].dequeueCount + 1 \in 0 .. HostMaxDequeueCount
      /\ m # Nobody /\ w # Nobody
  BY DEF Dequeue, processorVars, poisonVars, HostOK, QueueTypeOK
<1>4. QueueTypeOK'
  <2>1. \A n \in Messages : holder'[n] # Nobody <=> queue'[n].place = "Leased"
    BY <1>2, <1>3 DEF HostOK, QueueTypeOK
  <2>2. /\ holder' \in [Messages -> Workers \cup {Nobody}]
        /\ stage' \in [Workers -> Stages]
        /\ job' \in [Workers -> Messages \cup {Nobody}]
        /\ attempt' \in [Workers -> 0 .. HostMaxDequeueCount]
    BY <1>3 DEF HostOK, QueueTypeOK, Stages
  <2> QED BY <1>2, <1>3, <2>1, <2>2 DEF HostOK, QueueTypeOK
<1>5. JobsOK'
  <2> SUFFICES ASSUME NEW v \in Workers
               PROVE  /\ stage'[v] = "Idle" <=> job'[v] = Nobody
                      /\ HasCall(v)' <=> stage'[v] = "Processing"
                      /\ job'[v] # Nobody =>
                           attempt'[v] <= queue'[job'[v]].dequeueCount
                      /\ stage'[v] = "StoringException" =>
                           kind'[job'[v]] # "Malformed" /\ LastAttempt(v)'
    BY DEF JobsOK
  <2>1. CASE v = w
    BY <1>2, <1>3, <2>1 DEF HostOK, QueueTypeOK, JobsOK, HasCall
  <2>2. CASE v # w
    <3>1. /\ stage'[v] = stage[v] /\ job'[v] = job[v] /\ attempt'[v] = attempt[v]
          /\ frame'[v] = frame[v]
      BY <1>3, <2>2 DEF HostOK, QueueTypeOK
    <3>2. job[v] # Nobody =>
            /\ attempt[v] <= queue[job[v]].dequeueCount
            /\ queue[job[v]].dequeueCount <= queue'[job[v]].dequeueCount
            /\ attempt[v] \in Nat /\ queue[job[v]].dequeueCount \in Nat
            /\ queue'[job[v]].dequeueCount \in Nat
      BY <1>2 DEF HostOK, QueueTypeOK, JobsOK
    <3> QED BY <3>1, <3>2 DEF HostOK, JobsOK, HasCall, LastAttempt
  <2> QED BY <2>1, <2>2
<1>6. PoisonCounted'
  BY <1>2, <1>3 DEF HostOK, PoisonCounted
<1>7. Exclusive'
  BY <1>3 DEF HostOK, Exclusive, QueueTypeOK
<1> QED BY <1>4, <1>5, <1>6, <1>7 DEF HostOK

LEMMA LeaseExpiresHostOK ==
  ASSUME HostOK, NEW m \in Messages, LeaseExpires(m), UNCHANGED kind
  PROVE  HostOK'
<1>1. /\ queue' \in [Messages -> [place : Places,
                                  dequeueCount : 0 .. HostMaxDequeueCount,
                                  poisonCount : 0 .. HostMaxDequeueCount]]
      /\ queue'[m].place = "Visible"
      /\ \A n \in Messages \ {m} : queue'[n] = queue[n]
      /\ \A n \in Messages : /\ queue'[n].dequeueCount = queue[n].dequeueCount
                             /\ queue'[n].poisonCount = queue[n].poisonCount
  BY MoveEffect DEF HostOK, LeaseExpires, Places
<1>2. /\ holder' = [holder EXCEPT ![m] = Nobody] /\ queue[m].place = "Leased"
      /\ UNCHANGED <<frame, stage, job, attempt, exceptions, readDetails>>
      /\ stalls' \in Nat
      /\ stalls' = 0 => stalls = 0 /\ \A w \in Workers : job[w] # m
  BY DEF LeaseExpires, processorVars, invocationVars, poisonVars, HostOK, QueueTypeOK
<1>3. QueueTypeOK'
  <2>1. \A n \in Messages : holder'[n] # Nobody <=> queue'[n].place = "Leased"
    BY <1>1, <1>2 DEF HostOK, QueueTypeOK
  <2> QED BY <1>1, <1>2, <2>1 DEF HostOK, QueueTypeOK
<1>4. JobsOK'
  BY <1>1, <1>2 DEF HostOK, QueueTypeOK, JobsOK, HasCall, LastAttempt
<1>5. PoisonCounted'
  BY <1>1, <1>2 DEF HostOK, PoisonCounted
<1>6. Exclusive'
  BY <1>2 DEF HostOK, Exclusive, QueueTypeOK
<1> QED BY <1>3, <1>4, <1>5, <1>6 DEF HostOK

LEMMA PoisonHandlerFailsHostOK ==
  ASSUME HostOK, NEW m \in Messages, PoisonHandlerFails(m), UNCHANGED kind
  PROVE  HostOK'
<1> DEFINE count == queue[m].poisonCount + 1
           place == IF count < HostMaxDequeueCount THEN "Poison" ELSE "LeftInPoison"
<1>1. queue' = [queue EXCEPT ![m] = [[queue[m] EXCEPT !.poisonCount = count]
                                       EXCEPT !.place = place]]
  BY DEF PoisonHandlerFails, HostOK, QueueTypeOK
<1>2. /\ count \in 0 .. HostMaxDequeueCount /\ place \in Places
      /\ place # "LeftInPoison" => count < HostMaxDequeueCount
      /\ place # "Leased" /\ queue[m].place # "Leased"
  BY DEF PoisonHandlerFails, HostOK, QueueTypeOK, PoisonCounted, Places
<1> HIDE DEF count, place
<1>3. /\ queue' \in [Messages -> [place : Places,
                                  dequeueCount : 0 .. HostMaxDequeueCount,
                                  poisonCount : 0 .. HostMaxDequeueCount]]
      /\ queue'[m].place = place /\ queue'[m].poisonCount = count
      /\ \A n \in Messages \ {m} : queue'[n] = queue[n]
      /\ \A n \in Messages : queue'[n].dequeueCount = queue[n].dequeueCount
  <2> DEFINE e == [[queue[m] EXCEPT !.poisonCount = count] EXCEPT !.place = place]
  <2>1. /\ e \in [place : Places, dequeueCount : 0 .. HostMaxDequeueCount,
                poisonCount : 0 .. HostMaxDequeueCount]
        /\ e.place = place /\ e.poisonCount = count
        /\ e.dequeueCount = queue[m].dequeueCount
    <3>1. queue[m] \in [place : Places, dequeueCount : 0 .. HostMaxDequeueCount,
                        poisonCount : 0 .. HostMaxDequeueCount]
      BY DEF HostOK, QueueTypeOK
    <3> QED BY <1>2, <3>1
  <2> HIDE DEF e
  <2>2. queue' = [queue EXCEPT ![m] = e]
    BY <1>1 DEF e
  <2> QED BY <2>1, <2>2 DEF HostOK, QueueTypeOK
<1>4. UNCHANGED <<frame, holder, stage, job, attempt, readDetails, stalls>>
      /\ exceptions' \subseteq Ids
  BY DEF PoisonHandlerFails, processorVars, invocationVars, HostOK, QueueTypeOK
<1>5. QueueTypeOK'
  <2>1. \A n \in Messages : holder'[n] # Nobody <=> queue'[n].place = "Leased"
    BY <1>2, <1>3, <1>4 DEF HostOK, QueueTypeOK
  <2> QED BY <1>3, <1>4, <2>1 DEF HostOK, QueueTypeOK
<1>6. JobsOK'
  BY <1>3, <1>4 DEF HostOK, QueueTypeOK, JobsOK, HasCall, LastAttempt
<1>7. PoisonCounted' /\ Exclusive'
  BY <1>2, <1>3, <1>4 DEF HostOK, PoisonCounted, Exclusive
<1> QED BY <1>5, <1>6, <1>7 DEF HostOK

\* So does every step of the host.
LEMMA HostStepHostOK ==
  ASSUME HostOK, NEW m \in Messages, Host(m), UNCHANGED kind
  PROVE  HostOK'
<1>1. CASE \E w \in Workers : Dequeue(w, m)
  BY <1>1, DequeueHostOK
<1>2. CASE MoveToPoison(m)
  BY <1>2, MoveHostOK
     DEF MoveToPoison, Places, processorVars, invocationVars, poisonVars, HostOK, QueueTypeOK
<1>3. CASE LeaseExpires(m)
  BY <1>3, LeaseExpiresHostOK
<1>4. CASE ReadPoison(m)
  <2>1. PICK place \in {"Drained", "Handling"} : Move(m, place)
    BY <1>4 DEF ReadPoison
  <2>2. readDetails' \in [Messages -> BOOLEAN]
    <3>1. \/ readDetails' = [readDetails EXCEPT ![m] = (Id[m] \in exceptions)]
          \/ UNCHANGED readDetails
      BY <1>4 DEF ReadPoison
    <3>2. ASSUME NEW found \in BOOLEAN
          PROVE  [readDetails EXCEPT ![m] = found] \in [Messages -> BOOLEAN]
      BY DEF HostOK, QueueTypeOK
    <3>3. (Id[m] \in exceptions) \in BOOLEAN
      OBVIOUS
    <3>4. readDetails \in [Messages -> BOOLEAN]
      BY DEF HostOK, QueueTypeOK
    <3> QED BY <3>1, <3>2, <3>3, <3>4, Zenon
  <2>3. /\ UNCHANGED <<frame, holder, stage, job, attempt, stalls>>
        /\ exceptions' \subseteq Ids /\ queue[m].place = "Poison"
    BY <1>4 DEF ReadPoison, processorVars, invocationVars, HostOK, QueueTypeOK
  <2> QED BY <2>1, <2>2, <2>3, MoveHostOK DEF Places
<1>5. CASE DrainPoison(m)
  <2>1. exceptions' \subseteq Ids /\ readDetails' \in [Messages -> BOOLEAN]
    BY <1>5 DEF DrainPoison, HostOK, QueueTypeOK
  <2> QED BY <1>5, <2>1, MoveHostOK DEF DrainPoison, Places, processorVars, invocationVars
<1>6. CASE PoisonHandlerFails(m)
  BY <1>6, PoisonHandlerFailsHostOK
<1> QED BY <1>1, <1>2, <1>3, <1>4, <1>5, <1>6 DEF Host

-----------------------------------------------------------------------------
(* The calls of the processor.                                             *)

\* A step of the call that an invocation waits for.
CallMoves(w) ==
  /\ stage[w] = "Processing"
  /\ Proved!Step(w) \/ Proved!Kill(w)
  /\ UNCHANGED <<queue, holder, invocationVars, poisonVars, stalls>>

\* The invocation calls the processor, its call moves or ends, or the step does
\* not concern the processor.
LEMMA InvocationCases ==
  ASSUME NEW w \in Workers, Invocation(w) \/ KillInvocation(w)
  PROVE  \/ DispatchWorkflow(w) \/ CallMoves(w) \/ ProcessEnds(w)
         \/ UNCHANGED processorVars
  BY SameSteps
     DEF Invocation, KillInvocation, FailValidation, DispatchOther, Process,
         StoreException, DeleteMessage, RejectMessage, Release, CallMoves, poisonVars

LEMMA HostLeavesProcessor ==
  ASSUME NEW m \in Messages, Host(m) PROVE UNCHANGED processorVars
  BY DEF Host, Dequeue, MoveToPoison, LeaseExpires, ReadPoison, DrainPoison,
         PoisonHandlerFails

\* What DispatchWorkflow does to the frames.
LEMMA DispatchEffect ==
  ASSUME IInv, NEW w \in Workers, DispatchWorkflow(w)
  PROVE  /\ job[w] \in WorkflowMessages(Tuple[job[w]])
         /\ ~HasCall(w) /\ UNCHANGED <<table, raises, overlaps>>
         /\ frame'[w].pc = "Reserve" /\ frame'[w].id = Id[job[w]]
         /\ frame'[w].tuple = Tuple[job[w]]
         /\ frame'[w].lastAttempt = LastAttempt(w)
         /\ \A v \in Workers \ {w} : frame'[v] = frame[v]
<1>1. job[w] \in Messages /\ Proved!TypeOK
  BY HostFacts, BusyHasJob DEF DispatchWorkflow
<1>2. /\ Id[job[w]] \in Ids /\ Tuple[job[w]] \in Tuples /\ LastAttempt(w) \in BOOLEAN
      /\ Proved!Call(w, Id[job[w]], Tuple[job[w]], LastAttempt(w))
  BY <1>1, SameSteps DEF DispatchWorkflow, LastAttempt
<1> QED BY <1>1, <1>2, CallEffect DEF DispatchWorkflow, WorkflowMessages

LEMMA ProcessEndsEffect ==
  ASSUME IInv, NEW w \in Workers, ProcessEnds(w)
  PROVE  /\ frame[w].pc \in Proved!Ended /\ frame'[w].pc = "Idle"
         /\ UNCHANGED <<table, raises, overlaps>>
         /\ \A v \in Workers \ {w} : frame'[v] = frame[v]
  BY HostFacts, SameSteps, DismissEffect DEF ProcessEnds

LEMMA CallMovesEffect ==
  ASSUME IInv, NEW w \in Workers, CallMoves(w)
  PROVE  /\ HasCall(w) /\ SameCall(w)
         /\ UNCHANGED <<queue, stage, job, attempt, stalls>>
         /\ frame[w].tuple \in Tuples /\ frame[w].id \in Ids
         /\ Proved!TypeOK
<1>1. Proved!TypeOK /\ HasCall(w) /\ SameCall(w)
  BY HostFacts, StepSameCall DEF CallMoves
<1>2. frame[w] \in Proved!Frame
  BY <1>1, Proved!FrameOfCall DEF HasCall
<1> QED BY <1>1, <1>2 DEF CallMoves, invocationVars, Proved!Frame

\* Every step keeps each call at work for its invocation's message.
LEMMA CallsStep ==
  ASSUME IInv, Next PROVE CallsOK'
<1>1. HostOK /\ CallsOK /\ UNCHANGED kind
  BY HostFacts DEF Next
<1>2. SUFFICES ASSUME NEW v \in Workers, HasCall(v)'
               PROVE  /\ job'[v] \in WorkflowMessages(frame'[v].tuple)
                      /\ frame'[v].id = Id[job'[v]]
                      /\ frame'[v].lastAttempt = (attempt'[v] = MaxDequeueCount)
  BY <1>1 DEF CallsOK, WorkflowMessages, LastAttempt
<1>3. ASSUME HasCall(v), SameCall(v) \/ frame'[v] = frame[v],
             job'[v] = job[v], attempt'[v] = attempt[v]
      PROVE  /\ job'[v] \in WorkflowMessages(frame'[v].tuple)
             /\ frame'[v].id = Id[job'[v]]
             /\ frame'[v].lastAttempt = (attempt'[v] = MaxDequeueCount)
  BY <1>1, <1>3 DEF CallsOK, LastAttempt, SameCall
<1>4. HasCall(v) => stage[v] = "Processing"
  BY <1>1 DEF HostOK, JobsOK
<1>5. ASSUME NEW w \in Workers, DispatchWorkflow(w) \/ CallMoves(w) \/ ProcessEnds(w)
      PROVE  v # w => frame'[v] = frame[v] /\ job'[v] = job[v] /\ attempt'[v] = attempt[v]
  <2>1. v # w => frame'[v] = frame[v]
    BY <1>5, DispatchEffect, ProcessEndsEffect, CallMovesEffect DEF SameCall
  <2>2. v # w => job'[v] = job[v] /\ attempt'[v] = attempt[v]
    BY <1>1, <1>5, EndInvocationEffect
       DEF DispatchWorkflow, CallMoves, ProcessEnds, SetStage, FailInTry, HostOK,
           invocationVars
  <2> QED BY <2>1, <2>2
<1>6. CASE \E w \in Workers : DispatchWorkflow(w)
  <2>1. PICK w \in Workers : DispatchWorkflow(w)
    BY <1>6
  <2>2. CASE v = w
    <3>1. UNCHANGED <<job, attempt>>
      BY <2>1 DEF DispatchWorkflow, SetStage
    <3> QED BY <2>1, <2>2, <3>1, DispatchEffect DEF LastAttempt
  <2> QED BY <1>2, <1>3, <1>5, <2>1, <2>2 DEF HasCall
<1>7. CASE \E w \in Workers : CallMoves(w)
  BY <1>2, <1>3, <1>5, <1>7, CallMovesEffect DEF HasCall
<1>8. CASE \E w \in Workers : ProcessEnds(w)
  BY <1>2, <1>3, <1>5, <1>8, ProcessEndsEffect DEF HasCall
<1>9. CASE UNCHANGED processorVars
  <2>1. HasCall(v) /\ stage[v] = "Processing" /\ frame'[v] = frame[v]
    BY <1>2, <1>4, <1>9 DEF HasCall, processorVars
  <2>2. ASSUME NEW w \in Workers, Invocation(w) \/ KillInvocation(w),
               ~DispatchWorkflow(w), ~CallMoves(w), ~ProcessEnds(w)
        PROVE  job'[v] = job[v] /\ attempt'[v] = attempt[v]
    <3>1. Process(w) => CallMoves(w)
      BY SameSteps DEF Process, CallMoves
    <3>2. CASE \/ FailValidation(w) \/ DispatchOther(w) \/ StoreException(w)
      BY <3>2 DEF FailValidation, DispatchOther, StoreException, FailInTry, SetStage
    <3>3. CASE DeleteMessage(w) \/ RejectMessage(w)
      BY <1>1, <2>1, <3>3, EndInvocationEffect
         DEF DeleteMessage, RejectMessage, Release, HostOK
    <3>4. CASE KillInvocation(w)
      BY <1>1, <2>1, <3>4, EndInvocationEffect DEF KillInvocation, invocationVars, HostOK
    <3> QED BY <2>2, <3>1, <3>2, <3>3, <3>4 DEF Invocation
  <2>3. ASSUME NEW m \in Messages, Host(m)
        PROVE  job'[v] = job[v] /\ attempt'[v] = attempt[v]
    BY <1>1, <2>1, <2>3
       DEF Host, Dequeue, MoveToPoison, LeaseExpires, ReadPoison, DrainPoison,
           PoisonHandlerFails, invocationVars, HostOK, QueueTypeOK
  <2> QED BY <1>3, <1>6, <1>7, <1>8, <2>1, <2>2, <2>3 DEF Next
<1> QED BY <1>6, <1>7, <1>8, <1>9, InvocationCases, HostLeavesProcessor DEF Next

-----------------------------------------------------------------------------
(* One call at work on a reservation.                                      *)

\* Leases that ran out on a working invocation only ever add up, and messages
\* are only ever dequeued more often.
LEMMA HistoryGrows ==
  ASSUME IInv, Next
  PROVE  /\ stalls' = 0 => stalls = 0
         /\ UNCHANGED kind
         /\ \A m \in Messages :
              queue[m].dequeueCount = MaxDequeueCount =>
                queue'[m].dequeueCount = MaxDequeueCount
<1>1. QueueTypeOK /\ HostOK
  BY HostFacts DEF HostOK
<1>2. ASSUME NEW w \in Workers, Invocation(w) \/ KillInvocation(w)
      PROVE  /\ UNCHANGED stalls
             /\ \A m \in Messages : queue'[m].dequeueCount = queue[m].dequeueCount
  <2>1. CASE DeleteMessage(w) \/ RejectMessage(w)
    <3>1. PICK place \in Places : Release(w, place)
      BY <2>1 DEF DeleteMessage, RejectMessage, Places
    <3>2. job[w] \in Messages
      BY <1>1, <2>1, BusyHasJob DEF DeleteMessage, RejectMessage
    <3> QED BY <1>1, <3>1, <3>2, MoveEffect DEF Release
  <2>2. CASE UNCHANGED <<queue, stalls>>
    BY <2>2
  <2> QED
    BY <1>2, <2>1, <2>2
       DEF Invocation, KillInvocation, FailValidation, DispatchWorkflow, DispatchOther,
           Process, ProcessEnds, StoreException
<1>3. ASSUME NEW m \in Messages, Host(m)
      PROVE  /\ stalls' = 0 => stalls = 0
             /\ \A n \in Messages :
                  queue[n].dequeueCount = MaxDequeueCount =>
                    queue'[n].dequeueCount = MaxDequeueCount
  <2>1. CASE \E w \in Workers : Dequeue(w, m)
    BY <1>1, <2>1 DEF Dequeue, QueueTypeOK
  <2>2. CASE PoisonHandlerFails(m)
    BY <1>1, <2>2 DEF PoisonHandlerFails, QueueTypeOK
  <2>3. CASE MoveToPoison(m) \/ LeaseExpires(m) \/ ReadPoison(m) \/ DrainPoison(m)
    <3>1. PICK place \in Places : Move(m, place)
      BY <2>3 DEF MoveToPoison, LeaseExpires, ReadPoison, DrainPoison, Places
    <3>2. stalls' = 0 => stalls = 0
      BY <1>1, <2>3
         DEF MoveToPoison, LeaseExpires, ReadPoison, DrainPoison, QueueTypeOK
    <3> QED BY <1>1, <3>1, <3>2, MoveEffect
  <2> QED BY <1>3, <2>1, <2>2, <2>3 DEF Host
<1> QED BY <1>2, <1>3 DEF Next

\* Two calls for an unshared tuple do not have the same id.
LEMMA OwnIds ==
  ASSUME IInv, NEW t \in Tuples, Unshared(t), NEW v \in Workers, NEW w \in Workers,
         HasCall(v), HasCall(w), frame[v].tuple = t, frame[w].tuple = t,
         frame[v].id = frame[w].id
  PROVE  v = w
<1>1. /\ job[v] \in WorkflowMessages(t) /\ job[w] \in WorkflowMessages(t)
      /\ Id[job[v]] = Id[job[w]]
  BY DEF IInv, CallsOK
<1>2. job[v] = job[w] /\ job[v] # Nobody
  BY <1>1 DEF Unshared, WorkflowMessages
<1> QED BY <1>2 DEF IInv, Exclusive, Unshared

\* The step of a call leaves the other tuples alone.
LEMMA OtherTuples ==
  ASSUME IInv, NEW w \in Workers, CallMoves(w), NEW t \in Tuples, t # frame[w].tuple
  PROVE  UNCHANGED <<table[t], raises[t], overlaps[t]>>
<1>1. Proved!TypeOK /\ frame[w].tuple \in Tuples
  BY CallMovesEffect
<1> QED
  BY <1>1, ReserveEffect, ReadExistingEffect, RaiseEffect, CommitEffect, CleanupEffect,
     KillEffect DEF CallMoves, Proved!Step, Proved!TypeOK

\* While a tuple is unshared, the row stays with the call at work on it.
LEMMA WorkStep ==
  ASSUME IInv, Next PROVE OneAtWork'
<1>1. SUFFICES ASSUME NEW t \in Tuples, Unshared(t)
               PROVE  /\ overlaps'[t] = 0
                      /\ \A v \in Workers :
                           AtWork(v, t)' => /\ table'[t].status = "Processing"
                                            /\ table'[t].id = frame'[v].id
  BY HistoryGrows DEF OneAtWork, Unshared, WorkflowMessages
<1>2. /\ overlaps[t] = 0
      /\ \A v \in Workers : AtWork(v, t) => /\ table[t].status = "Processing"
                                            /\ table[t].id = frame[v].id
  BY <1>1 DEF IInv, OneAtWork
<1>3. CASE UNCHANGED processorVars
  BY <1>2, <1>3 DEF processorVars, AtWork
<1>4. ASSUME NEW w \in Workers, UNCHANGED <<table, overlaps>>,
             frame'[w].pc \in {"Reserve", "Idle"},
             \A v \in Workers \ {w} : frame'[v] = frame[v]
      PROVE  /\ overlaps'[t] = 0
             /\ \A v \in Workers :
                  AtWork(v, t)' => /\ table'[t].status = "Processing"
                                   /\ table'[t].id = frame'[v].id
  BY <1>2, <1>4 DEF AtWork
<1>5. ASSUME NEW w \in Workers, CallMoves(w)
      PROVE  /\ overlaps'[t] = 0
             /\ \A v \in Workers :
                  AtWork(v, t)' => /\ table'[t].status = "Processing"
                                   /\ table'[t].id = frame'[v].id
  <2>1. HasCall(w) /\ SameCall(w) /\ Proved!TypeOK /\ frame[w].tuple \in Tuples
    BY <1>5, CallMovesEffect
  <2>2. CASE t # frame[w].tuple
    <3>1. UNCHANGED <<table[t], overlaps[t]>>
      BY <1>5, <2>2, OtherTuples
    <3> QED BY <1>2, <2>1, <2>2, <3>1 DEF AtWork, SameCall
  <2>3. CASE t = frame[w].tuple
    <3>1. ASSUME NEW v \in Workers, v # w, AtWork(v, t), table[t].id = frame[w].id
          PROVE  FALSE
      BY <1>1, <1>2, <2>1, <2>3, <3>1, OwnIds DEF AtWork, HasCall
    <3>2. CASE Proved!Reserve(w)
      <4>1. \/ table'[t] = table[t] /\ ~AtWork(w, t)'
            \/ /\ table[t] = Proved!NoRow
               /\ table'[t] = Proved!Row(frame[w].id, "Processing")
        BY <2>1, <2>3, <3>2, ReserveEffect DEF AtWork, Proved!TypeOK
      <4>2. overlaps'[t] = 0
        BY <1>2, <2>1, <3>2, ReserveEffect
      <4> QED
        BY <1>2, <2>1, <2>3, <4>1, <4>2 DEF AtWork, SameCall, Proved!NoRow, Proved!Row
    <3>3. CASE Proved!ReadExisting(w)
      <4>1. UNCHANGED table
        BY <2>1, <3>3, ReadExistingEffect
      <4>2. CASE Resumes(w)
        <5>1. ~Proved!BusyElsewhere(w)
          BY <2>3, <3>1, <4>2 DEF Resumes, Proved!BusyElsewhere, AtWork
        <5>2. UNCHANGED overlaps
          BY <2>1, <3>3, <5>1, ReadExistingEffect
        <5> QED BY <1>2, <2>1, <2>3, <4>1, <4>2, <5>2 DEF AtWork, SameCall, Resumes
      <4>3. CASE ~Resumes(w)
        <5>1. UNCHANGED overlaps /\ frame'[w].pc \in {"Returned", "Thrown"}
          BY <2>1, <3>3, <4>3, ReadExistingEffect
        <5> QED BY <1>2, <2>1, <4>1, <5>1 DEF AtWork, SameCall
      <4> QED BY <4>2, <4>3
    <3>4. CASE Proved!Raise(w)
      <4>1. UNCHANGED <<table, overlaps>> /\ AtWork(w, t)
        BY <2>1, <2>3, <3>4, RaiseEffect DEF AtWork
      <4> QED BY <1>2, <2>1, <4>1 DEF AtWork, SameCall
    <3>5. CASE Proved!Commit(w) \/ Proved!Cleanup(w)
      <4>1. /\ UNCHANGED overlaps /\ AtWork(w, t)
            /\ frame'[w].pc \in {"Returned", "Thrown"}
        BY <2>1, <2>3, <3>5, CommitEffect, CleanupEffect DEF AtWork
      <4>2. ASSUME NEW v \in Workers, AtWork(v, t)' PROVE FALSE
        BY <1>2, <2>1, <3>1, <4>1, <4>2 DEF AtWork, SameCall
      <4> QED BY <1>2, <4>1, <4>2
    <3>6. CASE Proved!Kill(w)
      <4>1. UNCHANGED <<table, overlaps>> /\ frame'[w].pc = "Killed"
        BY <2>1, <3>6, KillEffect
      <4> QED BY <1>2, <2>1, <4>1 DEF AtWork, SameCall
    <3> QED BY <1>5, <3>2, <3>3, <3>4, <3>5, <3>6 DEF CallMoves, Proved!Step
  <2> QED BY <2>2, <2>3
<1>6. ASSUME NEW w \in Workers, DispatchWorkflow(w) \/ ProcessEnds(w)
      PROVE  /\ UNCHANGED <<table, overlaps>> /\ frame'[w].pc \in {"Reserve", "Idle"}
             /\ \A v \in Workers \ {w} : frame'[v] = frame[v]
  BY <1>6, DispatchEffect, ProcessEndsEffect
<1> QED BY <1>3, <1>4, <1>5, <1>6, InvocationCases, HostLeavesProcessor DEF Next

-----------------------------------------------------------------------------
(* Skipping loses no event.                                                *)

\* A tuple that is undecided after a step was so before it.
LEMMA UndecidedBefore ==
  ASSUME IInv, Next, NEW t \in Tuples, Undecided(t)' PROVE Undecided(t)
<1>1. ~Exhausted(t)
  BY HistoryGrows DEF Undecided, Exhausted, WorkflowMessages
<1>2. raises \in [Tuples -> Nat] /\ raises'[t] = 0
  BY HostFacts DEF Proved!TypeOK, Undecided
<1>3. ASSUME NEW w \in Workers, CallMoves(w) PROVE raises[t] = 0
  <2>1. Proved!TypeOK
    BY HostFacts
  <2>2. raises'[t] = raises[t] \/ raises'[t] = raises[t] + 1
    BY <1>2, <1>3, <2>1, ReserveEffect, ReadExistingEffect, RaiseEffect, CommitEffect,
       CleanupEffect, KillEffect DEF CallMoves, Proved!Step
  <2> QED BY <1>2, <2>2
<1>4. ASSUME NEW w \in Workers, DispatchWorkflow(w) \/ ProcessEnds(w)
      PROVE  UNCHANGED raises
  BY <1>4, DispatchEffect, ProcessEndsEffect
<1>5. UNCHANGED processorVars => UNCHANGED raises
  BY DEF processorVars
<1>6. raises[t] = 0
  BY <1>2, <1>3, <1>4, <1>5, InvocationCases, HostLeavesProcessor DEF Next
<1> QED BY <1>1, <1>6 DEF Undecided

\* No call for an undecided tuple is on its last attempt.
LEMMA UndecidedNotLast ==
  ASSUME IInv, NEW t \in Tuples, ~Exhausted(t), NEW w \in Workers, HasCall(w),
         frame[w].tuple = t
  PROVE  ~frame[w].lastAttempt
<1>1. /\ job[w] \in WorkflowMessages(t) /\ job[w] \in Messages /\ job[w] # Nobody
      /\ frame[w].lastAttempt = (attempt[w] = MaxDequeueCount)
  BY DEF IInv, CallsOK, LastAttempt, WorkflowMessages
<1>2. /\ attempt[w] <= queue[job[w]].dequeueCount
      /\ queue[job[w]].dequeueCount \in 0 .. HostMaxDequeueCount
      /\ attempt[w] \in 0 .. HostMaxDequeueCount
  BY <1>1, HostFacts DEF HostOK, JobsOK, QueueTypeOK
<1>3. ASSUME attempt[w] = MaxDequeueCount
      PROVE  queue[job[w]].dequeueCount = MaxDequeueCount
  BY <1>2, <1>3
<1> QED BY <1>1, <1>3 DEF Exhausted

\* What the call of an undecided tuple does to the row and to its own frame.
LEMMA UndecidedCallStep ==
  ASSUME IInv, NEW w \in Workers, CallMoves(w), NEW t \in Tuples, t = frame[w].tuple,
         Undecided(t), raises'[t] = 0
  PROVE  /\ \/ table'[t] = table[t]
            \/ /\ table[t] = Proved!NoRow
               /\ table'[t] = Proved!Row(frame[w].id, "Processing")
         /\ frame'[w].pc \notin {"Commit", "Cleanup"}
         /\ frame'[w].pc = "ReadExisting" => table'[t] # Proved!NoRow
         /\ frame'[w].pc = "Returned" => ReservedByOther(t, frame[w].id)'
<1>1. /\ HasCall(w) /\ SameCall(w) /\ Proved!TypeOK /\ ~frame[w].lastAttempt
      /\ RowAsAdded(t) /\ CallsSkipOthers(t)
      /\ table \in [Tuples -> Proved!RowType \cup {Proved!NoRow}]
      /\ raises \in [Tuples -> Nat]
  BY CallMovesEffect, UndecidedNotLast DEF IInv, SkippedForOthers, Undecided, Proved!TypeOK
<1>2. CASE Proved!Reserve(w)
  <2>1. Proved!Row(frame[w].id, "Processing") # Proved!NoRow
    BY DEF Proved!Row, Proved!NoRow
  <2> QED BY <1>1, <1>2, <2>1, ReserveEffect
<1>3. CASE Proved!ReadExisting(w)
  <2>1. /\ UNCHANGED table
        /\ frame'[w].pc \in {"Raise", "Returned", "Thrown"}
        /\ frame'[w].pc = "Returned" => ~Resumes(w)
    BY <1>1, <1>3, ReadExistingEffect
  <2>2. /\ table[t] # Proved!NoRow
        /\ table[t].status = "Processing"
    BY <1>1, <1>3, ReadExistingEffect DEF CallsSkipOthers, RowAsAdded
  <2> QED BY <1>1, <2>1, <2>2 DEF Resumes, ReservedByOther, SameCall, Proved!NoRow
<1>4. CASE Proved!Raise(w)
  BY <1>1, <1>4, RaiseEffect DEF Undecided
<1>5. CASE Proved!Commit(w) \/ Proved!Cleanup(w)
  BY <1>1, <1>5, CommitEffect, CleanupEffect DEF CallsSkipOthers
<1>6. CASE Proved!Kill(w)
  BY <1>1, <1>6, KillEffect
<1> QED BY <1>2, <1>3, <1>4, <1>5, <1>6 DEF CallMoves, Proved!Step

LEMMA UndecidedCallMoves ==
  ASSUME IInv, NEW w \in Workers, CallMoves(w), UNCHANGED kind,
         NEW t \in Tuples, Undecided(t), raises'[t] = 0
  PROVE  RowAsAdded(t)' /\ CallsSkipOthers(t)' /\ ConsumedWereSkipped(t)'
<1>1. /\ RowAsAdded(t) /\ CallsSkipOthers(t) /\ ConsumedWereSkipped(t)
      /\ HasCall(w) /\ SameCall(w) /\ UNCHANGED <<queue, stage, job, attempt>>
  BY CallMovesEffect DEF IInv, SkippedForOthers
<1>2. CASE t # frame[w].tuple
  <2>1. table'[t] = table[t]
    BY <1>2, OtherTuples
  <2>2. \A v \in Workers : frame'[v].tuple = t => frame'[v] = frame[v]
    BY <1>1, <1>2 DEF SameCall
  <2>3. RowAsAdded(t)'
    BY <1>1, <2>1 DEF RowAsAdded, WorkflowMessages, Proved!NoRow
  <2>4. CallsSkipOthers(t)'
    BY <1>1, <2>1, <2>2 DEF CallsSkipOthers, HasCall, ReservedByOther, Proved!NoRow
  <2>5. ConsumedWereSkipped(t)'
    BY <1>1, <2>1 DEF ConsumedWereSkipped, WorkflowMessages, ReservedByOther, Proved!NoRow
  <2> QED BY <2>3, <2>4, <2>5
<1>3. CASE t = frame[w].tuple
  <2>1. /\ \/ table'[t] = table[t]
           \/ /\ table[t] = Proved!NoRow
              /\ table'[t] = Proved!Row(frame[w].id, "Processing")
        /\ frame'[w].pc \notin {"Commit", "Cleanup"}
        /\ frame'[w].pc = "ReadExisting" => table'[t] # Proved!NoRow
        /\ frame'[w].pc = "Returned" => ReservedByOther(t, frame[w].id)'
    BY <1>3, UndecidedCallStep
  <2>2. table[t] # Proved!NoRow => table'[t] = table[t]
    BY <2>1
  <2>3. RowAsAdded(t)'
    <3>1. job[w] \in WorkflowMessages(t) /\ frame[w].id = Id[job[w]]
      BY <1>1, <1>3 DEF IInv, CallsOK
    <3>2. Proved!Row(frame[w].id, "Processing").status = "Processing"
          /\ Proved!Row(frame[w].id, "Processing").id = frame[w].id
      BY DEF Proved!Row
    <3> QED
      BY <1>1, <2>1, <3>1, <3>2 DEF RowAsAdded, WorkflowMessages, Proved!NoRow
  <2>4. CallsSkipOthers(t)'
    <3> SUFFICES ASSUME NEW v \in Workers, HasCall(v)', frame'[v].tuple = t
                 PROVE  /\ frame'[v].pc \notin {"Commit", "Cleanup"}
                        /\ frame'[v].pc = "ReadExisting" => table'[t] # Proved!NoRow
                        /\ frame'[v].pc = "Returned" =>
                             ReservedByOther(t, frame[v].id)'
      BY DEF CallsSkipOthers, ReservedByOther, Proved!NoRow
    <3>1. CASE v = w
      BY <1>1, <2>1, <3>1
    <3>2. CASE v # w
      <4>1. frame'[v] = frame[v] /\ HasCall(v)
        BY <1>1, <3>2 DEF SameCall, HasCall
      <4>2. /\ frame[v].pc \notin {"Commit", "Cleanup"}
            /\ frame[v].pc = "ReadExisting" => table[t] # Proved!NoRow
            /\ frame[v].pc = "Returned" => ReservedByOther(t, frame[v].id)
        BY <1>1, <4>1 DEF CallsSkipOthers
      <4> QED BY <2>2, <4>1, <4>2 DEF ReservedByOther, Proved!NoRow
    <3> QED BY <3>1, <3>2
  <2>5. ConsumedWereSkipped(t)'
    BY <1>1, <2>2 DEF ConsumedWereSkipped, WorkflowMessages, ReservedByOther, Proved!NoRow
  <2> QED BY <2>3, <2>4, <2>5
<1> QED BY <1>2, <1>3

\* A step of a queue that has nothing to do with the processor consumes only
\* what has been processed.
LEMMA ConsumedFromSucceeded ==
  ASSUME IInv, Next, UNCHANGED processorVars, \A w \in Workers : ~CallMoves(w),
         \A w \in Workers : ~DispatchWorkflow(w) /\ ~ProcessEnds(w)
  PROVE  /\ \A w \in Workers :
              stage'[w] = "Succeeded" /\ kind[job'[w]] = "Workflow" =>
                stage[w] = "Succeeded" /\ job'[w] = job[w]
         /\ \A m \in Messages :
              queue'[m].place = "Deleted" =>
                \/ queue[m].place = "Deleted"
                \/ \E w \in Workers : stage[w] = "Succeeded" /\ job[w] = m
<1>1. HostOK /\ QueueTypeOK
  BY HostFacts DEF HostOK
<1> DEFINE Kept(v) == stage'[v] = "Succeeded" /\ kind[job'[v]] = "Workflow" =>
                        stage[v] = "Succeeded" /\ job'[v] = job[v]
           Due(m) == queue'[m].place = "Deleted" =>
                       \/ queue[m].place = "Deleted"
                       \/ \E w \in Workers : stage[w] = "Succeeded" /\ job[w] = m
<1>2. ASSUME NEW w \in Workers, Invocation(w) \/ KillInvocation(w)
      PROVE  (\A v \in Workers : Kept(v)) /\ (\A m \in Messages : Due(m))
  <2>1. ~Process(w)
    BY <1>2, SameSteps DEF Process, CallMoves
  <2>2. ASSUME NEW s \in Stages, SetStage(w, s), UNCHANGED queue,
               s = "Succeeded" => kind[job[w]] # "Workflow"
        PROVE  (\A v \in Workers : Kept(v)) /\ (\A m \in Messages : Due(m))
    BY <1>1, <2>2, SetStageEffect
  <2>3. CASE FailValidation(w) \/ DispatchOther(w) \/ StoreException(w)
    <3>1. \E s \in Stages : /\ SetStage(w, s)
                            /\ s = "Succeeded" => kind[job[w]] # "Workflow"
      BY <2>3 DEF FailValidation, DispatchOther, StoreException, FailInTry, Stages
    <3> QED BY <2>2, <2>3, <3>1 DEF FailValidation, DispatchOther, StoreException
  <2>4. CASE EndInvocation(w) /\ UNCHANGED queue
    BY <1>1, <2>4, EndInvocationEffect
  <2>5. CASE DeleteMessage(w)
    <3>1. stage[w] = "Succeeded" /\ job[w] \in Messages /\ EndInvocation(w)
      BY <1>1, <2>5, BusyHasJob DEF DeleteMessage, Release
    <3>2. UNCHANGED queue \/ Move(job[w], "Deleted")
      BY <2>5 DEF DeleteMessage, Release
    <3>3. \A m \in Messages \ {job[w]} : queue'[m] = queue[m]
      BY <1>1, <3>1, <3>2, MoveEffect DEF Places
    <3> QED BY <1>1, <3>1, <3>3, EndInvocationEffect
  <2>6. CASE RejectMessage(w)
    <3>1. job[w] \in Messages /\ EndInvocation(w)
      BY <1>1, <2>6, BusyHasJob DEF RejectMessage, Release
    <3>2. UNCHANGED queue \/ Move(job[w], "Poison") \/ Move(job[w], "Visible")
      BY <2>6 DEF RejectMessage, Release
    <3>3. \A m \in Messages : queue'[m] = queue[m] \/ queue'[m].place # "Deleted"
      BY <1>1, <3>1, <3>2, MoveEffect DEF Places
    <3> QED BY <1>1, <3>1, <3>3, EndInvocationEffect
  <2>7. CASE KillInvocation(w)
    <3>1. ~Processor!Kill(w) \/ stage[w] # "Processing" \/ ~UNCHANGED invocationVars
      BY <2>7, SameSteps DEF KillInvocation, CallMoves
    <3> QED BY <2>4, <2>7, <3>1 DEF KillInvocation
  <2> QED BY <1>2, <2>1, <2>3, <2>5, <2>6, <2>7 DEF Invocation
<1>3. ASSUME NEW n \in Messages, Host(n)
      PROVE  (\A v \in Workers : Kept(v)) /\ (\A m \in Messages : Due(m))
  <2>1. CASE \E w \in Workers : Dequeue(w, n)
    <3>1. PICK w \in Workers : Dequeue(w, n)
      BY <2>1
    <3>2. \A v \in Workers : Kept(v)
      BY <1>1, <3>1 DEF Dequeue, QueueTypeOK
    <3>3. \A m \in Messages : Due(m)
      BY <1>1, <3>1 DEF Dequeue, QueueTypeOK
    <3> QED BY <3>2, <3>3
  <2>2. CASE PoisonHandlerFails(n)
    <3>1. UNCHANGED <<stage, job>>
      BY <2>2 DEF PoisonHandlerFails, invocationVars
    <3>2. \A m \in Messages : Due(m)
      BY <1>1, <2>2 DEF PoisonHandlerFails, QueueTypeOK
    <3> QED BY <3>1, <3>2
  <2>3. CASE MoveToPoison(n) \/ LeaseExpires(n) \/ ReadPoison(n) \/ DrainPoison(n)
    <3>1. UNCHANGED <<stage, job>>
      BY <2>3 DEF MoveToPoison, LeaseExpires, ReadPoison, DrainPoison, invocationVars
    <3>2. PICK place \in Places \ {"Deleted"} : Move(n, place)
      BY <2>3 DEF MoveToPoison, LeaseExpires, ReadPoison, DrainPoison, Places
    <3>3. \A m \in Messages : queue'[m] = queue[m] \/ queue'[m].place # "Deleted"
      BY <1>1, <3>2, MoveEffect
    <3> QED BY <3>1, <3>3
  <2> QED BY <1>3, <2>1, <2>2, <2>3 DEF Host
<1> QED BY <1>2, <1>3 DEF Next

\* However the step comes about, only what met another's row is consumed.
LEMMA SkippedStep ==
  ASSUME IInv, Next PROVE SkippedForOthers'
<1>1. SUFFICES ASSUME NEW t \in Tuples, Undecided(t)'
               PROVE  RowAsAdded(t)' /\ CallsSkipOthers(t)' /\ ConsumedWereSkipped(t)'
  BY DEF SkippedForOthers
<1>2. /\ Undecided(t) /\ RowAsAdded(t) /\ CallsSkipOthers(t) /\ ConsumedWereSkipped(t)
      /\ raises'[t] = 0 /\ UNCHANGED kind
  BY <1>1, UndecidedBefore DEF Undecided, IInv, SkippedForOthers, Next
<1>3. CASE \E w \in Workers : CallMoves(w)
  BY <1>2, <1>3, UndecidedCallMoves
<1>4. ASSUME NEW w \in Workers, UNCHANGED <<table, queue>>,
             frame'[w].pc \in {"Reserve", "Idle"},
             \A v \in Workers \ {w} : frame'[v] = frame[v],
             \A v \in Workers :
               stage'[v] = "Succeeded" /\ job'[v] \in WorkflowMessages(t) =>
                 ReservedByOther(t, Id[job'[v]])
      PROVE  RowAsAdded(t)' /\ CallsSkipOthers(t)' /\ ConsumedWereSkipped(t)'
  <2>1. RowAsAdded(t)'
    BY <1>2, <1>4 DEF RowAsAdded, WorkflowMessages, Proved!NoRow
  <2>2. CallsSkipOthers(t)'
    BY <1>2, <1>4 DEF CallsSkipOthers, HasCall, ReservedByOther, Proved!NoRow
  <2>3. ConsumedWereSkipped(t)'
    BY <1>2, <1>4
       DEF ConsumedWereSkipped, WorkflowMessages, ReservedByOther, Proved!NoRow
  <2> QED BY <2>1, <2>2, <2>3
<1>5. CASE \E w \in Workers : DispatchWorkflow(w)
  <2>1. PICK w \in Workers : DispatchWorkflow(w)
    BY <1>5
  <2>2. /\ UNCHANGED <<queue, job>>
        /\ stage' = [stage EXCEPT ![w] = "Processing"]
    BY <2>1 DEF DispatchWorkflow, SetStage
  <2>3. \A v \in Workers : stage'[v] = "Succeeded" => stage[v] = "Succeeded"
    BY <2>2, HostFacts DEF HostOK, QueueTypeOK
  <2> QED
    BY <1>2, <1>4, <2>1, <2>2, <2>3, DispatchEffect DEF ConsumedWereSkipped
<1>6. CASE \E w \in Workers : ProcessEnds(w)
  <2>1. PICK w \in Workers : ProcessEnds(w)
    BY <1>6
  <2>2. QueueTypeOK /\ UNCHANGED queue
    BY <2>1, HostFacts DEF ProcessEnds, HostOK
  <2>3. /\ \A v \in Workers \ {w} : stage'[v] = stage[v] /\ job'[v] = job[v]
        /\ stage'[w] = "Succeeded" => frame[w].pc = "Returned" /\ job'[w] = job[w]
    BY <2>1, <2>2, SetStageEffect, EndInvocationEffect
       DEF ProcessEnds, FailInTry, Stages
  <2>4. ASSUME stage'[w] = "Succeeded", job'[w] \in WorkflowMessages(t)
        PROVE  ReservedByOther(t, Id[job'[w]])
    <3>1. HasCall(w) /\ job[w] \in WorkflowMessages(t) /\ frame[w].pc = "Returned"
      BY <2>3, <2>4 DEF HasCall
    <3>2. frame[w].tuple = t /\ frame[w].id = Id[job[w]]
      BY <3>1 DEF IInv, CallsOK, WorkflowMessages
    <3> QED BY <1>2, <2>3, <2>4, <3>1, <3>2 DEF CallsSkipOthers
  <2>5. \A v \in Workers :
          stage'[v] = "Succeeded" /\ job'[v] \in WorkflowMessages(t) =>
            ReservedByOther(t, Id[job'[v]])
    BY <1>2, <2>3, <2>4 DEF ConsumedWereSkipped
  <2> QED BY <1>4, <2>1, <2>2, <2>5, ProcessEndsEffect
<1>7. CASE /\ UNCHANGED processorVars
           /\ ~\E w \in Workers : CallMoves(w) \/ DispatchWorkflow(w) \/ ProcessEnds(w)
  <2>1. /\ \A w \in Workers :
             stage'[w] = "Succeeded" /\ kind[job'[w]] = "Workflow" =>
               stage[w] = "Succeeded" /\ job'[w] = job[w]
        /\ \A m \in Messages :
             queue'[m].place = "Deleted" =>
               \/ queue[m].place = "Deleted"
               \/ \E w \in Workers : stage[w] = "Succeeded" /\ job[w] = m
    BY <1>7, ConsumedFromSucceeded
  <2>2. UNCHANGED <<table, frame>>
    BY <1>7 DEF processorVars
  <2>3. RowAsAdded(t)' /\ CallsSkipOthers(t)'
    BY <1>2, <2>2
       DEF RowAsAdded, CallsSkipOthers, WorkflowMessages, HasCall, ReservedByOther,
           Proved!NoRow
  <2>4. ConsumedWereSkipped(t)'
    BY <1>2, <2>1, <2>2
       DEF ConsumedWereSkipped, WorkflowMessages, ReservedByOther, Proved!NoRow
  <2> QED BY <2>3, <2>4
<1> QED BY <1>3, <1>5, <1>6, <1>7, InvocationCases, HostLeavesProcessor DEF Next

-----------------------------------------------------------------------------
(* Exception details.                                                      *)

\* The message for which an invocation stores details keeps them from then on.
LEMMA StoredIsKept ==
  ASSUME IInv, NEW w \in Workers, StoreException(w), UNCHANGED kind, stalls = 0,
         NEW m \in Messages, m = job[w], NEW i \in Ids, i = Id[m]
  PROVE  Keeper(m, i)'
<1>1. HostOK /\ QueueTypeOK /\ m \in Messages /\ m # Nobody
  BY HostFacts, BusyHasJob DEF HostOK, StoreException
<1>2. kind[m] # "Malformed" /\ attempt[w] = MaxDequeueCount
  BY <1>1 DEF HostOK, JobsOK, StoreException, LastAttempt
<1>3. queue[m].dequeueCount = MaxDequeueCount
  <2>1. /\ attempt[w] <= queue[m].dequeueCount
        /\ queue[m].dequeueCount \in 0 .. HostMaxDequeueCount
    BY <1>1 DEF HostOK, JobsOK, QueueTypeOK
  <2> QED BY <1>2, <2>1
<1>4. holder[m] = w /\ queue[m].place = "Leased"
  BY <1>1 DEF HostOK, Exclusive, QueueTypeOK
<1>5. stage'[w] = "Failed" /\ UNCHANGED <<queue, job, readDetails>>
  BY <1>1 DEF StoreException, SetStage, QueueTypeOK
<1>6. \A v \in Workers : job[v] = m => v = w
  BY <1>1, <1>4 DEF HostOK, Exclusive
<1> QED BY <1>1, <1>2, <1>3, <1>4, <1>5, <1>6 DEF Keeper

\* Whatever an invocation does, a message that keeps details goes on to do so.
LEMMA KeptByInvocation ==
  ASSUME IInv, NEW w \in Workers, Invocation(w) \/ KillInvocation(w), UNCHANGED kind,
         NEW m \in Messages, NEW i \in Ids, Keeper(m, i)
  PROVE  Keeper(m, i)'
<1>1. HostOK /\ QueueTypeOK /\ m # Nobody
  BY HostFacts DEF HostOK
<1>2. /\ Id[m] = i /\ kind[m] # "Malformed"
      /\ queue[m].dequeueCount = MaxDequeueCount
      /\ \/ queue[m].place \in {"Visible", "Leased", "Poison", "LeftInPoison"}
         \/ queue[m].place = "Handling" /\ readDetails[m]
      /\ \A v \in Workers : job[v] = m => stage[v] \in {"StoringException", "Failed"}
  BY DEF Keeper
<1>3. UNCHANGED readDetails
  BY DEF Invocation, KillInvocation, FailValidation, DispatchWorkflow, DispatchOther,
         Process, ProcessEnds, StoreException, DeleteMessage, RejectMessage, Release,
         poisonVars
<1>4. \/ queue'[m] = queue[m]
      \/ /\ queue'[m].place \in {"Poison", "Visible"}
         /\ queue'[m].dequeueCount = queue[m].dequeueCount
  <2>1. CASE DeleteMessage(w)
    <3>1. job[w] \in Messages /\ job[w] # m
      BY <1>1, <1>2, <2>1, BusyHasJob DEF DeleteMessage
    <3>2. UNCHANGED queue \/ Move(job[w], "Deleted")
      BY <2>1 DEF DeleteMessage, Release
    <3> QED BY <1>1, <3>1, <3>2, MoveEffect DEF Places
  <2>2. CASE RejectMessage(w)
    <3>1. job[w] \in Messages
      BY <1>1, <2>2, BusyHasJob DEF RejectMessage
    <3>2. UNCHANGED queue \/ Move(job[w], "Poison") \/ Move(job[w], "Visible")
      BY <2>2 DEF RejectMessage, Release
    <3> QED BY <1>1, <3>1, <3>2, MoveEffect DEF Places
  <2>3. CASE UNCHANGED queue
    BY <2>3
  <2> QED
    BY <2>1, <2>2, <2>3
       DEF Invocation, KillInvocation, FailValidation, DispatchWorkflow, DispatchOther,
           Process, ProcessEnds, StoreException
<1>5. ASSUME NEW v \in Workers, job'[v] = m
      PROVE  stage'[v] \in {"StoringException", "Failed"}
  <2>1. CASE EndInvocation(w)
    BY <1>1, <1>2, <1>5, <2>1, EndInvocationEffect
  <2>2. ASSUME NEW s \in Stages, SetStage(w, s), stage[w] = "StoringException" => s = "Failed",
               stage[w] # "Failed"
        PROVE  stage'[v] \in {"StoringException", "Failed"}
    BY <1>1, <1>2, <1>5, <2>2, SetStageEffect
  <2>3. CASE UNCHANGED <<stage, job>>
    BY <1>2, <1>5, <2>3
  <2>4. CASE \/ FailValidation(w) \/ DispatchWorkflow(w) \/ DispatchOther(w)
             \/ StoreException(w) \/ ProcessEnds(w)
    <3>1. \/ EndInvocation(w)
          \/ \E s \in Stages : /\ SetStage(w, s) /\ stage[w] # "Failed"
                               /\ stage[w] = "StoringException" => s = "Failed"
      BY <2>4 DEF FailValidation, DispatchWorkflow, DispatchOther, StoreException,
                  ProcessEnds, FailInTry, Stages
    <3> QED BY <2>1, <2>2, <3>1
  <2> QED
    BY <2>1, <2>3, <2>4
       DEF Invocation, KillInvocation, Process, DeleteMessage, RejectMessage, Release,
           invocationVars
<1> QED BY <1>2, <1>3, <1>4, <1>5 DEF Keeper

\* Whatever the host does, it goes on to do so until the details are removed.
LEMMA KeptByHost ==
  ASSUME IInv, NEW n \in Messages, Host(n), UNCHANGED kind,
         NEW m \in Messages, NEW i \in exceptions, i \in exceptions', Keeper(m, i)
  PROVE  Keeper(m, i)'
<1>1. HostOK /\ QueueTypeOK /\ m # Nobody
  BY HostFacts DEF HostOK
<1>2. /\ Id[m] = i /\ kind[m] # "Malformed"
      /\ queue[m].dequeueCount = MaxDequeueCount
      /\ \/ queue[m].place \in {"Visible", "Leased", "Poison", "LeftInPoison"}
         \/ queue[m].place = "Handling" /\ readDetails[m]
      /\ \A v \in Workers : job[v] = m => stage[v] \in {"StoringException", "Failed"}
  BY DEF Keeper
<1>3. CASE \E w \in Workers : Dequeue(w, n)
  <2>1. PICK w \in Workers : Dequeue(w, n)
    BY <1>3
  <2>2. n # m /\ UNCHANGED readDetails
    BY <1>2, <2>1 DEF Dequeue, poisonVars
  <2>3. queue'[m] = queue[m]
    BY <1>1, <2>1, <2>2 DEF Dequeue, QueueTypeOK
  <2>4. \A v \in Workers : job'[v] = m => job[v] = m /\ stage'[v] = stage[v]
    BY <1>1, <2>1, <2>2 DEF Dequeue, QueueTypeOK
  <2> QED BY <1>2, <2>2, <2>3, <2>4 DEF Keeper
<1>4. ASSUME UNCHANGED <<stage, job>>,
             queue'[m].dequeueCount = queue[m].dequeueCount,
             \/ queue'[m].place \in {"Visible", "Leased", "Poison", "LeftInPoison"}
             \/ queue'[m].place = "Handling" /\ readDetails'[m]
      PROVE  Keeper(m, i)'
  BY <1>2, <1>4 DEF Keeper
<1>5. CASE MoveToPoison(n) \/ LeaseExpires(n)
  <2>1. \E place \in {"Poison", "Visible"} : Move(n, place)
    BY <1>5 DEF MoveToPoison, LeaseExpires
  <2>2. UNCHANGED <<stage, job, readDetails>>
    BY <1>5 DEF MoveToPoison, LeaseExpires, invocationVars, poisonVars
  <2>3. queue'[m].dequeueCount = queue[m].dequeueCount
        /\ (queue'[m].place = queue[m].place \/ queue'[m].place \in {"Poison", "Visible"})
    BY <1>1, <2>1, MoveEffect DEF Places
  <2> QED BY <1>2, <1>4, <2>2, <2>3
<1>6. CASE ReadPoison(n)
  <2>1. UNCHANGED <<stage, job>> /\ queue[n].place = "Poison"
    BY <1>6 DEF ReadPoison, invocationVars
  <2>2. CASE n = m
    <3>1. Move(m, "Handling") /\ readDetails' = [readDetails EXCEPT ![m] = Id[m] \in exceptions]
      BY <1>2, <1>6, <2>2 DEF ReadPoison
    <3>2. readDetails'[m]
      BY <1>1, <1>2, <3>1 DEF QueueTypeOK
    <3>3. queue'[m].dequeueCount = queue[m].dequeueCount /\ queue'[m].place = "Handling"
      BY <1>1, <3>1, MoveEffect DEF Places
    <3> QED BY <1>4, <2>1, <3>2, <3>3
  <2>3. CASE n # m
    <3>1. PICK place \in {"Drained", "Handling"} : Move(n, place)
      BY <1>6 DEF ReadPoison
    <3>2. queue'[m] = queue[m]
      BY <1>1, <2>3, <3>1, MoveEffect DEF Places
    <3>3. readDetails'[m] = readDetails[m]
      BY <1>1, <1>6, <2>3 DEF ReadPoison, QueueTypeOK
    <3> QED BY <1>2, <1>4, <2>1, <3>2, <3>3
  <2> QED BY <2>2, <2>3
<1>7. CASE DrainPoison(n)
  <2>1. UNCHANGED <<stage, job, readDetails>> /\ Move(n, "Drained")
    BY <1>7 DEF DrainPoison, invocationVars
  <2>2. n # m
    BY <1>2, <1>7 DEF DrainPoison
  <2>3. queue'[m] = queue[m]
    BY <1>1, <2>1, <2>2, MoveEffect DEF Places
  <2> QED BY <1>2, <1>4, <2>1, <2>3
<1>8. CASE PoisonHandlerFails(n)
  <2>1. UNCHANGED <<stage, job, readDetails>>
    BY <1>8 DEF PoisonHandlerFails, invocationVars
  <2>2. queue'[m].dequeueCount = queue[m].dequeueCount
        /\ (queue'[m].place = queue[m].place
              \/ queue'[m].place \in {"Poison", "LeftInPoison"})
    BY <1>1, <1>8 DEF PoisonHandlerFails, QueueTypeOK
  <2> QED BY <1>2, <1>4, <2>1, <2>2
<1> QED BY <1>3, <1>5, <1>6, <1>7, <1>8 DEF Host

LEMMA DetailsStep ==
  ASSUME IInv, Next PROVE DetailsKept'
<1>1. SUFFICES ASSUME stalls' = 0, NEW i \in exceptions'
               PROVE  \E m \in Messages : Keeper(m, i)'
  BY DEF DetailsKept
<1>2. stalls = 0 /\ UNCHANGED kind /\ exceptions \subseteq Ids
  BY <1>1, HistoryGrows, HostFacts DEF HostOK, QueueTypeOK
<1>3. CASE i \in exceptions
  <2>1. PICK m \in Messages : Keeper(m, i)
    BY <1>2, <1>3 DEF IInv, DetailsKept
  <2> QED BY <1>1, <1>2, <1>3, <2>1, KeptByInvocation, KeptByHost DEF Next
<1>4. CASE i \notin exceptions
  <2>1. \E w \in Workers : StoreException(w) /\ i = Id[job[w]]
    <3>1. ASSUME NEW w \in Workers, Invocation(w) \/ KillInvocation(w),
                 ~StoreException(w)
          PROVE  UNCHANGED exceptions
      BY <3>1 DEF Invocation, KillInvocation, FailValidation, DispatchWorkflow,
                  DispatchOther, Process, ProcessEnds, DeleteMessage, RejectMessage,
                  Release, poisonVars
    <3>2. ASSUME NEW n \in Messages, Host(n) PROVE exceptions' \subseteq exceptions
      BY <3>2 DEF Host, Dequeue, MoveToPoison, LeaseExpires, ReadPoison, DrainPoison,
                  PoisonHandlerFails, poisonVars
    <3> QED BY <1>1, <1>4, <3>1, <3>2 DEF Next, StoreException
  <2>2. PICK w \in Workers : StoreException(w) /\ i = Id[job[w]]
    BY <2>1
  <2>3. job[w] \in Messages
    BY <2>2, HostFacts, BusyHasJob DEF StoreException
  <2>4. PICK m \in Messages : m = job[w] /\ i = Id[m]
    BY <2>2, <2>3
  <2>5. i \in Ids
    BY <2>4
  <2>6. Keeper(m, i)'
    BY <1>2, <2>2, <2>4, <2>5, StoredIsKept
  <2> QED BY <2>6
<1> QED BY <1>3, <1>4

-----------------------------------------------------------------------------
(* The invariant and what follows from it.                                 *)

LEMMA InitInvariant == Init => IInv
<1> SUFFICES ASSUME Init PROVE IInv
  OBVIOUS
<1>1. Proved!Init /\ Proved!IInv
  BY SameState, Proved!InitInvariant DEF Init
<1>2. Proved!RaisesCounted
  BY <1>1, Proved!InitCounted
<1>3. \A w \in Workers : frame[w].pc = "Idle" /\ ~HasCall(w)
  BY <1>1 DEF Proved!Init, Proved!Idle, HasCall
<1>4. QueueTypeOK
  BY DEF Init, QueueTypeOK, Places, Stages
<1>5. TypeOK
  BY <1>1, <1>4, TypesOfBoth DEF Proved!IInv
<1>6. JobsOK /\ CallsOK /\ PoisonCounted /\ Exclusive /\ DetailsKept
  BY <1>3 DEF Init, JobsOK, CallsOK, PoisonCounted, Exclusive, DetailsKept, LastAttempt
<1>7. OneAtWork
  BY <1>1, <1>3 DEF OneAtWork, AtWork, Proved!Init
<1>8. SkippedForOthers
  BY <1>1, <1>3 DEF Init, SkippedForOthers, RowAsAdded, CallsSkipOthers,
                    ConsumedWereSkipped, WorkflowMessages, Proved!Init
<1> QED BY <1>1, <1>2, <1>5, <1>6, <1>7, <1>8 DEF IInv

LEMMA NextInvariant == IInv /\ [Next]_vars => IInv'
<1> SUFFICES ASSUME IInv, [Next]_vars PROVE IInv'
  OBVIOUS
<1>1. Proved!IInv' /\ Proved!RaisesCounted'
  BY ProcessorInvariant
<1>2. CASE Next
  <2>1. HostOK'
    BY <1>2, InvocationHostOK, HostStepHostOK, HostFacts DEF Next
  <2>2. TypeOK'
    BY <1>1, <2>1, TypesOfBothNext DEF HostOK, Proved!IInv
  <2> QED
    BY <1>1, <1>2, <2>1, <2>2, CallsStep, WorkStep, SkippedStep, DetailsStep
       DEF IInv, HostOK
<1>3. CASE UNCHANGED vars
  <2> USE <1>3 DEF vars, processorVars, invocationVars, poisonVars
  <2>1. QueueTypeOK'
    BY DEF IInv, TypeOK, QueueTypeOK, Places, Stages
  <2>2. TypeOK'
    BY <1>1, <2>1, TypesOfBothNext DEF Proved!IInv
  <2>3. JobsOK' /\ CallsOK' /\ PoisonCounted' /\ Exclusive'
    BY DEF IInv, JobsOK, CallsOK, PoisonCounted, Exclusive, HasCall, LastAttempt,
           WorkflowMessages
  <2>4. OneAtWork'
    BY DEF IInv, OneAtWork, Unshared, AtWork, WorkflowMessages
  <2>5. SkippedForOthers'
    BY DEF IInv, SkippedForOthers, Undecided, Exhausted, RowAsAdded, CallsSkipOthers,
           ConsumedWereSkipped, ReservedByOther, WorkflowMessages, HasCall, Proved!NoRow
  <2>6. DetailsKept'
    BY DEF IInv, DetailsKept, Keeper
  <2> QED BY <1>1, <2>2, <2>3, <2>4, <2>5, <2>6 DEF IInv
<1> QED BY <1>2, <1>3

THEOREM Invariant == Spec => []IInv
<1> QED BY InitInvariant, NextInvariant, PTL DEF Spec

\* Every variable of the queue keeps its type, no message is dequeued more often
\* than the host allows, and only a leased message has a holder.
THEOREM TypeCorrect == Spec => []TypeOK
<1>1. IInv => TypeOK
  BY DEF IInv
<1> QED BY <1>1, Invariant, PTL

\* When all messages of a tuple have been consumed as processed and its event was
\* never raised, one of them had used up its attempts: however many invocations
\* of the function skip, fail, stall or are killed, none is skipped for nothing.
THEOREM DedupeLosesNothing == Spec => []NoEventLostByDedupe
<1>1. IInv => NoEventLostByDedupe
  <2> SUFFICES ASSUME IInv, NEW t \in Tuples, WorkflowMessages(t) # {},
                      \A m \in WorkflowMessages(t) : queue[m].place = "Deleted",
                      raises[t] = 0, ~Exhausted(t)
               PROVE  FALSE
    BY DEF NoEventLostByDedupe, Exhausted
  <2>1. RowAsAdded(t) /\ ConsumedWereSkipped(t)
    BY DEF IInv, SkippedForOthers, Undecided
  <2>2. \A m \in WorkflowMessages(t) : ReservedByOther(t, Id[m])
    BY <2>1 DEF ConsumedWereSkipped
  <2>3. table[t] # Proved!NoRow
    BY <2>2 DEF ReservedByOther
  <2>4. PICK m \in WorkflowMessages(t) : Id[m] = table[t].id
    BY <2>1, <2>3 DEF RowAsAdded
  <2> QED BY <2>2, <2>4 DEF ReservedByOther
<1> QED BY <1>1, Invariant, PTL

\* No two invocations ever work on one reservation at the same time, unless a
\* lease ran out on an invocation at work or one body was queued twice.
THEOREM OverlapsNeedStalls == Spec => []NoOverlapWithoutStall
<1>1. IInv => NoOverlapWithoutStall
  <2> SUFFICES ASSUME IInv, NEW t \in Tuples, overlaps[t] > 0, ~(stalls > 0),
                      \A m, n \in WorkflowMessages(t) : m # n => Id[m] # Id[n]
               PROVE  FALSE
    BY DEF NoOverlapWithoutStall
  <2>1. stalls = 0
    BY DEF IInv, TypeOK
  <2>2. overlaps[t] = 0
    BY <2>1 DEF IInv, OneAtWork, Unshared
  <2> QED BY <2>2
<1> QED BY <1>1, Invariant, PTL

\* Stored exception details never outlive the messages they are for, unless an
\* invocation stored them after its lease had run out.
THEOREM DetailsHaveMessages == Spec => []NoOrphanedDetails
<1>1. IInv => NoOrphanedDetails
  <2> SUFFICES ASSUME IInv, NEW i \in exceptions, ~(stalls > 0)
               PROVE  \E m \in Messages : /\ Id[m] = i
                                          /\ queue[m].place \notin {"Deleted", "Drained"}
    BY DEF NoOrphanedDetails
  <2>1. stalls = 0
    BY DEF IInv, TypeOK
  <2>2. PICK m \in Messages : Keeper(m, i)
    BY <2>1 DEF IInv, DetailsKept
  <2> QED BY <2>2 DEF Keeper
<1> QED BY <1>1, Invariant, PTL

\* The queue drives the message processor as WorkflowMessageProcessor lets its
\* caller do, so that what is shown there of any caller holds of this one.
THEOREM ImplementsProcessorSafety ==
  Spec => Processor!Init /\ [][Processor!Next]_(Processor!vars)
<1>1. Init => Processor!Init
  BY DEF Init
<1>2. IInv /\ [Next]_vars => [Processor!Next]_(Processor!vars)
  <2> SUFFICES ASSUME IInv, [Next]_vars PROVE [Processor!Next]_(Processor!vars)
    OBVIOUS
  <2>1. Proved!Next => Processor!Next
    BY SameSteps DEF Proved!Next, Processor!Next
  <2>2. UNCHANGED Proved!vars => UNCHANGED Processor!vars
    BY DEF Proved!vars, Proved!storeVars, Proved!historyVars, Proved!raiseVars,
           Proved!causeVars, Processor!vars, Processor!storeVars,
           Processor!historyVars, Processor!raiseVars, Processor!causeVars
  <2> QED BY <2>1, <2>2, NextIsProcessorStep DEF ProcessorStep
<1> QED BY <1>1, <1>2, Invariant, PTL DEF Spec


\* So a queue whose messages are deduplicated raises a tuple's event under one
\* more id at most than clean-ups reopened it, raises it again for an interrupted
\* or an overlapping call only, and skips as completed none that was not raised.
THEOREM QueueKeepsGuarantees ==
  Spec => [](/\ Processor!CompletedMeansRaised
             /\ Processor!OneIdPerReservation
             /\ Processor!EachExtraRaiseHasACause)
<1>1. IInv => /\ Processor!CompletedMeansRaised
              /\ Processor!OneIdPerReservation
              /\ Processor!EachExtraRaiseHasACause
  <2> SUFFICES ASSUME IInv
               PROVE  /\ Processor!CompletedMeansRaised
                      /\ Processor!OneIdPerReservation
                      /\ Processor!EachExtraRaiseHasACause
    OBVIOUS
  <2>1. Proved!CompletedMeansRaised
    BY DEF IInv, Proved!IInv
  <2>2. Proved!OneIdPerReservation
    BY Proved!InvariantGivesOneId DEF IInv
  <2>3. Proved!EachExtraRaiseHasACause
    BY Proved!InvariantGivesCauses DEF IInv
  <2> QED
    BY <2>1, <2>2, <2>3
       DEF Processor!CompletedMeansRaised, Proved!CompletedMeansRaised,
           Processor!OneIdPerReservation, Proved!OneIdPerReservation,
           Processor!EachExtraRaiseHasACause, Proved!EachExtraRaiseHasACause,
           Processor!Cardinality, Proved!Cardinality
<1> QED BY <1>1, Invariant, PTL
=============================================================================
