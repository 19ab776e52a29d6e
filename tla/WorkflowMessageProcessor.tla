----------------------- MODULE WorkflowMessageProcessor -----------------------
(***************************************************************************)
(* GithubWorkflowQueueMessageProcessor: concurrent calls of ProcessAsync   *)
(* over one table of processing states. A call reserves the tuple          *)
(* (message type, instance, run, run attempt) of its message, raises the   *)
(* Durable event and marks the reservation completed. Every storage or     *)
(* Durable call can fail before or after it takes effect, and the process  *)
(* can be killed between any two of them.                                  *)
(*                                                                         *)
(* The caller is ExampleQueue; here it may call with any message at any    *)
(* time, on a last attempt or not (ExampleQueue.tla restricts it).         *)
(***************************************************************************)
EXTENDS Naturals, FiniteSets

CONSTANTS
  Workers,  \* invocations that can run at the same time
  Ids,      \* MessageBody.Id values
  Tuples,   \* row keys: message type, instance id, run id, run attempt
  MaxCalls  \* bound: calls of ProcessAsync

ASSUME ProcessorAssumption == MaxCalls \in Nat

VARIABLES
  frame,    \* the local variables of each invocation's call
  table,    \* the row of each tuple
  writes,   \* table writes so far; the next write's ETag
  calls,       \* history: calls so far
  raises,      \* history: events raised for a tuple
  raisedBy,    \* history: the message ids that raised them
  reservedBy,  \* history: the message ids that added a tuple's row
  cleanups,    \* history: removals of a tuple's row
  interrupted, \* history: calls that raised and did not mark completed
  overlaps     \* history: calls that resumed beside another call's work

storeVars   == <<table, writes>>
raiseVars   == <<raises, raisedBy>>
causeVars   == <<cleanups, interrupted, overlaps>>
historyVars == <<calls, raiseVars, reservedBy, causeVars>>
vars == <<frame, storeVars, historyVars>>

-----------------------------------------------------------------------------

\* RequestFailedException with status 409 on add; 0 is an entity's default ETag.
NoRow  == [status |-> "None"]
AnyTag == 0

Ended == {"Returned", "Thrown", "Killed"}

Steps == {"Reserve", "ReadExisting", "Raise", "Commit", "Cleanup"}

\* owned: processingState is not null; completed: its IsCompleted, in memory.
Idle == [pc |-> "Idle"]

Row(id, status) == [status |-> status, id |-> id, etag |-> writes + 1]

At(w, step) == frame[w].pc = step

Goto(w, step) == frame' = [frame EXCEPT ![w].pc = step]

\* catch (Exception) when (lastAttempt): clean up an unfinished reservation and
\* log inline; on an earlier attempt, or from the clean-up itself, the
\* exception goes to the caller.
Throw(w, owned, completed) ==
  Goto(w, IF ~frame[w].lastAttempt THEN "Thrown"
          ELSE IF owned /\ ~completed THEN "Cleanup" ELSE "Returned")

Write(t, row) ==
  /\ table' = [table EXCEPT ![t] = row]
  /\ writes' = writes + 1

-----------------------------------------------------------------------------

Init ==
  /\ frame = [w \in Workers |-> Idle]
  /\ table = [t \in Tuples |-> NoRow]
  /\ writes = AnyTag
  /\ calls = 0
  /\ raises = [t \in Tuples |-> 0]
  /\ raisedBy = [t \in Tuples |-> {}]
  /\ reservedBy = [t \in Tuples |-> {}]
  /\ cleanups = [t \in Tuples |-> 0]
  /\ interrupted = [t \in Tuples |-> 0]
  /\ overlaps = [t \in Tuples |-> 0]

\* The message has been parsed; one that cannot be never reaches the table.
Call(w, id, t, lastAttempt) ==
  /\ At(w, "Idle")
  /\ calls < MaxCalls
  /\ calls' = calls + 1
  /\ frame' = [frame EXCEPT ![w] =
                 [pc |-> "Reserve", id |-> id, tuple |-> t,
                  lastAttempt |-> lastAttempt, etag |-> AnyTag]]
  /\ UNCHANGED <<storeVars, raiseVars, reservedBy, causeVars>>

Dismiss(w) ==
  /\ frame[w].pc \in Ended
  /\ frame' = [frame EXCEPT ![w] = Idle]
  /\ UNCHANGED <<storeVars, historyVars>>

\* Defect: the row is added as completed before the event is raised.
ReserveAsCompleted(w) ==
  /\ At(w, "Reserve")
  /\ LET f == frame[w] IN
       \/ /\ table[f.tuple] = NoRow
          /\ Write(f.tuple, Row(f.id, "Completed"))
          /\ reservedBy' = [reservedBy EXCEPT ![f.tuple] = @ \cup {f.id}]
          /\ Goto(w, "Raise")
       \/ /\ table[f.tuple] # NoRow
          /\ Goto(w, "ReadExisting")
          /\ UNCHANGED <<storeVars, reservedBy>>
  /\ UNCHANGED <<calls, raiseVars, causeVars>>

\* AddEntityAsync. An add whose answer is lost is retried by the SDK or not.
Reserve(w) ==
  /\ At(w, "Reserve")
  /\ LET f == frame[w] IN
       \/ /\ table[f.tuple] = NoRow
          /\ Write(f.tuple, Row(f.id, "Processing"))
          /\ reservedBy' = [reservedBy EXCEPT ![f.tuple] = @ \cup {f.id}]
          /\ \/ Goto(w, "Raise")
             \/ Goto(w, "ReadExisting")
             \/ Throw(w, FALSE, FALSE)
       \/ /\ table[f.tuple] # NoRow
          /\ Goto(w, "ReadExisting")
          /\ UNCHANGED <<storeVars, reservedBy>>
       \/ /\ Throw(w, FALSE, FALSE)
          /\ UNCHANGED <<storeVars, reservedBy>>
  /\ UNCHANGED <<calls, raiseVars, causeVars>>

\* Another call is between its reservation and its end for the same tuple.
BusyElsewhere(w) ==
  \E v \in Workers \ {w} : /\ frame[v].pc \in {"Raise", "Commit", "Cleanup"}
                          /\ frame[v].tuple = frame[w].tuple

\* Defect: a completed reservation is resumed as well.
ReadExistingCompleted(w) ==
  /\ At(w, "ReadExisting")
  /\ LET f   == frame[w]
         row == table[f.tuple]
     IN IF row # NoRow /\ row.id = f.id
        THEN frame' = [frame EXCEPT ![w].pc = "Raise", ![w].etag = row.etag]
        ELSE Goto(w, "Returned")
  /\ UNCHANGED <<storeVars, historyVars>>

\* Defect: nothing is resumed, a retry of the same message included.
ReadExistingNeverResumes(w) ==
  /\ At(w, "ReadExisting")
  /\ Goto(w, "Returned")
  /\ UNCHANGED <<storeVars, historyVars>>

\* Defect: any message resumes an unfinished reservation, whoever made it.
ReadExistingOfOthers(w) ==
  /\ At(w, "ReadExisting")
  /\ LET t == frame[w].tuple IN
       IF table[t].status = "Processing"
       THEN /\ frame' = [frame EXCEPT ![w].pc = "Raise",
                                      ![w].etag = table[t].etag]
            /\ overlaps' = IF BusyElsewhere(w)
                           THEN [overlaps EXCEPT ![t] = @ + 1] ELSE overlaps
       ELSE Goto(w, "Returned") /\ UNCHANGED overlaps
  /\ UNCHANGED <<storeVars, calls, raiseVars, reservedBy, cleanups, interrupted>>

\* Only the message that holds an unfinished reservation resumes it; anything
\* else, a row that has just been removed included, is skipped.
ReadExisting(w) ==
  /\ At(w, "ReadExisting")
  /\ LET f      == frame[w]
         row    == table[f.tuple]
         resume == row.status = "Processing" /\ row.id = f.id
     IN \/ /\ resume
           /\ frame' = [frame EXCEPT ![w].pc = "Raise", ![w].etag = row.etag]
           /\ overlaps' = IF BusyElsewhere(w)
                          THEN [overlaps EXCEPT ![f.tuple] = @ + 1]
                          ELSE overlaps
        \/ /\ ~resume
           /\ Goto(w, "Returned")
           /\ UNCHANGED overlaps
        \/ /\ Throw(w, FALSE, FALSE)
           /\ UNCHANGED overlaps
  /\ UNCHANGED <<storeVars, calls, raiseVars, reservedBy, cleanups, interrupted>>

Interrupt(t) == interrupted' = [interrupted EXCEPT ![t] = @ + 1]

\* RaiseEventAsync.
Raise(w) ==
  /\ At(w, "Raise")
  /\ LET t == frame[w].tuple IN
       \/ /\ raises' = [raises EXCEPT ![t] = @ + 1]
          /\ raisedBy' = [raisedBy EXCEPT ![t] = @ \cup {frame[w].id}]
          /\ \/ Goto(w, "Commit") /\ UNCHANGED interrupted
             \/ Throw(w, TRUE, FALSE) /\ Interrupt(t)
       \/ /\ Throw(w, TRUE, FALSE)
          /\ UNCHANGED <<raiseVars, interrupted>>
  /\ UNCHANGED <<storeVars, calls, reservedBy, cleanups, overlaps>>

\* Defect: the row that is written back no longer names its message.
CommitLosesId(w) ==
  /\ At(w, "Commit")
  /\ Write(frame[w].tuple, [status |-> "Completed", etag |-> writes + 1])
  /\ Goto(w, "Returned")
  /\ UNCHANGED historyVars

\* MarkCompleted, then an unconditional UpsertEntityAsync.
Commit(w) ==
  /\ At(w, "Commit")
  /\ LET t == frame[w].tuple IN
       \/ /\ Write(t, Row(frame[w].id, "Completed"))
          /\ Goto(w, "Returned") \/ Throw(w, TRUE, TRUE)
          /\ UNCHANGED interrupted
       \/ /\ Throw(w, TRUE, TRUE)
          /\ Interrupt(t)
          /\ UNCHANGED storeVars
  /\ UNCHANGED <<calls, raiseVars, reservedBy, cleanups, overlaps>>

\* DeleteEntityAsync: under any ETag for a reservation of this call, under the
\* ETag that was read for a resumed one. Only a missing row is tolerated.
Cleanup(w) ==
  /\ At(w, "Cleanup")
  /\ LET f     == frame[w]
         row   == table[f.tuple]
         match == row # NoRow /\ (f.etag = AnyTag \/ f.etag = row.etag)
     IN \/ /\ match
           /\ table' = [table EXCEPT ![f.tuple] = NoRow]
           /\ cleanups' = [cleanups EXCEPT ![f.tuple] = @ + 1]
           /\ Goto(w, "Returned") \/ Goto(w, "Thrown")
        \/ /\ row = NoRow
           /\ Goto(w, "Returned")
           /\ UNCHANGED <<table, cleanups>>
        \/ /\ Goto(w, "Thrown")
           /\ UNCHANGED <<table, cleanups>>
  /\ UNCHANGED <<writes, calls, raiseVars, reservedBy, interrupted, overlaps>>

Kill(w) ==
  /\ frame[w].pc \in Steps
  /\ Goto(w, "Killed")
  /\ IF At(w, "Commit") THEN Interrupt(frame[w].tuple) ELSE UNCHANGED interrupted
  /\ UNCHANGED <<storeVars, calls, raiseVars, reservedBy, cleanups, overlaps>>

Step(w) == Reserve(w) \/ ReadExisting(w) \/ Raise(w) \/ Commit(w) \/ Cleanup(w)

Next ==
  \E w \in Workers :
    \/ \E id \in Ids, t \in Tuples, lastAttempt \in BOOLEAN :
         Call(w, id, t, lastAttempt)
    \/ Step(w)
    \/ Kill(w)
    \/ Dismiss(w)

(* A call that is not killed goes on: the calls it awaits return or throw. *)
Spec == Init /\ [][Next]_vars /\ \A w \in Workers : WF_vars(Step(w) \/ Kill(w))

-----------------------------------------------------------------------------
(* Properties.                                                             *)

Frame == [pc : Steps \cup Ended, id : Ids, tuple : Tuples,
          lastAttempt : BOOLEAN, etag : Nat]

RowType == [status : {"Processing", "Completed"}, id : Ids, etag : Nat]

\* Every variable keeps its type, and no ETag is newer than the last write.
TypeOK ==
  /\ frame \in [Workers -> Frame \cup {Idle}]
  /\ table \in [Tuples -> RowType \cup {NoRow}]
  /\ writes \in Nat
  /\ calls \in Nat
  /\ raises \in [Tuples -> Nat]
  /\ raisedBy \in [Tuples -> SUBSET Ids]
  /\ reservedBy \in [Tuples -> SUBSET Ids]
  /\ cleanups \in [Tuples -> Nat]
  /\ interrupted \in [Tuples -> Nat]
  /\ overlaps \in [Tuples -> Nat]
  /\ \A t \in Tuples : table[t] # NoRow => table[t].etag <= writes

\* Messages that carry the same tuple under different ids never both raise its
\* event, unless a final attempt's clean-up has opened the tuple again: each
\* clean-up lets in at most one more id.
OneIdPerReservation ==
  \A t \in Tuples :
    /\ raisedBy[t] \subseteq reservedBy[t]
    /\ Cardinality(reservedBy[t]) <= 1 + cleanups[t]

\* A row marked completed never stands for an event that was not raised, so
\* skipping on it loses nothing.
CompletedMeansRaised ==
  \A t \in Tuples : table[t].status = "Completed" => raises[t] > 0

\* An event is raised once, and once more for each call that was interrupted
\* between raising and marking, or that resumed a reservation beside a call
\* still at work on it; nothing else repeats it.
EachExtraRaiseHasACause ==
  \A t \in Tuples : raises[t] <= 1 + interrupted[t] + overlaps[t]

\* docs/workflow-orchestration-setup.md: "Repeated deliveries with the same
\* tuple do not create duplicate Durable side effects."
NoDuplicateSideEffects == \A t \in Tuples : raises[t] <= 1

\* docs/workflow-orchestration-setup.md: "On the final attempt, workflow-message
\* failures are logged inline after dedupe-state cleanup rather than being moved
\* to default-queue-poison", so no exception leaves ProcessAsync then.
LastAttemptHandledInline ==
  \A w \in Workers : frame[w].pc = "Thrown" => ~frame[w].lastAttempt

=============================================================================
