-------------------- MODULE WorkflowMessageProcessorProofs ---------------------
(***************************************************************************)
(* Proofs about WorkflowMessageProcessor for any set of invocations,       *)
(* message ids and tuples and any number of calls.                         *)
(***************************************************************************)
EXTENDS WorkflowMessageProcessor, FiniteSetTheorems, TLAPS

-----------------------------------------------------------------------------
(* The inductive invariant. A call past its reservation works under an id  *)
(* that has reserved the tuple, and a call that is about to mark it        *)
(* completed has raised its event; a row inherits both facts.              *)

WorkingCallsReserved ==
  \A w \in Workers :
    /\ frame[w].pc \in {"Raise", "Commit", "Cleanup"} =>
         frame[w].id \in reservedBy[frame[w].tuple]
    /\ frame[w].pc = "Commit" => raises[frame[w].tuple] > 0

RowsReserved ==
  \A t \in Tuples : table[t] # NoRow => table[t].id \in reservedBy[t]

\* A row stands for the one id that the clean-ups do not account for.
ReservationsCounted ==
  \A t \in Tuples :
    /\ raisedBy[t] \subseteq reservedBy[t]
    /\ IsFiniteSet(reservedBy[t])
    /\ Cardinality(reservedBy[t]) <= cleanups[t] + (IF table[t] = NoRow THEN 0 ELSE 1)

IInv ==
  /\ TypeOK
  /\ WorkingCallsReserved
  /\ RowsReserved
  /\ ReservationsCounted
  /\ CompletedMeansRaised

-----------------------------------------------------------------------------

\* A call's frame is complete; the idle one has a program counter only.
LEMMA FrameOfCall ==
  ASSUME TypeOK, NEW w \in Workers, frame[w].pc # "Idle"
  PROVE  frame[w] \in Frame
  BY DEF TypeOK, Idle

\* Moving to another step changes the program counter and nothing else.
LEMMA GotoFrame ==
  ASSUME TypeOK, NEW w \in Workers, frame[w].pc # "Idle",
         NEW s \in Steps \cup Ended, Goto(w, s)
  PROVE  /\ frame' \in [Workers -> Frame \cup {Idle}]
         /\ frame'[w].pc = s
         /\ frame'[w].id = frame[w].id
         /\ frame'[w].tuple = frame[w].tuple
         /\ \A v \in Workers \ {w} : frame'[v] = frame[v]
<1>1. frame[w] \in Frame
  BY FrameOfCall
<1>2. [frame[w] EXCEPT !.pc = s] \in Frame
  BY <1>1 DEF Frame
<1>3. frame' = [frame EXCEPT ![w] = [frame[w] EXCEPT !.pc = s]]
  BY DEF Goto
<1> QED BY <1>1, <1>2, <1>3 DEF TypeOK, Frame

\* A thrown exception leads to the end of the call, or to the clean-up of a
\* reservation the call owns.
LEMMA ThrowFrame ==
  ASSUME TypeOK, NEW w \in Workers, frame[w].pc # "Idle",
         NEW owned \in BOOLEAN, NEW completed \in BOOLEAN,
         Throw(w, owned, completed)
  PROVE  /\ frame' \in [Workers -> Frame \cup {Idle}]
         /\ frame'[w].pc \in {"Thrown", "Returned", "Cleanup"}
         /\ frame'[w].pc = "Cleanup" => owned
         /\ frame'[w].id = frame[w].id
         /\ frame'[w].tuple = frame[w].tuple
         /\ \A v \in Workers \ {w} : frame'[v] = frame[v]
<1>1. PICK s \in {"Thrown", "Returned", "Cleanup"} :
        Goto(w, s) /\ (s = "Cleanup" => owned)
  BY DEF Throw
<1> QED BY <1>1, GotoFrame DEF Steps, Ended

\* A written row takes the next ETag, and the other rows stay.
LEMMA WriteTable ==
  ASSUME TypeOK, NEW t \in Tuples, NEW id \in Ids,
         NEW status \in {"Processing", "Completed"}, Write(t, Row(id, status))
  PROVE  /\ table' \in [Tuples -> RowType \cup {NoRow}]
         /\ writes' \in Nat
         /\ \A u \in Tuples : table'[u] # NoRow => table'[u].etag <= writes'
         /\ table'[t] = Row(id, status) /\ table'[t] # NoRow
         /\ \A u \in Tuples \ {t} : table'[u] = table[u]
<1> DEFINE row == Row(id, status)
<1>1. row \in RowType /\ row.etag = writes + 1 /\ row.id = id /\ row # NoRow
  BY DEF Row, RowType, TypeOK, NoRow
<1>2. table' = [table EXCEPT ![t] = row] /\ writes' = writes + 1
  BY DEF Write
<1> HIDE DEF row
<1>3. /\ table' \in [Tuples -> RowType \cup {NoRow}]
      /\ table'[t] = row
      /\ \A u \in Tuples \ {t} : table'[u] = table[u]
  BY <1>1, <1>2 DEF TypeOK
<1>4. ASSUME NEW u \in Tuples, table'[u] # NoRow
      PROVE  table'[u].etag <= writes'
  <2>1. CASE u = t BY <2>1, <1>1, <1>2, <1>3 DEF TypeOK
  <2>2. CASE u # t
    <3>1. table[u] \in RowType /\ table[u].etag <= writes /\ table'[u] = table[u]
      BY <2>2, <1>3, <1>4 DEF TypeOK
    <3>2. table[u].etag \in Nat
      BY <3>1 DEF RowType
    <3> QED BY <3>1, <3>2, <1>2 DEF TypeOK
  <2> QED BY <2>1, <2>2
<1> QED BY <1>1, <1>2, <1>3, <1>4 DEF TypeOK, row

\* The initial state satisfies the invariant.
LEMMA InitInvariant == Init => IInv
<1> SUFFICES ASSUME Init PROVE IInv
  OBVIOUS
<1>1. TypeOK
  BY DEF Init, TypeOK, AnyTag, NoRow, Idle
<1>2. WorkingCallsReserved /\ RowsReserved /\ CompletedMeansRaised
  BY DEF Init, WorkingCallsReserved, RowsReserved, CompletedMeansRaised, Idle, NoRow
<1>3. ReservationsCounted
  BY FS_EmptySet DEF Init, ReservationsCounted
<1> QED BY <1>1, <1>2, <1>3 DEF IInv

-----------------------------------------------------------------------------
(* Every step preserves the invariant.                                     *)

\* A new call starts without a reservation.
LEMMA CallInvariant ==
  ASSUME IInv, NEW w \in Workers, NEW id \in Ids, NEW t \in Tuples,
         NEW lastAttempt \in BOOLEAN, Call(w, id, t, lastAttempt)
  PROVE  IInv'
<1> DEFINE f == [pc |-> "Reserve", id |-> id, tuple |-> t,
                 lastAttempt |-> lastAttempt, etag |-> AnyTag]
<1>1. f \in Frame
  BY DEF Frame, Steps, AnyTag
<1>2. frame' = [frame EXCEPT ![w] = f] /\ f.pc = "Reserve"
  BY DEF Call
<1> HIDE DEF f
<1>3. TypeOK'
  BY <1>1, <1>2 DEF IInv, TypeOK, Call, storeVars, raiseVars, causeVars
<1>4. \A v \in Workers : frame'[v] = IF v = w THEN f ELSE frame[v]
  BY <1>2 DEF IInv, TypeOK
<1>5. WorkingCallsReserved'
  BY <1>2, <1>4 DEF IInv, WorkingCallsReserved, Call, storeVars, raiseVars
<1>6. RowsReserved' /\ ReservationsCounted' /\ CompletedMeansRaised'
  BY DEF IInv, RowsReserved, ReservationsCounted, CompletedMeansRaised, Call,
         storeVars, raiseVars, causeVars
<1> QED BY <1>3, <1>5, <1>6 DEF IInv

\* An ended call leaves nothing behind but its rows.
LEMMA DismissInvariant ==
  ASSUME IInv, NEW w \in Workers, Dismiss(w)
  PROVE  IInv'
<1>1. TypeOK'
  BY DEF IInv, TypeOK, Dismiss, storeVars, historyVars, raiseVars, causeVars
<1>2. WorkingCallsReserved'
  BY DEF IInv, TypeOK, WorkingCallsReserved, Dismiss, Idle, storeVars,
         historyVars, raiseVars, causeVars
<1>3. RowsReserved' /\ ReservationsCounted' /\ CompletedMeansRaised'
  BY DEF IInv, RowsReserved, ReservationsCounted, CompletedMeansRaised, Dismiss,
         storeVars, historyVars, raiseVars, causeVars
<1> QED BY <1>1, <1>2, <1>3 DEF IInv

\* The one step that adds an id to those that have reserved a tuple finds no
\* row there, so that the count of rows and clean-ups makes room for it.
LEMMA ReserveInvariant ==
  ASSUME IInv, NEW w \in Workers, Reserve(w)
  PROVE  IInv'
<1> DEFINE t == frame[w].tuple
           id == frame[w].id
<1>1. frame[w] \in Frame /\ frame[w].pc = "Reserve"
  BY FrameOfCall DEF IInv, Reserve, At
<1>2. t \in Tuples /\ id \in Ids
  BY <1>1 DEF Frame
<1>3. /\ frame' \in [Workers -> Frame \cup {Idle}]
      /\ frame'[w].pc \in {"Raise", "ReadExisting", "Thrown", "Returned"}
      /\ frame'[w].id = id /\ frame'[w].tuple = t
      /\ \A v \in Workers \ {w} : frame'[v] = frame[v]
  BY <1>1, GotoFrame, ThrowFrame DEF IInv, Reserve, Steps, Ended
<1>4. CASE /\ table[t] = NoRow
           /\ Write(t, Row(id, "Processing"))
           /\ reservedBy' = [reservedBy EXCEPT ![t] = @ \cup {id}]
  <2>1. /\ table' \in [Tuples -> RowType \cup {NoRow}]
        /\ writes' \in Nat
        /\ \A u \in Tuples : table'[u] # NoRow => table'[u].etag <= writes'
        /\ table'[t] = Row(id, "Processing") /\ table'[t] # NoRow
        /\ \A u \in Tuples \ {t} : table'[u] = table[u]
    BY <1>2, <1>4, WriteTable DEF IInv
  <2>2. /\ reservedBy' \in [Tuples -> SUBSET Ids]
        /\ reservedBy'[t] = reservedBy[t] \cup {id}
        /\ \A u \in Tuples \ {t} : reservedBy'[u] = reservedBy[u]
    BY <1>2, <1>4 DEF IInv, TypeOK
  <2>3. UNCHANGED <<calls, raises, raisedBy, cleanups, interrupted, overlaps>>
    BY DEF Reserve, raiseVars, causeVars
  <2>4. TypeOK'
    BY <1>3, <2>1, <2>2, <2>3 DEF IInv, TypeOK
  <2>5. WorkingCallsReserved'
    <3> SUFFICES ASSUME NEW v \in Workers,
                        frame'[v].pc \in {"Raise", "Commit", "Cleanup"}
                 PROVE  /\ frame'[v].id \in reservedBy'[frame'[v].tuple]
                        /\ frame'[v].pc = "Commit" => raises'[frame'[v].tuple] > 0
      BY DEF WorkingCallsReserved
    <3>1. CASE v = w BY <3>1, <1>3, <2>2
    <3>2. CASE v # w
      <4>1. frame'[v] = frame[v] /\ frame[v].tuple \in Tuples
        BY <3>2, <1>3, FrameOfCall DEF IInv, Frame
      <4>2. reservedBy[frame[v].tuple] \subseteq reservedBy'[frame[v].tuple]
        BY <4>1, <2>2, <1>2
      <4> QED BY <4>1, <4>2, <2>3 DEF IInv, WorkingCallsReserved
    <3> QED BY <3>1, <3>2
  <2>6. table'[t].id = id /\ table'[t].status = "Processing"
    BY <2>1 DEF Row
  <2>7. RowsReserved' /\ CompletedMeansRaised'
    BY <1>2, <2>1, <2>2, <2>3, <2>6 DEF IInv, RowsReserved, CompletedMeansRaised
  <2>8. ReservationsCounted'
    <3> SUFFICES ASSUME NEW u \in Tuples
                 PROVE  /\ raisedBy'[u] \subseteq reservedBy'[u]
                        /\ IsFiniteSet(reservedBy'[u])
                        /\ Cardinality(reservedBy'[u])
                             <= cleanups'[u] + (IF table'[u] = NoRow THEN 0 ELSE 1)
      BY DEF ReservationsCounted
    <3>1. CASE u # t
      BY <3>1, <2>1, <2>2, <2>3 DEF IInv, ReservationsCounted
    <3>2. CASE u = t
      <4>1. /\ raisedBy[t] \subseteq reservedBy[t]
            /\ IsFiniteSet(reservedBy[t])
            /\ Cardinality(reservedBy[t]) <= cleanups[t]
            /\ cleanups[t] \in Nat
        BY <1>2, <1>4 DEF IInv, ReservationsCounted, TypeOK
      <4>2. /\ IsFiniteSet(reservedBy[t] \cup {id})
            /\ Cardinality(reservedBy[t] \cup {id})
                 \in {Cardinality(reservedBy[t]), Cardinality(reservedBy[t]) + 1}
        BY <4>1, FS_AddElement
      <4>3. Cardinality(reservedBy[t]) \in Nat
        BY <4>1, FS_CardinalityType
      <4>4. Cardinality(reservedBy[t] \cup {id}) <= cleanups[t] + 1
        BY <4>1, <4>2, <4>3
      <4> QED BY <3>2, <4>1, <4>2, <4>4, <2>1, <2>2, <2>3
    <3> QED BY <3>1, <3>2
  <2> QED BY <2>4, <2>5, <2>7, <2>8 DEF IInv
<1>5. CASE UNCHANGED <<storeVars, reservedBy>> /\ frame'[w].pc # "Raise"
  <2>1. UNCHANGED <<table, writes, reservedBy, calls, raises, raisedBy, cleanups,
                    interrupted, overlaps>>
    BY <1>5 DEF Reserve, raiseVars, causeVars, storeVars
  <2>2. TypeOK'
    BY <1>3, <2>1 DEF IInv, TypeOK
  <2>3. WorkingCallsReserved'
    BY <1>3, <1>5, <2>1 DEF IInv, WorkingCallsReserved
  <2>4. RowsReserved' /\ ReservationsCounted' /\ CompletedMeansRaised'
    BY <2>1 DEF IInv, RowsReserved, ReservationsCounted, CompletedMeansRaised
  <2> QED BY <2>2, <2>3, <2>4 DEF IInv
<1>6. \/ /\ table[t] = NoRow
         /\ Write(t, Row(id, "Processing"))
         /\ reservedBy' = [reservedBy EXCEPT ![t] = @ \cup {id}]
      \/ UNCHANGED <<storeVars, reservedBy>> /\ frame'[w].pc # "Raise"
  <2>1. ASSUME Throw(w, FALSE, FALSE) \/ Goto(w, "ReadExisting")
        PROVE  frame'[w].pc # "Raise"
    BY <2>1, <1>1, GotoFrame, ThrowFrame DEF IInv, Steps, Ended
  <2> QED BY <2>1 DEF Reserve
<1> QED BY <1>4, <1>5, <1>6

\* A resumed call works under its own id, which the row had from its reservation.
LEMMA ReadExistingInvariant ==
  ASSUME IInv, NEW w \in Workers, ReadExisting(w)
  PROVE  IInv'
<1> DEFINE t == frame[w].tuple
<1>1. frame[w] \in Frame /\ frame[w].pc = "ReadExisting"
  BY FrameOfCall DEF IInv, ReadExisting, At
<1>2. t \in Tuples /\ table[t] \in RowType \cup {NoRow}
  BY <1>1 DEF Frame, IInv, TypeOK
<1>3. /\ overlaps' \in [Tuples -> Nat]
      /\ UNCHANGED <<table, writes, reservedBy, calls, raises, raisedBy, cleanups,
                     interrupted>>
  <2>1. \/ overlaps' = [overlaps EXCEPT ![t] = @ + 1]
        \/ overlaps' = overlaps
    BY DEF ReadExisting
  <2>2. overlaps' \in [Tuples -> Nat]
    BY <2>1, <1>2 DEF IInv, TypeOK
  <2> QED BY <2>2 DEF ReadExisting, storeVars, raiseVars
<1>4. /\ frame' \in [Workers -> Frame \cup {Idle}]
      /\ \A v \in Workers \ {w} : frame'[v] = frame[v]
      /\ frame'[w].pc \in {"Raise", "Thrown", "Returned"}
      /\ frame'[w].pc = "Raise" => frame'[w].id \in reservedBy[frame'[w].tuple]
  <2>1. CASE /\ table[t].status = "Processing" /\ table[t].id = frame[w].id
             /\ frame' = [frame EXCEPT ![w].pc = "Raise", ![w].etag = table[t].etag]
    <3>1. table[t] # NoRow
      BY <2>1 DEF NoRow
    <3>2. table[t].etag \in Nat /\ frame[w].id \in reservedBy[t]
      BY <3>1, <1>2, <2>1 DEF RowType, IInv, RowsReserved
    <3>3. [frame[w] EXCEPT !.pc = "Raise", !.etag = table[t].etag] \in Frame
      BY <1>1, <3>2 DEF Frame, Steps
    <3>4. frame' = [frame EXCEPT ![w] =
                      [frame[w] EXCEPT !.pc = "Raise", !.etag = table[t].etag]]
      BY <2>1
    <3> QED BY <1>1, <3>2, <3>3, <3>4 DEF IInv, TypeOK, Frame
  <2>2. CASE Goto(w, "Returned")
    BY <2>2, <1>1, GotoFrame DEF IInv, Steps, Ended
  <2>3. CASE Throw(w, FALSE, FALSE)
    BY <2>3, <1>1, ThrowFrame DEF IInv
  <2> QED BY <2>1, <2>2, <2>3 DEF ReadExisting
<1>5. TypeOK'
  BY <1>3, <1>4 DEF IInv, TypeOK
<1>6. WorkingCallsReserved'
  BY <1>3, <1>4 DEF IInv, WorkingCallsReserved
<1>7. RowsReserved' /\ ReservationsCounted' /\ CompletedMeansRaised'
  BY <1>3 DEF IInv, RowsReserved, ReservationsCounted, CompletedMeansRaised
<1> QED BY <1>5, <1>6, <1>7 DEF IInv

\* An event is raised for an id that has reserved the tuple.
LEMMA RaiseInvariant ==
  ASSUME IInv, NEW w \in Workers, Raise(w)
  PROVE  IInv'
<1> DEFINE t == frame[w].tuple
           id == frame[w].id
<1>1. frame[w] \in Frame /\ frame[w].pc = "Raise"
  BY FrameOfCall DEF IInv, Raise, At
<1>2. t \in Tuples /\ id \in Ids /\ id \in reservedBy[t]
  BY <1>1 DEF Frame, IInv, WorkingCallsReserved
<1>3. UNCHANGED <<table, writes, calls, reservedBy, cleanups, overlaps>>
  BY DEF Raise, storeVars
<1>4. /\ frame' \in [Workers -> Frame \cup {Idle}]
      /\ \A v \in Workers \ {w} : frame'[v] = frame[v]
      /\ frame'[w].id = id /\ frame'[w].tuple = t
  BY <1>1, GotoFrame, ThrowFrame DEF IInv, Raise, Steps, Ended
<1>5. /\ raises' \in [Tuples -> Nat]
      /\ \A u \in Tuples : raises'[u] >= raises[u]
  <2>1. raises' = [raises EXCEPT ![t] = @ + 1] \/ raises' = raises
    BY DEF Raise, raiseVars
  <2> QED BY <2>1, <1>2 DEF IInv, TypeOK
<1>6. /\ raisedBy' \in [Tuples -> SUBSET Ids]
      /\ \A u \in Tuples : raisedBy'[u] \subseteq reservedBy[u]
  <2>1. raisedBy' = [raisedBy EXCEPT ![t] = @ \cup {id}] \/ raisedBy' = raisedBy
    BY DEF Raise, raiseVars
  <2> QED BY <2>1, <1>2 DEF IInv, TypeOK, ReservationsCounted
<1>7. interrupted' \in [Tuples -> Nat]
  <2>1. interrupted' = [interrupted EXCEPT ![t] = @ + 1]
        \/ interrupted' = interrupted
    BY DEF Raise, Interrupt
  <2> QED BY <2>1, <1>2 DEF IInv, TypeOK
<1>8. frame'[w].pc = "Commit" => raises'[t] > 0
  <2>1. CASE raises' = [raises EXCEPT ![t] = @ + 1]
    BY <2>1, <1>2 DEF IInv, TypeOK
  <2>2. CASE Throw(w, TRUE, FALSE)
    BY <2>2, <1>1, ThrowFrame DEF IInv
  <2> QED BY <2>1, <2>2 DEF Raise
<1>9. TypeOK'
  BY <1>3, <1>4, <1>5, <1>6, <1>7 DEF IInv, TypeOK
<1>10. WorkingCallsReserved'
  <2> SUFFICES ASSUME NEW v \in Workers,
                      frame'[v].pc \in {"Raise", "Commit", "Cleanup"}
               PROVE  /\ frame'[v].id \in reservedBy'[frame'[v].tuple]
                      /\ frame'[v].pc = "Commit" => raises'[frame'[v].tuple] > 0
    BY DEF WorkingCallsReserved
  <2>1. CASE v = w BY <2>1, <1>2, <1>3, <1>4, <1>8
  <2>2. CASE v # w
    <3>1. frame'[v] = frame[v] /\ frame[v].tuple \in Tuples
      BY <2>2, <1>4, FrameOfCall DEF IInv, Frame
    <3>2. /\ raises[frame[v].tuple] \in Nat /\ raises'[frame[v].tuple] \in Nat
          /\ raises'[frame[v].tuple] >= raises[frame[v].tuple]
      BY <3>1, <1>5 DEF IInv, TypeOK
    <3> QED BY <3>1, <3>2, <1>3 DEF IInv, WorkingCallsReserved
  <2> QED BY <2>1, <2>2
<1>11. RowsReserved' /\ ReservationsCounted'
  BY <1>3, <1>6 DEF IInv, RowsReserved, ReservationsCounted
<1>12. CompletedMeansRaised'
  BY <1>3, <1>5 DEF IInv, TypeOK, CompletedMeansRaised
<1> QED BY <1>9, <1>10, <1>11, <1>12 DEF IInv

\* The row is written, over whatever is there, by a call that has raised.
LEMMA CommitInvariant ==
  ASSUME IInv, NEW w \in Workers, Commit(w)
  PROVE  IInv'
<1> DEFINE t == frame[w].tuple
           id == frame[w].id
<1>1. frame[w] \in Frame /\ frame[w].pc = "Commit"
  BY FrameOfCall DEF IInv, Commit, At
<1>2. t \in Tuples /\ id \in Ids /\ id \in reservedBy[t] /\ raises[t] > 0
  BY <1>1 DEF Frame, IInv, WorkingCallsReserved
<1>3. UNCHANGED <<calls, raises, raisedBy, reservedBy, cleanups, overlaps>>
  BY DEF Commit, raiseVars
<1>4. /\ frame' \in [Workers -> Frame \cup {Idle}]
      /\ \A v \in Workers \ {w} : frame'[v] = frame[v]
      /\ frame'[w].id = id /\ frame'[w].tuple = t
      /\ frame'[w].pc # "Commit"
  <2>1. Goto(w, "Returned") \/ Throw(w, TRUE, TRUE)
    BY DEF Commit
  <2>2. CASE Goto(w, "Returned")
    BY <2>2, <1>1, GotoFrame DEF IInv, Ended
  <2>3. CASE Throw(w, TRUE, TRUE)
    BY <2>3, <1>1, ThrowFrame DEF IInv
  <2> QED BY <2>1, <2>2, <2>3
<1>5. interrupted' \in [Tuples -> Nat]
  <2>1. interrupted' = [interrupted EXCEPT ![t] = @ + 1]
        \/ interrupted' = interrupted
    BY DEF Commit, Interrupt
  <2> QED BY <2>1, <1>2 DEF IInv, TypeOK
<1>6. /\ table' \in [Tuples -> RowType \cup {NoRow}]
      /\ writes' \in Nat
      /\ \A u \in Tuples : table'[u] # NoRow => table'[u].etag <= writes'
      /\ \A u \in Tuples : \/ table'[u] = table[u]
                           \/ u = t /\ table'[u] = Row(id, "Completed")
      /\ \A u \in Tuples : table[u] # NoRow => table'[u] # NoRow
  <2>1. CASE Write(t, Row(id, "Completed"))
    BY <2>1, <1>2, WriteTable DEF IInv
  <2>2. CASE UNCHANGED storeVars
    BY <2>2 DEF IInv, TypeOK, storeVars
  <2> QED BY <2>1, <2>2 DEF Commit
<1>7. TypeOK'
  BY <1>3, <1>4, <1>5, <1>6 DEF IInv, TypeOK
<1>8. WorkingCallsReserved'
  BY <1>2, <1>3, <1>4 DEF IInv, WorkingCallsReserved
<1>9. RowsReserved' /\ CompletedMeansRaised'
  BY <1>2, <1>3, <1>6 DEF IInv, RowsReserved, CompletedMeansRaised, Row
<1>10. ReservationsCounted'
  <2> SUFFICES ASSUME NEW u \in Tuples
               PROVE  /\ raisedBy'[u] \subseteq reservedBy'[u]
                      /\ IsFiniteSet(reservedBy'[u])
                      /\ Cardinality(reservedBy'[u])
                           <= cleanups'[u] + (IF table'[u] = NoRow THEN 0 ELSE 1)
    BY DEF ReservationsCounted
  <2>1. /\ IsFiniteSet(reservedBy[u]) /\ raisedBy[u] \subseteq reservedBy[u]
        /\ Cardinality(reservedBy[u])
             <= cleanups[u] + (IF table[u] = NoRow THEN 0 ELSE 1)
        /\ cleanups[u] \in Nat
    BY DEF IInv, ReservationsCounted, TypeOK
  <2>2. Cardinality(reservedBy[u]) \in Nat
    BY <2>1, FS_CardinalityType
  <2> QED BY <1>3, <1>6, <2>1, <2>2
<1> QED BY <1>7, <1>8, <1>9, <1>10 DEF IInv

\* A removed row is counted as a clean-up.
LEMMA CleanupInvariant ==
  ASSUME IInv, NEW w \in Workers, Cleanup(w)
  PROVE  IInv'
<1> DEFINE t == frame[w].tuple
<1>1. frame[w] \in Frame /\ frame[w].pc = "Cleanup"
  BY FrameOfCall DEF IInv, Cleanup, At
<1>2. t \in Tuples
  BY <1>1 DEF Frame
<1>3. UNCHANGED <<writes, calls, raises, raisedBy, reservedBy, interrupted, overlaps>>
  BY DEF Cleanup, raiseVars
<1>4. /\ frame' \in [Workers -> Frame \cup {Idle}]
      /\ \A v \in Workers \ {w} : frame'[v] = frame[v]
      /\ frame'[w].pc \in Ended
  BY <1>1, GotoFrame DEF IInv, Cleanup, Steps, Ended
<1>5. \/ UNCHANGED <<table, cleanups>>
      \/ /\ table[t] # NoRow
         /\ table' = [table EXCEPT ![t] = NoRow]
         /\ cleanups' = [cleanups EXCEPT ![t] = @ + 1]
  BY DEF Cleanup
<1>6. TypeOK'
  BY <1>2, <1>3, <1>4, <1>5 DEF IInv, TypeOK
<1>7. WorkingCallsReserved'
  BY <1>3, <1>4 DEF IInv, WorkingCallsReserved, Ended
<1>8. RowsReserved' /\ CompletedMeansRaised'
  BY <1>2, <1>3, <1>5 DEF IInv, TypeOK, RowsReserved, CompletedMeansRaised, NoRow
<1>9. ReservationsCounted'
  BY <1>2, <1>3, <1>5 DEF IInv, TypeOK, ReservationsCounted
<1> QED BY <1>6, <1>7, <1>8, <1>9 DEF IInv

\* A killed call changes no shared state.
LEMMA KillInvariant ==
  ASSUME IInv, NEW w \in Workers, Kill(w)
  PROVE  IInv'
<1>1. frame[w] \in Frame
  BY FrameOfCall DEF IInv, Kill, Steps
<1>2. UNCHANGED <<table, writes, calls, raises, raisedBy, reservedBy, cleanups, overlaps>>
  BY DEF Kill, storeVars, raiseVars
<1>3. interrupted' \in [Tuples -> Nat]
  BY <1>1 DEF IInv, TypeOK, Kill, Interrupt, Frame
<1>4. /\ frame' \in [Workers -> Frame \cup {Idle}]
      /\ \A v \in Workers \ {w} : frame'[v] = frame[v]
      /\ frame'[w].pc = "Killed"
  BY <1>1, GotoFrame DEF IInv, Kill, Steps, Ended
<1>5. TypeOK'
  BY <1>2, <1>3, <1>4 DEF IInv, TypeOK
<1>6. WorkingCallsReserved'
  BY <1>2, <1>4 DEF IInv, WorkingCallsReserved
<1>7. RowsReserved' /\ ReservationsCounted' /\ CompletedMeansRaised'
  BY <1>2 DEF IInv, RowsReserved, ReservationsCounted, CompletedMeansRaised
<1> QED BY <1>5, <1>6, <1>7 DEF IInv

LEMMA NextInvariant == IInv /\ [Next]_vars => IInv'
<1> SUFFICES ASSUME IInv, [Next]_vars PROVE IInv'
  OBVIOUS
<1>1. CASE UNCHANGED vars
  BY <1>1 DEF IInv, TypeOK, WorkingCallsReserved, RowsReserved,
              ReservationsCounted, CompletedMeansRaised,
              vars, storeVars, historyVars, raiseVars, causeVars
<1>2. CASE Next
  BY <1>2, CallInvariant, DismissInvariant, ReserveInvariant,
     ReadExistingInvariant, RaiseInvariant, CommitInvariant, CleanupInvariant,
     KillInvariant
     DEF Next, Step
<1> QED BY <1>1, <1>2

-----------------------------------------------------------------------------
(* Repeated events. What may still raise a tuple's event without a further *)
(* cause is counted with the raises: a call that is about to raise, or to  *)
(* open the tuple by its clean-up, and a tuple that is open already, since *)
(* it has no row or nobody is at work on an unfinished one.                *)

Contenders(t) ==
  {w \in Workers : frame[w].pc \in {"Raise", "Cleanup"} /\ frame[w].tuple = t}

AtWork(t) ==
  {w \in Workers : /\ frame[w].pc \in {"Raise", "Commit", "Cleanup"}
                   /\ frame[w].tuple = t}

Open(t) ==
  \/ table[t] = NoRow
  \/ table[t].status = "Processing" /\ AtWork(t) = {}

OpenCount(t) == IF Open(t) THEN 1 ELSE 0

Contends(pc) == IF pc \in {"Raise", "Cleanup"} THEN 1 ELSE 0

RaisesCounted ==
  \A t \in Tuples :
    /\ IsFiniteSet(Contenders(t))
    /\ raises[t] + Cardinality(Contenders(t)) + OpenCount(t)
         <= 1 + interrupted[t] + overlaps[t]

\* A call that moves joins or leaves the contenders for its tuple.
LEMMA ContendersMove ==
  ASSUME NEW t \in Tuples, NEW w \in Workers,
         frame[w].tuple = t, frame'[w].tuple = t,
         \A v \in Workers \ {w} : frame'[v] = frame[v],
         IsFiniteSet(Contenders(t))
  PROVE  /\ IsFiniteSet(Contenders(t)')
         /\ Cardinality(Contenders(t)') + Contends(frame[w].pc)
              = Cardinality(Contenders(t)) + Contends(frame'[w].pc)
<1> DEFINE X == Contenders(t)
           Y == {v \in Workers : frame'[v].pc \in {"Raise", "Cleanup"} /\ frame'[v].tuple = t}
<1>1. /\ w \in X <=> frame[w].pc \in {"Raise", "Cleanup"}
      /\ w \in Y <=> frame'[w].pc \in {"Raise", "Cleanup"}
      /\ \A v : v # w => (v \in Y <=> v \in X)
  BY DEF Contenders
<1>2. IsFiniteSet(X) /\ Cardinality(X) \in Nat
  BY FS_CardinalityType
<1>3. Y = Contenders(t)'
  BY DEF Contenders
<1> HIDE DEF X, Y
<1>4. /\ IsFiniteSet(Y)
      /\ Cardinality(Y) + Contends(frame[w].pc) = Cardinality(X) + Contends(frame'[w].pc)
  <2>1. CASE w \in X <=> w \in Y
    <3>1. Y = X
      BY <2>1, <1>1
    <3> QED BY <3>1, <2>1, <1>1, <1>2 DEF Contends
  <2>2. CASE w \notin X /\ w \in Y
    <3>1. Y = X \cup {w}
      BY <2>2, <1>1
    <3>2. IsFiniteSet(Y) /\ Cardinality(Y) = Cardinality(X) + 1
      BY <3>1, <2>2, <1>2, FS_AddElement
    <3> QED BY <3>2, <2>2, <1>1, <1>2 DEF Contends
  <2>3. CASE w \in X /\ w \notin Y
    <3>1. Y = X \ {w}
      BY <2>3, <1>1
    <3>2. IsFiniteSet(Y) /\ Cardinality(Y) = Cardinality(X) - 1
      BY <3>1, <2>3, <1>2, FS_RemoveElement
    <3> QED BY <3>2, <2>3, <1>1, <1>2 DEF Contends
  <2> QED BY <2>1, <2>2, <2>3
<1> QED BY <1>3, <1>4 DEF X

\* A step of one call preserves the count if it pays for what it adds.
LEMMA PaidStep ==
  ASSUME TypeOK, TypeOK', RaisesCounted, NEW t \in Tuples, NEW w \in Workers,
         frame[w].tuple = t, frame'[w].tuple = t,
         \A v \in Workers \ {w} : frame'[v] = frame[v],
         \A u \in Tuples \ {t} : /\ table'[u] = table[u]
                                 /\ raises'[u] = raises[u]
                                 /\ interrupted'[u] = interrupted[u]
                                 /\ overlaps'[u] = overlaps[u],
         raises'[t] + Contends(frame'[w].pc) + OpenCount(t)' + interrupted[t] + overlaps[t]
           <= raises[t] + Contends(frame[w].pc) + OpenCount(t) + interrupted'[t] + overlaps'[t]
  PROVE  RaisesCounted'
<1> SUFFICES ASSUME NEW u \in Tuples
             PROVE  /\ IsFiniteSet(Contenders(u)')
                    /\ raises'[u] + Cardinality(Contenders(u)') + OpenCount(u)'
                         <= 1 + interrupted'[u] + overlaps'[u]
  BY DEF RaisesCounted
<1>1. /\ IsFiniteSet(Contenders(u)) /\ Cardinality(Contenders(u)) \in Nat
      /\ raises[u] + Cardinality(Contenders(u)) + OpenCount(u)
           <= 1 + interrupted[u] + overlaps[u]
  BY FS_CardinalityType DEF RaisesCounted
<1>2. CASE u # t
  <2>1. Contenders(u)' = Contenders(u) /\ AtWork(u)' = AtWork(u)
    BY <1>2 DEF Contenders, AtWork
  <2>2. OpenCount(u)' = OpenCount(u)
    BY <1>2, <2>1 DEF OpenCount, Open
  <2> QED BY <1>1, <1>2, <2>1, <2>2
<1>3. CASE u = t
  <2>1. /\ IsFiniteSet(Contenders(t)')
        /\ Cardinality(Contenders(t)') + Contends(frame[w].pc)
             = Cardinality(Contenders(t)) + Contends(frame'[w].pc)
    BY <1>1, <1>3, ContendersMove
  <2>2. Cardinality(Contenders(t)') \in Nat
    BY <2>1, FS_CardinalityType
  <2>3. /\ raises[t] \in Nat /\ raises'[t] \in Nat
        /\ interrupted[t] \in Nat /\ interrupted'[t] \in Nat
        /\ overlaps[t] \in Nat /\ overlaps'[t] \in Nat
    BY DEF TypeOK
  <2>4. /\ Contends(frame[w].pc) \in Nat /\ Contends(frame'[w].pc) \in Nat
        /\ OpenCount(t) \in Nat /\ OpenCount(t)' \in Nat
    BY DEF Contends, OpenCount
  <2> QED BY <1>1, <1>3, <2>1, <2>2, <2>3, <2>4
<1> QED BY <1>2, <1>3

\* Adding the row takes what was open: its call contends, or the row is left open.
LEMMA ReserveCounted ==
  ASSUME IInv, IInv', RaisesCounted, NEW w \in Workers, Reserve(w),
         NEW t \in Tuples, frame[w].tuple = t
  PROVE  RaisesCounted'
<1>1. frame[w] \in Frame /\ frame[w].pc = "Reserve"
  BY FrameOfCall DEF IInv, Reserve, At
<1>2. /\ frame'[w].pc \in {"Raise", "ReadExisting", "Thrown", "Returned"}
      /\ frame'[w].tuple = t
      /\ \A v \in Workers \ {w} : frame'[v] = frame[v]
  BY <1>1, GotoFrame, ThrowFrame DEF IInv, Reserve, Steps, Ended
<1>3. UNCHANGED <<raises, interrupted, overlaps>>
  BY DEF Reserve, raiseVars, causeVars
<1>4. /\ \A u \in Tuples \ {t} : table'[u] = table[u]
      /\ Contends(frame'[w].pc) + OpenCount(t)' <= Contends(frame[w].pc) + OpenCount(t)
  <2>1. CASE table[t] = NoRow /\ Write(t, Row(frame[w].id, "Processing"))
    <3>1. table' = [table EXCEPT ![t] = Row(frame[w].id, "Processing")]
      BY <2>1 DEF Write
    <3>2. /\ \A u \in Tuples \ {t} : table'[u] = table[u]
          /\ table'[t] # NoRow
      BY <3>1 DEF IInv, TypeOK, Row, NoRow
    <3>3. OpenCount(t) = 1 /\ Contends(frame[w].pc) = 0
      BY <1>1, <2>1 DEF OpenCount, Open, Contends
    <3>4. CASE frame'[w].pc = "Raise"
      <4>1. ~Open(t)'
        BY <3>2, <3>4, <1>2 DEF Open, AtWork
      <4> QED BY <4>1, <3>2, <3>3, <3>4 DEF Contends, OpenCount
    <3>5. CASE frame'[w].pc # "Raise"
      BY <3>2, <3>3, <3>5, <1>2 DEF Contends, OpenCount
    <3> QED BY <3>4, <3>5
  <2>2. CASE UNCHANGED storeVars /\ frame'[w].pc # "Raise"
    <3>1. AtWork(t)' = AtWork(t) /\ table' = table
      BY <1>1, <1>2, <2>2 DEF AtWork, storeVars
    <3>2. OpenCount(t)' = OpenCount(t)
      BY <3>1 DEF OpenCount, Open
    <3> QED BY <3>1, <3>2, <1>1, <1>2, <2>2 DEF Contends, OpenCount
  <2>3. ASSUME Throw(w, FALSE, FALSE) \/ Goto(w, "ReadExisting")
        PROVE  frame'[w].pc # "Raise"
    BY <2>3, <1>1, GotoFrame, ThrowFrame DEF IInv, Steps, Ended
  <2> QED BY <2>1, <2>2, <2>3 DEF Reserve
<1>5. /\ raises[t] \in Nat /\ interrupted[t] \in Nat /\ overlaps[t] \in Nat
      /\ Contends(frame[w].pc) \in Nat /\ Contends(frame'[w].pc) \in Nat
      /\ OpenCount(t) \in Nat /\ OpenCount(t)' \in Nat
  BY DEF IInv, TypeOK, Contends, OpenCount
<1> QED BY <1>2, <1>3, <1>4, <1>5, PaidStep DEF IInv

\* Resuming takes what was open, or is counted as an overlap.
LEMMA ReadExistingCounted ==
  ASSUME IInv, IInv', RaisesCounted, NEW w \in Workers, ReadExisting(w),
         NEW t \in Tuples, frame[w].tuple = t
  PROVE  RaisesCounted'
<1>1. frame[w] \in Frame /\ frame[w].pc = "ReadExisting"
  BY FrameOfCall DEF IInv, ReadExisting, At
<1>2. UNCHANGED <<table, raises, interrupted>>
  BY DEF ReadExisting, storeVars, raiseVars
<1>3. /\ raises[t] \in Nat /\ interrupted[t] \in Nat
      /\ overlaps[t] \in Nat /\ overlaps'[t] \in Nat
      /\ Contends(frame[w].pc) = 0 /\ Contends(frame'[w].pc) \in {0, 1}
      /\ OpenCount(t) \in {0, 1} /\ OpenCount(t)' \in {0, 1}
  BY <1>1 DEF IInv, TypeOK, Contends, OpenCount
<1>4. CASE /\ table[t].status = "Processing"
           /\ frame' = [frame EXCEPT ![w].pc = "Raise", ![w].etag = table[t].etag]
           /\ overlaps' = IF BusyElsewhere(w) THEN [overlaps EXCEPT ![t] = @ + 1]
                                              ELSE overlaps
  <2>1. /\ frame'[w].pc = "Raise" /\ frame'[w].tuple = t
        /\ \A v \in Workers \ {w} : frame'[v] = frame[v]
    BY <1>1, <1>4 DEF IInv, TypeOK, Frame
  <2>2. table[t] # NoRow
    BY <1>4 DEF NoRow
  <2>3. OpenCount(t)' = 0
    BY <1>2, <2>1, <2>2 DEF OpenCount, Open, AtWork
  <2>4. /\ \A u \in Tuples \ {t} : overlaps'[u] = overlaps[u]
        /\ overlaps'[t] >= overlaps[t]
        /\ BusyElsewhere(w) => overlaps'[t] = overlaps[t] + 1
    BY <1>3, <1>4 DEF IInv, TypeOK
  <2>5. BusyElsewhere(w) \/ OpenCount(t) = 1
    <3>1. ASSUME ~BusyElsewhere(w) PROVE AtWork(t) = {}
      BY <3>1, <1>1 DEF BusyElsewhere, AtWork
    <3> QED BY <3>1, <1>4 DEF OpenCount, Open
  <2>6. raises'[t] + Contends(frame'[w].pc) + OpenCount(t)' + interrupted[t] + overlaps[t]
          <= raises[t] + Contends(frame[w].pc) + OpenCount(t) + interrupted'[t] + overlaps'[t]
    BY <1>2, <1>3, <2>3, <2>4, <2>5
  <2> QED BY <1>2, <2>1, <2>4, <2>6, PaidStep DEF IInv
<1>5. CASE overlaps' = overlaps /\ (Goto(w, "Returned") \/ Throw(w, FALSE, FALSE))
  <2>1. /\ frame'[w].pc \in {"Thrown", "Returned"} /\ frame'[w].tuple = t
        /\ \A v \in Workers \ {w} : frame'[v] = frame[v]
    BY <1>1, <1>5, GotoFrame, ThrowFrame DEF IInv, Ended
  <2>2. AtWork(t)' = AtWork(t)
    BY <1>1, <2>1 DEF AtWork
  <2>3. OpenCount(t)' = OpenCount(t) /\ Contends(frame'[w].pc) = 0
    BY <1>2, <2>1, <2>2 DEF OpenCount, Open, Contends
  <2>4. raises'[t] + Contends(frame'[w].pc) + OpenCount(t)' + interrupted[t] + overlaps[t]
          <= raises[t] + Contends(frame[w].pc) + OpenCount(t) + interrupted'[t] + overlaps'[t]
    BY <1>2, <1>3, <1>5, <2>3
  <2> QED BY <1>2, <1>5, <2>1, <2>4, PaidStep DEF IInv
<1> QED BY <1>4, <1>5 DEF ReadExisting

\* A call that raises no longer contends; one that fails after the effect is
\* counted as interrupted, and may leave the tuple open or contend to open it.
LEMMA RaiseCounted ==
  ASSUME IInv, IInv', RaisesCounted, NEW w \in Workers, Raise(w),
         NEW t \in Tuples, frame[w].tuple = t
  PROVE  RaisesCounted'
<1>1. frame[w] \in Frame /\ frame[w].pc = "Raise"
  BY FrameOfCall DEF IInv, Raise, At
<1>2. UNCHANGED <<table, overlaps>>
  BY DEF Raise, storeVars
<1>3. /\ frame'[w].pc \in {"Commit", "Thrown", "Returned", "Cleanup"}
      /\ frame'[w].tuple = t
      /\ \A v \in Workers \ {w} : frame'[v] = frame[v]
  BY <1>1, GotoFrame, ThrowFrame DEF IInv, Raise, Steps, Ended
<1>4. \/ raises' = [raises EXCEPT ![t] = @ + 1] /\ interrupted' = interrupted
           /\ frame'[w].pc = "Commit"
      \/ raises' = [raises EXCEPT ![t] = @ + 1] /\ frame'[w].pc # "Commit"
           /\ interrupted' = [interrupted EXCEPT ![t] = @ + 1]
      \/ raises' = raises /\ interrupted' = interrupted /\ frame'[w].pc # "Commit"
  <2>1. Throw(w, TRUE, FALSE) => frame'[w].pc # "Commit"
    BY <1>1, ThrowFrame DEF IInv
  <2>2. Goto(w, "Commit") => frame'[w].pc = "Commit"
    BY <1>1, GotoFrame DEF IInv, Steps
  <2> QED BY <2>1, <2>2 DEF Raise, Interrupt, raiseVars
<1>5. /\ raises[t] \in Nat /\ raises'[t] \in Nat
      /\ interrupted[t] \in Nat /\ interrupted'[t] \in Nat
      /\ overlaps[t] \in Nat
      /\ OpenCount(t) \in {0, 1} /\ OpenCount(t)' \in {0, 1}
      /\ Contends(frame[w].pc) = 1 /\ Contends(frame'[w].pc) \in {0, 1}
  BY <1>1 DEF IInv, TypeOK, Contends, OpenCount
<1>6. /\ \A u \in Tuples \ {t} : raises'[u] = raises[u] /\ interrupted'[u] = interrupted[u]
      /\ \/ raises'[t] = raises[t] + 1 /\ interrupted'[t] = interrupted[t]
              /\ frame'[w].pc = "Commit"
         \/ /\ raises'[t] + interrupted[t] = raises[t] + interrupted'[t]
            /\ frame'[w].pc # "Commit"
  BY <1>4, <1>5 DEF IInv, TypeOK
<1>7. /\ Contends(frame'[w].pc) + OpenCount(t)' <= 1 + OpenCount(t)
      /\ frame'[w].pc = "Commit" => Contends(frame'[w].pc) + OpenCount(t)' <= OpenCount(t)
  <2>1. CASE frame'[w].pc \in {"Commit", "Cleanup"}
    <3>1. Open(t)' => table[t] = NoRow
      BY <1>2, <1>3, <2>1 DEF Open, AtWork
    <3>2. OpenCount(t)' <= OpenCount(t)
      BY <3>1, <1>5 DEF OpenCount, Open
    <3> QED BY <3>2, <2>1, <1>5 DEF Contends
  <2>2. CASE frame'[w].pc \in {"Thrown", "Returned"}
    BY <2>2, <1>5 DEF Contends
  <2> QED BY <1>3, <2>1, <2>2
<1>8. raises'[t] + Contends(frame'[w].pc) + OpenCount(t)' + interrupted[t] + overlaps[t]
        <= raises[t] + Contends(frame[w].pc) + OpenCount(t) + interrupted'[t] + overlaps'[t]
  BY <1>2, <1>5, <1>6, <1>7
<1> QED BY <1>2, <1>3, <1>6, <1>8, PaidStep DEF IInv

\* Marking completed closes the tuple; failing to is counted as interrupted.
LEMMA CommitCounted ==
  ASSUME IInv, IInv', RaisesCounted, NEW w \in Workers, Commit(w),
         NEW t \in Tuples, frame[w].tuple = t
  PROVE  RaisesCounted'
<1>1. frame[w] \in Frame /\ frame[w].pc = "Commit"
  BY FrameOfCall DEF IInv, Commit, At
<1>2. UNCHANGED <<raises, overlaps>>
  BY DEF Commit, raiseVars
<1>3. /\ frame'[w].pc \in {"Thrown", "Returned"}
      /\ frame'[w].tuple = t
      /\ \A v \in Workers \ {w} : frame'[v] = frame[v]
  <2>1. Goto(w, "Returned") \/ Goto(w, "Thrown")
    BY DEF Commit, Throw
  <2> QED BY <2>1, <1>1, GotoFrame DEF IInv, Ended
<1>4. /\ raises[t] \in Nat /\ interrupted[t] \in Nat /\ interrupted'[t] \in Nat
      /\ overlaps[t] \in Nat
      /\ OpenCount(t) \in {0, 1} /\ OpenCount(t)' \in {0, 1}
      /\ Contends(frame[w].pc) = 0 /\ Contends(frame'[w].pc) = 0
  BY <1>1, <1>3 DEF IInv, TypeOK, Contends, OpenCount
<1>5. /\ \A u \in Tuples \ {t} : table'[u] = table[u] /\ interrupted'[u] = interrupted[u]
      /\ OpenCount(t)' + interrupted[t] <= OpenCount(t) + interrupted'[t]
  <2>1. CASE Write(t, Row(frame[w].id, "Completed")) /\ interrupted' = interrupted
    <3>1. table' = [table EXCEPT ![t] = Row(frame[w].id, "Completed")]
      BY <2>1 DEF Write
    <3>2. /\ table'[t] # NoRow /\ table'[t].status = "Completed"
          /\ \A u \in Tuples \ {t} : table'[u] = table[u]
      BY <3>1 DEF IInv, TypeOK, Row, NoRow
    <3>3. OpenCount(t)' = 0
      BY <3>2 DEF OpenCount, Open
    <3> QED BY <2>1, <3>2, <3>3, <1>4
  <2>2. CASE Interrupt(t) /\ UNCHANGED storeVars
    BY <2>2, <1>4 DEF Interrupt, storeVars, IInv, TypeOK
  <2> QED BY <2>1, <2>2 DEF Commit
<1>6. raises'[t] + Contends(frame'[w].pc) + OpenCount(t)' + interrupted[t] + overlaps[t]
        <= raises[t] + Contends(frame[w].pc) + OpenCount(t) + interrupted'[t] + overlaps'[t]
  BY <1>2, <1>4, <1>5
<1> QED BY <1>2, <1>3, <1>5, <1>6, PaidStep DEF IInv

\* A clean-up stops contending, and at most opens its tuple in exchange.
LEMMA CleanupCounted ==
  ASSUME IInv, IInv', RaisesCounted, NEW w \in Workers, Cleanup(w),
         NEW t \in Tuples, frame[w].tuple = t
  PROVE  RaisesCounted'
<1>1. frame[w] \in Frame /\ frame[w].pc = "Cleanup"
  BY FrameOfCall DEF IInv, Cleanup, At
<1>2. UNCHANGED <<raises, interrupted, overlaps>>
  BY DEF Cleanup, raiseVars
<1>3. /\ frame'[w].pc \in {"Thrown", "Returned"}
      /\ frame'[w].tuple = t
      /\ \A v \in Workers \ {w} : frame'[v] = frame[v]
  <2>1. Goto(w, "Returned") \/ Goto(w, "Thrown")
    BY DEF Cleanup
  <2> QED BY <2>1, <1>1, GotoFrame DEF IInv, Ended
<1>4. \A u \in Tuples \ {t} : table'[u] = table[u]
  <2>1. table' = [table EXCEPT ![t] = NoRow] \/ table' = table
    BY DEF Cleanup
  <2> QED BY <2>1 DEF IInv, TypeOK
<1>5. /\ raises[t] \in Nat /\ interrupted[t] \in Nat /\ overlaps[t] \in Nat
      /\ OpenCount(t) \in {0, 1} /\ OpenCount(t)' \in {0, 1}
      /\ Contends(frame[w].pc) = 1 /\ Contends(frame'[w].pc) = 0
  BY <1>1, <1>3 DEF IInv, TypeOK, Contends, OpenCount
<1>6. raises'[t] + Contends(frame'[w].pc) + OpenCount(t)' + interrupted[t] + overlaps[t]
        <= raises[t] + Contends(frame[w].pc) + OpenCount(t) + interrupted'[t] + overlaps'[t]
  BY <1>2, <1>5
<1> QED BY <1>2, <1>3, <1>4, <1>6, PaidStep DEF IInv

\* A killed call stops contending, or its raise is counted as interrupted; one
\* that was not at work opens nothing.
LEMMA KillCounted ==
  ASSUME IInv, IInv', RaisesCounted, NEW w \in Workers, Kill(w),
         NEW t \in Tuples, frame[w].tuple = t
  PROVE  RaisesCounted'
<1>1. frame[w] \in Frame /\ frame[w].pc \in Steps
  BY FrameOfCall DEF IInv, Kill, Steps
<1>2. UNCHANGED <<table, raises, overlaps>>
  BY DEF Kill, storeVars, raiseVars
<1>3. /\ frame'[w].pc = "Killed" /\ frame'[w].tuple = t
      /\ \A v \in Workers \ {w} : frame'[v] = frame[v]
  BY <1>1, GotoFrame DEF IInv, Kill, Steps, Ended
<1>4. /\ raises[t] \in Nat /\ interrupted[t] \in Nat /\ interrupted'[t] \in Nat
      /\ overlaps[t] \in Nat
      /\ OpenCount(t) \in {0, 1} /\ OpenCount(t)' \in {0, 1}
      /\ Contends(frame[w].pc) \in {0, 1} /\ Contends(frame'[w].pc) = 0
  BY <1>3 DEF IInv, TypeOK, Contends, OpenCount
<1>5. /\ \A u \in Tuples \ {t} : interrupted'[u] = interrupted[u]
      /\ interrupted'[t] >= interrupted[t]
      /\ frame[w].pc = "Commit" => interrupted'[t] = interrupted[t] + 1
  BY <1>4 DEF Kill, At, Interrupt, IInv, TypeOK
<1>6. \/ Contends(frame[w].pc) = 1
      \/ frame[w].pc = "Commit"
      \/ OpenCount(t)' = OpenCount(t)
  <2>1. CASE frame[w].pc \in {"Reserve", "ReadExisting"}
    <3>1. AtWork(t)' = AtWork(t)
      BY <2>1, <1>3 DEF AtWork
    <3> QED BY <3>1, <1>2 DEF OpenCount, Open
  <2>2. CASE frame[w].pc \in {"Raise", "Cleanup"}
    BY <2>2 DEF Contends
  <2> QED BY <1>1, <2>1, <2>2 DEF Steps
<1>7. raises'[t] + Contends(frame'[w].pc) + OpenCount(t)' + interrupted[t] + overlaps[t]
        <= raises[t] + Contends(frame[w].pc) + OpenCount(t) + interrupted'[t] + overlaps'[t]
  BY <1>2, <1>4, <1>5, <1>6
<1> QED BY <1>2, <1>3, <1>5, <1>7, PaidStep DEF IInv

\* Calls begin and end without a share in the count.
LEMMA CallAndDismissCounted ==
  ASSUME IInv, RaisesCounted, NEW w \in Workers,
         \/ Dismiss(w)
         \/ \E id \in Ids, t \in Tuples, lastAttempt \in BOOLEAN : Call(w, id, t, lastAttempt)
  PROVE  RaisesCounted'
<1>1. UNCHANGED <<table, raises, interrupted, overlaps>>
  BY DEF Dismiss, Call, storeVars, historyVars, raiseVars, causeVars
<1>2. /\ frame[w].pc \in Ended \cup {"Idle"}
      /\ frame'[w].pc \in {"Idle", "Reserve"}
      /\ \A v \in Workers \ {w} : frame'[v] = frame[v]
  BY DEF Dismiss, Call, At, Idle, IInv, TypeOK
<1>3. \A t \in Tuples : Contenders(t)' = Contenders(t) /\ AtWork(t)' = AtWork(t)
  BY <1>2 DEF Contenders, AtWork, Ended
<1>4. \A t \in Tuples : OpenCount(t)' = OpenCount(t)
  BY <1>1, <1>3 DEF OpenCount, Open
<1> QED BY <1>1, <1>3, <1>4 DEF RaisesCounted

\* Nothing is raised or under way at the start.
LEMMA InitCounted == Init => RaisesCounted
<1> SUFFICES ASSUME Init, NEW t \in Tuples
             PROVE  /\ IsFiniteSet(Contenders(t))
                    /\ raises[t] + Cardinality(Contenders(t)) + OpenCount(t)
                         <= 1 + interrupted[t] + overlaps[t]
  BY DEF RaisesCounted
<1>1. Contenders(t) = {} /\ raises[t] = 0 /\ interrupted[t] = 0 /\ overlaps[t] = 0
  BY DEF Init, Contenders, Idle
<1>2. IsFiniteSet(Contenders(t)) /\ Cardinality(Contenders(t)) = 0
  BY <1>1, FS_EmptySet
<1> QED BY <1>1, <1>2 DEF OpenCount

LEMMA NextCounted == IInv /\ IInv' /\ RaisesCounted /\ [Next]_vars => RaisesCounted'
<1> SUFFICES ASSUME IInv, IInv', RaisesCounted, [Next]_vars PROVE RaisesCounted'
  OBVIOUS
<1>1. CASE UNCHANGED vars
  BY <1>1 DEF RaisesCounted, Contenders, OpenCount, Open, AtWork, vars, storeVars,
              historyVars, raiseVars, causeVars
<1>2. ASSUME NEW w \in Workers, Step(w) \/ Kill(w)
      PROVE  RaisesCounted'
  <2>1. frame[w].tuple \in Tuples
    <3>1. frame[w].pc # "Idle"
      BY <1>2 DEF Step, Reserve, ReadExisting, Raise, Commit, Cleanup, Kill, At, Steps
    <3> QED BY <3>1, FrameOfCall DEF IInv, Frame
  <2> QED BY <1>2, <2>1, ReserveCounted, ReadExistingCounted, RaiseCounted,
             CommitCounted, CleanupCounted, KillCounted DEF Step
<1>3. CASE Next
  BY <1>2, <1>3, CallAndDismissCounted DEF Next
<1> QED BY <1>1, <1>3

\* What the invariant says of the ids that raise, and of the number of raises.
LEMMA InvariantGivesOneId == IInv => OneIdPerReservation
<1> SUFFICES ASSUME IInv, NEW t \in Tuples
             PROVE  /\ raisedBy[t] \subseteq reservedBy[t]
                    /\ Cardinality(reservedBy[t]) <= 1 + cleanups[t]
  BY DEF OneIdPerReservation
<1>1. /\ raisedBy[t] \subseteq reservedBy[t]
      /\ IsFiniteSet(reservedBy[t])
      /\ Cardinality(reservedBy[t])
           <= cleanups[t] + (IF table[t] = NoRow THEN 0 ELSE 1)
      /\ cleanups[t] \in Nat
  BY DEF IInv, ReservationsCounted, TypeOK
<1>2. Cardinality(reservedBy[t]) \in Nat
  BY <1>1, FS_CardinalityType
<1> QED BY <1>1, <1>2

LEMMA InvariantGivesCauses == IInv /\ RaisesCounted => EachExtraRaiseHasACause
<1> SUFFICES ASSUME IInv, RaisesCounted, NEW t \in Tuples
             PROVE  raises[t] <= 1 + interrupted[t] + overlaps[t]
  BY DEF EachExtraRaiseHasACause
<1>1. /\ Cardinality(Contenders(t)) \in Nat /\ OpenCount(t) \in Nat
      /\ raises[t] + Cardinality(Contenders(t)) + OpenCount(t)
           <= 1 + interrupted[t] + overlaps[t]
  BY FS_CardinalityType DEF RaisesCounted, OpenCount
<1> QED BY <1>1 DEF IInv, TypeOK

-----------------------------------------------------------------------------
(* The theorems.                                                           *)

\* The inductive invariant holds throughout, whatever the calls do.
THEOREM Invariant == Spec => []IInv
<1>1. Init => IInv
  BY InitInvariant
<1>2. IInv /\ [Next]_vars => IInv'
  BY NextInvariant
<1> QED BY <1>1, <1>2, PTL DEF Spec

\* Every variable of the processor keeps its type, in every behaviour.
THEOREM TypeCorrect == Spec => []TypeOK
<1>1. IInv => TypeOK
  BY DEF IInv
<1> QED BY <1>1, Invariant, PTL

\* The row that makes ProcessAsync skip a message as completed always stands for
\* an event that was raised: skipping on it never loses an event.
THEOREM SkippingLosesNothing == Spec => []CompletedMeansRaised
<1>1. IInv => CompletedMeansRaised
  BY DEF IInv
<1> QED BY <1>1, Invariant, PTL

\* Any number of messages that carry the same tuple under different ids, in any
\* interleaving and with any failures, raise its event under at most one more id
\* than there were clean-ups of that tuple.
THEOREM OneIdRaises == Spec => []OneIdPerReservation
<1> QED BY InvariantGivesOneId, Invariant, PTL

\* However deliveries, failures, crashes and clean-ups interleave, a tuple's event
\* is raised once, and once more at most for each call that was interrupted after
\* raising it or that resumed its reservation beside a call at work on it.
THEOREM ExtraRaisesHaveCauses == Spec => []EachExtraRaiseHasACause
<1> QED BY InitCounted, NextCounted, InvariantGivesCauses, Invariant, PTL DEF Spec

=============================================================================
