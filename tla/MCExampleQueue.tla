---------------------------- MODULE MCExampleQueue ----------------------------
(***************************************************************************)
(* Instances of the queue for TLC: which ids and tuples the messages have. *)
(* The cfg files name these definitions as the values of Id and Tuple.     *)
(***************************************************************************)
EXTENDS ExampleQueue

CONSTANTS m1, m2, t1

\* Each message has an id of its own.
OwnId == [m \in Messages |-> m]

SameTuple == [m \in Messages |-> t1]

=============================================================================
