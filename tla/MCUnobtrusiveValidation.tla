----------------------- MODULE MCUnobtrusiveValidation -----------------------
(***************************************************************************)
(* A form for TLC: a required field with a remote rule, an optional one    *)
(* with a remote rule, and an element that replaces the first one.         *)
(***************************************************************************)
EXTENDS UnobtrusiveValidation, TLC

CONSTANTS n1, n2, e1, e2, e3, empty, a, b

FirstTwoOfOneName == [e \in Elements |-> IF e = e3 THEN n2 ELSE n1]

AllowedValues == [e \in Elements |-> IF e = e1 THEN Values \ {empty} ELSE Values]

\* No rule but "remote" tells the two values apart.
SameValues == Permutations({a, b})

=============================================================================
