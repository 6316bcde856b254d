------------------------------ MODULE MCDriver ------------------------------
(***************************************************************************)
(* Instances of the connection driver small enough for TLC.                *)
(***************************************************************************)
EXTENDS DriverFlow, DriverInvariant, TLC

\* Every message is one byte.
UnitSize == [s \in Senders |-> 1]

\* Messages of different sizes: one that fills the byte budget of 2, the rest
\* one byte each.
Big == CHOOSE s \in Senders : TRUE
MixedSize == [s \in Senders |-> IF s = Big THEN 2 ELSE 1]
SmallSymmetry == Permutations(Senders \ {Big})

\* Calls of one kind are interchangeable when their messages have one size.
Symmetry == Permutations(Senders) \cup Permutations(Closers) \cup Permutations(Receivers)

=============================================================================
