-------------------------- MODULE MCClientReceive ---------------------------
(***************************************************************************)
(* Instances of the public receive() small enough for TLC.                 *)
(***************************************************************************)
EXTENDS ClientReceiveInvariant, TLC

PeerOutcomes == {ClosedOk("Normal", FALSE)}

\* Calls of one kind are interchangeable.
Symmetry == Permutations(Waiters) \cup Permutations(Receivers)

=============================================================================
