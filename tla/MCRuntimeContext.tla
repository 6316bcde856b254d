-------------------------- MODULE MCRuntimeContext --------------------------
(* Values for TLC. *)
EXTENDS RuntimeContext, TLC

CONSTANTS p1, p2, p3, n1, n2, n3

\* Main is p1; the pids are interchangeable, and so are the later processes.
Symmetry == Permutations({p2, p3}) \cup Permutations({n1, n2, n3})
=============================================================================
