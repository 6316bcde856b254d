------------------------------ MODULE MCConfig ------------------------------
(***************************************************************************)
(* Scaled widths: a u32 of 9 bits and a usize of 12, so that every boundary *)
(* of Config lies within a few hundred bytes.                               *)
(***************************************************************************)
EXTENDS Config

\* One below, at and above each limit, and what no usize holds.
Boundaries == {-1, 0, 1, 2, 15, 16, 124, 125, 126, 139, 140, 254, 256, 257,
               510, 511, 512, 513, 4095, 4096}

=============================================================================
