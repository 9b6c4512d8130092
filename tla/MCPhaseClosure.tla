--------------------------- MODULE MCPhaseClosure ---------------------------
(***************************************************************************)
(* PhaseClosure on a small instance; closers are interchangeable.          *)
(***************************************************************************)
EXTENDS PhaseClosure, TLC

Symmetry == Permutations(Closers)
=============================================================================
