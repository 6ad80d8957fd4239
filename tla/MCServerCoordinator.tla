------------------------- MODULE MCServerCoordinator -------------------------
(* ServerCoordinator for TLC: the operations are interchangeable. *)
EXTENDS ServerCoordinator, TLC

Symmetry == Permutations(Ops)
=============================================================================
