------------------------ MODULE MCContainerInventory ------------------------
(* ContainerInventory for TLC: the containers are interchangeable as long as *)
(* none, or all, are meant to run.                                           *)
EXTENDS ContainerInventory, TLC

Symmetry == Permutations(Names)
=============================================================================
