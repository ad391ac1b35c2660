------------------------------ MODULE MCFanIn ------------------------------
(* FanIn on small instances: the constants are in the .cfg files. *)
EXTENDS FanInRefinement, TLC

Symmetry == Permutations(Slot)
=============================================================================
