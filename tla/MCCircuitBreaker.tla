-------------------------- MODULE MCCircuitBreaker --------------------------
(* CircuitBreaker on small instances: the constants are in the .cfg files. *)
EXTENDS CircuitBreaker, TLC

Symmetry == Permutations(Caller)
=============================================================================
