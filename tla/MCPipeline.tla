----------------------------- MODULE MCPipeline -----------------------------
(* Pipeline on small instances: the constants are in the .cfg files. *)
EXTENDS PipelineRefinement, TLC

Symmetry == Permutations(Request)
=============================================================================
