--------------------------- MODULE MCResilientCall ---------------------------
(* ResilientCall on a small instance: the constants are in the .cfg file. *)
EXTENDS ResilientCall, TLC
=============================================================================
