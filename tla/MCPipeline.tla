----------------------------- MODULE MCPipeline -----------------------------
(****************************************************************************)
(* Pipeline on small instances.                                             *)
(****************************************************************************)
EXTENDS Pipeline, TLC

Symmetry == Permutations(Registers \ {REGISTER_NEEDS_DISPLACEMENT})
=============================================================================
