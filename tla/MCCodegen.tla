------------------------------ MODULE MCCodegen ------------------------------
(****************************************************************************)
(* Codegen on small instances.                                              *)
(****************************************************************************)
EXTENDS Codegen, TLC

Symmetry == Permutations(Registers \ {REGISTER_NEEDS_DISPLACEMENT})
=============================================================================
