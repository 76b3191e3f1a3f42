----------------------------- MODULE MCProgram -----------------------------
(****************************************************************************)
(* Program on small instances.                                              *)
(****************************************************************************)
EXTENDS Program, TLC

\* Registers other than the one with the displacement are interchangeable,
\* and so are the parameters of wide multiplications.
Symmetry == Permutations(Registers \ {REGISTER_NEEDS_DISPLACEMENT})
                \cup Permutations(WideParams)
=============================================================================
