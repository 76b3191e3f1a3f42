---------------------------- MODULE MCProgramExec ----------------------------
(****************************************************************************)
(* ProgramExec on all short programs, whether the generator makes them or   *)
(* not: a rejected program may end anywhere.                                *)
(****************************************************************************)
EXTENDS ProgramExec

CONSTANT MaxLength

NoMask == {}
Short ==
    {[opcode |-> op, imm32 |-> NoMask] : op \in {"UMULH_R", "XOR_R", "TARGET"}}
        \cup {[opcode |-> "BRANCH", imm32 |-> mask] : mask \in Words \ {{}}}

MCPrograms == UNION {[1 .. n -> Short] : n \in 0 .. MaxLength}
=============================================================================
