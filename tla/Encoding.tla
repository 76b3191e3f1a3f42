------------------------------ MODULE Encoding ------------------------------
(****************************************************************************)
(* The instructions of a program and the places in it, and how many bytes   *)
(* the two compilers emit for an instruction and around a program.          *)
(****************************************************************************)
EXTENDS Integers, Sequences

MultiplyHigh == {"UMULH_R", "SMULH_R"}
Arithmetic == {"MUL_R", "SUB_R", "XOR_R", "ADD_RS", "ROR_C", "ADD_C", "XOR_C"}
Opcodes == MultiplyHigh \cup Arithmetic \cup {"TARGET", "BRANCH"}

\* Programs are sequences; their indices start from 0, as in the code.
IsTarget(prog, k) == prog[k + 1].opcode = "TARGET"

\* The first instruction from index n on that is not a target.
Skip(prog, n) ==
    CHOOSE k \in n .. Len(prog) :
        /\ \A j \in n .. k - 1 : IsTarget(prog, j)
        /\ k < Len(prog) => ~IsTarget(prog, k)

\* Where a branch at index n goes: behind the last target, or behind the first
\* instruction if there is none.
Landing(prog, n) ==
    CHOOSE k \in 0 .. n :
        /\ k > 0 => IsTarget(prog, k)
        /\ \A j \in k + 1 .. n : ~IsTarget(prog, j)

\* HASHX_PROGRAM_MAX_SIZE, the length of the array program->code.
MAX_INSTRUCTIONS == 512

-----------------------------------------------------------------------------
(* Sizes.                                                                   *)

\* Mutant: an immediate of eight bytes.
X86SizeImm64(opcode) == IF opcode \in {"ADD_C", "XOR_C"} THEN 11 ELSE 4

x86_size(opcode) ==
    [op \in Opcodes |->
        IF op \in MultiplyHigh THEN 9
        ELSE IF op \in {"SUB_R", "XOR_R"} THEN 3
        ELSE IF op \in {"MUL_R", "ADD_RS", "ROR_C"} THEN 4
        ELSE IF op \in {"ADD_C", "XOR_C"} THEN 7
        ELSE IF op = "TARGET" THEN 5 ELSE 10][opcode]

\* A constant takes two instructions before the one that uses it; a target none.
a64_size(opcode) ==
    [op \in Opcodes |->
        IF op = "TARGET" THEN 0
        ELSE IF op = "BRANCH" THEN 24
        ELSE IF op \in {"ADD_C", "XOR_C"} THEN 12 ELSE 4][opcode]

\* sizeof x86_prologue and x86_epilogue, with and without WINABI.
x86_prologue(winabi) == IF winabi THEN 69 ELSE 62
x86_epilogue(winabi) == IF winabi THEN 65 ELSE 55

a64_prologue == 40
a64_epilogue == 36

\* 512 * COMP_AVG_INSTR_SIZE + COMP_RESERVE_SIZE, in whole pages.
COMP_CODE_SIZE == 4096
=============================================================================
