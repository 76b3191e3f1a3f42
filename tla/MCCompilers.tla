----------------------------- MODULE MCCompilers -----------------------------
(****************************************************************************)
(* Both compilers on the short programs they may meet; x86 also on          *)
(* stretches whose branch goes back by up to the 128 bytes its displacement *)
(* allows.                                                                  *)
(****************************************************************************)
EXTENDS Compilers, TLC

CONSTANTS
    X86Length, A64Length,   \* of the short programs
    Mask                    \* of all branches

NoMask == {}
Plain(op) == [opcode |-> op, imm32 |-> NoMask]
Branch == [opcode |-> "BRANCH", imm32 |-> Mask]
Short == {Plain(op) : op \in {"UMULH_R", "XOR_R", "TARGET"}} \cup {Branch}

\* 22 bytes, and n immediates of 7 and m operations of 3 bytes.
Stretch(n, m) ==
    <<Plain("TARGET"), Plain("UMULH_R")>>
        \o [k \in 1 .. n |-> Plain("ADD_C")] \o [k \in 1 .. m |-> Plain("SUB_R")]
        \o <<Branch, Plain("UMULH_R")>>

\* For what does not depend on the programs.
X == INSTANCE CompilerX86 WITH Programs <- {}
A == INSTANCE CompilerA64 WITH Programs <- {}

\* The displacements of the three stretches are -125, -127 and -128.
ShortX86Programs ==
    {prog \in UNION {[1 .. n -> Short] : n \in 0 .. X86Length} : X!X86Compilable(prog)}
        \cup {Stretch(10, 11), Stretch(12, 7), Stretch(13, 5)}

Writes == [opcode : {"UMULH_R", "XOR_R"}, dst : Registers, imm32 : {NoMask}]
Without(op, mask) == [opcode |-> op, dst |-> A!None, imm32 |-> mask]
A64Short == Writes \cup {Without("TARGET", NoMask), Without("BRANCH", Mask)}

\* Those without a branch are of no interest.
ShortA64Programs ==
    {prog \in UNION {[1 .. n -> A64Short] : n \in 1 .. A64Length} :
        (\E k \in DOMAIN prog : prog[k].opcode = "BRANCH") /\ A!A64Compilable(prog)}

Symmetry == Permutations(Registers)
=============================================================================
