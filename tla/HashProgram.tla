----------------------------- MODULE HashProgram -----------------------------
(****************************************************************************)
(* What it means to run a hash program: what the interpreter and the code   *)
(* of both compilers have in common.                                        *)
(*                                                                          *)
(* Instructions run in order; a target is not an instruction but a place.   *)
(* A branch goes back to the place before it if the low half of the last    *)
(* wide product has none of the bits of its mask, and only one branch of a  *)
(* program ever does.                                                       *)
(****************************************************************************)
EXTENDS Encoding

CONSTANTS
    Bits,       \* the bits of a word that a mask may test
    Programs    \* the programs that may be run

VARIABLES
    code,
    at,         \* the index of the next instruction, from 0
    jumped,     \* has a branch been taken?
    result      \* low half of the last wide product

vars == <<code, at, jumped, result>>

Init ==
    /\ code \in Programs
    /\ at = Skip(code, 0)
    /\ jumped = FALSE
    /\ result = {}

Running(opcodes) == at < Len(code) /\ code[at + 1].opcode \in opcodes

WideMul ==
    /\ Running(MultiplyHigh)
    /\ at' = Skip(code, at + 1)
    /\ result' \in SUBSET Bits
    /\ UNCHANGED <<code, jumped>>

Compute ==
    /\ Running(Arithmetic)
    /\ at' = Skip(code, at + 1)
    /\ UNCHANGED <<code, jumped, result>>

Taken == ~jumped /\ result \cap code[at + 1].imm32 = {}

Branch ==
    /\ Running({"BRANCH"})
    /\ at' = Skip(code, (IF Taken THEN Landing(code, at) ELSE at) + 1)
    /\ jumped' = (jumped \/ Taken)
    /\ UNCHANGED <<code, result>>

Next == WideMul \/ Compute \/ Branch

Spec == Init /\ [][Next]_vars
=============================================================================
