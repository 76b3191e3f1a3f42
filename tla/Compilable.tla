----------------------------- MODULE Compilable -----------------------------
(****************************************************************************)
(* What the compilers rely on without checking.  A program is a sequence of *)
(* instructions with an opcode, a destination and an immediate, which is the*)
(* set of the bits of a branch's mask.                                      *)
(****************************************************************************)
EXTENDS Encoding

\* The size of the x86 code from prog[j] up to prog[k].
Between(prog, j, k) ==
    LET sum[n \in j .. k] ==
            IF n = j THEN 0 ELSE sum[n - 1] + x86_size(prog[n - 1].opcode)
    IN  sum[k]

\* On x86: behind a wide multiplication and a target, and at most 128 bytes from
\* it to the displacement, comes a branch that tests at least one bit.
X86Compilable(prog) ==
    \A k \in DOMAIN prog : prog[k].opcode = "BRANCH" =>
        /\ prog[k].imm32 # {}
        /\ \E j \in 1 .. k : prog[j].opcode \in MultiplyHigh
        /\ \E j \in 1 .. k :
            /\ prog[j].opcode = "TARGET"
            /\ \A n \in j + 1 .. k : prog[n].opcode # "TARGET"
            /\ Between(prog, j, k) + 8 <= 128

\* prog[m] is a wide multiplication between a target and prog[n], with no
\* branch since the target.
Watched(prog, m, n) ==
    /\ prog[m].opcode \in MultiplyHigh
    /\ \E j \in 1 .. m - 1 :
        /\ prog[j].opcode = "TARGET"
        /\ \A k \in j .. n - 1 : prog[k].opcode # "BRANCH"

\* On A64: the register of such a multiplication is kept until the branch or
\* until there is another; every branch has one, and tests at least one bit.
\* And the program fits its array.
A64Compilable(prog) ==
    /\ Len(prog) <= MAX_INSTRUCTIONS
    /\ \A n \in DOMAIN prog :
        /\ prog[n].opcode \in Arithmetic =>
            \A m \in 1 .. n - 1 : Watched(prog, m, n) =>
                \/ prog[m].dst # prog[n].dst
                \/ \E l \in m + 1 .. n - 1 : prog[l].opcode \in MultiplyHigh
        /\ prog[n].opcode = "BRANCH" =>
            /\ prog[n].imm32 # {}
            /\ \E m \in 1 .. n - 1 : Watched(prog, m, n)
=============================================================================
