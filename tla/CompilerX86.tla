----------------------------- MODULE CompilerX86 -----------------------------
(****************************************************************************)
(* hashx_compile_x86 and the code it emits.                                 *)
(*                                                                          *)
(* First the compiler passes once over the program and emits machine code;  *)
(* then the code runs.  A branch is compiled into a conditional jump back   *)
(* with a displacement of eight bits.  No register holds "a branch was      *)
(* taken": the jump arrives behind the first instruction of the target with *)
(* the zero flag set, which the target's cmovz turns into an esi of all     *)
(* ones, which makes later branches fail.  Falling into the target clears   *)
(* the flag.                                                                *)
(*                                                                          *)
(* The program's registers are left out, as in HashProgram; edx holds the   *)
(* last wide product because no other emitted instruction writes it.        *)
(****************************************************************************)
EXTENDS Compilable

CONSTANTS
    Bits,       \* the bits of a word that a mask may test
    Programs,   \* the programs that may be compiled
    WINABI      \* is it the Windows calling convention?

Words == SUBSET Bits
Instructions == [opcode : Opcodes, imm32 : Words]

\* What is assumed of the constants.
X86Assumption ==
    /\ WINABI \in BOOLEAN
    /\ Bits # {}
    /\ Programs \subseteq {prog \in Seq(Instructions) : X86Compilable(prog)}

VARIABLES
    pc,         \* "compile", "run" or "returned"
    code,       \* program->code
    i, pos, target,     \* the compiler's variables; NoTarget is its NULL
    text,       \* the emitted instructions, by their positions
    rip, esi, edx, ZF,  \* the processor's
    product     \* history: the last wide product, empty before the first

compiler == <<i, pos, target, text>>
processor == <<rip, esi, edx, ZF>>
vars == <<pc, code, compiler, processor, product>>

NoTarget == -1

Init ==
    /\ pc = "compile"
    /\ code \in Programs
    /\ i = 0
    /\ pos = x86_prologue(WINABI)
    /\ target = NoTarget
    /\ text = [p \in {0} |-> [op |-> "prologue", src |-> 0]]
    /\ rip = 0
    /\ esi = {}
    /\ edx = {}
    /\ ZF = FALSE
    /\ product = {}

-----------------------------------------------------------------------------
(* Compiling.  src is the program's index an instruction comes from.        *)

instr == code[i + 1]

With(items) ==
    [p \in DOMAIN text \cup DOMAIN items |->
        IF p \in DOMAIN items THEN items[p] ELSE text[p]]

EmitAt(opcodes, items) ==
    /\ pc = "compile"
    /\ i < Len(code)
    /\ instr.opcode \in opcodes
    /\ text' = With(items)
    /\ i' = i + 1
    /\ pos' = pos + x86_size(instr.opcode)
    /\ UNCHANGED <<pc, code, processor, product>>

EmitWideMul ==
    /\ EmitAt(MultiplyHigh, [p \in {pos} |-> [op |-> "mul", src |-> i,
                                          next |-> pos + 9]])
    /\ UNCHANGED target

EmitCompute ==
    /\ EmitAt(Arithmetic, [p \in {pos} |-> [op |-> "alu", src |-> i,
                                next |-> pos + x86_size(instr.opcode)]])
    /\ UNCHANGED target

\* test edi, edi; cmovz esi, edi
EmitTarget ==
    /\ EmitAt({"TARGET"}, [p \in {pos, pos + 2} |->
            IF p = pos THEN [op |-> "test_edi", src |-> i]
            ELSE [op |-> "cmovz", src |-> i]])
    /\ target' = pos

\* target - pos, behind the first two instructions of the branch.
Displacement == target - (pos + 8)

\* or edx, esi; test edx, imm32; jz with the low byte of the displacement
EmitBranch ==
    /\ EmitAt({"BRANCH"}, [p \in {pos, pos + 2, pos + 8} |->
            IF p = pos THEN [op |-> "or_edx", src |-> i]
            ELSE IF p = pos + 2
            THEN [op |-> "test_edx", src |-> i, imm |-> instr.imm32]
            ELSE [op |-> "jz", src |-> i, disp8 |-> Displacement % 256]])
    /\ UNCHANGED target

EmitEpilogue ==
    /\ pc = "compile"
    /\ i = Len(code)
    /\ text' = With([p \in {pos} |-> [op |-> "epilogue", src |-> i]])
    /\ pos' = pos + x86_epilogue(WINABI)
    /\ pc' = "run"
    /\ UNCHANGED <<code, i, target, processor, product>>

-----------------------------------------------------------------------------
(* Running: ctx->func(r).                                                   *)

Fetch(op) ==
    /\ pc = "run"
    /\ rip \in DOMAIN text
    /\ text[rip].op = op
    /\ UNCHANGED <<code, compiler>>

\* edx is what the caller left in it.
Prologue ==
    /\ Fetch("prologue")
    /\ rip' = x86_prologue(WINABI)
    /\ esi' = {}
    /\ edx' \in Words
    /\ ZF' = TRUE
    /\ UNCHANGED <<pc, product>>

\* lea edi, [rsi-1] of the prologue: edi never changes again.
edi == Bits

\* mov rax; mul or imul; mov: the flag is undefined.
MulHigh ==
    /\ Fetch("mul")
    /\ edx' \in Words
    /\ product' = edx'
    /\ ZF' \in BOOLEAN
    /\ rip' = text[rip].next
    /\ UNCHANGED <<pc, esi>>

Alu ==
    /\ Fetch("alu")
    /\ ZF' \in BOOLEAN
    /\ rip' = text[rip].next
    /\ UNCHANGED <<pc, esi, edx, product>>

\* Mutant: the target does not test edi.
KeepFlag ==
    /\ Fetch("test_edi")
    /\ rip' = rip + 2
    /\ UNCHANGED <<pc, esi, edx, ZF, product>>

TestEdi ==
    /\ Fetch("test_edi")
    /\ ZF' = (edi = {})
    /\ rip' = rip + 2
    /\ UNCHANGED <<pc, esi, edx, product>>

Cmovz ==
    /\ Fetch("cmovz")
    /\ esi' = IF ZF THEN edi ELSE esi
    /\ rip' = rip + 3
    /\ UNCHANGED <<pc, edx, ZF, product>>

OrEdx ==
    /\ Fetch("or_edx")
    /\ edx' = edx \cup esi
    /\ ZF' = (edx' = {})
    /\ rip' = rip + 2
    /\ UNCHANGED <<pc, esi, product>>

TestEdx ==
    /\ Fetch("test_edx")
    /\ ZF' = (edx \cap text[rip].imm = {})
    /\ rip' = rip + 6
    /\ UNCHANGED <<pc, esi, edx, product>>

SignExtend8(byte) == IF byte < 128 THEN byte ELSE byte - 256

Jz ==
    /\ Fetch("jz")
    /\ rip' = rip + 2 + (IF ZF THEN SignExtend8(text[rip].disp8) ELSE 0)
    /\ UNCHANGED <<pc, esi, edx, ZF, product>>

Epilogue ==
    /\ Fetch("epilogue")
    /\ pc' = "returned"
    /\ UNCHANGED <<processor, product>>

Returned == pc = "returned" /\ UNCHANGED vars

Next ==
    \/ EmitWideMul \/ EmitCompute \/ EmitTarget \/ EmitBranch \/ EmitEpilogue
    \/ Prologue \/ MulHigh \/ Alu \/ TestEdi \/ Cmovz
    \/ OrEdx \/ TestEdx \/ Jz \/ Epilogue \/ Returned

Spec == Init /\ [][Next]_vars

-----------------------------------------------------------------------------
(* Properties.                                                              *)

TypeOK ==
    /\ pc \in {"compile", "run", "returned"}
    /\ code \in Seq(Instructions)
    /\ i \in 0 .. Len(code)
    /\ pos \in Nat
    /\ target \in Nat \cup {NoTarget}
    /\ \A p \in DOMAIN text : p \in 0 .. pos - 1 /\ text[p].src \in 0 .. Len(code)
    /\ rip \in DOMAIN text
    /\ esi \in {{}, Bits}
    /\ edx \in Words
    /\ ZF \in BOOLEAN
    /\ product \in Words

\* The code has taken a branch: it says so in esi, or is about to.
HasJumped == esi # {} \/ (text[rip].op = "cmovz" /\ ZF)

InProgram == pc # "compile" /\ rip > 0

\* Where the code is in the program, and whether a branch was taken.
At == Skip(code, IF InProgram THEN text[rip].src ELSE 0)
Jumped == InProgram /\ HasJumped
=============================================================================
