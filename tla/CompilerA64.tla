----------------------------- MODULE CompilerA64 -----------------------------
(****************************************************************************)
(* hashx_compile_a64 and the code it emits.                                 *)
(*                                                                          *)
(* Unlike on x86, no register keeps the last wide product: the branch reads *)
(* the program's own register creg that the multiplication wrote, which     *)
(* nothing may overwrite in between.  The compiler only asserts that.  A    *)
(* target emits nothing; that a branch was taken is in w9, which the branch *)
(* inverts when it is taken.                                                *)
(****************************************************************************)
EXTENDS Compilable

CONSTANTS
    Bits,       \* the bits of a word that a mask may test
    Registers,
    Programs    \* the programs that may be compiled

Words == SUBSET Bits

\* instr->dst = -1, creg = -1, target = NULL
None == -1

Instructions ==
    [opcode : MultiplyHigh \cup Arithmetic, dst : Registers, imm32 : Words]
        \cup [opcode : {"TARGET", "BRANCH"}, dst : {None}, imm32 : Words]

\* What is assumed of the constants.
A64Assumption ==
    /\ None \notin Registers
    /\ Programs \subseteq {prog \in Seq(Instructions) : A64Compilable(prog)}

VARIABLES
    pc,         \* "compile", "run", "returned", or "aborted" by an assertion
    code,       \* program->code
    i, pos, target, creg,   \* the compiler's variables
    text,       \* the emitted instructions, by their positions
    address, x, w9, Z,      \* the processor's: next instruction, x0-x7, w9, flag
    product     \* history: the last wide product, empty before the first

compiler == <<i, pos, target, creg, text>>
processor == <<address, x, w9, Z>>
vars == <<pc, code, compiler, processor, product>>

Init ==
    /\ pc = "compile"
    /\ code \in Programs
    /\ i = 0
    /\ pos = a64_prologue
    /\ target = None
    /\ creg = None
    /\ text = [p \in {0} |-> [op |-> "prologue", src |-> 0]]
    /\ address = 0
    /\ x = [r \in Registers |-> {}]
    /\ w9 = {}
    /\ Z = FALSE
    /\ product = {}

-----------------------------------------------------------------------------
(* Compiling.  src is the program's index an instruction comes from.        *)

instr == code[i + 1]

With(items) ==
    [p \in DOMAIN text \cup DOMAIN items |->
        IF p \in DOMAIN items THEN items[p] ELSE text[p]]

EmitAt(opcodes, items) ==
    /\ pc = "compile"
    /\ i < Len(code)
    /\ instr.opcode \in opcodes
    /\ text' = With(items)
    /\ i' = i + 1
    /\ pos' = pos + a64_size(instr.opcode)
    /\ UNCHANGED <<code, processor, product>>

\* An instruction that writes dst.
Operation(op) ==
    [p \in {pos} |-> [op |-> op, src |-> i, dst |-> instr.dst,
                      next |-> pos + a64_size(instr.opcode)]]

EmitWideMul ==
    /\ EmitAt(MultiplyHigh, Operation("mul"))
    /\ creg' = IF target # None THEN instr.dst ELSE creg
    /\ UNCHANGED <<pc, target>>

\* assert(creg != instr->dst)
EmitCompute ==
    /\ EmitAt(Arithmetic, Operation("alu"))
    /\ pc' = IF creg = instr.dst THEN "aborted" ELSE pc
    /\ UNCHANGED <<target, creg>>

EmitTarget ==
    /\ EmitAt({"TARGET"}, << >>)
    /\ target' = pos
    /\ UNCHANGED <<pc, creg>>

\* Values of the displacement's 19 bits.
IMM19 == 512 * 1024

Displacement(from) == ((target - from) \div 4) % IMM19

\* The immediate, orr and tst; csinv; b.eq.
BranchItems ==
    [p \in {pos, pos + 16, pos + 20} |->
        IF p = pos
        THEN [op |-> "tst", src |-> i, creg |-> creg, imm |-> instr.imm32]
        ELSE IF p = pos + 16 THEN [op |-> "csinv", src |-> i]
        ELSE [op |-> "b.eq", src |-> i, imm19 |-> Displacement(p)]]

\* Mutant: creg survives the branch.
EmitBranchKeepCreg ==
    /\ EmitAt({"BRANCH"}, BranchItems)
    /\ target' = None
    /\ UNCHANGED <<pc, creg>>

EmitBranch ==
    /\ EmitAt({"BRANCH"}, BranchItems)
    /\ target' = None
    /\ creg' = None
    /\ UNCHANGED pc

EmitEpilogue ==
    /\ pc = "compile"
    /\ i = Len(code)
    /\ text' = With([p \in {pos} |-> [op |-> "epilogue", src |-> i]])
    /\ pos' = pos + a64_epilogue
    /\ pc' = "run"
    /\ UNCHANGED <<code, i, target, creg, processor, product>>

-----------------------------------------------------------------------------
(* Running: ctx->func(r).                                                   *)

Fetch(op) ==
    /\ pc = "run"
    /\ address \in DOMAIN text
    /\ text[address].op = op
    /\ UNCHANGED <<code, compiler>>

\* The input's registers, and w9 = 0.
Prologue ==
    /\ Fetch("prologue")
    /\ address' = a64_prologue
    /\ x' \in [Registers -> Words]
    /\ w9' = {}
    /\ UNCHANGED <<pc, Z, product>>

MulHigh ==
    /\ Fetch("mul")
    /\ product' \in Words
    /\ x' = [x EXCEPT ![text[address].dst] = product']
    /\ address' = text[address].next
    /\ UNCHANGED <<pc, w9, Z>>

\* None of these instructions sets the flags.
Alu ==
    /\ Fetch("alu")
    /\ \E w \in Words : x' = [x EXCEPT ![text[address].dst] = w]
    /\ address' = text[address].next
    /\ UNCHANGED <<pc, w9, Z, product>>

\* orr w11, w9, creg; tst w11, w12
Tst ==
    /\ Fetch("tst")
    /\ Z' = ((w9 \cup x[text[address].creg]) \cap text[address].imm = {})
    /\ address' = address + 16
    /\ UNCHANGED <<pc, x, w9, product>>

\* csinv w9, w9, w9, ne
Csinv ==
    /\ Fetch("csinv")
    /\ w9' = IF Z THEN Bits \ w9 ELSE w9
    /\ address' = address + 4
    /\ UNCHANGED <<pc, x, Z, product>>

SignExtend19(imm) == IF imm < IMM19 \div 2 THEN imm ELSE imm - IMM19

\* Where the instruction at address goes if it is a b.eq.
Destination ==
    IF Z THEN address + 4 * SignExtend19(text[address].imm19) ELSE address + 4

BEq ==
    /\ Fetch("b.eq")
    /\ address' = Destination
    /\ UNCHANGED <<pc, x, w9, Z, product>>

Epilogue ==
    /\ Fetch("epilogue")
    /\ pc' = "returned"
    /\ UNCHANGED <<processor, product>>

Returned == pc \in {"returned", "aborted"} /\ UNCHANGED vars

Next ==
    \/ EmitWideMul \/ EmitCompute \/ EmitTarget \/ EmitBranch \/ EmitEpilogue
    \/ Prologue \/ MulHigh \/ Alu \/ Tst \/ Csinv \/ BEq \/ Epilogue \/ Returned

Spec == Init /\ [][Next]_vars

-----------------------------------------------------------------------------
(* Properties.                                                              *)

TypeOK ==
    /\ pc \in {"compile", "run", "returned", "aborted"}
    /\ code \in Seq(Instructions)
    /\ i \in 0 .. Len(code)
    /\ pos \in Nat
    /\ target \in Nat \cup {None}
    /\ creg \in Registers \cup {None}
    /\ \A p \in DOMAIN text : p \in 0 .. pos - 1 /\ text[p].src \in 0 .. Len(code)
    /\ address \in DOMAIN text
    /\ x \in [Registers -> Words]
    /\ w9 \in {{}, Bits}
    /\ Z \in BOOLEAN
    /\ product \in Words

\* The assertions hold for programs that keep the tested register.  creg and
\* target are reset at a branch, so that a multiplication between the branch
\* and the next target is free.
NeverAborts == pc # "aborted"

InProgram == pc \in {"run", "returned"} /\ address > 0

\* A branch has decided once csinv is executed.
Decided == IF text[address].op = "b.eq" THEN Destination ELSE address

\* Where the code is in the program, and whether a branch was taken.
At == Skip(code, IF InProgram THEN text[Decided].src ELSE 0)
Jumped == InProgram /\ w9 # {}
=============================================================================
