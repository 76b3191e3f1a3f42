----------------------------- MODULE ProgramExec -----------------------------
(****************************************************************************)
(* hashx_program_execute: the interpreter of hash programs.                 *)
(*                                                                          *)
(* One action executes one instruction.  A program is straight-line code    *)
(* but for its branches, of which at most one is taken: back to the last    *)
(* target.  It is taken if the low half of the last wide product has none   *)
(* of the bits of the branch's mask.                                        *)
(*                                                                          *)
(* Registers only matter through `result`; a product is a choice among all  *)
(* words, so what holds here holds for every input of the hash function.    *)
(****************************************************************************)
EXTENDS Encoding, FiniteSets

CONSTANTS
    Bits,       \* the bits of a word that a mask may test
    Programs    \* the programs that may be executed

Words == SUBSET Bits

\* imm32 is looked at in a BRANCH only; operands are left out.
Instructions ==
    [opcode : Opcodes, imm32 : Words]

ASSUME ProgramsAssumption == Programs \subseteq Seq(Instructions)

VARIABLES
    code,           \* program->code
    i,
    target,
    branch_enable,
    result,
    branch_idx,
    branches,       \* the indices i with program->branches[i] > 0
    runs,           \* history: how often each instruction was executed
    jump            \* history: from which branch to which target

vars == <<code, i, target, branch_enable, result, branch_idx, branches, runs, jump>>

Indices == 0 .. Len(code) - 1

Init ==
    /\ code \in Programs
    /\ i = 0
    /\ target = 0
    /\ branch_enable = TRUE
    /\ result = {}
    /\ branch_idx = 0
    /\ branches = {}
    /\ runs = [k \in Indices |-> 0]
    /\ jump = [from |-> 0, to |-> 0]

-----------------------------------------------------------------------------
instr == code[i + 1]

\* switch (instr->opcode)
Execute(opcodes) ==
    /\ i < Len(code)
    /\ instr.opcode \in opcodes
    /\ runs' = [runs EXCEPT ![i] = @ + 1]
    /\ UNCHANGED code

\* The high half of a product: a branch may test it.
WideMul ==
    /\ Execute(MultiplyHigh)
    /\ result' \in Words
    /\ i' = i + 1
    /\ UNCHANGED <<target, branch_enable, branch_idx, branches, jump>>

\* The other instructions with a destination.
Compute ==
    /\ Execute(Arithmetic)
    /\ i' = i + 1
    /\ UNCHANGED <<target, branch_enable, result, branch_idx, branches, jump>>

\* Mutant: the first target is kept.
FirstTarget ==
    /\ Execute({"TARGET"})
    /\ target' = IF target = 0 THEN i ELSE target
    /\ i' = i + 1
    /\ UNCHANGED <<branch_enable, result, branch_idx, branches, jump>>

Target ==
    /\ Execute({"TARGET"})
    /\ target' = i
    /\ i' = i + 1
    /\ UNCHANGED <<branch_enable, result, branch_idx, branches, jump>>

\* Mutant: branches stay enabled.
TakenEveryTime == result \cap instr.imm32 = {}

Taken == branch_enable /\ result \cap instr.imm32 = {}

BranchTaken ==
    /\ Execute({"BRANCH"})
    /\ Taken
    /\ i' = target + 1
    /\ branch_enable' = FALSE
    /\ branches' = branches \cup {branch_idx}
    /\ branch_idx' = branch_idx + 1
    /\ jump' = [from |-> i, to |-> target]
    /\ UNCHANGED <<target, result>>

BranchNotTaken ==
    /\ Execute({"BRANCH"})
    /\ ~Taken
    /\ i' = i + 1
    /\ branch_idx' = branch_idx + 1
    /\ UNCHANGED <<target, branch_enable, result, branches, jump>>

Return == i >= Len(code) /\ UNCHANGED vars

Next == WideMul \/ Compute \/ Target \/ BranchTaken \/ BranchNotTaken \/ Return

Spec == Init /\ [][Next]_vars

-----------------------------------------------------------------------------
(* Properties.                                                              *)

Jumped == ~branch_enable

\* The instructions behind the target, up to the branch that was taken.
Repeated == {k \in Indices : Jumped /\ jump.to < k /\ k <= jump.from}

TypeOK ==
    /\ code \in Programs
    /\ i \in 0 .. Len(code)
    /\ target \in 0 .. Len(code)
    /\ branch_enable \in BOOLEAN
    /\ result \in Words
    /\ branch_idx \in Nat
    /\ branches \subseteq Nat
    /\ runs \in [Indices -> Nat]
    /\ jump \in [from : 0 .. Len(code), to : 0 .. Len(code)]

\* Every instruction of a program is executed once, those from one target to
\* one branch at most twice: the work per hash is bounded by the program and
\* no input can make it loop.  (So it ends: every step executes one more.)
RunsOnce ==
    i = Len(code) =>
        \A k \in Indices : runs[k] = IF k \in Repeated THEN 2 ELSE 1

\* A branch goes back to the target before it: only a single stretch between
\* two targets can be repeated.
RepeatsOneStretch == \A k \in Repeated : code[k + 1].opcode # "TARGET"

BranchesBefore(n) == {k \in Indices : k < n /\ code[k + 1].opcode = "BRANCH"}

\* The branch counted as taken is the right one, although branch_idx goes on
\* to count branches twice after a jump: it stays within unsigned branches[16]
\* for programs with 16 branches.
CountsItsBranch ==
    branches = IF Jumped THEN {Cardinality(BranchesBefore(jump.from))} ELSE {}

-----------------------------------------------------------------------------
(* The inductive invariant behind them.                                     *)

\* Mid-way: what was executed is a prefix, and the stretch that is repeated.
RunsSoFar ==
    \A k \in Indices :
        runs[k] = (IF k < i THEN 1 ELSE 0) + (IF k \in Repeated THEN 1 ELSE 0)

\* No target was passed since `target`.
LastTarget ==
    /\ target <= i
    /\ branch_enable =>
        \A k \in Indices : target < k /\ k < i => code[k + 1].opcode # "TARGET"

JumpedBack == Jumped => jump.to <= jump.from /\ jump.from \in Indices

CountedOnTheWay ==
    branch_enable => branch_idx = Cardinality(BranchesBefore(i))

IInv ==
    /\ TypeOK
    /\ RunsSoFar
    /\ LastTarget
    /\ JumpedBack
    /\ RepeatsOneStretch
    /\ CountedOnTheWay
    /\ CountsItsBranch

-----------------------------------------------------------------------------
\* The interpreter means what the program means.  That a branch jumps to what
\* `target` happens to hold, and that branch_enable is a variable of the run and
\* not of the target, makes no difference.
Meaning == INSTANCE HashProgram WITH
    at <- Skip(code, i),
    jumped <- ~branch_enable

MeansTheProgram == Meaning!Spec
=============================================================================
