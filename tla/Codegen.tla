------------------------------- MODULE Codegen -------------------------------
(****************************************************************************)
(* The generator together with the compilers: is what it generates what     *)
(* they can compile?                                                        *)
(*                                                                          *)
(* Neither compiler checks its input.  They pass over the finished program  *)
(* once, so each instruction is compiled here when it is emitted.  Of the   *)
(* compilers' state this keeps what may go wrong: positions on x86, and the *)
(* register the branch tests on A64.                                        *)
(****************************************************************************)
EXTENDS Program

CONSTANT WINABI     \* is it the Windows calling convention?

ASSUME AbiAssumption == WINABI \in BOOLEAN

E == INSTANCE Compilable

VARIABLES
    x86_pos,        \* hashx_compile_x86: pos, from the start of the buffer
    x86_target,     \* and target
    a64_target,     \* hashx_compile_a64: is target not NULL?
    creg,
    aborted         \* has an assertion of hashx_compile_a64 failed?

compilers == <<x86_pos, x86_target, a64_target, creg, aborted>>

NoTarget == -1

CompilersInit ==
    /\ x86_pos = E!x86_prologue(WINABI)
    /\ x86_target = NoTarget
    /\ a64_target = FALSE
    /\ creg = NoRegister
    /\ aborted = FALSE

CompileX86(opcode) ==
    /\ x86_pos' = x86_pos + E!x86_size(opcode)
    /\ x86_target' = IF opcode = "TARGET" THEN x86_pos ELSE x86_target

CompileA64(opcode, dst) ==
    /\ a64_target' = (opcode = "TARGET" \/ (a64_target /\ opcode # "BRANCH"))
    /\ creg' = IF opcode = "BRANCH" THEN NoRegister
               ELSE IF opcode \in E!MultiplyHigh /\ a64_target THEN dst ELSE creg
    /\ aborted' = (aborted \/ (opcode \in E!Arithmetic /\ creg = dst))

EmitAndCompile(tpl) ==
    \E src \in select_source(tpl, schedule_instr(tpl)) :
        \E par \in op_par(tpl, src) :
            \E dst \in select_destination(tpl, src, par, schedule_instr(tpl)) :
                /\ Emit(tpl, par, dst)
                /\ CompileX86(tpl.type)
                /\ CompileA64(tpl.type, dst)

\* Every other step of the generator.
EmitNothing ==
    /\ \/ Return \/ Terminated
       \/ \E tpl \in select_template :
            \/ Unschedulable(tpl) \/ SourceStall(tpl)
            \/ \E src \in select_source(tpl, schedule_instr(tpl)) :
                \E par \in op_par(tpl, src) :
                    \/ DestinationStall(tpl, src, par)
                    \/ \E dst \in select_destination(tpl, src, par, schedule_instr(tpl)) :
                            Overrun(tpl)
    /\ UNCHANGED compilers

CodegenNext == EmitNothing \/ \E tpl \in select_template : EmitAndCompile(tpl)

CodegenInit == Init /\ CompilersInit

CodegenSpec == CodegenInit /\ [][CodegenNext]_<<vars, compilers>>

-----------------------------------------------------------------------------
(* Properties.                                                              *)

\* Six bytes per sub-cycle are enough for x86, whatever is drawn, retried or
\* skipped: the code of 576 sub-cycles fits the buffer, which nothing checks.
CodeFits == x86_pos <= E!x86_prologue(WINABI) + 6 * sub_cycle

Offered(tpl) == pc = "generate" /\ tpl \in select_template

\* The register an A64 branch tests holds the last wide product behind its
\* target: it is in flight until the branch, and only ready registers are
\* written.  So no assertion of the compiler fails for an accepted program.
TestedRegisterKept ==
    ~skipped =>
        /\ ~aborted
        /\ Offered(tpl_branch) => creg \in Registers

-----------------------------------------------------------------------------
(* The inductive invariant behind the properties.                           *)

\* A cycle begins with a multiplication, which is shorter than 6 bytes a slot.
Slack(s) == IF s % 3 = 0 THEN 0 ELSE IF s % 3 = 1 THEN 2 ELSE 1

CodeGrows ==
    /\ x86_pos \in Nat
    /\ x86_pos <= E!x86_prologue(WINABI) + 6 * sub_cycle - Slack(sub_cycle)

\* Between the target in slot 1 and the branch in slot 19.
TargetNear ==
    ~skipped /\ sub_cycle % 36 \in 3 .. 19 =>
        /\ x86_target \in Nat
        /\ x86_pos <= x86_target + 5 + 6 * ((sub_cycle % 36) - 3) - Slack(sub_cycle)

\* The product of slot 12 is in flight beyond slot 19.
WideInFlight ==
    ~skipped =>
        /\ ~aborted
        /\ a64_target <=> sub_cycle % 36 \in 3 .. 19
        /\ IF sub_cycle % 36 \in 14 .. 19
           THEN /\ creg \in Registers
                /\ registers[creg].latency = 12 * (sub_cycle \div 36) + 8
           ELSE creg = NoRegister

CompilersIInv == CodeGrows /\ TargetNear /\ WideInFlight
=============================================================================
