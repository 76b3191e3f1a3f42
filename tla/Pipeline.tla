------------------------------ MODULE Pipeline ------------------------------
(****************************************************************************)
(* The program the generator hands over: is it one the compilers rely on?   *)
(*                                                                          *)
(* Codegen with the program itself, which is what the modules of the two    *)
(* compilers start from.                                                    *)
(****************************************************************************)
EXTENDS Codegen, Sequences

CONSTANTS
    Bits,       \* the bits of a word that a mask may test
    Masks       \* what branch_mask may return, none of which is empty

ASSUME PipelineAssumption ==
    /\ Masks \subseteq (SUBSET Bits) \ {{}}
    /\ HASHX_PROGRAM_MAX_SIZE <= E!MAX_INSTRUCTIONS

\* program->code.  The model forgets it when a slot is given up: were such a
\* program accepted, AcceptedIsCompilable would fail for its length.
VARIABLE code

\* As the compilers see them: an immediate is looked at in branches only.
Instructions ==
    [opcode : E!MultiplyHigh \cup E!Arithmetic, dst : Registers, imm32 : {{}}]
        \cup [opcode : {"TARGET"}, dst : {NoRegister}, imm32 : {{}}]
        \cup [opcode : {"BRANCH"}, dst : {NoRegister}, imm32 : Masks]

instr_from_template(tpl, dst) ==
    [opcode : {tpl.type}, dst : {dst}, imm32 : IF tpl.type = "BRANCH" THEN Masks ELSE {{}}]

EmitIntoCode(tpl) ==
    \E src \in select_source(tpl, schedule_instr(tpl)) :
        \E par \in op_par(tpl, src) :
            \E dst \in select_destination(tpl, src, par, schedule_instr(tpl)) :
                /\ Emit(tpl, par, dst)
                /\ CompileX86(tpl.type)
                /\ CompileA64(tpl.type, dst)
                /\ \E instr \in instr_from_template(tpl, dst) :
                    code' = IF skipped THEN << >> ELSE Append(code, instr)

\* Every other step of the generator.
EmitNothingIntoCode ==
    /\ EmitNothing
    /\ code' = IF skipped' THEN << >> ELSE code

PipelineNext == EmitNothingIntoCode \/ \E tpl \in select_template : EmitIntoCode(tpl)

PipelineInit == CodegenInit /\ code = << >>

PipelineSpec == PipelineInit /\ [][PipelineNext]_<<vars, compilers, code>>

-----------------------------------------------------------------------------
\* A program that is accepted is what both compilers rely on without a check:
\* targets near enough, a wide multiplication to test, whose register is kept
\* until the branch, masks that are not empty, and no more than the array holds.
AcceptedIsCompilable ==
    accepted =>
        /\ code \in Seq(Instructions) /\ Len(code) = REQUIREMENT_SIZE
        /\ E!X86Compilable(code)
        /\ E!A64Compilable(code)
=============================================================================
