----------------------------- MODULE Templates -----------------------------
(****************************************************************************)
(* The constant tables of program.c: the templates an instruction is made   *)
(* from, the groups of templates a program position may draw from, and the  *)
(* layout that assigns such a group to each of the 36 sub-cycles the        *)
(* generator repeats.                                                       *)
(*                                                                          *)
(* Opcodes are strings with the names of the enum instr_type.  A set of     *)
(* execution ports is a TLA+ set, PORT_NONE is the empty set.  The assembly *)
(* text and the width of the immediate are left out: no decision of the     *)
(* generator reads them.                                                    *)
(****************************************************************************)
EXTENDS Integers

Ports == {"P0", "P1", "P5"}

PORT_NONE == {}
PORT_P01 == {"P0", "P1"}
PORT_P05 == {"P0", "P5"}
PORT_P015 == Ports

Groups == {"UMULH_R", "SMULH_R", "MUL_R", "XOR_R", "ADD_RS", "ROR_C",
           "ADD_C", "XOR_C", "TARGET", "BRANCH"}

Opcodes == Groups \cup {"SUB_R"}

\* A value of instr_type that no template has: the code's (instr_type)-1.
NoInstr == "none"

-----------------------------------------------------------------------------
(* Templates.                                                               *)

\* Mutant: the result is ready in the next cycle.
EarlyWideMul(type) ==
    [type |-> type, group |-> type, latency |-> 1,
     uop1 |-> {"P1"}, uop2 |-> {"P5"}, distinct_dst |-> FALSE,
     op_par_src |-> FALSE, has_src |-> TRUE, has_dst |-> TRUE]

WideMul(type) ==
    [type |-> type, group |-> type, latency |-> 4,
     uop1 |-> {"P1"}, uop2 |-> {"P5"}, distinct_dst |-> FALSE,
     op_par_src |-> FALSE, has_src |-> TRUE, has_dst |-> TRUE]

\* One uOP, a source register that is also the parameter of the operation.
TwoOperand(type, group, latency, uop) ==
    [type |-> type, group |-> group, latency |-> latency,
     uop1 |-> uop, uop2 |-> PORT_NONE, distinct_dst |-> TRUE,
     op_par_src |-> TRUE, has_src |-> TRUE, has_dst |-> TRUE]

\* Mutant: the result is ready a cycle later.
LateConstant(type, uop) ==
    [type |-> type, group |-> type, latency |-> 2,
     uop1 |-> uop, uop2 |-> PORT_NONE, distinct_dst |-> TRUE,
     op_par_src |-> FALSE, has_src |-> FALSE, has_dst |-> TRUE]

\* One uOP, an immediate instead of a source register.
WithConstant(type, uop) ==
    [type |-> type, group |-> type, latency |-> 1,
     uop1 |-> uop, uop2 |-> PORT_NONE, distinct_dst |-> TRUE,
     op_par_src |-> FALSE, has_src |-> FALSE, has_dst |-> TRUE]

\* Two uOPs that may use any port, no register operand.
Control(type) ==
    [type |-> type, group |-> type, latency |-> 1,
     uop1 |-> PORT_P015, uop2 |-> PORT_P015, distinct_dst |-> TRUE,
     op_par_src |-> FALSE, has_src |-> FALSE, has_dst |-> FALSE]

tpl_umulh_r == WideMul("UMULH_R")
tpl_smulh_r == WideMul("SMULH_R")
tpl_mul_r   == TwoOperand("MUL_R", "MUL_R", 3, {"P1"})
tpl_sub_r   == TwoOperand("SUB_R", "ADD_RS", 1, PORT_P015)
tpl_xor_r   == TwoOperand("XOR_R", "XOR_R", 1, PORT_P015)
tpl_add_rs  == TwoOperand("ADD_RS", "ADD_RS", 1, PORT_P01)
tpl_ror_c   == WithConstant("ROR_C", PORT_P05)
tpl_add_c   == WithConstant("ADD_C", PORT_P015)
tpl_xor_c   == WithConstant("XOR_C", PORT_P015)
tpl_target  == Control("TARGET")
tpl_branch  == Control("BRANCH")

AnyTemplates == {tpl_ror_c, tpl_xor_c, tpl_add_c, tpl_sub_r, tpl_xor_r,
                 tpl_add_rs}
WideTemplates == {tpl_umulh_r, tpl_smulh_r}
Templates == AnyTemplates \cup WideTemplates
                \cup {tpl_mul_r, tpl_target, tpl_branch}

\* Mutant: wide multiplications are not counted.
NarrowMul(type) == type = "MUL_R"

\* is_mul: the three multiplications come first in the enum.
is_mul(type) == type \in {"UMULH_R", "SMULH_R", "MUL_R"}

\* instr_lookup: the low three bits of a random byte choose a template.
instr_lookup == <<tpl_ror_c, tpl_xor_c, tpl_add_c, tpl_add_c,
                  tpl_sub_r, tpl_xor_r, tpl_xor_c, tpl_add_rs>>

wide_mul_lookup == <<tpl_smulh_r, tpl_umulh_r>>

-----------------------------------------------------------------------------
(* Items: what may be generated at a position of the layout.  mask0 and     *)
(* mask1 tell which bits of the byte index the table, at the first attempt  *)
(* and later; duplicates, whether the last group may be repeated.           *)

OneTemplate(tpl) ==
    [templates |-> <<tpl>>, mask0 |-> 0, mask1 |-> 0, duplicates |-> TRUE]

item_mul == OneTemplate(tpl_mul_r)
item_target == OneTemplate(tpl_target)
item_branch == OneTemplate(tpl_branch)

item_wide_mul ==
    [templates |-> wide_mul_lookup, mask0 |-> 1, mask1 |-> 1, duplicates |-> TRUE]

\* mask1 leaves the four entries that need no source register.
item_any ==
    [templates |-> instr_lookup, mask0 |-> 7, mask1 |-> 3, duplicates |-> FALSE]

LayoutSize == 36

\* Mutant: the target comes after another instruction instead of before it.
LateTargetLayout(pos) ==
    IF pos % 3 = 0
    THEN IF pos \in {12, 24} THEN item_wide_mul ELSE item_mul
    ELSE IF pos = 2 THEN item_target
    ELSE IF pos = 19 THEN item_branch
    ELSE item_any

\* Mutant: the branch comes before its target.
BranchFirstLayout(pos) ==
    IF pos % 3 = 0
    THEN IF pos \in {12, 24} THEN item_wide_mul ELSE item_mul
    ELSE IF pos = 1 THEN item_branch
    ELSE IF pos = 19 THEN item_target
    ELSE item_any

\* Twelve cycles of three sub-cycles: each begins with a multiplication.
program_layout(pos) ==
    IF pos % 3 = 0
    THEN IF pos \in {12, 24} THEN item_wide_mul ELSE item_mul
    ELSE IF pos = 1 THEN item_target
    ELSE IF pos = 19 THEN item_branch
    ELSE item_any

=============================================================================
