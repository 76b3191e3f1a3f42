------------------------------ MODULE Drawing ------------------------------
(****************************************************************************)
(* The generator with the loops in which it draws again: for a template of  *)
(* another group (select_template), for another bit of a branch's mask      *)
(* (branch_mask), and for a constant that is not 0 (instr_from_template).   *)
(*                                                                          *)
(* A step is one draw, or what Program does with the template drawn.  What  *)
(* Program takes as a choice among the draws that end a loop is here the    *)
(* loop: this specification implements Program's.                           *)
(****************************************************************************)
EXTENDS Program

CONSTANTS
    MASK_BITS,          \* 32: branch_mask uses a byte modulo this
    LOG2_BRANCH_PROB,
    UINT32_MAX,         \* one less than a power of two
    U32Draws            \* the words the generator may draw

ASSUME DrawingAssumption ==
    /\ MASK_BITS \in Nat
    /\ LOG2_BRANCH_PROB \in 1 .. MASK_BITS
    /\ UINT32_MAX \in Nat /\ UINT32_MAX >= 63
    /\ U32Draws \subseteq 0 .. UINT32_MAX

VARIABLES
    loop,       \* "template", "mask" or "immediate"; "drawn" behind them
    template,   \* the one drawn
    mask,       \* branch_mask's, as the set of its bits
    popcnt,
    imm32       \* instr->imm32 of an instruction with a constant

drawing == <<loop, template, mask, popcnt, imm32>>

NoTemplate == [type |-> NoInstr]

DrawingInit ==
    /\ Init
    /\ loop = "template"
    /\ template = NoTemplate
    /\ mask = {}
    /\ popcnt = 0
    /\ imm32 = 0

-----------------------------------------------------------------------------
\* The mask of an immediate, also one less than a power of two; 0 for none.
immediate_mask(t) ==
    IF t.type = "ADD_RS" THEN 3
    ELSE IF t.type = "ROR_C" THEN 63
    ELSE IF t.type \in {"ADD_C", "XOR_C"} THEN UINT32_MAX ELSE 0

imm_can_be_0(t) == t.type = "ADD_RS"

\* Where instr_from_template goes with a template.
LoopFor(t) ==
    IF t.type = "BRANCH" THEN "mask"
    ELSE IF immediate_mask(t) # 0 THEN "immediate" ELSE "drawn"

\* Mutant: a group may always be repeated.
MayRepeat(item, t) == TRUE

\* The condition that ends the loop of select_template.
MayFollow(item, t) == item.duplicates \/ t.group # last_instr

\* select_template: the entry of the slot's table that the byte selects.
DrawTemplate(byte) ==
    LET item == program_layout(sub_cycle % LayoutSize)
        t == item.templates[TemplateIndex(item, byte) + 1]
    IN  /\ pc = "generate"
        /\ code_size < HASHX_PROGRAM_MAX_SIZE
        /\ loop = "template"
        /\ IF MayFollow(item, t) THEN template' = t /\ loop' = LoopFor(t)
           ELSE UNCHANGED <<template, loop>>
        /\ UNCHANGED <<mask, popcnt, imm32>>

\* Mutant: a bit that is set already is counted again.
CountEveryBit(byte) ==
    /\ loop = "mask"
    /\ mask' = mask \cup {byte % MASK_BITS}
    /\ popcnt' = popcnt + 1
    /\ loop' = IF popcnt' < LOG2_BRANCH_PROB THEN "mask" ELSE "drawn"
    /\ UNCHANGED <<template, imm32>>

DrawBit(byte) ==
    /\ loop = "mask"
    /\ mask' = mask \cup {byte % MASK_BITS}
    /\ popcnt' = popcnt + (IF byte % MASK_BITS \in mask THEN 0 ELSE 1)
    /\ loop' = IF popcnt' < LOG2_BRANCH_PROB THEN "mask" ELSE "drawn"
    /\ UNCHANGED <<template, imm32>>

DrawImmediate(word) ==
    /\ loop = "immediate"
    /\ imm32' = word % (immediate_mask(template) + 1)
    /\ loop' = IF imm32' = 0 /\ ~imm_can_be_0(template) THEN "immediate" ELSE "drawn"
    /\ UNCHANGED <<template, mask, popcnt>>

Draw ==
    /\ \/ \E byte \in U8Draws : DrawTemplate(byte) \/ DrawBit(byte)
       \/ \E word \in U32Draws : DrawImmediate(word)
    /\ UNCHANGED vars

\* The rest of the iteration; the next one draws anew.
UseTemplate ==
    /\ loop = "drawn"
    /\ TryTemplate(template)
    /\ loop' = "template"
    /\ template' = NoTemplate
    /\ mask' = {}
    /\ popcnt' = 0
    /\ imm32' = 0

Leave == Return /\ UNCHANGED drawing

DrawingNext ==
    Draw \/ UseTemplate \/ Leave \/ (Terminated /\ UNCHANGED drawing)

\* A running thread goes on; and a loop that draws again does not for ever get
\* numbers that leave everything as it is, if there are others: it gets one
\* with probability one.
Fairness ==
    /\ WF_<<vars, drawing>>(Draw)
    /\ WF_<<vars, drawing>>(UseTemplate \/ Leave)

DrawingSpec == DrawingInit /\ [][DrawingNext]_<<vars, drawing>> /\ Fairness

-----------------------------------------------------------------------------
(* Properties.                                                              *)

Drawn(types) == loop = "drawn" /\ template.type \in types

\* A branch is taken with probability 1 / 2^LOG2_BRANCH_PROB: its mask has that
\* many bits, whichever bits are drawn twice.  It is never empty, which both
\* compilers rely on.
MaskHasItsBits == Drawn({"BRANCH"}) => Cardinality(mask) = LOG2_BRANCH_PROB

\* No constant makes an instruction do nothing, or rotr64 shift by a word.
ConstantsAreUsable ==
    Drawn({"ROR_C", "ADD_C", "XOR_C"}) =>
        imm32 \in 1 .. (IF template.type = "ROR_C" THEN 63 ELSE UINT32_MAX)

\* Whatever is drawn again, branch masks and constants are such as the compilers
\* and the interpreter need them.
ImmediatesAreUsable == MaskHasItsBits /\ ConstantsAreUsable

\* The loops end with just the templates Program chooses from: every iteration
\* is one of Program's.
DrawsAreChoices == Init /\ [][Next]_vars
=============================================================================
