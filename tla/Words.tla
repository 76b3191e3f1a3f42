-------------------------------- MODULE Words --------------------------------
(****************************************************************************)
(* The arithmetic on 64-bit words that the three executions of a program    *)
(* must agree on: the portable umulh, smulh, rotr64 and                     *)
(* sign_extend_2s_compl of the interpreter, and the way each compiler gets  *)
(* a 32-bit constant into a 64-bit operand.                                 *)
(*                                                                          *)
(* A word is a number below WORD = 2^64, a half word a number below         *)
(* HALF = 2^32, and a quarter one below QUARTER = 2^16; the runs use fewer  *)
(* bits.  A signed number is the word that represents it.                   *)
(****************************************************************************)
EXTENDS Integers

CONSTANTS QUARTER, BITS     \* 2^16, and 64

HALF == QUARTER * QUARTER
WORD == HALF * HALF

\* 1 << n
TwoTo[n \in Nat] == IF n = 0 THEN 1 ELSE 2 * TwoTo[n - 1]

ASSUME WordsAssumption ==
    /\ QUARTER \in Nat
    /\ QUARTER > 1
    /\ QUARTER % 2 = 0
    /\ BITS \in Nat
    /\ WORD = TwoTo[BITS]

Words == 0 .. WORD - 1
HalfWords == 0 .. HALF - 1

LO(x) == x % HALF
HI(x) == x \div HALF

-----------------------------------------------------------------------------
(* program_exec.c                                                           *)

\* Mutant: the carry out of the middle is lost.
MiddleNoCarry(x01, x10, x00) == LO(LO(x10) + LO(x01))

\* m1: with the carry of the lowest product, and with its own carry.
Middle(x01, x10, x00) == (LO(x10) + LO(x01) + HI(x00)) % WORD

umulh(a, b) ==
    LET x00 == (LO(a) * LO(b)) % WORD
        x01 == (LO(a) * HI(b)) % WORD
        x10 == (HI(a) * LO(b)) % WORD
        x11 == (HI(a) * HI(b)) % WORD
        m1 == Middle(x01, x10, x00)
        m2 == (HI(x10) + HI(x01) + LO(x11) + HI(m1)) % WORD
        m3 == (HI(x11) + HI(m2)) % WORD
    IN  (((m3 * HALF) % WORD) + LO(m2)) % WORD

Negative(a) == 2 * a >= WORD

\* What the product of the words has more than that of the signed numbers.
Correction(a, b) ==
    (IF Negative(a) THEN b ELSE 0) + (IF Negative(b) THEN a ELSE 0)

\* The subtractions may overflow an int64_t; they wrap around in every build
\* that does not trap.
smulh(a, b) == (umulh(a, b) - Correction(a, b)) % WORD

\* Shifts by 1 .. BITS - 1: ROR_C never has the constant 0.
rotr64(a, n) == (a \div TwoTo[n]) + ((a * TwoTo[BITS - n]) % WORD)

INT32_MAX == (HALF \div 2) - 1

\* The cast of a machine with two's complement, and the other way to write it.
sign_extend_2s_compl(x, complement) ==
    IF complement THEN (IF x > INT32_MAX THEN x - HALF ELSE x) % WORD
    ELSE IF x > INT32_MAX THEN x + (WORD - HALF) ELSE x

-----------------------------------------------------------------------------
(* compiler_a64.c: EMIT_IMM32 is a movz or a movn, then a movk.             *)

\* Mutant: a movz whatever the sign.
MovzAlways(x) == x % QUARTER

\* movz sets all other bits to zero, movn to one.
mov(x) ==
    IF x <= INT32_MAX THEN x % QUARTER
    ELSE WORD - 1 - ((QUARTER - 1) - (x % QUARTER))

movk(w, q) == w - (((w \div QUARTER) % QUARTER) * QUARTER) + (q * QUARTER)

EMIT_IMM32(x) == movk(mov(x), (x \div QUARTER) % QUARTER)

\* compiler_x86.c: the processor extends the sign of a 32-bit immediate.
x86_imm32(x) == IF 2 * x >= HALF THEN WORD - (HALF - x) ELSE x

-----------------------------------------------------------------------------
VARIABLES
    opcode, x, y,   \* an instruction and its operands
    result          \* NoResult at first

vars == <<opcode, x, y, result>>

NoResult == -1

Init ==
    /\ \/ opcode \in {"UMULH_R", "SMULH_R"} /\ x \in Words /\ y \in Words
       \/ opcode = "ROR_C" /\ x \in Words /\ y \in 1 .. BITS - 1
       \/ opcode = "ADD_C" /\ x \in HalfWords /\ y \in {0, 1}
       \/ opcode = "A64_C" /\ x \in HalfWords /\ y = 0
    /\ result = NoResult

Evaluate(op, value) ==
    /\ opcode = op
    /\ result = NoResult
    /\ result' = value
    /\ UNCHANGED <<opcode, x, y>>

Evaluated == result # NoResult /\ UNCHANGED vars

Next ==
    \/ Evaluate("UMULH_R", umulh(x, y))
    \/ Evaluate("SMULH_R", smulh(x, y))
    \/ Evaluate("ROR_C", rotr64(x, y))
    \/ Evaluate("ADD_C", sign_extend_2s_compl(x, y = 0))
    \/ Evaluate("A64_C", EMIT_IMM32(x))
    \/ Evaluated

Spec == Init /\ [][Next]_vars

-----------------------------------------------------------------------------
(* Properties.                                                              *)

Signed(w) == IF Negative(w) THEN w - WORD ELSE w

Is(op) == opcode = op /\ result # NoResult

\* No carry is lost between the four partial products, and no sum overflows.
UmulhIsExact == Is("UMULH_R") => result = (x * y) \div WORD

\* The high half of the signed product, rounded towards minus infinity.
SmulhIsExact == Is("SMULH_R") => Signed(result) = (Signed(x) * Signed(y)) \div WORD

Bit(w, k) == (w \div TwoTo[k]) % 2

\* The two shifted parts meet without a gap or an overlap.
RotatesRight ==
    Is("ROR_C") =>
        /\ result \in Words
        /\ \A k \in 0 .. BITS - 1 : Bit(result, k) = Bit(x, (k + y) % BITS)

\* All three executions add and xor the same constant, of either sign: the
\* interpreter's in both of its forms, the immediate of x86, the moves of A64.
ConstantsAgree ==
    Is("ADD_C") \/ Is("A64_C") => result = x86_imm32(x)
=============================================================================
