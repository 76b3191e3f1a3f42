------------------------------ MODULE Compilers ------------------------------
(****************************************************************************)
(* Both compilers, and what they have in common: the code they emit means   *)
(* what the program means.  The machine of a behaviour is chosen first; what*)
(* is only of the other one is not used.                                    *)
(****************************************************************************)
EXTENDS Encoding

CONSTANTS
    Bits, Registers, WINABI,
    X86Programs, A64Programs    \* what each of them may be given

VARIABLES
    machine,                \* "x86" or "a64"
    pc, code, i, pos, target, text, product,
    rip, esi, edx, ZF,      \* of x86
    creg, address, x, w9, Z \* of A64

x86 == <<rip, esi, edx, ZF>>
a64 == <<creg, address, x, w9, Z>>
vars == <<machine, pc, code, i, pos, target, text, product, x86, a64>>

OnX86 == INSTANCE CompilerX86 WITH Programs <- X86Programs
OnA64 == INSTANCE CompilerA64 WITH Programs <- A64Programs

ASSUME MachinesAssumption == OnX86!X86Assumption /\ OnA64!A64Assumption

Init ==
    \/ /\ machine = "x86"
       /\ OnX86!Init
       /\ creg = OnA64!None /\ address = 0 /\ x = << >> /\ w9 = {} /\ Z = FALSE
    \/ /\ machine = "a64"
       /\ OnA64!Init
       /\ rip = 0 /\ esi = {} /\ edx = {} /\ ZF = FALSE

Next ==
    \/ machine = "x86" /\ OnX86!Next /\ UNCHANGED <<machine, a64>>
    \/ machine = "a64" /\ OnA64!Next /\ UNCHANGED <<machine, x86>>

Spec == Init /\ [][Next]_vars

-----------------------------------------------------------------------------
\* Neither goes astray: no jump leaves the emitted instructions, and no
\* assertion of hashx_compile_a64 fails for programs that keep the register
\* their branch tests.
NeverAstray ==
    /\ machine = "x86" => OnX86!TypeOK
    /\ machine = "a64" => OnA64!TypeOK /\ OnA64!NeverAborts

\* Where the code is in the program, and whether a branch was taken.
At == IF machine = "x86" THEN OnX86!At ELSE OnA64!At
Jumped == IF machine = "x86" THEN OnX86!Jumped ELSE OnA64!Jumped

\* On both machines the compiled code means what the program means.
Meaning == INSTANCE HashProgram WITH
    Programs <- Seq(OnX86!Instructions) \cup Seq(OnA64!Instructions),
    at <- At, jumped <- Jumped, result <- product

MeansTheProgram == Meaning!Spec
=============================================================================
