----------------------------- MODULE Statistics -----------------------------
(****************************************************************************)
(* The statistics of a finished program (HASHX_PROGRAM_STATS): the loop at  *)
(* the end of hashx_program_generate that computes its ASIC latency.        *)
(*                                                                          *)
(* Of an instruction only the registers matter: -1 stands for none.  The    *)
(* code indexes its array of latencies with -1 for an instruction without a *)
(* source; what it reads there is what lies in front of the array, the last *)
(* of the CPU latencies of whatever program the memory held before.         *)
(****************************************************************************)
EXTENDS Integers, Sequences, FiniteSetsExt

CONSTANTS
    RegisterCount,  \* 8; the registers are 0 .. RegisterCount - 1
    MaxSize,        \* bound on the size of a program
    Stale           \* what may lie in front of the array

Registers == 0 .. RegisterCount - 1
NoRegister == -1

\* What is assumed of the constants.
StatisticsAssumption ==
    /\ RegisterCount \in Nat \ {0}
    /\ MaxSize \in Nat
    /\ Stale \subseteq Nat

\* Two operands, a constant, TARGET and BRANCH.
Instructions ==
    [dst : Registers, src : Registers \cup {NoRegister}, wide : {FALSE}]
        \cup [dst : Registers, src : Registers, wide : {TRUE}]
        \cup [dst : {NoRegister}, src : {NoRegister}, wide : {FALSE}]

VARIABLES
    code,               \* program->code
    i,                  \* the loop variable
    asic_latencies,     \* also of NoRegister: the word before the array
    wide_mul_count,
    asic_latency        \* program->asic_latency, NotComputed before

vars == <<code, i, asic_latencies, wide_mul_count, asic_latency>>

NotComputed == -1

\* memset clears the array.  The program is written one instruction ahead of
\* the loop, which never looks at the instructions it has not reached.
Init ==
    /\ code = << >>
    /\ i = 0
    /\ \E stale \in Stale :
            asic_latencies = [r \in Registers \cup {NoRegister} |->
                                IF r = NoRegister THEN stale ELSE 0]
    /\ wide_mul_count = 0
    /\ asic_latency = NotComputed

-----------------------------------------------------------------------------
\* Mutant: the destination is not an operand.
SourceOnly(instr) ==
    IF instr.dst # instr.src THEN asic_latencies[instr.src] + 1
    ELSE asic_latencies[instr.dst] + 1

\* MAX(last_dst, lat_src)
OperandLatency(instr) ==
    LET last_dst == asic_latencies[instr.dst] + 1
        lat_src == IF instr.dst # instr.src THEN asic_latencies[instr.src] + 1 ELSE 0
    IN  Max({last_dst, lat_src})

Account(instr) ==
    /\ asic_latency = NotComputed
    /\ i < MaxSize
    /\ code' = Append(code, instr)
    /\ i' = i + 1
    /\ IF instr.dst = NoRegister
       THEN UNCHANGED <<asic_latencies, wide_mul_count>>
       ELSE /\ asic_latencies' = [asic_latencies EXCEPT ![instr.dst] = OperandLatency(instr)]
            /\ wide_mul_count' = wide_mul_count + (IF instr.wide THEN 1 ELSE 0)
    /\ UNCHANGED asic_latency

Finish ==
    /\ asic_latency = NotComputed
    /\ asic_latency' = Max({0} \cup {asic_latencies[r] : r \in Registers})
    /\ UNCHANGED <<code, i, asic_latencies, wide_mul_count>>

Finished == asic_latency # NotComputed /\ UNCHANGED vars

Next == (\E instr \in Instructions : Account(instr)) \/ Finish \/ Finished

Spec == Init /\ [][Next]_vars

-----------------------------------------------------------------------------
(* Properties.                                                              *)

\* Does instruction k use what instruction j has computed?
DependsOn(k, j) ==
    /\ j < k
    /\ code[j].dst # NoRegister
    /\ code[j].dst \in {code[k].dst, code[k].src}
    /\ \A m \in j + 1 .. k - 1 : code[m].dst # code[j].dst

\* The cycle in which each instruction is done if all take one and any number
\* may run at once.
Done ==
    LET done[k \in 1 .. Len(code)] ==
            1 + Max({0} \cup {done[j] : j \in {j \in 1 .. k - 1 : DependsOn(k, j)}})
    IN  done

DataflowDepth ==
    Max({0} \cup {Done[k] : k \in {k \in 1 .. Len(code) : code[k].dst # NoRegister}})

\* "Assumes 1 cycle latency for all operations and unlimited parallelization":
\* the ASIC latency is the length of the longest chain of operations, but for
\* what is read in front of the array: that can only lengthen it, and only in a
\* program that has a constant.
ExactWithoutConstants ==
    asic_latency # NotComputed =>
        /\ asic_latency >= DataflowDepth
        /\ (\A k \in 1 .. Len(code) : code[k].src = NoRegister => code[k].dst = NoRegister)
                => asic_latency = DataflowDepth
=============================================================================
