------------------------------ MODULE Program ------------------------------
(****************************************************************************)
(* hashx_program_generate: the generator of one hash program.               *)
(*                                                                          *)
(* Every iteration of the generation loop is one action.  It draws a        *)
(* template that the layout allows at the current sub-cycle, looks for an   *)
(* execution port (a dry run of the scheduler), then for a source and a     *)
(* destination register that are ready in that cycle, and either retries,   *)
(* gives the sub-cycle up, leaves the loop, or commits the instruction.     *)
(*                                                                          *)
(* Random numbers are choices: \E over the values the byte or word drawn    *)
(* can select.  A draw-again loop (select_template's do-while, the          *)
(* immediates) is the choice among the draws that end it.  Of the emitted   *)
(* instruction the model keeps what the generator reads again: the ports    *)
(* and the registers it occupies.  Immediates and the finished code array   *)
(* are never read by the generator and are left out.                        *)
(****************************************************************************)
EXTENDS Templates, FiniteSetsExt

CONSTANTS
    Registers,                  \* the program's registers (r0 .. r7)
    REGISTER_NEEDS_DISPLACEMENT,\* the one `lea` cannot write (r5)
    TARGET_CYCLE,               \* instructions are generated until this cycle
    HASHX_PROGRAM_MAX_SIZE,     \* capacity of the code array
    REQUIREMENT_SIZE,           \* what an acceptable program must have
    REQUIREMENT_MUL_COUNT,
    REQUIREMENT_LATENCY,
    MAX_RETRIES,                \* attempts after the first one
    U8Draws,                    \* the bytes the generator may draw
    WideParams                  \* the op_par words of wide multiplications

PORT_MAP_SIZE == TARGET_CYCLE + 4
Cycles == 0 .. PORT_MAP_SIZE - 1

\* op_par of an instruction that is not tied to a source: the code's -1.
ConstPar == "constant"

\* instr->src = -1, instr->dst = -1.
NoRegister == "no register"

ASSUME ConstantsAssumption ==
    /\ TARGET_CYCLE \in Nat \ {0}
    /\ MAX_RETRIES \in Nat
    /\ U8Draws \subseteq 0 .. 255
    /\ IsFiniteSet(Registers)
    /\ NoRegister \notin Registers
    /\ REGISTER_NEEDS_DISPLACEMENT \in Registers

\* The instructions a generator that never loses a slot has emitted before
\* sub-cycle s: one per slot, but for the second slots 2, 13, 20 and 25 (of
\* every 36) of the instructions with two uOPs.
Issued(s) ==
    s - ((s + 33) \div 36 + (s + 22) \div 36 + (s + 15) \div 36 + (s + 10) \div 36)

\* The #defines of program.c and program.h fit together: the capacity and the
\* three requirements are what a generator that never loses a slot reaches in
\* TARGET_CYCLE cycles, and the last cycle does not hold a wide multiplication.
\* The code's 192, 512, 512, 192 and 195 satisfy it.
ASSUME CalibrationAssumption ==
    /\ HASHX_PROGRAM_MAX_SIZE = Issued(3 * TARGET_CYCLE)
    /\ REQUIREMENT_SIZE = HASHX_PROGRAM_MAX_SIZE
    /\ REQUIREMENT_MUL_COUNT = TARGET_CYCLE
    /\ REQUIREMENT_LATENCY = TARGET_CYCLE + 3
    /\ (TARGET_CYCLE - 1) % 12 \notin {4, 8}

-----------------------------------------------------------------------------
VARIABLES
    pc,         \* "generate" in the loop, "break" behind it, "returned"
    sub_cycle,  \* ctx.sub_cycle; three sub-cycles make one ctx.cycle
    attempt,    \* failed attempts at this sub-cycle
    last_instr, \* group of the last template tried
    registers,  \* ctx.registers: latency, last_op and last_op_par of each
    ports,      \* ctx.ports: the busy ports of every cycle
    code_size,  \* program->code_size
    mul_count,  \* ctx.mul_count
    latency,    \* ctx.latency
    accepted,   \* what the function returned
    skipped     \* history: has the generator given a sub-cycle up?

ctx == <<sub_cycle, registers, ports, code_size, mul_count, latency>>
vars == <<pc, attempt, last_instr, ctx, accepted, skipped>>

cycle == sub_cycle \div 3

chain_mul == attempt > 0

OpPars == Registers \cup WideParams \cup {ConstPar}

Init ==
    /\ pc = "generate"
    /\ sub_cycle = 0
    /\ attempt = 0
    /\ last_instr = NoInstr
    /\ registers = [r \in Registers |->
            [latency |-> 0, last_op |-> NoInstr, last_op_par |-> ConstPar]]
    /\ ports = [c \in Cycles |-> {}]
    /\ code_size = 0
    /\ mul_count = 0
    /\ latency = 0
    /\ accepted = FALSE
    /\ skipped = FALSE

-----------------------------------------------------------------------------
(* Selecting a template.                                                    *)

\* The byte drawn is masked with 0, 1, 3 or 7: a remainder.
TemplateIndex(item, byte) ==
    byte % ((IF attempt > 0 THEN item.mask1 ELSE item.mask0) + 1)

\* The templates the do-while loop can end with.
select_template ==
    LET item == program_layout(sub_cycle % LayoutSize)
        drawn == {item.templates[TemplateIndex(item, b) + 1] : b \in U8Draws}
    IN  {tpl \in drawn : item.duplicates \/ tpl.group # last_instr}

-----------------------------------------------------------------------------
(* Selecting registers.                                                     *)

Ready(c) == {r \in Registers : registers[r].latency <= c}

\* ADD_RS with two ready registers, one of which cannot be written.
MustReadDisplacement(tpl, c) ==
    /\ tpl.type = "ADD_RS"
    /\ Cardinality(Ready(c)) = 2
    /\ REGISTER_NEEDS_DISPLACEMENT \in Ready(c)

\* select_source: the registers it may select; empty if it fails.
select_source(tpl, c) ==
    IF ~tpl.has_src THEN {NoRegister}
    ELSE IF MustReadDisplacement(tpl, c) THEN {REGISTER_NEEDS_DISPLACEMENT}
    ELSE Ready(c)

\* op_par: the source register, or a constant, or a word drawn.
op_par(tpl, src) ==
    IF tpl.op_par_src THEN {src}
    ELSE IF tpl.distinct_dst THEN {ConstPar} ELSE WideParams

\* Mutant: the destination need not be ready.
DestinationInFlight(tpl, src, par, c) ==
    IF ~tpl.has_dst THEN {NoRegister}
    ELSE {r \in Registers :
            /\ tpl.distinct_dst => r # src
            /\ registers[r].last_op # tpl.group \/ registers[r].last_op_par # par
            /\ ~(tpl.type = "ADD_RS" /\ r = REGISTER_NEEDS_DISPLACEMENT)}

\* select_destination: empty if the function fails.
select_destination(tpl, src, par, c) ==
    IF ~tpl.has_dst THEN {NoRegister}
    ELSE {r \in Ready(c) :
            /\ tpl.distinct_dst => r # src
            /\ \/ chain_mul
               \/ tpl.group # "MUL_R"
               \/ registers[r].last_op # "MUL_R"
            /\ \/ registers[r].last_op # tpl.group
               \/ registers[r].last_op_par # par
            /\ ~(tpl.type = "ADD_RS" /\ r = REGISTER_NEEDS_DISPLACEMENT)}

-----------------------------------------------------------------------------
(* Scheduling.  `map` is the port map the scheduler works on.               *)

\* Mutant: P0 is tried before P5.
PortP0First(uop, busy) ==
    IF "P0" \in uop \ busy THEN "P0"
    ELSE IF "P5" \in uop \ busy THEN "P5" ELSE "P1"

\* The port a uOP takes in a cycle with the given busy ports: P5, P0, P1.
PortFor(uop, busy) ==
    IF "P5" \in uop \ busy THEN "P5"
    ELSE IF "P0" \in uop \ busy THEN "P0" ELSE "P1"

\* schedule_uop: the first cycle with a free port, -1 if the map has none.
schedule_uop(uop, map, from) ==
    IF \E c \in from .. PORT_MAP_SIZE - 1 : uop \ map[c] # {}
    THEN CHOOSE c \in from .. PORT_MAP_SIZE - 1 :
            /\ uop \ map[c] # {}
            /\ \A d \in from .. c - 1 : uop \ map[d] = {}
    ELSE -1

\* What schedule_uop leaves in the map if it is called with commit.
commit_uop(uop, map, from) ==
    LET c == schedule_uop(uop, map, from)
    IN  IF c < 0 THEN map ELSE [map EXCEPT ![c] = @ \cup {PortFor(uop, @)}]

\* The dry runs of the two uOPs, both from the cycle c, agree.
Agree(tpl, c) ==
    /\ schedule_uop(tpl.uop1, ports, c) >= 0
    /\ schedule_uop(tpl.uop1, ports, c) = schedule_uop(tpl.uop2, ports, c)

\* Where the loop of schedule_instr over the cycles ends for two uOPs.
AgreedCycle(tpl, from) ==
    IF \E c \in from .. PORT_MAP_SIZE - 1 : Agree(tpl, c)
    THEN CHOOSE c \in from .. PORT_MAP_SIZE - 1 :
            Agree(tpl, c) /\ \A d \in from .. c - 1 : ~Agree(tpl, d)
    ELSE -1

\* schedule_instr: the cycle returned.
schedule_instr(tpl) ==
    IF tpl.uop2 = PORT_NONE THEN schedule_uop(tpl.uop1, ports, cycle)
    ELSE IF AgreedCycle(tpl, cycle) < 0 THEN -1
    ELSE schedule_uop(tpl.uop1, ports, AgreedCycle(tpl, cycle))

\* Mutant: the second uOP is not committed.
CommitFirstUop(tpl) ==
    IF tpl.uop2 = PORT_NONE THEN commit_uop(tpl.uop1, ports, cycle)
    ELSE IF AgreedCycle(tpl, cycle) < 0 THEN ports
    ELSE commit_uop(tpl.uop1, ports, AgreedCycle(tpl, cycle))

\* The port map schedule_instr leaves if it is called with commit.
commit_instr(tpl) ==
    LET at == AgreedCycle(tpl, cycle)
    IN  IF tpl.uop2 = PORT_NONE THEN commit_uop(tpl.uop1, ports, cycle)
        ELSE IF at < 0 THEN ports
        ELSE commit_uop(tpl.uop2, commit_uop(tpl.uop1, ports, at), at)

-----------------------------------------------------------------------------
(* The generation loop.                                                     *)

\* while (program->code_size < HASHX_PROGRAM_MAX_SIZE): an iteration with the
\* template tpl of select_template.
Iteration(tpl) ==
    /\ pc = "generate"
    /\ code_size < HASHX_PROGRAM_MAX_SIZE
    /\ last_instr' = tpl.group

\* Mutant: after the retries the generator does not move on.
StallInPlace ==
    /\ attempt' = IF attempt < MAX_RETRIES THEN attempt + 1 ELSE 0
    /\ skipped' = (skipped \/ attempt >= MAX_RETRIES)
    /\ UNCHANGED sub_cycle

\* Mutant: the generator moves on by one sub-cycle.
StallOneSlot ==
    IF attempt < MAX_RETRIES
    THEN /\ attempt' = attempt + 1
         /\ UNCHANGED <<sub_cycle, skipped>>
    ELSE /\ attempt' = 0
         /\ sub_cycle' = sub_cycle + 1
         /\ skipped' = TRUE

\* No register: try again, or move on by a cycle.
Stall ==
    IF attempt < MAX_RETRIES
    THEN /\ attempt' = attempt + 1
         /\ UNCHANGED <<sub_cycle, skipped>>
    ELSE /\ attempt' = 0
         /\ sub_cycle' = sub_cycle + 3
         /\ skipped' = TRUE

\* The dry run finds no port.
Unschedulable(tpl) ==
    /\ Iteration(tpl)
    /\ schedule_instr(tpl) < 0
    /\ pc' = "break"
    /\ UNCHANGED <<attempt, ctx, accepted, skipped>>

\* select_source fails.
SourceStall(tpl) ==
    /\ Iteration(tpl)
    /\ schedule_instr(tpl) >= 0
    /\ select_source(tpl, schedule_instr(tpl)) = {}
    /\ Stall
    /\ UNCHANGED <<pc, registers, ports, code_size, mul_count, latency, accepted>>

\* select_destination fails for the source and parameter selected.
DestinationStall(tpl, src, par) ==
    /\ Iteration(tpl)
    /\ schedule_instr(tpl) >= 0
    /\ select_destination(tpl, src, par, schedule_instr(tpl)) = {}
    /\ Stall
    /\ UNCHANGED <<pc, registers, ports, code_size, mul_count, latency, accepted>>

\* The committed cycle is past the target: leave the loop, ports taken.  (The
\* commit finds the cycle of the dry run: nothing has changed since.)
Overrun(tpl) ==
    /\ Iteration(tpl)
    /\ schedule_instr(tpl) >= TARGET_CYCLE
    /\ pc' = "break"
    /\ attempt' = 0
    /\ ports' = commit_instr(tpl)
    /\ UNCHANGED <<sub_cycle, registers, code_size, mul_count, latency,
                   accepted, skipped>>

\* The register file and ctx.latency once dst retires.
Retire(tpl, dst, par, at) ==
    IF ~tpl.has_dst THEN UNCHANGED <<registers, latency>>
    ELSE /\ registers' = [registers EXCEPT ![dst] =
                [latency |-> at + tpl.latency, last_op |-> tpl.group,
                 last_op_par |-> par]]
         /\ latency' = IF at + tpl.latency > latency THEN at + tpl.latency
                       ELSE latency

\* The instruction becomes part of the program.
Emit(tpl, par, dst) ==
    /\ Iteration(tpl)
    /\ schedule_instr(tpl) >= 0
    /\ schedule_instr(tpl) < TARGET_CYCLE
    /\ attempt' = 0
    /\ ports' = commit_instr(tpl)
    /\ Retire(tpl, dst, par, schedule_instr(tpl))
    /\ code_size' = code_size + 1
    /\ mul_count' = mul_count + (IF is_mul(tpl.type) THEN 1 ELSE 0)
    /\ sub_cycle' = sub_cycle + (IF tpl.uop2 # PORT_NONE THEN 2 ELSE 1)
    /\ UNCHANGED <<pc, accepted, skipped>>

\* Mutant: only the latency decides.
MeetsLatency(size, muls, lat) == lat = REQUIREMENT_LATENCY - 1

Meets(size, muls, lat) ==
    /\ size = REQUIREMENT_SIZE
    /\ muls = REQUIREMENT_MUL_COUNT
    /\ lat = REQUIREMENT_LATENCY - 1

\* Behind the loop: the uniform complexity requirements.
Return ==
    /\ pc = "break" \/ (pc = "generate" /\ code_size >= HASHX_PROGRAM_MAX_SIZE)
    /\ pc' = "returned"
    /\ accepted' = Meets(code_size, mul_count, latency)
    /\ UNCHANGED <<attempt, last_instr, ctx, skipped>>

Terminated == pc = "returned" /\ UNCHANGED vars

\* The loop's iteration with a template: the choices in the code's order.
TryTemplate(tpl) ==
    \/ Unschedulable(tpl)
    \/ SourceStall(tpl)
    \/ \E src \in select_source(tpl, schedule_instr(tpl)) :
        \E par \in op_par(tpl, src) :
            \/ DestinationStall(tpl, src, par)
            \/ \E dst \in select_destination(tpl, src, par, schedule_instr(tpl)) :
                    Overrun(tpl) \/ Emit(tpl, par, dst)

Generate == \E tpl \in select_template : TryTemplate(tpl)

Next == Generate \/ Return \/ Terminated

\* The loop of a running thread does not stop by itself.
Spec == Init /\ [][Next]_vars /\ WF_vars(Next)
-----------------------------------------------------------------------------
(* Properties.                                                              *)

TypeOK ==
    /\ pc \in {"generate", "break", "returned"}
    /\ sub_cycle \in Nat
    /\ attempt \in 0 .. MAX_RETRIES
    /\ last_instr \in Groups \cup {NoInstr}
    /\ registers \in [Registers -> [latency : Nat,
                                    last_op : Groups \cup {NoInstr},
                                    last_op_par : OpPars]]
    /\ ports \in [Cycles -> SUBSET Ports]
    /\ code_size \in 0 .. HASHX_PROGRAM_MAX_SIZE
    /\ mul_count \in Nat
    /\ latency \in Nat
    /\ accepted \in BOOLEAN
    /\ skipped \in BOOLEAN

\* Whatever was drawn, retried or skipped before, a template the layout offers
\* finds its ports free in the current cycle: schedule_instr never delays an
\* instruction, so ctx.cycle alone orders the program.  (A two-uOP dry run
\* tests the same port twice and would not notice that only one is free.)
NoPortDelay ==
    pc = "generate" /\ cycle < PORT_MAP_SIZE =>
        \A tpl \in select_template : schedule_instr(tpl) = cycle

\* The comment in schedule_instr: both uOPs of an instruction execute in the
\* same cycle.  Ports are only ever taken in the current cycle, and an emitted
\* instruction takes as many as it uses sub-cycles.
UopsInOneCycle ==
    /\ \A c \in Cycles : ports'[c] # ports[c] => c = cycle
    /\ code_size' # code_size =>
            Cardinality(ports'[cycle] \ ports[cycle]) = sub_cycle' - sub_cycle

UopsExecuteTogether == [][UopsInOneCycle]_vars

\* README: programs saturate the CPU's ports.  As long as no sub-cycle was
\* given up, all three ports are busy in every cycle left behind.
Saturated == ~skipped => \A c \in Cycles : c < cycle => ports[c] = Ports

\* Retries change which instructions are chosen, never how many: without a
\* skip the counters are functions of the sub-cycle.
UniformShape ==
    ~skipped =>
        /\ code_size = Issued(sub_cycle)
        /\ mul_count = (sub_cycle + 2) \div 3

\* The requirements checked at the end reject exactly the programs for which
\* a sub-cycle was given up; the two checks beside the size are implied by it.
AcceptedIffNeverSkipped ==
    pc = "returned" =>
        /\ accepted <=> ~skipped
        /\ accepted <=> code_size = REQUIREMENT_SIZE

\* ctx.latency, which decides about the program, is the latency of the
\* register that is ready last, which the statistics report as cpu_latency: a
\* register is never overwritten by a value that is ready earlier.
LatencyIsLastRetirement ==
    latency = Max({registers[r].latency : r \in Registers})

\* The registers that are in flight.
Unready == {r \in Registers : registers[r].latency > cycle}

\* A cycle begins with at most three registers in flight and each of its slots
\* adds one, whatever was retried or given up: there are never more than five,
\* and of the code's eight select_source always finds at least three ready.
EnoughReadyRegisters == Cardinality(Unready) <= 3 + (sub_cycle % 3)

-----------------------------------------------------------------------------
(* The inductive invariant behind the properties.                           *)

\* Slots only a skip can lead to: the second ones of two-uOP instructions.
SecondSlot(s) == s % 36 \in {2, 13, 20, 25}

\* A multiplication takes P1 first in its cycle, the optimistic order of
\* schedule_uop leaves P0 (or, after ADD_RS, P5) to the last instruction, and
\* nothing is ever scheduled ahead.
PortsFree ==
    /\ \A c \in Cycles : c > cycle => ports[c] = {}
    /\ pc = "generate" /\ cycle \in Cycles =>
        /\ sub_cycle % 3 = 0 => ports[cycle] = {}
        /\ sub_cycle % 3 = 1 => ports[cycle] \subseteq {"P1"}
        /\ sub_cycle % 3 = 2 =>
            \/ "P0" \notin ports[cycle]
            \/ "P5" \notin ports[cycle] /\ (last_instr = "ADD_RS" \/ chain_mul)

\* Without a skip every sub-cycle so far has a port of its own.
PortsBusy ==
    ~skipped =>
        /\ \A c \in Cycles : c < cycle => ports[c] = Ports
        /\ cycle \in Cycles =>
            /\ sub_cycle % 3 = 1 => ports[cycle] = {"P1"}
            /\ sub_cycle % 3 = 2 => ports[cycle] \in {{"P1", "P0"}, {"P1", "P5"}}

\* A multiplication that issued in cycle k retires in cycle k + 3, a wide one
\* (at sub-cycles 12 and 24) one cycle later.
LastMulRetires(k) == k + (IF k % 12 \in {4, 8} THEN 4 ELSE 3)

\* Without a skip the counters are exact; a skip loses a slot for good.
Counted ==
    /\ ~skipped =>
        /\ sub_cycle <= 3 * TARGET_CYCLE
        /\ ~SecondSlot(sub_cycle)
        /\ code_size = Issued(sub_cycle)
        /\ mul_count = (sub_cycle + 2) \div 3
        /\ latency = IF sub_cycle = 0 THEN 0
                     ELSE LastMulRetires((sub_cycle - 1) \div 3)
    /\ skipped =>
        /\ code_size < HASHX_PROGRAM_MAX_SIZE
        /\ sub_cycle <= 3 * TARGET_CYCLE =>
            code_size + (IF SecondSlot(sub_cycle) THEN 2 ELSE 1) <= Issued(sub_cycle)

\* Leaving the loop, and the verdict.
Outcome ==
    /\ pc = "break" => skipped /\ sub_cycle >= 3 * TARGET_CYCLE
    /\ pc = "returned" => (accepted <=> ~skipped)
    /\ pc = "returned" /\ ~skipped => sub_cycle = 3 * TARGET_CYCLE

IInv == TypeOK /\ PortsFree /\ PortsBusy /\ Counted /\ Outcome

-----------------------------------------------------------------------------
(* Liveness and refinement.                                                 *)

\* The generator returns.
Terminates == <>(pc = "returned")

\* The generator implements the walk over the layout: no retry, stall or port
\* conflict shows in its outcome but through a slot that was given up.
Walk == INSTANCE LayoutWalk WITH
            slot <- sub_cycle,
            verdict <- IF pc # "returned" THEN "none"
                       ELSE IF accepted THEN "accept" ELSE "reject"

WalksTheLayout == Walk!Spec
=============================================================================
