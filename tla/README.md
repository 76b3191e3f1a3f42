# HashX in TLA+

TLA+ modules, TLC configurations and TLAPS proofs about HashX, a hash function
that generates a program from a seed and runs it. Paths are relative to the
repository (`src/program.c` is the generator).

## 1. The system

| part | files | state | operations | talks to |
|---|---|---|---|---|
| program generator | `src/program.c`, `program.h`, `instruction.h` | `generator_ctx`: cycle and sub-cycle, port map, register file, counters; `attempt`, `last_instr` | `hashx_program_generate` | draws from the random numbers, fills a `hashx_program` |
| random numbers | `src/siphash_rng.c` | counter, a byte buffer, a word buffer | `hashx_siphash_rng_init`, `_u8`, `_u32` | SipHash-1-3 in counter mode |
| instance and API | `src/hashx.c`, `context.c`, `compiler.c` | `hashx_ctx`: program or code pages, type, keys, `has_program` | `hashx_alloc`, `hashx_make`, `hashx_exec`, `hashx_free` | everything |
| virtual memory | `src/virtual_memory.c` | the protection of the code pages | map, protect, unmap | the operating system |
| interpreter | `src/program_exec.c` | program counter, target, `branch_enable`, `result`, branch statistics | `hashx_program_execute` | reads a program, changes registers |
| x86 and A64 compilers | `src/compiler_x86.c`, `compiler_a64.c` | position in the buffer, `target`, `creg` | `hashx_compile` | reads a program, writes the code pages |
| BLAKE2b | `src/blake2.c` | chaining value, counter, last-block flag, buffer | init, update, final, four rounds | seed to keys; salt and registers |
| SipHash | `src/siphash.c` | none | counter mode | input to registers |
| benchmark | `src/bench.c`, `hashx_thread.c` | one job per worker thread | partition of seeds, create, join, report | the API |
| byte order | `src/hashx_endian.h` | none | load and store words | keys, outputs, benchmark |
| tests, tools | `src/tests.c`, `test_utils.h`, `hashx_time.c` | none | | |

`hashx_make` hashes the seed with BLAKE2b into two SipHash keys. The first one
drives the generator, which either fills a program or rejects the seed. The
program is kept (interpreted instance) or compiled into pages that are writable
while the code is emitted and executable afterwards. `hashx_exec` turns an input
into eight registers with the second key and runs the program on them.

What is hard here is, but for the benchmark's threads, not concurrency but long
sequences of legal steps, and agreements no line of the code states: a generator
that retries and skips under random draws, whose programs must suit compilers
that check nothing; a random number generator whose two buffers share a counter;
an instance that is made again and again while allocations and page protections
fail; a branch that is implemented three times, each time with another trick.
`PROJECT.json` lists the hazards, each at its line.

What makes each part correct:

* generator: every program costs the same. It saturates three ports for the
  whole run, both micro-operations of an instruction execute together, the
  requirements checked at the end reject exactly the irregular programs, the
  latency it reports is the latency of its registers, and it ends;
* random numbers: no bit of the key stream is used twice or lost;
* instance: no leak on any failure path, program and keys from one seed, the
  process never meets a page it cannot write or execute;
* interpreter and compilers: all three mean the same program; no input makes it
  loop; only one stretch is repeated;
* generator and compilers together: the code fits its buffer, every branch
  reaches its target, the register an A64 branch tests is still there;
* BLAKE2b: the digest does not depend on how the message is cut;
* benchmark: every seed is tested once, before the report, unless a thread is
  missing or a loop variable overflows.

## 2. Modules

| module | models | kind |
|---|---|---|
| `Templates` | the constant tables of `program.c` | operators |
| `Program` | `hashx_program_generate`, one action per way an iteration of its loop ends | detailed |
| `LayoutWalk` | what the generator promises: a walk over the layout's slots | abstract |
| `Drawing` | `Program` with its loops that draw again | detailed, implements `Program` |
| `Statistics` | the ASIC latency of a finished program | detailed |
| `SiphashRng` | `siphash_rng.c` | detailed |
| `Context` | `hashx_alloc/make/exec/free`, compiler set-up, page protection | detailed |
| `HashFunction` | what `hashx.h` promises of an instance | abstract |
| `Encoding` | opcodes, places in a program, sizes of machine code | operators |
| `Compilable` | what the compilers rely on without checking | operators |
| `HashProgram` | what it means to run a program | abstract |
| `ProgramExec` | the interpreter | detailed |
| `CompilerX86`, `CompilerA64` | a compiler, then the code it emitted | detailed |
| `Compilers` | both compilers, the machine chosen first, and what they have in common | composition |
| `Codegen` | `Program` composed with both compilers | composition |
| `Pipeline` | `Codegen` with the program it builds, against `Compilable` | composition |
| `Words` | 64-bit arithmetic and constants of the three executions | detailed |
| `MessageDigest` | what BLAKE2b promises | abstract |
| `Blake2b` | buffering, counter and flags of `blake2.c` | detailed |
| `ByteOrder` | words in memory, output sizes | detailed |
| `Bench` | `main` and the workers of `bench.c` | detailed |
| `MCProgram`, `MCProgramExec`, `MCCodegen`, `MCPipeline`, `MCCompilers` | symmetry and program sets for TLC | model checking |
| `MCComputations` | `Words`, `ByteOrder`, `Statistics` and `SiphashRng` in one run | model checking |
| `Induction` | induction over sets, for the proof modules | proofs |
| `GeneratorProofs` | theorems about `Program`, `Drawing`, `Codegen` and `Pipeline` | proofs |
| `CompilersProofs` | theorems about `Compilers` | proofs |
| `ComputationsProofs` | theorems about the four modules of `MCComputations` | proofs |
| `ContextProofs`, `ProgramExecProofs`, `Blake2bProofs`, `BenchProofs` | theorems about the module of that name | proofs |

### Program

`cycle` is `ctx.cycle`, which the code keeps equal to `sub_cycle / 3`.
`chain_mul` is `attempt > 0`, as assigned before the register search.
A port map entry holds the set of busy ports: the code stores the micro-operation
but only tests it for being zero. An iteration draws a template
(`select_template`), runs the scheduler dry (`schedule_instr`), then selects
source, operation parameter and destination, in this order. It ends as

* `Unschedulable`: no port before the end of the map;
* `SourceStall`, `DestinationStall`: no register. `Stall` retries once with the
  reduced table `mask1`, then gives the slot up and moves on by a cycle;
* `Overrun`: the committed cycle is `TARGET_CYCLE` or later;
* `Emit`: the instruction joins the program.

`Return` is the verdict behind the loop. Random numbers are nondeterministic
choices; the loops that draw again are the choice among the draws that end them
(`Drawing` has the loops). The commit repeats the search of the dry run on the
same port map, so it finds the same cycle and its own failure branch
(`program.c:634`) is unreachable. `skipped` is a history variable.

### Drawing

`Program` with its draws taken apart. A step is one draw (of a template, of a bit
of a branch mask, of a constant) or `UseTemplate`: what `Program` does with the
template drawn (`TryTemplate`). `DrawsAreChoices` says that this implements
`Program`: the loop of `select_template` ends with just the templates `Program`
chooses from, in every state it may be in. A mask is the set of its bits.

### Statistics

The loop at `program.c:675-683`. The word in front of `asic_latencies`, which is
read for an instruction without a source, is an entry of its own that holds
whatever was there.

### SiphashRng

A block of the key stream is the counter it was computed from, a byte is a block
and an index. `u8` and `u32` refill their own buffer from the common counter.
`served`, `calls8` and `calls32` are history variables.

### Context

One variable per field of `hashx_ctx`, plus the memory owned, the protection of
the pages, and what the user has in hand. A program, its code and the keys are
known by the seed they come from. `content` stands for the union of `program`
and `code`. Which calls may fail (`Failures`) and whether the architecture has a
compiler is chosen in `Init` and never changes. `MakeRejected` is different for
the two types: an interpreted instance has generated into its own program.
`created`, `returned`, `answer` and `fault` are history variables.

`hashx_exec` is guarded by `MayExec`: the user runs an instance that has a
function. `ExecAfterFailedMake` says whether that includes an interpreted
instance whose last `hashx_make` failed. `bench.c:29-31` goes on to the next
seed, `tests.c` asserts success.

### HashProgram, ProgramExec, CompilerX86, CompilerA64, Compilers

`HashProgram` says what a program means: instructions in order, a target is a
place, a branch goes back to it if the last wide product has none of the bits of
its mask, and only one branch of a run ever does. A word is the set of those of
its bits a mask may test; every wide product is a free choice. All three
executions refine it (`MeansTheProgram`), with mappings that say where each
keeps the three things: the place, "jumped", and the product.

* `ProgramExec`: variables of `hashx_program_execute`. `runs` and `jump` are
  history variables.
* `CompilerX86` first compiles: an action per kind of instruction extends
  `text`, the machine instructions by position, and moves `pos`. Then it runs
  the code: an action per machine instruction. The displacement is a byte. "Jumped" is
  `esi`, or the zero flag on arrival behind `test edi, edi`.
* `CompilerA64` keeps the values of the program's registers, since the branch
  tests one of them (`creg`). The assertions are the state `aborted`.

`Compilers` puts the two side by side: the machine is chosen first, and the
variables only the other one has stay as they are. `NeverAstray` and
`MeansTheProgram` are stated there for both.

`Compilable` is what a compiler relies on without checking: `X86Compilable` and
`A64Compilable`. That the generator provides it is what `Pipeline` is for.

### Codegen

`Emit` of `Program` together with the compilers' work on the instruction
emitted: positions and target of x86, target, `creg` and the assertions of A64.
The code compiles only accepted programs, after the generation; since the
compilers pass over the program once and keep no other state, compiling each
instruction as it is emitted reaches the same states. The properties speak of
programs without a skip, which are the accepted ones.

### Pipeline

`Codegen` with `program->code`: each `Emit` appends its instruction as the modules of
the compilers see it, an opcode, a destination and the mask of a branch.
`AcceptedIsCompilable` is the interface between generator and compilers (an x86
program is the same without the destinations, which its code is not about). Masks
are any that are not empty, which `Drawing` shows of `branch_mask`. The code of a
program that has given a slot up is forgotten; if such a program were accepted, the
property would fail for its length.

### Words

`umulh`, `smulh`, `rotr64`, `sign_extend_2s_compl` and `EMIT_IMM32` with the
widths as constants, every intermediate result reduced to the width it has in
the code.

### MessageDigest, Blake2b

A byte of the message is its offset; a digest is the sequence of what the
compression function was fed (block, counter in two words, last-block flag,
rounds). `MessageDigest` says which sequence that is for a length. `Blake2b` has
the loops over the input, the refusals (finalised state, short output), the reuse
of a state after a new initialisation, and the four-round variant, which has a
loop of its own.

### ByteOrder

Words as functions from byte positions, on hosts of both orders, whether the
preprocessor recognises them (`NATIVE_LITTLE_ENDIAN`) or not. `Exec` has all
cases of `HASHX_SIZE` of `hashx.c:100-133`. `Make` derives what `hashx_make` does
from the digest: the program's key, and a second key (counter mode, `hashx.c:32`)
or a salt (`HASHX_BLOCK_MODE`). `BenchLoad` is the benchmark's read of the first
word; the bytes behind an output shorter than a word are any.

### Bench

`main` goes through its three loops (allocation, creation, joining) and reports;
workers run in between in any order. A step of a worker is a seed. `Failures`
says which calls may fail. `read_int_option` (`test_utils.h:21-28`) takes no
negative numbers; of the options nothing else is assumed than that
`start + seeds` (`bench.c:80`) is an int. Two things are undefined in C, and the
model has what the builds of this code do:

* `seed += step` (`bench.c:28`) and `start + thd` (`bench.c:101`) may overflow. A
  loop variable is then in a register that is wide enough, or wraps around
  (`NextSeed`, `FirstSeed`); a worker that wrapped around goes on from a negative
  seed (`StraySeed`), and what it adds to its numbers is not followed;
* a thread that could not be created is 0 (`hashx_thread.c:11-13`) and is joined
  all the same (`bench.c:113`). `pthread_join` of it kills the process
  (`JoinCrashes`); `WaitForSingleObject` returns at once, and so may another
  library (`Joins`).

`tests` and `wrapped` are history variables.

### How they fit together

`Context` uses the generator as "a seed is good or not", which is the interface
`LayoutWalk` gives it (`verdict`), and the interpreter and compiled code as "the
function of a program", which `HashProgram` makes one function. `Codegen` extends
`Program` and takes the sizes from `Encoding`, as does `CompilerX86`; `Pipeline`
extends `Codegen` and says that what is accepted is `Compilable`, which is all that
`Compilers` assumes of a program. `Drawing` shows that the loops `Program` takes as
a choice end, and that branch masks are not empty, as `Pipeline` assumes. `Words` is the arithmetic `HashProgram`
leaves free. `Program` uses the random numbers as choices; `SiphashRng` shows
that no draw reuses the bits of another.

## 3. What is checked

| run | bounds | states | shows |
|---|---|---|---|
| `generator_draws` | `Drawing`, 2 registers, 12 cycles, all eight table entries, masks of 3 of 4 bits | 75 217 | `NoPortDelay`, `ImmediatesAreUsable`, `DrawsAreChoices`, `Terminates`: constant stalling, retries, skips, overrun, end of the port map |
| `generator_wraps` | 5 registers, 14 cycles, 2 entries | 91 672 | `UniformShape`, `AcceptedIffNeverSkipped`, `EnoughReadyRegisters`, refinement of `LayoutWalk`, with the layout wrapping around |
| `codegen` | 5 registers, 7 cycles, 2 entries | 177 934 | `IInv`, `Saturated`, `LatencyIsLastRetirement`, `UopsExecuteTogether`; with both compilers `CodeFits`, `TestedRegisterKept` |
| `pipeline` | 5 registers, 7 cycles, 2 entries, no retries, one mask | 631 106 | `AcceptedIsCompilable` |
| `instance_lifecycle` | 2 good seeds, 1 rejected, any failures | 1 606 | `NothingLeaks`, `OneFunction`, `ProcessSurvives`, refinement of `HashFunction` |
| `interpreter` | every program of at most 6 instructions | 66 002 | `RunsOnce`, `RepeatsOneStretch`, `CountsItsBranch`, refinement of `HashProgram` |
| `compilers` | compilable programs of at most 7 (x86) and 6 (A64, 2 registers) instructions, stretches with displacements up to -128 | 1 076 428 | `NeverAstray`, refinement of `HashProgram` |
| `blake2b` | messages of 15 bytes, blocks of 3, counter words of 2 bits | 166 | `KeepsLastBlock`, `CounterIsExact`, refinement of `MessageDigest` |
| `bench` | 3 seeds, 1, 2, 4 or 5 threads, contexts and threads may fail, the loop variables of five threads overflow | 283 041 | `AnnouncedIsDone`, `ReportIsExact`, `OvershootIsBounded`, `Finishes` |
| `computations` | operands of 8 bits; words of 2 bytes, all output sizes; 4 instructions on 2 registers; 4 blocks of the key stream | 749 769 | `OperationsAreExact`, `ConstantsAgree`, `OutputIsPrefix`, `HostsDifferInKeys`, `ExactWithoutConstants`, `ServedOnce`, `NothingLost`, `CounterIsExact` |
| `assertion_insufficient`, `success_not_executable` | | | findings 1 and 2 |

The type and inductive invariants of the other components were checked in the
same runs while their proofs were made; they are proved (section 5), so the runs
keep to what follows from them.

Bounds. `TARGET_CYCLE = 192` and eight registers are out of TLC's reach, so the
runs scale the generator down and keep it calibrated: `CalibrationAssumption`
says how the code's five numbers (192, 512, 512, 192, 195) hang together, and
each run uses numbers in the same proportion ((7, 18), (12, 32), (14, 37) for
cycles and size). Seven cycles contain the target, a wide
multiplication (slot 12), the branch (slot 19) and their double slots; fourteen
wrap the layout. No program is accepted with fewer than five registers; with two
nearly everything stalls, which is what `generator_draws` is for. The draws of
a run are table entries: {0, 2} are `ROR_C` and `ADD_C`, two groups, so that one
may always follow the other; {1, 7} are `XOR_C`, whose code is the longest, and
`ADD_RS`, which is restricted in ports and destination (on a retry the smaller
mask turns 7 into `ADD_C`). With five registers in flight at most three at the
beginning of a cycle and four behind its first slot are real bounds; that there
are never more than five is then proved.
`WideParams` has one element: two wide multiplications are then compared as
equal, the more restrictive case. Registers other than the one `lea` cannot
write are interchangeable, so symmetry is sound; the run that checks liveness
does not use it. Four blocks let each buffer be refilled while the other is half
used. The words {0, 1, 64} of `generator_draws` are zero for every mask, for none,
and for that of `ROR_C` only.

Six instructions hold two stretches with a branch in each. The short programs of
the compilers have one opcode for each kind of code; the three stretches of
`compilers` reach the most negative displacement a byte holds. The `blake2b`
counter carries at 4 and 8 bytes, inside blocks and messages, and five blocks
exercise every case of the loop. In `bench` `INT_MAX` is the largest value the loop
variables of four threads can take, more threads than there are seeds; of five
threads some overflow, and those that wrap around test the seeds of others. A
first seed `start + thd` past `INT_MAX` does not occur in the run; the proofs
cover it. Words of eight bits have
quarters of two, so that every partial product, carry and sign occurs.
`compilers` and `computations` check components that do not interact; their
behaviours begin with the choice of one.

Every property also has a mutant: a definition changed as a plausible bug would
change it, under which TLC finds that property violated.

Fairness.
* `Program`: `WF_vars(Next)`, a thread in a loop keeps executing.
* `Drawing`: weak fairness of `Draw`, and of `UseTemplate \/ Leave`. A draw that
  leaves everything as it is is a stuttering step, so the first says that the
  random numbers do not repeat such draws for ever if there are others, which is
  true with probability one; the second that a thread in a loop keeps executing.
  `Terminates` then says that there always are other draws, and that the
  generator returns whatever is drawn.
* `Bench`: weak fairness of `main` and of each worker, the scheduling of the
  operating system. `Finishes` says that main does not wait for ever: it reports,
  runs out of memory, or dies joining a thread that was never created. It is about
  seeds that end `threads - 1` or more below `INT_MAX` (`Fits`): a worker that
  wrapped around may meet the same seeds again and never end, for instance if the
  number of threads is a power of two.

The executions need no liveness: `RunsOnce` bounds the steps by twice the
program.

## 4. Findings

1. `assertion_insufficient`. `hashx_make` on an interpreted instance generates
   into `ctx->program` (`hashx.c:58`). If the seed is rejected, keys and
   `has_program` stay those of the earlier function. The documented precondition
   of `hashx_exec` (`hashx.h:122-123`, a function was "previously created") and
   its assertion (`hashx.c:64`) still hold, and it runs the rejected program
   under the old keys. A compiled instance keeps its old function.
2. `success_not_executable`. `hashx_vm_rx` drops the result of `mprotect`
   (`virtual_memory.c:84-86`), so `hashx_make` returns 1 for code that cannot be
   executed, although `hashx.h:114` says "1 on success, 0 on failure".

Some things the models show without a run of their own:

* `main` joins a thread that could not be created (`bench.c:110-114`). With POSIX
  threads this is `pthread_join(0, ...)`, which is undefined and kills the process
  with the usual C libraries (`JoinCrashes`); on Windows it returns at once and
  main reports the numbers of a job nobody has written. `AnnouncedIsDone` says
  which seeds are then not tested, `ReportIsExact` needs all threads;
* the options are not checked together (`bench.c:67-80`): `--start 2147483600
  --seeds 40 --threads 16` announces its seeds, but `seed += step` overflows. A
  worker that wraps around tests negative seeds and those of other workers, perhaps
  for ever. `OvershootIsBounded` says when this cannot happen, and the other
  properties what holds if it does not;
* the ASIC latency of a program with a constant reads `asic_latencies[-1]`
  (`program.c:680`), by the layout of `hashx_program` the last CPU latency of the
  program the memory held before; `ExactWithoutConstants` says what does hold;
* the digest of the seed is stored as bytes but the keys are read as native words
  (`hashx.c:45-50`; in counter mode also the second one, `hashx.c:32`): a big-endian
  host derives another program from the same seed, and other hashes than those of
  `tests.c:70`, although the detection of the byte order is said to be "only a
  performance tweak" (`hashx_endian.h:11-12`). `KeysFollowHost` says which keys every host gets. Salt and the layout
  of the output are the same on all hosts;
* the benchmark loads eight bytes of an output that may have one (`bench.c:39`).
  `BenchReadsOutput` says which bytes of the number it compares are the hash's;
  the others are whatever lies behind the array.

## 5. What is proved

Every property of a passing run is a theorem, but for `Terminates` and
`Finishes`. The theorems hold for every value of the constants that satisfies the
named assumptions, which TLC evaluates in the runs.

How induction is done. A predicate cannot be handed to a library theorem here, a
set can. `Induction` starts from the least element of a set of numbers
(`LeastNumber`) and derives from it induction over numbers, over finite sets, a
search that stops at the first hit (`FirstFrom`), and that a recursive function on
numbers exists (`Iterates`). A proof instantiates them with the set of the numbers
that have the property. So facts about programs of any length, sums over any
number of threads and powers of any exponent are proved, not only checked.

Generator (`GeneratorProofs`; assumes `ConstantsAssumption` and
`CalibrationAssumption`, which the code's numbers satisfy). The invariant
`IInv` has four parts beside the types:

* `PortsFree`: nothing is scheduled ahead, and at each slot of a cycle the ports
  the layout's templates need are free. A multiplication comes first and takes
  P1; the order P5, P0, P1 leaves P0 for the third slot, except behind an
  `ADD_RS` (which cannot be repeated) or on a retry (whose table has no
  `ADD_RS`), when it leaves P5;
* `PortsBusy`: without a skip each slot so far has a port of its own;
* `Counted`: without a skip size, multiplications and latency are functions of
  the slot. After a skip the size stays behind what the slots would hold, also
  when the walk resumes in the second slot of a two-uOP instruction;
* `Outcome`: the loop is left by a break only after a skip.

`NoPortDelay`, `Saturated`, `UniformShape`, `AcceptedIffNeverSkipped` and
`UopsExecuteTogether` are not inductive and follow from it. `ImplementsWalk`
proves the refinement of `LayoutWalk` step by step. It rests on lemmas about the
tables (`DrawnTemplate`, `OfferedTemplates`), the scheduler (`ScheduleUop`,
`ScheduleInstr`, `CommitInstr`) and the slot count (`IssuedNext`, `IssuedSkip`).

Two more invariants are about latencies, relative to `IInv`. `Latest`: some
register retires at `ctx.latency` and none later; a register is overwritten only
when it is ready, so the new latency is then the maximum or the old maximum
stays elsewhere (`LatencyIsLastRetirement`). `InFlight`: every register in
flight is that of one of the last four multiplications or of the instruction
behind this cycle's; a new cycle makes each of them one cycle older, also if it
begins with a skip. So a cycle begins with at most three registers in flight
(`EnoughReadyRegisters`).

Draws (`GeneratorProofs`, with `DrawingAssumption`): `DrawsAreChoices`, the
refinement of `Program` by the loops that draw again, and `ImmediatesAreUsable`.
The invariant `DInv` counts the bits of the mask under construction, so that it has
all of them however often a bit is drawn again, and says what each loop was
entered with.

Generator and compilers (`GeneratorProofs`; the same assumptions). The steps of
`CodegenNext` are steps of the generator, so `IInv` holds; `CompilersIInv` adds
`CodeGrows` (six bytes per slot, less what the short multiplications save),
`TargetNear` (the same from the target on, while a branch may follow) and
`WideInFlight` (the product of slot 12 is not ready before the branch in slot 19,
and only ready registers are written). `CodeFits` and `TestedRegisterKept` follow;
`BufferSuffices` puts in the code's 192 cycles: the x86 code of an accepted program
fits `COMP_CODE_SIZE`.

Generator to compilers (`GeneratorProofs`; with `PipelineAssumption`: masks are not
empty, and `HASHX_PROGRAM_MAX_SIZE` is at most the length of the array).
`GeneratedIsCompilable` proves `AcceptedIsCompilable`, so that what `CompilersProofs`
assumes of its programs is a theorem about the generator, for any registers, draws
and masks. The invariant `HandedOver` says of the code so far that it is compilable
and that the compilers' variables are those of a pass over it: `Positions` gives each
instruction the place where its code starts, whose differences are the sums
`X86Compilable` speaks of (`BetweenIs`, by induction); `Tested` says that `creg` is
the register of the multiplication the next branch would test. Appending an
instruction keeps both (`X86Appended`, `A64Appended`): in the branch's slot the
target is near and a register is kept (`AtTheBranch`), and elsewhere no assertion
fails, so the register in flight is not written.

Instance (`ContextProofs`, any seeds and failures): `NothingLeaks`,
`OneFunction`, `ProcessSurvives`, and the refinement of `HashFunction` if
`ExecAfterFailedMake` is false. The invariant `Whole`
relates keys, content and `has_program` to the last successful `hashx_make`.

Interpreter (`ProgramExecProofs`, any programs and masks): `RunsOnce`,
`RepeatsOneStretch`, `CountsItsBranch`. The invariant counts the executions of
the prefix and of the repeated stretch. `InterpreterMeansIt` is the refinement of
`HashProgram`: what `Skip` and `Landing` choose is unique (`SkipUnique`,
`LandingUnique`); `target` holds the index of a target (`HoldsTarget`) with none
between it and the program counter, so it is where the branch lands.

Compilers (`CompilersProofs`; assumes `MachinesAssumption`, that is, programs that
are `Compilable`, of any length up to the array, with any masks on words of any
number of bits). `CompiledNeverAstray`, and `CompiledMeansTheProgram`: a step of the
machine is a step of the program or none. The argument is the same for both.

* `Starts` is a position for each instruction, chosen once for the whole program:
  the sums of the sizes (`StartsFacts`, by induction). The compiler's `pos` is
  `s[i]`.
* The layout (`X86Layout`, `A64Layout`): at `s[k]` is the code of instruction `k`,
  for every `k` compiled so far. What is emitted later is behind `pos` and leaves
  it alone, which is the invariant while compiling.
* `target` is the start of the last target, so the displacement, encoded in 8
  bits (`BranchNear`, `SignExtends`) or in 19 (`A64Aligned`, `A64Displacement`) and
  extended again by the processor, leads exactly there; what lies behind that
  target is where the program lands (`LandsBehindTarget`).
* While the code runs, the next instruction belongs to some `k` at one of its
  internal places, and flag and registers are what they must be there
  (`X86Running`, `A64Running`). On x86 `edx` is the last product unless a branch was
  taken; between `or edx, esi` and the jump only the flag says what was decided,
  and at the `test` behind a target the flag of the jump must still be set. On A64 the
  tested register still holds the product: `Live` products, the last of which is
  `Kept`, follow the program from a target to its branch, `creg` is the register
  of the kept one (`OpenStep`), and no instruction in between writes it
  (`KeptStep`), which is what `Compilable` says and what refutes the assertions.

Random numbers (`ComputationsProofs`, any number of blocks): `ServedOnce`,
`NothingLost`, `CounterIsExact`. The invariant adds that what waits in a buffer
was never served and that the two buffers hold different blocks; `Drawn` counts
the blocks by what they still hold.

Arithmetic (`ComputationsProofs`, words of any width with an even quarter):
`OperationsAreExact` and `ConstantsAgree`. The lemmas bound the four partial
products and show that no intermediate sum reaches the width at which it would be
reduced (`UmulhCorrect`, `SmulhCorrect`); the rotation needs that powers of two
multiply (`TwoToSum`) and where a bit of a quotient comes from (`LowBit`, `HighBit`).

Bytes (`ComputationsProofs`, words and outputs of any size): `OutputIsPrefix` and
`HostsDifferInKeys`, that is, `KeysFollowHost` and `BenchReadsOutput`. The invariant `Memory` says which bytes are in the keys; storing a word
and loading it again returns it on hosts of both orders (`StoreLoad`).

Statistics (`ComputationsProofs`, programs of any length): `ExactWithoutConstants`.
The depth of an instruction is one more than the depths of its inputs; appending an
instruction leaves the earlier depths alone (`DepthsGrow`). The invariant
`Accounted` says that a register is never ready before the last instruction that
wrote it has its depth, and without constants just then.

BLAKE2b (`Blake2bProofs`, blocks and words of any size): the invariant says that
`h` is a prefix of the digest to come, and that what is not in it yet is in the
buffer or the input. `CounterIsExact` and `KeepsLastBlock` follow;
`ImplementsDigest` proves the refinement of `MessageDigest`.

Benchmark (`BenchProofs`, any seeds and threads): `EachSeedOnce`,
`OvershootIsBounded` and `AnnouncedIsDone`, whatever fails and wherever the seeds
end. The invariant `Partition` says that the seeds tested are those below the loop
variable of the thread that owns their residue; it holds while no loop variable
wrapped around, which `OvershootIsBounded` excludes if there is room for a step. `ReportIsExact` adds `Accounts`: a job's total and best hash are those of
the seeds its thread has tested, and what main has added up are the sum and the
minimum over the threads it has joined, in whatever order they ended
(`SumByTerms`, `MinIsLeast`).

Only model-checked: `Terminates` and `Finishes`, which need fairness and `ENABLED`,
which the provers cannot handle.

## 6. Not modelled

* SipHash, the BLAKE2b compression function, and the finalisation of
  `hashx_exec`: straight-line arithmetic on 64-bit words, in which no control
  depends on data. Their results are free.
* The operands the compilers encode into register instructions, and the values
  the instructions compute.
* The assembly printer (`program.c:718-771`) and the trace output: text.
* Clock and command line. Of the statistics, the counters that are only copied.
* Huge pages and their privilege: nothing calls them.
* The size of A64 code against its buffer: 4684 bytes for 288 free slots that
  are all constants, of which 4096 are there. Whether that happens is a matter
  of probability.

## 7. Plan

1. The BLAKE2b messages `hashx_make` and `hashx_exec` send, as one composition of
   `Context` and `Blake2b`.
2. The branch masks of `Drawing` as the masks of `Pipeline`, in one specification
   instead of an assumption that a theorem about the other module justifies.
3. How many free slots may become constants on A64, as a bound on the draws.
