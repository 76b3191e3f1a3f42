--------------------------- MODULE MCComputations ---------------------------
(****************************************************************************)
(* The small computations, each on its own: the arithmetic of Words, the    *)
(* bytes of ByteOrder, the statistics of a program and the random numbers   *)
(* of SiphashRng.  The subject of a behaviour is chosen first; the          *)
(* variables of the others are not used.                                    *)
(****************************************************************************)
EXTENDS Words

CONSTANTS
    WORD_BYTES, Bytes, Sizes,       \* of ByteOrder
    RegisterCount, MaxSize, Stale,  \* of Statistics
    MaxBlocks                       \* of SiphashRng

VARIABLES
    subject,        \* "words", "bytes", "statistics" or "stream"
    little, NATIVE_LITTLE_ENDIAN, HASHX_SIZE, digest, keys, ctx_keys, salt,
    hash, output, hashval,
    code, i, asic_latencies, wide_mul_count, asic_latency,
    counter, buffer8, buffer32, count8, count32, value, served, calls8, calls32

bytes == <<little, NATIVE_LITTLE_ENDIAN, HASHX_SIZE, digest, keys, ctx_keys,
           salt, hash, output, hashval>>
statistics == <<code, i, asic_latencies, wide_mul_count, asic_latency>>
stream == <<counter, buffer8, buffer32, count8, count32, value, served, calls8,
            calls32>>

B == INSTANCE ByteOrder
S == INSTANCE Statistics
R == INSTANCE SiphashRng

ASSUME InstancesAssumption ==
    B!ByteOrderAssumption /\ S!StatisticsAssumption /\ R!MaxBlocksAssumption

NoWords == opcode = "none" /\ x = 0 /\ y = 0 /\ result = NoResult

NoBytes ==
    /\ little = TRUE /\ NATIVE_LITTLE_ENDIAN = TRUE /\ HASHX_SIZE = 0
    /\ digest = B!None /\ keys = B!None /\ ctx_keys = B!None
    /\ salt = B!None /\ hash = B!None /\ output = B!None /\ hashval = B!None

NoStatistics ==
    /\ code = << >> /\ i = 0 /\ asic_latencies = << >>
    /\ wide_mul_count = 0 /\ asic_latency = S!NotComputed

NoStream == R!Init

ComputationsInit ==
    \/ subject = "words" /\ Init /\ NoBytes /\ NoStatistics /\ NoStream
    \/ subject = "bytes" /\ B!Init /\ NoWords /\ NoStatistics /\ NoStream
    \/ subject = "statistics" /\ S!Init /\ NoWords /\ NoBytes /\ NoStream
    \/ subject = "stream" /\ R!Init /\ NoWords /\ NoBytes /\ NoStatistics

WordsStep == Next /\ UNCHANGED <<bytes, statistics, stream>>
BytesStep == B!Next /\ UNCHANGED <<vars, statistics, stream>>
StatisticsStep == S!Next /\ UNCHANGED <<vars, bytes, stream>>
StreamStep == R!Next /\ UNCHANGED <<vars, bytes, statistics>>

ComputationsNext ==
    /\ \/ subject = "words" /\ WordsStep
       \/ subject = "bytes" /\ BytesStep
       \/ subject = "statistics" /\ StatisticsStep
       \/ subject = "stream" /\ StreamStep
    /\ UNCHANGED subject

ComputationsSpec ==
    ComputationsInit /\ [][ComputationsNext]_<<subject, vars, bytes, statistics, stream>>

-----------------------------------------------------------------------------
\* hashx_exec writes just HASHX_SIZE bytes, a prefix of the same hash on every
\* host.
OutputIsPrefix == B!OutputIsPrefix

\* Hosts of the other byte order differ in the keys, and in nothing else: not in
\* the salt, nor in what the benchmark reads of an output.
HostsDifferInKeys == B!KeysFollowHost /\ B!BenchReadsOutput

\* No carry, sign or bit gets lost in the 64-bit operations.
OperationsAreExact == UmulhIsExact /\ SmulhIsExact /\ RotatesRight

\* The ASIC latency is the dataflow depth, in programs without constants.
ExactWithoutConstants == S!ExactWithoutConstants

\* No byte of the key stream is returned twice, by either function; none is
\* lost; and how many blocks were used depends on the numbers of calls alone.
ServedOnce == R!ServedOnce
NothingLost == R!NothingLost
CounterIsExact == R!CounterIsExact
=============================================================================
