----------------------------- MODULE SiphashRng -----------------------------
(****************************************************************************)
(* siphash_rng.c: the random numbers of the program generator.              *)
(*                                                                          *)
(* SipHash-1-3 in counter mode turns the counter into a block of 64 bits.   *)
(* Bytes and 32-bit words are served from a buffer each, but both buffers   *)
(* are refilled from the one counter, so which block a byte comes from      *)
(* depends on the order of all the calls.                                   *)
(*                                                                          *)
(* A block is known by the counter it was made from, and a byte of it by    *)
(* its index, 0 being the least significant; what the bits are does not     *)
(* matter here.                                                             *)
(****************************************************************************)
EXTENDS Integers, FiniteSets

CONSTANT MaxBlocks      \* bound on the counter (2^64 in the code)

\* What is assumed of it.
MaxBlocksAssumption == MaxBlocks \in Nat

\* Mutant: the size of the buffer is not divided by the size of a word.
EightWords == 8

BLOCK_BYTES == 8                \* sizeof(buffer8)
U32_BYTES == 4                 \* sizeof(uint32_t)
BLOCK_WORDS == 2                \* sizeof(buffer32) / sizeof(uint32_t)

\* A buffer that was never filled.
NoBlock == -1

VARIABLES
    counter,
    buffer8,    \* block the bytes are served from
    buffer32,   \* block the words are served from
    count8,     \* bytes of buffer8 not served yet
    count32,    \* words of buffer32 not served yet
    value,      \* what the last call returned: a set of bytes of blocks
    served,     \* history: the bytes returned by the calls before it
    calls8,     \* history: number of calls
    calls32

vars == <<counter, buffer8, buffer32, count8, count32, value, served,
          calls8, calls32>>

\* hashx_siphash_rng_init: the buffers are left uninitialised.
Init ==
    /\ counter = 0
    /\ count8 = 0
    /\ count32 = 0
    /\ buffer8 = NoBlock
    /\ buffer32 = NoBlock
    /\ value = {}
    /\ served = {}
    /\ calls8 = 0
    /\ calls32 = 0

-----------------------------------------------------------------------------
\* Mutant: the counter stays.
NoAdvance(c) == c

\* gen->counter++
Advance(c) == c + 1

\* The part of a block that `buffer >> (n * width)` leaves at the bottom and
\* the conversion to the return type keeps.
Byte(block, n) == {<<block, n>>}

\* Mutant: the shift is by half the width of a word.
HalfShiftedWord(block, n) == {block} \X (2 * n .. 2 * n + 3)

\* Likewise of the 32 bits wide ones.
Word(block, n) == {block} \X (U32_BYTES * n .. U32_BYTES * n + U32_BYTES - 1)

Return(v) == value' = v /\ served' = served \cup value

u8 ==
    /\ IF count8 = 0
       THEN /\ counter < MaxBlocks
            /\ buffer8' = counter
            /\ counter' = Advance(counter)
            /\ count8' = BLOCK_BYTES - 1
       ELSE /\ count8' = count8 - 1
            /\ UNCHANGED <<buffer8, counter>>
    /\ Return(Byte(buffer8', count8'))
    /\ calls8' = calls8 + 1
    /\ UNCHANGED <<buffer32, count32, calls32>>

u32 ==
    /\ IF count32 = 0
       THEN /\ counter < MaxBlocks
            /\ buffer32' = counter
            /\ counter' = Advance(counter)
            /\ count32' = BLOCK_WORDS - 1
       ELSE /\ count32' = count32 - 1
            /\ UNCHANGED <<buffer32, counter>>
    /\ Return(Word(buffer32', count32'))
    /\ calls32' = calls32 + 1
    /\ UNCHANGED <<buffer8, count8, calls8>>

\* The generator asks for a bounded number of values.
Enough == counter = MaxBlocks /\ UNCHANGED vars

Next == u8 \/ u32 \/ Enough

Spec == Init /\ [][Next]_vars

-----------------------------------------------------------------------------
(* Properties.                                                              *)

Blocks == 0 .. counter - 1
Offsets == 0 .. BLOCK_BYTES - 1

\* The bytes that are in a buffer and were not served yet.
Waiting8 == IF count8 = 0 THEN {} ELSE {buffer8} \X (0 .. count8 - 1)
Waiting32 ==
    IF count32 = 0 THEN {} ELSE {buffer32} \X (0 .. U32_BYTES * count32 - 1)

TypeOK ==
    /\ counter \in 0 .. MaxBlocks
    /\ buffer8 \in Blocks \cup {NoBlock}
    /\ buffer32 \in Blocks \cup {NoBlock}
    /\ count8 \in 0 .. BLOCK_BYTES - 1
    /\ count32 \in 0 .. BLOCK_WORDS - 1
    /\ value \subseteq Blocks \X Offsets
    /\ served \subseteq Blocks \X Offsets
    /\ calls8 \in Nat
    /\ calls32 \in Nat

\* However the calls of hashx_siphash_rng_u8 and hashx_siphash_rng_u32 are
\* mixed, no byte of the key stream is ever returned twice, by either of them,
\* and none comes from a buffer that was not filled.
ServedOnce ==
    /\ value \cap served = {}
    /\ \A b \in value : b[1] # NoBlock

\* Nothing of the key stream gets lost either: what was not returned is still
\* waiting in a buffer.  Refilling one buffer discards nothing of the other.
NothingLost ==
    served \cup value \cup Waiting8 \cup Waiting32 = Blocks \X Offsets

\* How many blocks were used (the statistic program->counter) depends on the
\* numbers of calls alone and not on their order.
CounterIsExact ==
    counter = (calls8 + BLOCK_BYTES - 1) \div BLOCK_BYTES
                + (calls32 + BLOCK_WORDS - 1) \div BLOCK_WORDS

-----------------------------------------------------------------------------
(* The inductive invariant: what is waiting was never served, and is in two *)
(* different blocks.                                                        *)

IInv ==
    /\ TypeOK
    /\ ServedOnce
    /\ count8 > 0 => buffer8 \in Blocks
    /\ count32 > 0 => buffer32 \in Blocks
    /\ count8 > 0 /\ count32 > 0 => buffer8 # buffer32
    /\ (served \cup value) \cap (Waiting8 \cup Waiting32) = {}

\* The blocks taken for each of the two, counted by what they still hold.
Drawn ==
    /\ (calls8 + count8) % BLOCK_BYTES = 0
    /\ (calls32 + count32) % BLOCK_WORDS = 0
    /\ counter = (calls8 + count8) \div BLOCK_BYTES
                    + (calls32 + count32) \div BLOCK_WORDS
=============================================================================
