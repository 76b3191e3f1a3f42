------------------------------ MODULE ByteOrder ------------------------------
(****************************************************************************)
(* The bytes of words in memory: from the digest of the seed to the keys,   *)
(* and from the registers to the output of a hash of HASHX_SIZE bytes, on   *)
(* hosts of either byte order.                                              *)
(*                                                                          *)
(* A word is a function from 0 .. WORD_BYTES - 1, the least significant     *)
(* byte first; so is memory, by address.                                    *)
(****************************************************************************)
EXTENDS Integers

CONSTANTS
    WORD_BYTES,     \* sizeof(uint64_t)
    Bytes,          \* the values of a byte
    Sizes           \* HASHX_SIZE is one of these

Offsets == 0 .. WORD_BYTES - 1
Words == [Offsets -> Bytes]

\* Four words of output.
HASH_BYTES == 4 * WORD_BYTES
HashAddresses == 0 .. HASH_BYTES - 1

\* What is assumed of the constants.
ByteOrderAssumption ==
    /\ WORD_BYTES \in Nat \ {0}
    /\ Sizes \subseteq 1 .. HASH_BYTES

VARIABLES
    little,                 \* is the host little endian?
    NATIVE_LITTLE_ENDIAN,   \* and does the preprocessor know?
    HASHX_SIZE,
    digest,                 \* of the seed: a word for each of two keys
    keys,                   \* the program's key, as the host reads it
    ctx_keys,               \* counter mode: the other one, read likewise
    salt,                   \* block mode: the same, as hashx_blake2b_4r reads it
    hash,                   \* the four words to output
    output,                 \* of hashx_exec
    hashval                 \* what the benchmark reads of it

host == <<little, NATIVE_LITTLE_ENDIAN>>
vars == <<host, HASHX_SIZE, digest, keys, ctx_keys, salt, hash, output, hashval>>

\* Memory nobody has written, and a value not yet computed.
Untouched == -1
None == << >>

Init ==
    /\ little \in BOOLEAN
    /\ NATIVE_LITTLE_ENDIAN \in BOOLEAN
    /\ NATIVE_LITTLE_ENDIAN => little
    /\ HASHX_SIZE \in Sizes
    /\ digest \in [0 .. 1 -> Words]
    /\ keys = None
    /\ ctx_keys = None
    /\ salt = None
    /\ hash = None
    /\ output = [a \in HashAddresses |-> Untouched]
    /\ hashval = None

-----------------------------------------------------------------------------
(* hashx_endian.h                                                           *)

\* memcpy between a word and memory; reversing twice is the identity.
load64_native(m) == [j \in Offsets |-> m[IF little THEN j ELSE WORD_BYTES - 1 - j]]
store64_native(w) == load64_native(w)

\* The bytes one by one, the least significant first.
load64(m) == IF NATIVE_LITTLE_ENDIAN THEN load64_native(m) ELSE [j \in Offsets |-> m[j]]

store64(w) == IF NATIVE_LITTLE_ENDIAN THEN store64_native(w) ELSE [j \in Offsets |-> w[j]]

-----------------------------------------------------------------------------
\* hashx_make: hashx_blake2b_final stores the digest over an array of two keys.
\* The first is used as it lies in memory.  So is the second in counter mode;
\* with HASHX_BLOCK_MODE its bytes are loaded as a salt.
Make(HASHX_BLOCK_MODE) ==
    /\ keys = None
    /\ keys' = load64_native(store64(digest[0]))
    /\ IF HASHX_BLOCK_MODE
       THEN salt' = load64(store64(digest[1])) /\ UNCHANGED ctx_keys
       ELSE ctx_keys' = load64_native(store64(digest[1])) /\ UNCHANGED salt
    /\ UNCHANGED <<host, HASHX_SIZE, digest, hash, output, hashval>>

\* Mutant: the last word is only stored if all of it is put out.
StoredWhole(k) == HASHX_SIZE >= WORD_BYTES * (k + 1)

\* #if HASHX_SIZE > 8 * k, behind which word k is stored to temp_out.
StoredAny(k) == HASHX_SIZE > WORD_BYTES * k

Byte(words, a) == store64(words[a \div WORD_BYTES])[a % WORD_BYTES]

\* Multiples of a word's size are stored straight to the output, by another
\* set of conditions; of other sizes temp_out is cut off.
Output(words) ==
    [a \in HashAddresses |->
        IF HASHX_SIZE % WORD_BYTES = 0
        THEN IF StoredWhole(a \div WORD_BYTES) THEN Byte(words, a) ELSE Untouched
        ELSE IF a < HASHX_SIZE /\ StoredAny(a \div WORD_BYTES) THEN Byte(words, a)
             ELSE Untouched]

\* hashx_exec, whatever words it has computed.
Exec(words) ==
    /\ keys # None
    /\ hash = None
    /\ hash' = words
    /\ output' = Output(words)
    /\ UNCHANGED <<host, HASHX_SIZE, digest, keys, ctx_keys, salt, hashval>>

\* The benchmark's array of HASHX_SIZE bytes, and what lies behind it, as far as
\* a word goes.
Array(behind) == [a \in Offsets |-> IF a < HASHX_SIZE THEN output[a] ELSE behind[a]]

\* The benchmark compares hashes by the first word of the array.
BenchLoad(behind) ==
    /\ hash # None
    /\ hashval = None
    /\ hashval' = load64(Array(behind))
    /\ UNCHANGED <<host, HASHX_SIZE, digest, keys, ctx_keys, salt, hash, output>>

Compared == hashval # None /\ UNCHANGED vars

Next ==
    \/ \E HASHX_BLOCK_MODE \in BOOLEAN : Make(HASHX_BLOCK_MODE)
    \/ \E words \in [0 .. 3 -> Words] : Exec(words)
    \/ \E behind \in Words : BenchLoad(behind)
    \/ Compared

Spec == Init /\ [][Next]_vars

-----------------------------------------------------------------------------
(* Properties.                                                              *)

\* "Shorter output sizes are formed by simply truncating the full 256-bit
\* hash": on every host, by either set of conditions, exactly HASHX_SIZE bytes
\* are written, and they are those of a host that is little endian.
OutputIsPrefix ==
    hash # None =>
        \A a \in HashAddresses :
            output[a] = IF a < HASHX_SIZE
                        THEN hash[a \div WORD_BYTES][a % WORD_BYTES]
                        ELSE Untouched

Reversed(w) == [j \in Offsets |-> w[WORD_BYTES - 1 - j]]

\* The bytes of a word, read as the host's.
AsNative(w) == IF little THEN w ELSE Reversed(w)

\* The keys are the digest's words on hosts that are little endian, whether the
\* preprocessor knows it or not, and these words with their bytes reversed on
\* the others: those make another program of the same seed, and in counter mode
\* give it another input.  The salt of block mode is the same on all hosts.
KeysFollowHost ==
    /\ keys # None => keys = AsNative(digest[0])
    /\ ctx_keys # None => ctx_keys = AsNative(digest[1])
    /\ salt # None => salt = digest[1]

\* The bytes of the output are the low ones of what the benchmark compares, on
\* every host: the first word of the hash, if the output has that many bytes,
\* and else with high bytes that are not part of the hash.
BenchReadsOutput ==
    hashval # None =>
        \A j \in Offsets : j < HASHX_SIZE => hashval[j] = hash[0][j]
=============================================================================
