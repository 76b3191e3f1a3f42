---------------------------- MODULE MessageDigest ----------------------------
(****************************************************************************)
(* What BLAKE2b promises: the digest of a message, however many pieces the  *)
(* message comes in.                                                        *)
(*                                                                          *)
(* Bytes are known by their offsets in the message, from 1; 0 is padding.   *)
(* A digest is known by what the compression function was fed: blocks, each *)
(* with the number of bytes so far (two words) and a mark on the last one.  *)
(****************************************************************************)
EXTENDS Integers, Sequences

CONSTANTS
    BLAKE2B_BLOCKBYTES,
    WORD,           \* the number of values of a word of the counter
    NoDigest

VARIABLES
    length,         \* of the message so far
    digest

vars == <<length, digest>>

B == BLAKE2B_BLOCKBYTES

Counter(n) == <<n % WORD, (n \div WORD) % WORD>>

\* The bytes from + 1 .. upto of a message, padded.
Block(from, upto) ==
    [j \in 0 .. B - 1 |-> IF from + j < upto THEN from + j + 1 ELSE 0]

\* At least one block, and no empty one behind others.
LastBlock(n) == IF n = 0 THEN 0 ELSE (n - 1) \div B

Digest(n, rounds) ==
    [k \in 1 .. LastBlock(n) + 1 |->
        LET last == k = LastBlock(n) + 1
            upto == IF last THEN n ELSE B * k
        IN  [block |-> Block(B * (k - 1), upto), t |-> Counter(upto),
             last |-> last, rounds |-> rounds]]

Init == length = 0 /\ digest = NoDigest

\* Another piece of the message.
Update ==
    /\ digest = NoDigest
    /\ length' \in Nat
    /\ length' >= length
    /\ UNCHANGED digest

Final ==
    /\ digest = NoDigest
    /\ digest' = Digest(length, 12)
    /\ UNCHANGED length

\* The variant with four rounds takes a message in one piece.
FourRounds ==
    /\ length = 0
    /\ digest = NoDigest
    /\ length' \in Nat
    /\ digest' = Digest(length', 4)

Restart == length' = 0 /\ digest' = NoDigest

Next == Update \/ Final \/ FourRounds \/ Restart

Spec == Init /\ [][Next]_vars
=============================================================================
