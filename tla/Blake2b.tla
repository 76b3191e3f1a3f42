------------------------------- MODULE Blake2b -------------------------------
(****************************************************************************)
(* hashx_blake2b_init_param, _update, _final and _4r: how a message reaches *)
(* the compression function.                                                *)
(*                                                                          *)
(* A byte is its offset in the message, from 1, and 0 in an empty buffer.   *)
(* The compression function is free: h is the sequence of what it was fed.  *)
(* An iteration of a loop over the input is an action.                      *)
(****************************************************************************)
EXTENDS Integers, Sequences

CONSTANTS
    BLAKE2B_BLOCKBYTES,
    WORD,           \* the number of values of a word: 2^64
    MaxLength       \* bound on the length of a message

\* A counter as wide as two words.
ASSUME Blake2bAssumption ==
    /\ BLAKE2B_BLOCKBYTES \in Nat \ {0}
    /\ WORD \in Nat
    /\ BLAKE2B_BLOCKBYTES < WORD
    /\ MaxLength \in Nat
    /\ MaxLength < WORD * WORD

VARIABLES
    pc,             \* "idle", or in the loop of "update" or "4r"
    h, t0, t1, f0, buf, buflen,     \* blake2b_state
    pin, inlen,     \* input: bytes consumed since the start, bytes left
    out,            \* what final or 4r returned
    absorbed        \* history: the length of the message so far

vars == <<pc, h, t0, t1, f0, buf, buflen, pin, inlen, out, absorbed>>

B == BLAKE2B_BLOCKBYTES

NoDigest == << >>

EmptyBuffer == [j \in 0 .. B - 1 |-> 0]

Init ==
    /\ pc = "idle"
    /\ h = << >>
    /\ t0 = 0 /\ t1 = 0
    /\ f0 = FALSE
    /\ buf = EmptyBuffer
    /\ buflen = 0
    /\ pin = 0
    /\ inlen = 0
    /\ out = NoDigest
    /\ absorbed = 0

-----------------------------------------------------------------------------
\* Mutant: the carry is lost when the low word becomes zero.
IncrementNoCarry(inc) ==
    /\ t0' = (t0 + inc) % WORD
    /\ t1' = (t1 + (IF 0 < t0' /\ t0' < inc THEN 1 ELSE 0)) % WORD

increment_counter(inc) ==
    /\ t0' = (t0 + inc) % WORD
    /\ t1' = (t1 + (IF t0' < inc THEN 1 ELSE 0)) % WORD

\* With the counter and the flag as they are after the step.
compress(block, rounds) ==
    h' = Append(h, [block |-> block, t |-> <<t0', t1'>>, last |-> f0',
                    rounds |-> rounds])

\* n bytes of input from pin on.
Input(n) == [j \in 0 .. n - 1 |-> pin + j + 1]

\* memcpy(&buf[at], pin, n)
Copied(at, n) ==
    [j \in 0 .. B - 1 |->
        IF at <= j /\ j < at + n THEN Input(n)[j - at] ELSE buf[j]]

\* hashx_blake2b_init_param: hashing starts again.
InitParam ==
    /\ pc = "idle"
    /\ h' = << >>
    /\ t0' = 0 /\ t1' = 0
    /\ f0' = FALSE
    /\ buf' = EmptyBuffer
    /\ buflen' = 0
    /\ pin' = 0
    /\ inlen' = 0
    /\ out' = NoDigest
    /\ absorbed' = 0
    /\ UNCHANGED pc

-----------------------------------------------------------------------------
(* hashx_blake2b_update with n bytes.                                       *)

\* Mutant: a full block is compressed at once.
FillsBlockEagerly(n) == buflen + n >= B

FillsBlock(n) == buflen + n > B

\* The input fits the buffer.
UpdateShort(n) ==
    /\ pc = "idle"
    /\ n > 0 /\ ~f0
    /\ ~FillsBlock(n)
    /\ buf' = Copied(buflen, n)
    /\ buflen' = buflen + n
    /\ pin' = pin + n
    /\ absorbed' = absorbed + n
    /\ UNCHANGED <<pc, h, t0, t1, f0, inlen, out>>

\* The block in the buffer is completed.
UpdateFill(n) ==
    /\ pc = "idle"
    /\ n > 0 /\ ~f0
    /\ FillsBlock(n)
    /\ buf' = Copied(buflen, B - buflen)
    /\ UNCHANGED f0
    /\ increment_counter(B)
    /\ compress(buf', 12)
    /\ buflen' = 0
    /\ pin' = pin + (B - buflen)
    /\ inlen' = n - (B - buflen)
    /\ pc' = "update"
    /\ absorbed' = absorbed + n
    /\ UNCHANGED out

UpdateBlock ==
    /\ pc = "update"
    /\ inlen > B
    /\ UNCHANGED f0
    /\ increment_counter(B)
    /\ compress(Input(B), 12)
    /\ inlen' = inlen - B
    /\ pin' = pin + B
    /\ UNCHANGED <<pc, buf, buflen, out, absorbed>>

UpdateTail ==
    /\ pc = "update"
    /\ inlen <= B
    /\ buf' = Copied(buflen, inlen)
    /\ buflen' = buflen + inlen
    /\ pin' = pin + inlen
    /\ inlen' = 0
    /\ pc' = "idle"
    /\ UNCHANGED <<h, t0, t1, f0, out, absorbed>>

\* Nothing to do, or a state that was used up.
UpdateRefused(n) == pc = "idle" /\ (n = 0 \/ f0) /\ UNCHANGED vars

-----------------------------------------------------------------------------
(* hashx_blake2b_final.                                                     *)

\* Mutant: what an earlier block left in the buffer is not cleared.
NoPadding == buf

Padded == [j \in 0 .. B - 1 |-> IF j < buflen THEN buf[j] ELSE 0]

\* fits: is outlen at least the digest's length?
Final(fits) ==
    /\ pc = "idle"
    /\ fits /\ ~f0
    /\ increment_counter(buflen)
    /\ f0' = TRUE
    /\ buf' = Padded
    /\ compress(Padded, 12)
    /\ out' = h'
    /\ UNCHANGED <<pc, buflen, pin, inlen, absorbed>>

FinalRefused(fits) == pc = "idle" /\ (~fits \/ f0) /\ UNCHANGED vars

-----------------------------------------------------------------------------
(* hashx_blake2b_4r with n bytes: on a state of its own, so from the start. *)

FourRounds(n) ==
    /\ pc = "idle"
    /\ h = << >> /\ buflen = 0
    /\ inlen' = n
    /\ absorbed' = n
    /\ pc' = "4r"
    /\ UNCHANGED <<h, t0, t1, f0, buf, buflen, pin, out>>

FourRoundsBlock ==
    /\ pc = "4r"
    /\ inlen > B
    /\ UNCHANGED f0
    /\ increment_counter(B)
    /\ compress(Input(B), 4)
    /\ inlen' = inlen - B
    /\ pin' = pin + B
    /\ UNCHANGED <<pc, buf, buflen, out, absorbed>>

FourRoundsFinal ==
    /\ pc = "4r"
    /\ inlen <= B
    /\ buf' = Copied(0, inlen)
    /\ increment_counter(inlen)
    /\ f0' = TRUE
    /\ compress(buf', 4)
    /\ out' = h'
    /\ pin' = pin + inlen
    /\ inlen' = 0
    /\ pc' = "idle"
    /\ UNCHANGED <<buflen, absorbed>>

-----------------------------------------------------------------------------
Lengths == 0 .. MaxLength - absorbed

Next ==
    \/ InitParam
    \/ \E n \in Lengths : UpdateShort(n) \/ UpdateFill(n) \/ UpdateRefused(n)
    \/ UpdateBlock \/ UpdateTail
    \/ \E fits \in BOOLEAN : Final(fits) \/ FinalRefused(fits)
    \/ \E n \in Lengths : FourRounds(n)
    \/ FourRoundsBlock \/ FourRoundsFinal

Spec == Init /\ [][Next]_vars

-----------------------------------------------------------------------------
(* Properties.                                                              *)

Abstract == INSTANCE MessageDigest WITH
    length <- IF pc = "4r" THEN 0 ELSE absorbed,
    digest <- out

\* However a message is cut into updates, the digest is that of the message:
\* its blocks in order, the exact count with each, and the last one marked,
\* also when the message ends with a full block.
DigestsTheMessage == Abstract!Spec

\* The bytes that were compressed.
Compressed == B * Len(h)

Loops == {"update", "4r"}

TypeOK ==
    /\ pc \in {"idle", "update", "4r"}
    /\ h \in Seq([block : [0 .. B - 1 -> Nat], t : Nat \X Nat, last : BOOLEAN,
                  rounds : {4, 12}])
    /\ t0 \in 0 .. WORD - 1
    /\ t1 \in 0 .. WORD - 1
    /\ f0 \in BOOLEAN
    /\ buf \in [0 .. B - 1 -> Nat]
    /\ buflen \in 0 .. B
    /\ pin \in Nat
    /\ inlen \in Nat
    /\ absorbed \in 0 .. MaxLength

\* Between calls the buffer holds the end of the message, and after the first
\* byte it is never empty: the last block is still there when final marks it.
KeepsLastBlock ==
    pc = "idle" /\ ~f0 =>
        /\ absorbed = Compressed + buflen
        /\ absorbed > 0 => buflen > 0
        /\ \A j \in 0 .. buflen - 1 : buf[j] = Compressed + j + 1

\* The counter counts the bytes that were compressed, across its carry.
CounterIsExact == ~f0 => t0 + WORD * t1 = Compressed
=============================================================================
