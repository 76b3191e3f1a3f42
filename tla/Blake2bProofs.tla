---------------------------- MODULE Blake2bProofs ----------------------------
(****************************************************************************)
(* Proofs about Blake2b, for blocks and words of any size.                  *)
(*                                                                          *)
(* Until the last block, h is the beginning of the digest to come, the      *)
(* counter counts its bytes, and what is not yet in it is in the buffer or  *)
(* still in the input.                                                      *)
(****************************************************************************)
EXTENDS Blake2b, SequenceTheorems, TLAPS

\* Block k of a message that goes on behind it.
Chunk(k, rounds) ==
    [block |-> Abstract!Block(B * (k - 1), B * k), t |-> Abstract!Counter(B * k),
     last |-> FALSE, rounds |-> rounds]

Rounds == IF pc = "4r" THEN 4 ELSE 12

\* Of a message that has not ended.
Open ==
    /\ out = NoDigest
    /\ t0 + WORD * t1 = Compressed
    /\ \A k \in 1 .. Len(h) : h[k] = Chunk(k, Rounds)
    /\ absorbed = Compressed + buflen + inlen
    /\ pin = Compressed + buflen
    /\ Compressed > 0 => buflen + inlen > 0
    /\ \A j \in 0 .. buflen - 1 : buf[j] = Compressed + j + 1
    /\ pc = "idle" => inlen = 0
    /\ pc # "idle" => buflen = 0
    /\ pc = "update" => inlen > 0
    /\ absorbed = 0 \/ pc = "4r" => buf = EmptyBuffer

Ended == pc = "idle" /\ h # << >>

IInv ==
    /\ TypeOK
    /\ ~f0 => Open
    /\ f0 => Ended

-----------------------------------------------------------------------------
(* Arithmetic                                                               *)

LEMMA Constants ==
    /\ B \in Nat /\ B > 0 /\ WORD \in Nat /\ WORD > 0 /\ B < WORD
    /\ MaxLength \in Nat /\ MaxLength < WORD * WORD
    /\ Abstract!B = B
  BY Blake2bAssumption DEF B, Abstract!B

LEMMA Bounds ==
    B \in Nat /\ B > 0 /\ WORD \in Nat /\ WORD > 0 /\ MaxLength \in Nat
  BY Constants

LEMMA DivUnique ==
    ASSUME NEW d \in Nat, NEW q \in Nat, NEW r \in Nat, r < d, d > 0
    PROVE  /\ (r + d * q) \div d = q
           /\ (r + d * q) % d = r
  BY Z3

LEMMA AddSmall ==
    ASSUME NEW d \in Nat, NEW u \in 0 .. d - 1, NEW v \in 0 .. d - 1, d > 0
    PROVE  (u + v) % d = IF u + v < d THEN u + v ELSE u + v - d
  <1>1. CASE u + v < d
    BY <1>1, Z3
  <1>2. CASE ~(u + v < d)
    <2>1. u + v - d \in Nat /\ u + v - d < d /\ u + v = (u + v - d) + d * 1
      BY <1>2
    <2>2. ((u + v - d) + d * 1) % d = u + v - d
      BY <2>1, DivUnique
    <2> QED BY <1>2, <2>1, <2>2
  <1> QED BY <1>1, <1>2

\* The counter in two words counts on, and its carry is never lost.
LEMMA CounterStep ==
    ASSUME t0 \in 0 .. WORD - 1, t1 \in 0 .. WORD - 1,
           NEW inc \in 0 .. B, t0 + WORD * t1 + inc < WORD * WORD,
           increment_counter(inc)
    PROVE  /\ t0' \in 0 .. WORD - 1 /\ t1' \in 0 .. WORD - 1
           /\ t0' + WORD * t1' = t0 + WORD * t1 + inc
           /\ <<t0', t1'>> = Abstract!Counter(t0 + WORD * t1 + inc)
  <1>1. inc \in 0 .. WORD - 1
    BY Constants
  <1>2. t0' = IF t0 + inc < WORD THEN t0 + inc ELSE t0 + inc - WORD
    BY <1>1, Constants, AddSmall DEF increment_counter
  <1>3. t0' < inc <=> t0 + inc >= WORD
    BY <1>1, <1>2, Constants
  <1>4. /\ t1' \in 0 .. WORD - 1
        /\ t1' = IF t0 + inc >= WORD THEN t1 + 1 ELSE t1
    <2>1. CASE t0 + inc >= WORD
      <3>1. WORD * t1 + WORD < WORD * WORD
        BY <2>1, <1>1, Constants, Z3
      <3>2. t1 + 1 < WORD
        BY <3>1, Constants, Z3
      <3>3. t1' = (t1 + 1) % WORD
        BY <2>1, <1>3 DEF increment_counter
      <3>4. (t1 + 1) % WORD = t1 + 1
        BY <3>2, Constants, Z3
      <3> QED BY <2>1, <3>2, <3>3, <3>4, Constants
    <2>2. CASE ~(t0 + inc >= WORD)
      <3>1. t1' = (t1 + 0) % WORD
        BY <2>2, <1>3 DEF increment_counter
      <3>2. t1 % WORD = t1 /\ t1 + 0 = t1
        BY Constants, Z3
      <3> QED BY <2>2, <3>1, <3>2
    <2> QED BY <2>1, <2>2
  <1>5. t0' \in 0 .. WORD - 1
    BY <1>1, <1>2, Constants
  <1>6. t0' + WORD * t1' = t0 + WORD * t1 + inc
    <2>1. WORD * (t1 + 1) = WORD * t1 + WORD
      BY Constants, Z3
    <2>2. WORD * t1 \in Nat
      BY Constants, Z3
    <2> QED BY <2>1, <2>2, <1>1, <1>2, <1>4, Constants
  <1>7. /\ (t0' + WORD * t1') % WORD = t0' /\ (t0' + WORD * t1') \div WORD = t1'
        /\ t1' % WORD = t1'
    <2>1. t1' % WORD = t1'
      BY <1>4, Constants, Z3
    <2>2. WORD \in Nat /\ WORD > 0
      BY Constants
    <2>3. \A q, r \in Nat : r < WORD =>
            (r + WORD * q) \div WORD = q /\ (r + WORD * q) % WORD = r
      BY <2>2, DivUnique
    <2>4. t0' \in Nat /\ t1' \in Nat /\ t0' < WORD
      BY <1>4, <1>5, Constants
    <2> QED BY <2>1, <2>3, <2>4
  <1> QED BY <1>4, <1>5, <1>6, <1>7 DEF Abstract!Counter

Record == [block : [0 .. B - 1 -> Nat], t : Nat \X Nat, last : BOOLEAN,
           rounds : {4, 12}]

LEMMA CompressStep ==
    ASSUME h \in Seq(Record), NEW block, NEW rounds, compress(block, rounds)
    PROVE  /\ Len(h) \in Nat /\ Len(h') = Len(h) + 1 /\ Len(h') \in Nat
           /\ DOMAIN h' = 1 .. Len(h')
           /\ h' # << >>
           /\ \A k \in 1 .. Len(h) : h'[k] = h[k]
           /\ h'[Len(h) + 1] = [block |-> block, t |-> <<t0', t1'>>, last |-> f0',
                                 rounds |-> rounds]
  BY DEF compress

LEMMA CompressType ==
    ASSUME h \in Seq(Record), NEW block \in [0 .. B - 1 -> Nat], NEW rounds \in {4, 12},
           t0' \in Nat, t1' \in Nat, f0' \in BOOLEAN, compress(block, rounds)
    PROVE  h' \in Seq(Record)
  BY DEF compress, Record

-----------------------------------------------------------------------------
(* A block behind which the message goes on.                                *)

LEMMA BlockStep ==
    ASSUME TypeOK, Open, ~f0, UNCHANGED f0, increment_counter(B),
           Compressed + B <= MaxLength,
           NEW block, block = Abstract!Block(Compressed, Compressed + B),
           NEW rounds \in {4, 12}, compress(block, rounds)
    PROVE  /\ h' \in Seq(Record)
           /\ Compressed \in Nat /\ Compressed' = Compressed + B
           /\ t0' \in 0 .. WORD - 1 /\ t1' \in 0 .. WORD - 1
           /\ t0' + WORD * t1' = Compressed'
           /\ Len(h) \in Nat /\ Len(h') = Len(h) + 1
           /\ \A k \in 1 .. Len(h) : h'[k] = h[k]
           /\ h'[Len(h')] = Chunk(Len(h'), rounds)
  <1>1. h \in Seq(Record) /\ Len(h) \in Nat /\ Compressed \in Nat
    BY Constants DEF TypeOK, Record, Compressed
  <1>2. /\ Len(h') = Len(h) + 1
        /\ \A k \in 1 .. Len(h) : h'[k] = h[k]
        /\ h'[Len(h) + 1] = [block |-> block, t |-> <<t0', t1'>>, last |-> f0',
                              rounds |-> rounds]
    BY <1>1, CompressStep
  <1>3. Compressed' = Compressed + B
    <2>1. B * (Len(h) + 1) = B * Len(h) + B
      BY <1>1, Constants, Z3
    <2> QED BY <1>2, <2>1 DEF Compressed, B
  <1>4. Compressed + B < WORD * WORD
    BY <1>1, Constants
  <1>5. /\ t0' \in 0 .. WORD - 1 /\ t1' \in 0 .. WORD - 1
        /\ t0' + WORD * t1' = Compressed + B
        /\ <<t0', t1'>> = Abstract!Counter(Compressed + B)
    BY <1>4, CounterStep, Constants DEF TypeOK, Open
  <1>6. block \in [0 .. B - 1 -> Nat]
    BY <1>1, Constants DEF Abstract!Block
  <1>7. h' \in Seq(Record)
    BY <1>1, <1>5, <1>6, CompressType DEF TypeOK
  <1>8. h'[Len(h')] = Chunk(Len(h'), rounds)
    <2>1. B * ((Len(h) + 1) - 1) = Compressed /\ B * (Len(h) + 1) = Compressed + B
      <3>1. (Len(h) + 1) - 1 = Len(h)
        BY <1>1
      <3> QED BY <3>1, <1>2, <1>3 DEF Compressed, B
    <2>2. f0' = FALSE
      BY DEF TypeOK
    <2>3. Chunk(Len(h) + 1, rounds) =
            [block |-> block, t |-> <<t0', t1'>>, last |-> f0', rounds |-> rounds]
      BY <2>1, <2>2, <1>5 DEF Chunk
    <2> QED BY <2>3, <1>2
  <1> QED BY <1>1, <1>2, <1>3, <1>5, <1>7, <1>8

-----------------------------------------------------------------------------
(* One lemma for each action: the invariant, and the step of MessageDigest. *)

LEMMA CopiedFacts ==
    ASSUME TypeOK, NEW at \in Nat, NEW n \in Nat
    PROVE  /\ Copied(at, n) \in [0 .. B - 1 -> Nat]
           /\ \A j \in 0 .. B - 1 : Copied(at, n)[j] =
                    IF at <= j /\ j < at + n THEN pin + (j - at) + 1 ELSE buf[j]
  <1>1. \A j \in 0 .. B - 1 : at <= j /\ j < at + n =>
            Input(n)[j - at] = pin + (j - at) + 1
    BY Constants DEF Input
  <1>2. \A j \in 0 .. B - 1 : Copied(at, n)[j] =
            IF at <= j /\ j < at + n THEN pin + (j - at) + 1 ELSE buf[j]
    BY <1>1 DEF Copied
  <1>3. ASSUME NEW j \in 0 .. B - 1 PROVE Copied(at, n)[j] \in Nat
    <2>1. pin \in Nat /\ buf[j] \in Nat /\ j \in Int
      BY Constants DEF TypeOK
    <2>2. at <= j => pin + (j - at) + 1 \in Nat
      BY <2>1
    <2> QED BY <1>2, <2>1, <2>2
  <1> QED BY <1>2, <1>3 DEF Copied

\* What IInv says of the numbers.
LEMMA OpenFacts ==
    ASSUME IInv, ~f0
    PROVE  /\ TypeOK /\ Open /\ h \in Seq(Record)
           /\ Len(h) \in Nat /\ Compressed \in Nat
           /\ Compressed = B * Len(h)
           /\ h = << >> => Compressed = 0
           /\ h # << >> => Compressed > 0
  <1>1. h \in Seq(Record) /\ Len(h) \in Nat /\ TypeOK /\ Open
    BY DEF IInv, TypeOK, Record
  <1>2. Compressed = B * Len(h) /\ Compressed \in Nat
    BY <1>1, Constants DEF Compressed, B
  <1>3. h = << >> <=> Len(h) = 0
    BY <1>1
  <1>4. Len(h) > 0 => B * Len(h) > 0
    BY <1>1, Constants, Z3
  <1>5. B * 0 = 0
    BY Constants
  <1> QED BY <1>1, <1>2, <1>3, <1>4, <1>5

Step == IInv' /\ [Abstract!Next]_(Abstract!vars)

\* The message grows.
LEMMA UpdateStep ==
    ASSUME TypeOK, out = NoDigest, pc # "4r", pc' # "4r", UNCHANGED out,
           absorbed' \in Nat, absorbed' >= absorbed
    PROVE  Abstract!Next
  BY DEF Abstract!Next, Abstract!Update

LEMMA InitParamStep ==
    ASSUME IInv, InitParam
    PROVE  Step
  <1>1. /\ h' = << >> /\ t0' = 0 /\ t1' = 0 /\ f0' = FALSE /\ buf' = EmptyBuffer
        /\ buflen' = 0 /\ pin' = 0 /\ inlen' = 0 /\ out' = NoDigest /\ absorbed' = 0
        /\ pc = "idle" /\ pc' = "idle"
    BY DEF InitParam
  <1>2. TypeOK'
    <2>1. h' \in Seq(Record)
      BY <1>1
    <2>2. buf' \in [0 .. B - 1 -> Nat]
      BY <1>1 DEF EmptyBuffer
    <2>3. f0' \in BOOLEAN
      BY <1>1
    <2>4. /\ pc' \in {"idle", "update", "4r"}
          /\ t0' \in 0 .. WORD - 1 /\ t1' \in 0 .. WORD - 1
          /\ buflen' \in 0 .. B /\ pin' \in Nat /\ inlen' \in Nat
          /\ absorbed' \in 0 .. MaxLength
      BY <1>1, Bounds
    <2> QED BY <2>1, <2>2, <2>3, <2>4 DEF TypeOK, Record
  <1>3. Compressed' = 0 /\ Len(h') = 0 /\ WORD * 0 = 0
    <2>1. BLAKE2B_BLOCKBYTES * 0 = 0 /\ WORD * 0 = 0
      BY Blake2bAssumption
    <2> QED BY <1>1, <2>1 DEF Compressed, B
  <1>4. Open'
    BY <1>1, <1>3, Constants DEF Open
  <1>5. Abstract!Restart
    BY <1>1 DEF Abstract!Restart
  <1> QED BY <1>1, <1>2, <1>4, <1>5 DEF Step, IInv, Abstract!Next

LEMMA UpdateShortStep ==
    ASSUME IInv, NEW n \in Lengths, UpdateShort(n)
    PROVE  Step
  <1>1. /\ pc = "idle" /\ pc' = pc /\ n > 0 /\ ~f0 /\ f0' = f0 /\ ~(buflen + n > B)
        /\ buf' = Copied(buflen, n) /\ buflen' = buflen + n /\ pin' = pin + n
        /\ absorbed' = absorbed + n /\ h' = h /\ t0' = t0 /\ t1' = t1
        /\ inlen' = inlen /\ out' = out
    BY DEF UpdateShort, FillsBlock
  <1>2. TypeOK /\ Open /\ Compressed \in Nat /\ Compressed' = Compressed /\ inlen = 0
    BY <1>1, OpenFacts DEF Compressed, Open
  <1>3. n \in Nat /\ absorbed + n \in 0 .. MaxLength
    BY <1>2, Constants DEF Lengths, TypeOK
  <1>4. /\ buf' \in [0 .. B - 1 -> Nat]
        /\ \A j \in 0 .. B - 1 : buf'[j] =
                IF buflen <= j /\ j < buflen + n THEN pin + (j - buflen) + 1 ELSE buf[j]
    BY <1>1, <1>2, <1>3, CopiedFacts DEF TypeOK
  <1>5. TypeOK'
    BY <1>1, <1>2, <1>3, <1>4, Constants DEF TypeOK
  <1>6. \A j \in 0 .. buflen' - 1 : buf'[j] = Compressed + j + 1
    <2> SUFFICES ASSUME NEW j \in 0 .. buflen' - 1
                 PROVE  buf'[j] = Compressed + j + 1
      OBVIOUS
    <2>1. j \in 0 .. B - 1 /\ j < buflen + n
      BY <1>1, <1>2, <1>3, Constants DEF TypeOK
    <2>2. CASE j < buflen
      BY <2>1, <2>2, <1>2, <1>4 DEF Open, TypeOK
    <2>3. CASE ~(j < buflen)
      BY <2>1, <2>3, <1>2, <1>3, <1>4 DEF Open, TypeOK
    <2> QED BY <2>2, <2>3
  <1>7. Open'
    BY <1>1, <1>2, <1>3, <1>6 DEF Open, TypeOK, Rounds, Chunk
  <1> QED BY <1>1, <1>2, <1>3, <1>5, <1>7, UpdateStep DEF Step, IInv, Open, TypeOK

LEMMA FullBlock ==
    ASSUME NEW f \in [0 .. B - 1 -> Nat], NEW c \in Nat,
           \A j \in 0 .. B - 1 : f[j] = c + j + 1
    PROVE  f = Abstract!Block(c, c + B)
  <1>1. Abstract!Block(c, c + B) = [j \in 0 .. B - 1 |-> c + j + 1]
    BY Bounds, Constants DEF Abstract!Block
  <1> QED BY <1>1

LEMMA ChunksStep ==
    ASSUME Len(h) \in Nat, Len(h') = Len(h) + 1, NEW r,
           \A k \in 1 .. Len(h) : h[k] = Chunk(k, r),
           \A k \in 1 .. Len(h) : h'[k] = h[k],
           h'[Len(h')] = Chunk(Len(h'), r)
    PROVE  \A k \in 1 .. Len(h') : h'[k] = Chunk(k, r)
  <1>1. \A k \in 1 .. Len(h') : k \in 1 .. Len(h) \/ k = Len(h')
    OBVIOUS
  <1> QED BY <1>1

LEMMA UpdateFillStep ==
    ASSUME IInv, NEW n \in Lengths, UpdateFill(n)
    PROVE  Step
  <1>1. /\ pc = "idle" /\ pc' = "update" /\ n > 0 /\ ~f0 /\ f0' = f0 /\ buflen + n > B
        /\ buf' = Copied(buflen, B - buflen) /\ buflen' = 0
        /\ pin' = pin + (B - buflen) /\ inlen' = n - (B - buflen)
        /\ absorbed' = absorbed + n /\ out' = out
        /\ increment_counter(B) /\ compress(buf', 12)
    BY DEF UpdateFill, FillsBlock
  <1>2. TypeOK /\ Open /\ Compressed \in Nat /\ inlen = 0 /\ Len(h) \in Nat
    BY <1>1, OpenFacts DEF Open
  <1>3. /\ n \in Nat /\ absorbed + n \in 0 .. MaxLength /\ B - buflen \in Nat
        /\ absorbed = Compressed + buflen /\ pin = Compressed + buflen
        /\ buflen \in Nat /\ inlen' \in Nat /\ inlen' > 0
    BY <1>1, <1>2, Bounds DEF Lengths, TypeOK, Open
  <1>4. /\ buf' \in [0 .. B - 1 -> Nat]
        /\ \A j \in 0 .. B - 1 : buf'[j] =
                IF buflen <= j /\ j < buflen + (B - buflen) THEN pin + (j - buflen) + 1
                ELSE buf[j]
    BY <1>1, <1>2, <1>3, CopiedFacts
  <1>5. \A j \in 0 .. B - 1 : buf'[j] = Compressed + j + 1
    <2> SUFFICES ASSUME NEW j \in 0 .. B - 1 PROVE buf'[j] = Compressed + j + 1
      OBVIOUS
    <2>1. CASE j < buflen
      <3>1. buf'[j] = buf[j]
        BY <2>1, <1>3, <1>4, Bounds
      <3>2. j \in 0 .. buflen - 1
        BY <2>1, <1>3, Bounds
      <3> QED BY <3>1, <3>2, <1>2 DEF Open
    <2>2. CASE ~(j < buflen)
      <3>1. j \in Int /\ buflen <= j /\ j < buflen + (B - buflen)
        BY <2>2, <1>3, Bounds
      <3>2. buf'[j] = pin + (j - buflen) + 1
        BY <3>1, <1>4
      <3>3. pin = Compressed + buflen /\ Compressed \in Nat /\ buflen \in Nat
        BY <1>2, <1>3
      <3> QED BY <3>1, <3>2, <3>3
    <2> QED BY <2>1, <2>2
  <1>6. buf' = Abstract!Block(Compressed, Compressed + B)
    BY <1>2, <1>4, <1>5, FullBlock
  <1>7. Compressed + B <= MaxLength
    BY <1>1, <1>2, <1>3, Bounds
  <1>8. /\ h' \in Seq(Record) /\ Compressed' = Compressed + B
        /\ t0' \in 0 .. WORD - 1 /\ t1' \in 0 .. WORD - 1
        /\ t0' + WORD * t1' = Compressed'
        /\ Len(h') = Len(h) + 1
        /\ \A k \in 1 .. Len(h) : h'[k] = h[k]
        /\ h'[Len(h')] = Chunk(Len(h'), 12)
    BY <1>1, <1>2, <1>6, <1>7, BlockStep
  <1>9. \A k \in 1 .. Len(h') : h'[k] = Chunk(k, 12)
    BY <1>1, <1>2, <1>8, ChunksStep DEF Open, Rounds
  <1>10. TypeOK'
    <2>1. f0' \in BOOLEAN /\ pin' \in Nat /\ buflen' \in 0 .. B
      BY <1>1, <1>2, <1>3, Bounds DEF TypeOK
    <2> QED BY <2>1, <1>1, <1>3, <1>4, <1>8 DEF TypeOK, Record
  <1>11. Open'
    <2>1. absorbed' = Compressed' + buflen' + inlen' /\ pin' = Compressed' + buflen'
      <3>1. /\ absorbed' = (Compressed + buflen) + n /\ buflen' = 0
            /\ inlen' = n - (B - buflen) /\ pin' = Compressed + buflen + (B - buflen)
        BY <1>1, <1>3
      <3>2. Compressed' = Compressed + B /\ Compressed \in Nat /\ n \in Nat /\ buflen \in Nat
        BY <1>2, <1>3, <1>8
      <3> QED BY <3>1, <3>2, Bounds
    <2>2. absorbed' # 0 /\ pc' # "4r" /\ Rounds' = 12
      BY <1>1, <1>2, <1>3, Bounds DEF Rounds
    <2>3. \A j \in 0 .. buflen' - 1 : buf'[j] = Compressed' + j + 1
      BY <1>1
    <2> QED BY <2>1, <2>2, <2>3, <1>1, <1>2, <1>3, <1>8, <1>9 DEF Open, Chunk
  <1>12. Abstract!Next
    <2>1. absorbed \in Nat /\ absorbed' \in Nat /\ absorbed' >= absorbed
      BY <1>1, <1>2, <1>3, Bounds DEF TypeOK
    <2>2. out = NoDigest
      BY <1>2 DEF Open
    <2> QED BY <1>1, <1>2, <2>1, <2>2, UpdateStep
  <1> QED BY <1>1, <1>10, <1>11, <1>12 DEF Step, IInv

\* Blocks of the input, of hashx_blake2b_update and hashx_blake2b_4r.
LEMMA InputBlockStep ==
    ASSUME IInv, ~f0, pc \in Loops, inlen > B,
           UNCHANGED <<f0, pc, buf, buflen, out, absorbed>>,
           increment_counter(B), NEW r \in {4, 12}, r = Rounds, compress(Input(B), r),
           inlen' = inlen - B, pin' = pin + B
    PROVE  Step
  <1>1. /\ TypeOK /\ Open /\ Compressed \in Nat /\ Len(h) \in Nat
        /\ buflen = 0 /\ pin = Compressed /\ absorbed = Compressed + inlen /\ inlen \in Nat
    <2>1. TypeOK /\ Open /\ Compressed \in Nat /\ Len(h) \in Nat
      BY OpenFacts
    <2>2. buflen = 0 /\ inlen \in Nat
      BY <2>1 DEF Open, Loops, TypeOK
    <2>3. pin = Compressed + buflen /\ absorbed = Compressed + buflen + inlen
      BY <2>1 DEF Open
    <2> QED BY <2>1, <2>2, <2>3
  <1>2. Input(B) = Abstract!Block(Compressed, Compressed + B)
    <2>1. \A j \in 0 .. B - 1 : Compressed + j + 1 \in Nat
      BY <1>1, Bounds
    <2>2. Input(B) \in [0 .. B - 1 -> Nat]
      BY <1>1, <2>1 DEF Input
    <2>3. \A j \in 0 .. B - 1 : Input(B)[j] = Compressed + j + 1
      BY <1>1 DEF Input
    <2> QED BY <2>2, <2>3, <1>1, FullBlock
  <1>3. Compressed + B <= MaxLength
    BY <1>1, Bounds DEF TypeOK
  <1>4. /\ h' \in Seq(Record) /\ Compressed' = Compressed + B
        /\ t0' \in 0 .. WORD - 1 /\ t1' \in 0 .. WORD - 1
        /\ t0' + WORD * t1' = Compressed'
        /\ Len(h') = Len(h) + 1
        /\ \A k \in 1 .. Len(h) : h'[k] = h[k]
        /\ h'[Len(h')] = Chunk(Len(h'), r)
    BY <1>1, <1>2, <1>3, BlockStep
  <1>5. \A k \in 1 .. Len(h') : h'[k] = Chunk(k, r)
    BY <1>1, <1>4, ChunksStep DEF Open
  <1>6. inlen' \in Nat /\ inlen' > 0 /\ pin' \in Nat
    BY <1>1, Bounds
  <1>7. TypeOK'
    BY <1>1, <1>4, <1>6 DEF TypeOK, Record
  <1>8. Open'
    <2>1. absorbed' = Compressed' + buflen' + inlen' /\ pin' = Compressed' + buflen'
      BY <1>1, <1>4, Bounds
    <2>2. Rounds' = r /\ pc' # "idle"
      BY DEF Rounds, Loops
    <2>3. \A j \in 0 .. buflen' - 1 : buf'[j] = Compressed' + j + 1
      BY <1>1
    <2>4. buflen' + inlen' > 0 /\ buflen' = 0
      BY <1>1, <1>6
    <2>5. absorbed' = 0 \/ pc' = "4r" => buf' = EmptyBuffer
      BY <1>1 DEF Open
    <2> QED BY <2>1, <2>2, <2>3, <2>4, <2>5, <1>1, <1>4, <1>5, <1>6 DEF Open, Chunk
  <1> QED BY <1>7, <1>8 DEF Step, IInv, Abstract!vars

LEMMA UpdateBlockStep ==
    ASSUME IInv, UpdateBlock
    PROVE  Step
  <1>1. ~f0
    BY DEF IInv, Ended, UpdateBlock
  <1> QED BY <1>1, InputBlockStep DEF UpdateBlock, Loops, Rounds

LEMMA FourRoundsBlockStep ==
    ASSUME IInv, FourRoundsBlock
    PROVE  Step
  <1>1. ~f0
    BY DEF IInv, Ended, FourRoundsBlock
  <1> QED BY <1>1, InputBlockStep DEF FourRoundsBlock, Loops, Rounds

LEMMA UpdateTailStep ==
    ASSUME IInv, UpdateTail
    PROVE  Step
  <1>1. /\ pc = "update" /\ pc' = "idle" /\ inlen <= B /\ inlen' = 0
        /\ buf' = Copied(buflen, inlen) /\ buflen' = buflen + inlen
        /\ pin' = pin + inlen /\ h' = h /\ t0' = t0 /\ t1' = t1 /\ f0' = f0
        /\ out' = out /\ absorbed' = absorbed
    BY DEF UpdateTail
  <1>2. ~f0
    BY <1>1 DEF IInv, Ended
  <1>3. TypeOK /\ Open /\ Compressed \in Nat /\ Compressed' = Compressed
    BY <1>1, <1>2, OpenFacts DEF Compressed
  <1>4. /\ buflen = 0 /\ inlen \in Nat /\ inlen > 0 /\ pin = Compressed
        /\ absorbed = Compressed + inlen
    <2>1. buflen = 0 /\ inlen \in Nat /\ inlen > 0
      BY <1>1, <1>3 DEF Open, TypeOK
    <2>2. pin = Compressed + buflen /\ absorbed = Compressed + buflen + inlen
      BY <1>3 DEF Open
    <2> QED BY <2>1, <2>2, <1>3
  <1>5. /\ buf' \in [0 .. B - 1 -> Nat]
        /\ \A j \in 0 .. B - 1 : buf'[j] =
                IF 0 <= j /\ j < 0 + inlen THEN pin + (j - 0) + 1 ELSE buf[j]
    BY <1>1, <1>3, <1>4, CopiedFacts
  <1>6. buflen' = inlen /\ pin' = Compressed + inlen /\ inlen \in 0 .. B /\ pin' \in Nat
    BY <1>1, <1>3, <1>4, Bounds
  <1>7. TypeOK'
    BY <1>1, <1>3, <1>5, <1>6 DEF TypeOK
  <1>8. ASSUME NEW j \in 0 .. inlen - 1
        PROVE  buf'[j] = Compressed + j + 1
    <2>1. j \in 0 .. B - 1 /\ 0 <= j /\ j < 0 + inlen
      BY <1>6, Bounds
    <2>2. buf'[j] = pin + (j - 0) + 1
      BY <2>1, <1>5
    <2> QED BY <2>1, <2>2, <1>3, <1>4
  <1>9. Open'
    <2>1. /\ absorbed' = Compressed' + buflen' + inlen' /\ pin' = Compressed' + buflen'
          /\ buflen' + inlen' > 0 /\ absorbed' # 0
      BY <1>1, <1>3, <1>4, <1>6
    <2>2. Rounds' = Rounds
      BY <1>1 DEF Rounds
    <2>3. \A j \in 0 .. buflen' - 1 : buf'[j] = Compressed' + j + 1
      BY <1>3, <1>6, <1>8
    <2> QED BY <2>1, <2>2, <2>3, <1>1, <1>3 DEF Open, Chunk
  <1> QED BY <1>1, <1>2, <1>7, <1>9 DEF Step, IInv, Abstract!vars

-----------------------------------------------------------------------------
(* The last block.                                                          *)

LEMMA LastBlockIs ==
    ASSUME NEW q \in Nat, NEW r \in 0 .. B, q > 0 => r > 0
    PROVE  Abstract!LastBlock(B * q + r) = q
  <1>1. B * q \in Nat
    BY Bounds, Z3
  <1>2. CASE r = 0
    <2>1. q = 0 /\ B * 0 = 0
      BY <1>2, Bounds
    <2> QED BY <1>2, <2>1 DEF Abstract!LastBlock
  <1>3. CASE r > 0
    <2>1. r - 1 \in Nat /\ r - 1 < B /\ B * q + r # 0
          /\ (B * q + r) - 1 = (r - 1) + B * q
      BY <1>1, <1>3, Bounds
    <2>2. ((r - 1) + B * q) \div B = q
      BY <2>1, Bounds, DivUnique
    <2> QED BY <2>1, <2>2, Constants DEF Abstract!LastBlock
  <1> QED BY <1>2, <1>3

LEMMA LastBlockStep ==
    ASSUME TypeOK, Open, ~f0, f0' = TRUE,
           NEW r \in 0 .. B, Compressed > 0 => r > 0, Compressed + r <= MaxLength,
           increment_counter(r),
           NEW block, block = Abstract!Block(Compressed, Compressed + r),
           NEW rounds \in {4, 12}, rounds = Rounds, compress(block, rounds)
    PROVE  /\ h' \in Seq(Record) /\ h' # << >>
           /\ t0' \in 0 .. WORD - 1 /\ t1' \in 0 .. WORD - 1
           /\ h' = Abstract!Digest(Compressed + r, rounds)
  <1>1. h \in Seq(Record) /\ Len(h) \in Nat /\ Compressed = B * Len(h) /\ Compressed \in Nat
    BY Constants DEF TypeOK, Record, Compressed, B
  <1>2. /\ Len(h') = Len(h) + 1 /\ h' # << >>
        /\ \A k \in 1 .. Len(h) : h'[k] = h[k]
        /\ h'[Len(h) + 1] = [block |-> block, t |-> <<t0', t1'>>, last |-> f0',
                              rounds |-> rounds]
    BY <1>1, CompressStep
  <1>3. Compressed + r < WORD * WORD
    BY <1>1, Constants
  <1>4. /\ t0' \in 0 .. WORD - 1 /\ t1' \in 0 .. WORD - 1
        /\ <<t0', t1'>> = Abstract!Counter(Compressed + r)
    BY <1>3, CounterStep DEF TypeOK, Open
  <1>5. block \in [0 .. B - 1 -> Nat]
    BY <1>1, Constants DEF Abstract!Block
  <1>6. h' \in Seq(Record)
    BY <1>1, <1>4, <1>5, CompressType
  <1>7. Abstract!LastBlock(Compressed + r) = Len(h)
    <2>1. Len(h) > 0 => r > 0
      <3>1. Len(h) > 0 => B * Len(h) > 0
        BY <1>1, Bounds, Z3
      <3> QED BY <3>1, <1>1
    <2> QED BY <2>1, <1>1, LastBlockIs
  <1> DEFINE d == Abstract!Digest(Compressed + r, rounds)
  <1>8. /\ d = [k \in 1 .. Len(h) + 1 |-> d[k]]
        /\ \A k \in 1 .. Len(h) + 1 : d[k] =
            LET last == k = Len(h) + 1
                upto == IF last THEN Compressed + r ELSE B * k
            IN  [block |-> Abstract!Block(B * (k - 1), upto),
                 t |-> Abstract!Counter(upto), last |-> last, rounds |-> rounds]
    BY <1>7, Constants DEF Abstract!Digest
  <1>9. ASSUME NEW k \in 1 .. Len(h) + 1 PROVE h'[k] = d[k]
    <2>1. CASE k \in 1 .. Len(h)
      <3>1. h'[k] = Chunk(k, rounds) /\ (k = Len(h) + 1) = FALSE
        BY <2>1, <1>1, <1>2 DEF Open
      <3> QED BY <3>1, <1>8 DEF Chunk
    <2>2. CASE k = Len(h) + 1
      <3>1. B * (k - 1) = Compressed /\ (k = Len(h) + 1) = TRUE
        <4>1. k - 1 = Len(h)
          BY <2>2, <1>1
        <4> QED BY <4>1, <2>2, <1>1
      <3> QED BY <3>1, <2>2, <1>2, <1>4, <1>8
    <2> QED BY <2>1, <2>2, <1>1
  <1>10. h' = [k \in 1 .. Len(h) + 1 |-> h'[k]]
    BY <1>2, <1>6
  <1> QED BY <1>2, <1>4, <1>6, <1>8, <1>9, <1>10

LEMMA FinalStep ==
    ASSUME IInv, NEW fits \in BOOLEAN, Final(fits)
    PROVE  Step
  <1>1. /\ pc = "idle" /\ pc' = pc /\ ~f0 /\ f0' = TRUE /\ buf' = Padded
        /\ out' = h' /\ buflen' = buflen /\ pin' = pin /\ inlen' = inlen
        /\ absorbed' = absorbed /\ increment_counter(buflen) /\ compress(Padded, 12)
    BY DEF Final
  <1>2. TypeOK /\ Open /\ Compressed \in Nat /\ out = NoDigest
    BY <1>1, OpenFacts DEF Open
  <1>3. /\ absorbed = Compressed + buflen /\ buflen \in 0 .. B /\ buflen \in Nat
        /\ Compressed > 0 => buflen > 0
        /\ Compressed + buflen <= MaxLength
    <2>1. inlen = 0 /\ absorbed = Compressed + buflen + inlen
          /\ (Compressed > 0 => buflen + inlen > 0)
      BY <1>1, <1>2 DEF Open
    <2>2. buflen \in 0 .. B /\ absorbed \in 0 .. MaxLength
      BY <1>2 DEF TypeOK
    <2> QED BY <2>1, <2>2, <1>2, Bounds
  <1>4. Padded = Abstract!Block(Compressed, Compressed + buflen)
    <2>1. ASSUME NEW j \in 0 .. B - 1
          PROVE  (IF j < buflen THEN buf[j] ELSE 0) =
                 IF Compressed + j < Compressed + buflen THEN Compressed + j + 1 ELSE 0
      <3>1. j < buflen <=> Compressed + j < Compressed + buflen
        BY <1>2, <1>3, Bounds
      <3>2. j < buflen => buf[j] = Compressed + j + 1
        <4>1. j < buflen => j \in 0 .. buflen - 1
          BY <1>3, Bounds
        <4> QED BY <4>1, <1>2 DEF Open
      <3> QED BY <3>1, <3>2
    <2> QED BY <2>1, Constants DEF Padded, Abstract!Block
  <1>5. /\ h' \in Seq(Record) /\ h' # << >>
        /\ t0' \in 0 .. WORD - 1 /\ t1' \in 0 .. WORD - 1
        /\ h' = Abstract!Digest(Compressed + buflen, 12)
    BY <1>1, <1>2, <1>3, <1>4, LastBlockStep DEF Rounds
  <1>6. TypeOK'
    <2>1. Padded \in [0 .. B - 1 -> Nat]
      BY <1>2, Bounds DEF Padded, TypeOK
    <2>2. f0' \in BOOLEAN
      BY <1>1
    <2> QED BY <2>1, <2>2, <1>1, <1>2, <1>5 DEF TypeOK, Record
  <1>7. Abstract!Next
    BY <1>1, <1>2, <1>3, <1>5 DEF Abstract!Next, Abstract!Final
  <1> QED BY <1>1, <1>5, <1>6, <1>7 DEF Step, IInv, Ended

LEMMA FourRoundsStep ==
    ASSUME IInv, NEW n \in Lengths, FourRounds(n)
    PROVE  Step
  <1>1. /\ pc = "idle" /\ pc' = "4r" /\ h = << >> /\ buflen = 0 /\ inlen' = n
        /\ absorbed' = n /\ h' = h /\ t0' = t0 /\ t1' = t1 /\ f0' = f0 /\ buf' = buf
        /\ buflen' = buflen /\ pin' = pin /\ out' = out
    BY DEF FourRounds
  <1>2. ~f0
    BY <1>1 DEF IInv, Ended
  <1>3. /\ TypeOK /\ Open /\ Compressed = 0 /\ Compressed' = 0 /\ Len(h') = 0
    BY <1>1, <1>2, OpenFacts DEF Compressed
  <1>4. absorbed = 0 /\ pin = 0 /\ buf = EmptyBuffer
    <2>1. absorbed = Compressed + buflen + inlen /\ inlen = 0 /\ pin = Compressed + buflen
      BY <1>1, <1>3 DEF Open
    <2>2. absorbed = 0 /\ pin = 0
      BY <2>1, <1>1, <1>3
    <2> QED BY <2>2, <1>3 DEF Open
  <1>5. n \in Nat /\ n \in 0 .. MaxLength
    BY <1>4, Bounds DEF Lengths
  <1>6. TypeOK'
    BY <1>1, <1>3, <1>5 DEF TypeOK
  <1>7. Open'
    <2>1. \A k \in 1 .. Len(h') : h'[k] = Chunk(k, Rounds)'
      BY <1>3
    <2>2. t0' + WORD * t1' = Compressed'
      BY <1>1, <1>3 DEF Open
    <2>3. /\ absorbed' = Compressed' + buflen' + inlen' /\ pin' = Compressed' + buflen'
          /\ ~(Compressed' > 0)
      BY <1>1, <1>3, <1>4, <1>5
    <2>4. out' = NoDigest
      BY <1>1, <1>3 DEF Open
    <2>5. \A j \in 0 .. buflen' - 1 : buf'[j] = Compressed' + j + 1
      BY <1>1
    <2> QED BY <2>1, <2>2, <2>3, <2>4, <2>5, <1>1, <1>4 DEF Open
  <1> QED BY <1>1, <1>2, <1>4, <1>6, <1>7 DEF Step, IInv, Abstract!vars

LEMMA FourRoundsFinalStep ==
    ASSUME IInv, FourRoundsFinal
    PROVE  Step
  <1>1. /\ pc = "4r" /\ pc' = "idle" /\ inlen <= B /\ buf' = Copied(0, inlen)
        /\ increment_counter(inlen) /\ f0' = TRUE /\ compress(buf', 4) /\ out' = h'
        /\ pin' = pin + inlen /\ inlen' = 0 /\ buflen' = buflen /\ absorbed' = absorbed
    BY DEF FourRoundsFinal
  <1>2. ~f0
    BY <1>1 DEF IInv, Ended
  <1>3. TypeOK /\ Open /\ Compressed \in Nat /\ out = NoDigest /\ buf = EmptyBuffer
    BY <1>1, <1>2, OpenFacts DEF Open
  <1>4. /\ inlen \in 0 .. B /\ inlen \in Nat /\ pin = Compressed
        /\ absorbed = Compressed + inlen
        /\ Compressed > 0 => inlen > 0
        /\ Compressed + inlen <= MaxLength
    <2>1. buflen = 0 /\ pin = Compressed + buflen /\ absorbed = Compressed + buflen + inlen
          /\ (Compressed > 0 => buflen + inlen > 0)
      BY <1>1, <1>3 DEF Open
    <2>2. inlen \in Nat /\ absorbed \in 0 .. MaxLength
      BY <1>3 DEF TypeOK
    <2> QED BY <2>1, <2>2, <1>1, <1>3, Bounds
  <1>5. /\ buf' \in [0 .. B - 1 -> Nat]
        /\ \A j \in 0 .. B - 1 : buf'[j] =
                IF 0 <= j /\ j < 0 + inlen THEN pin + (j - 0) + 1 ELSE buf[j]
    BY <1>1, <1>3, <1>4, CopiedFacts
  <1>6. buf' = Abstract!Block(Compressed, Compressed + inlen)
    <2>1. ASSUME NEW j \in 0 .. B - 1
          PROVE  buf'[j] =
                 IF Compressed + j < Compressed + inlen THEN Compressed + j + 1 ELSE 0
      <3>1. /\ j < 0 + inlen <=> Compressed + j < Compressed + inlen
            /\ 0 <= j /\ pin + (j - 0) + 1 = Compressed + j + 1
        BY <1>3, <1>4, Bounds
      <3>2. buf[j] = 0
        BY <1>3 DEF EmptyBuffer
      <3> QED BY <3>1, <3>2, <1>5
    <2> QED BY <2>1, <1>5, Constants DEF Abstract!Block
  <1>7. /\ h' \in Seq(Record) /\ h' # << >>
        /\ t0' \in 0 .. WORD - 1 /\ t1' \in 0 .. WORD - 1
        /\ h' = Abstract!Digest(Compressed + inlen, 4)
    BY <1>1, <1>2, <1>3, <1>4, <1>6, LastBlockStep DEF Rounds
  <1>8. TypeOK'
    <2>1. pin' \in Nat /\ inlen' \in Nat
      BY <1>1, <1>3, <1>4
    <2>2. f0' \in BOOLEAN
      BY <1>1
    <2> QED BY <2>1, <2>2, <1>1, <1>3, <1>5, <1>7 DEF TypeOK, Record
  <1>9. Abstract!Next
    BY <1>1, <1>3, <1>4, <1>7 DEF Abstract!Next, Abstract!FourRounds
  <1> QED BY <1>1, <1>7, <1>8, <1>9 DEF Step, IInv, Ended

-----------------------------------------------------------------------------
LEMMA InitIInv == Init => IInv /\ Abstract!Init
  <1> SUFFICES ASSUME Init PROVE IInv /\ Abstract!Init
    OBVIOUS
  <1>1. /\ pc = "idle" /\ h = << >> /\ t0 = 0 /\ t1 = 0 /\ f0 = FALSE
        /\ buf = EmptyBuffer /\ buflen = 0 /\ pin = 0 /\ inlen = 0 /\ out = NoDigest
        /\ absorbed = 0
    BY DEF Init
  <1>2. TypeOK
    <2>1. buf \in [0 .. B - 1 -> Nat] /\ h \in Seq(Record)
      BY <1>1 DEF EmptyBuffer
    <2>2. f0 \in BOOLEAN
      BY <1>1
    <2>3. /\ t0 \in 0 .. WORD - 1 /\ t1 \in 0 .. WORD - 1 /\ buflen \in 0 .. B
          /\ pin \in Nat /\ inlen \in Nat /\ absorbed \in 0 .. MaxLength
      BY <1>1, Bounds
    <2> QED BY <2>1, <2>2, <2>3, <1>1 DEF TypeOK, Record
  <1>3. Compressed = 0 /\ Len(h) = 0 /\ WORD * 0 = 0
    <2>1. BLAKE2B_BLOCKBYTES * 0 = 0 /\ WORD * 0 = 0
      BY Blake2bAssumption
    <2> QED BY <1>1, <2>1 DEF Compressed, B
  <1>4. Open
    BY <1>1, <1>3 DEF Open
  <1> QED BY <1>1, <1>2, <1>4 DEF IInv, Abstract!Init

LEMMA StutterStep == ASSUME IInv, UNCHANGED vars PROVE Step
  BY DEF vars, Step, IInv, TypeOK, Open, Ended, Compressed, Rounds, Chunk, Abstract!vars

LEMMA NextStep ==
    ASSUME IInv, [Next]_vars
    PROVE  Step
  <1>1. CASE InitParam
    BY <1>1, InitParamStep
  <1>2. ASSUME NEW n \in Lengths, UpdateShort(n) PROVE Step
    BY <1>2, UpdateShortStep
  <1>3. ASSUME NEW n \in Lengths, UpdateFill(n) PROVE Step
    BY <1>3, UpdateFillStep
  <1>4. ASSUME NEW n \in Lengths, UpdateRefused(n) PROVE Step
    BY <1>4, StutterStep DEF UpdateRefused
  <1>5. CASE UpdateBlock
    BY <1>5, UpdateBlockStep
  <1>6. CASE UpdateTail
    BY <1>6, UpdateTailStep
  <1>7. ASSUME NEW fits \in BOOLEAN, Final(fits) PROVE Step
    BY <1>7, FinalStep
  <1>8. ASSUME NEW fits \in BOOLEAN, FinalRefused(fits) PROVE Step
    BY <1>8, StutterStep DEF FinalRefused
  <1>9. ASSUME NEW n \in Lengths, FourRounds(n) PROVE Step
    BY <1>9, FourRoundsStep
  <1>10. CASE FourRoundsBlock
    BY <1>10, FourRoundsBlockStep
  <1>11. CASE FourRoundsFinal
    BY <1>11, FourRoundsFinalStep
  <1>12. CASE UNCHANGED vars
    BY <1>12, StutterStep
  <1> QED
    BY <1>1, <1>2, <1>3, <1>4, <1>5, <1>6, <1>7, <1>8, <1>9, <1>10, <1>11, <1>12
    DEF Next

\* The invariant from which the theorems follow.
THEOREM Invariant == Spec => []IInv
  <1>1. Init => IInv
    BY InitIInv
  <1>2. IInv /\ [Next]_vars => IInv'
    BY NextStep DEF Step
  <1> QED BY <1>1, <1>2, PTL DEF Spec

\* Types, and the bounds of the buffer and of the counter's words.
THEOREM TypeCorrect == Spec => []TypeOK
  <1>1. IInv => TypeOK
    BY DEF IInv
  <1> QED BY <1>1, Invariant, PTL

\* The counter of hashx_blake2b counts what was compressed, across the carry
\* of blake2b_increment_counter.
THEOREM CounterAlwaysExact == Spec => []CounterIsExact
  <1>1. IInv => CounterIsExact
    BY DEF IInv, Open, CounterIsExact
  <1> QED BY <1>1, Invariant, PTL

\* hashx_blake2b_update never compresses what may be the last block.
THEOREM LastBlockAlwaysKept == Spec => []KeepsLastBlock
  <1>1. IInv => KeepsLastBlock
    <2> SUFFICES ASSUME IInv, pc = "idle", ~f0
                 PROVE  /\ absorbed = Compressed + buflen
                        /\ absorbed > 0 => buflen > 0
                        /\ \A j \in 0 .. buflen - 1 : buf[j] = Compressed + j + 1
      BY DEF KeepsLastBlock
    <2>1. TypeOK /\ Open /\ Compressed \in Nat
      BY OpenFacts
    <2>2. /\ absorbed = Compressed + buflen + inlen /\ inlen = 0
          /\ (Compressed > 0 => buflen + inlen > 0)
          /\ \A j \in 0 .. buflen - 1 : buf[j] = Compressed + j + 1
      BY <2>1 DEF Open
    <2>3. buflen \in Nat
      BY <2>1, Bounds DEF TypeOK
    <2>4. absorbed = Compressed + buflen /\ (absorbed > 0 => buflen > 0)
      BY <2>1, <2>2, <2>3
    <2> QED BY <2>2, <2>4
  <1> QED BY <1>1, Invariant, PTL

\* However a message is cut into updates, final returns the digest of the
\* message: the code implements MessageDigest.
THEOREM ImplementsDigest == Spec => DigestsTheMessage
  <1>1. Init => Abstract!Init
    BY InitIInv
  <1>2. IInv /\ [Next]_vars => [Abstract!Next]_(Abstract!vars)
    BY NextStep DEF Step
  <1> QED BY <1>1, <1>2, Invariant, PTL DEF Spec, Abstract!Spec, DigestsTheMessage
=============================================================================
