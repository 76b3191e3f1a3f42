------------------------- MODULE ComputationsProofs -------------------------
(****************************************************************************)
(* The small computations are exact: for words of any width, outputs of any *)
(* size, programs of any length and any number of blocks of the key stream. *)
(****************************************************************************)
EXTENDS MCComputations, Sequences, Induction

(* Division.                                                                *)

LEMMA DivMod ==
    ASSUME NEW n \in Nat, NEW d \in Nat, d > 0
    PROVE  /\ n \div d \in Nat
           /\ n % d \in 0 .. d - 1
           /\ n = d * (n \div d) + (n % d)
  BY Z3

LEMMA DivUnique ==
    ASSUME NEW d \in Nat, NEW q \in Nat, NEW r \in Nat, r < d, d > 0
    PROVE  /\ (d * q + r) \div d = q
           /\ (d * q + r) % d = r
  BY Z3

LEMMA SmallMod ==
    ASSUME NEW n \in Nat, NEW d \in Nat, n < d
    PROVE  n % d = n
  BY Z3

LEMMA ProductBound ==
    ASSUME NEW d \in Nat, NEW u \in 0 .. d - 1, NEW v \in 0 .. d - 1, d > 0
    PROVE  u * v \in 0 .. d * d - 1
  BY Z3

LEMMA QuotientBound ==
    ASSUME NEW d \in Nat, NEW e \in Nat, NEW q \in Nat, NEW r \in Nat,
           d > 0, d * q + r < d * e
    PROVE  q < e
  BY Z3

LEMMA HalfFacts == HALF \in Nat /\ HALF >= 4 /\ WORD \in Nat /\ WORD = HALF * HALF
                    /\ 4 * HALF <= WORD
  <1>1. QUARTER \in Nat /\ QUARTER >= 2
    BY WordsAssumption
  <1>2. HALF \in Nat /\ HALF >= 4
    BY <1>1, Z3 DEF HALF
  <1>3. WORD \in Nat /\ WORD = HALF * HALF
    BY <1>2 DEF WORD
  <1>4. 4 * HALF <= HALF * HALF
    BY <1>2, Z3
  <1> QED BY <1>2, <1>3, <1>4

LEMMA WordFacts == WORD \in Nat /\ WORD >= 16 /\ WORD > 0
  BY HalfFacts

LEMMA Halves ==
    ASSUME NEW a \in Words
    PROVE  /\ LO(a) \in HalfWords /\ HI(a) \in HalfWords
           /\ a = HALF * HI(a) + LO(a)
  <1>1. a \in Nat /\ a < HALF * HALF
    BY HalfFacts DEF Words
  <1>2. LO(a) \in 0 .. HALF - 1 /\ HI(a) \in Nat /\ a = HALF * HI(a) + LO(a)
    BY <1>1, HalfFacts, DivMod DEF LO, HI
  <1>3. HI(a) < HALF
    BY <1>1, <1>2, HalfFacts, QuotientBound
  <1> QED BY <1>2, <1>3, HalfFacts DEF HalfWords

-----------------------------------------------------------------------------
(* umulh                                                                    *)

\* What umulh computes is the high half of the product of two words.
LEMMA UmulhCorrect ==
    ASSUME NEW a \in Words, NEW b \in Words
    PROVE  umulh(a, b) = (a * b) \div WORD /\ umulh(a, b) \in Words
  <1> DEFINE a0 == LO(a)  a1 == HI(a)  b0 == LO(b)  b1 == HI(b)
             x00 == a0 * b0  x01 == a0 * b1  x10 == a1 * b0  x11 == a1 * b1
             m1 == LO(x10) + LO(x01) + HI(x00)
             m2 == HI(x10) + HI(x01) + LO(x11) + HI(m1)
             m3 == HI(x11) + HI(m2)
             quotient == m3 * HALF + LO(m2)
             remainder == HALF * LO(m1) + LO(x00)
  <1>1. /\ a0 \in HalfWords /\ a1 \in HalfWords /\ a = HALF * a1 + a0
        /\ b0 \in HalfWords /\ b1 \in HalfWords /\ b = HALF * b1 + b0
    BY Halves
  <1>2. x00 \in Words /\ x01 \in Words /\ x10 \in Words /\ x11 \in Words
    BY <1>1, HalfFacts, ProductBound DEF HalfWords, Words
  <1> HIDE DEF a0, a1, b0, b1, x00, x01, x10, x11
  <1>3. /\ LO(x00) \in HalfWords /\ HI(x00) \in HalfWords /\ x00 = HALF * HI(x00) + LO(x00)
        /\ LO(x01) \in HalfWords /\ HI(x01) \in HalfWords /\ x01 = HALF * HI(x01) + LO(x01)
        /\ LO(x10) \in HalfWords /\ HI(x10) \in HalfWords /\ x10 = HALF * HI(x10) + LO(x10)
        /\ LO(x11) \in HalfWords /\ HI(x11) \in HalfWords /\ x11 = HALF * HI(x11) + LO(x11)
    BY <1>2, Halves
  <1>4. m1 \in Words
    BY <1>3, HalfFacts DEF HalfWords, Words
  <1>5. LO(m1) \in HalfWords /\ HI(m1) \in HalfWords /\ m1 = HALF * HI(m1) + LO(m1)
    BY <1>4, Halves
  <1> HIDE DEF m1
  <1>6. m2 \in Words
    BY <1>3, <1>5, HalfFacts DEF HalfWords, Words
  <1>7. LO(m2) \in HalfWords /\ HI(m2) \in HalfWords /\ m2 = HALF * HI(m2) + LO(m2)
    BY <1>6, Halves
  <1> HIDE DEF m2
  <1>8. m3 \in Words
    BY <1>3, <1>7, HalfFacts DEF HalfWords, Words
  <1>9. a * b = WORD * quotient + remainder
    <2>1. /\ LO(x10) + LO(x01) + HI(x00) = HALF * HI(m1) + LO(m1)
          /\ HI(x10) + HI(x01) + LO(x11) + HI(m1) = HALF * HI(m2) + LO(m2)
      BY <1>5, <1>7 DEF m1, m2
    <2>2. /\ a0 * b0 = HALF * HI(x00) + LO(x00) /\ a0 * b1 = HALF * HI(x01) + LO(x01)
          /\ a1 * b0 = HALF * HI(x10) + LO(x10) /\ a1 * b1 = HALF * HI(x11) + LO(x11)
      BY <1>3 DEF x00, x01, x10, x11
    <2> DEFINE h == HALF
               l00 == LO(x00)  h00 == HI(x00)  l01 == LO(x01)  h01 == HI(x01)
               l10 == LO(x10)  h10 == HI(x10)  l11 == LO(x11)  h11 == HI(x11)
               l1 == LO(m1)  h1 == HI(m1)  l2 == LO(m2)  h2 == HI(m2)
    <2>3. /\ h \in Nat /\ a0 \in Nat /\ a1 \in Nat /\ b0 \in Nat /\ b1 \in Nat
          /\ l00 \in Nat /\ h00 \in Nat /\ l01 \in Nat /\ h01 \in Nat
          /\ l10 \in Nat /\ h10 \in Nat /\ l11 \in Nat /\ h11 \in Nat
          /\ l1 \in Nat /\ h1 \in Nat /\ l2 \in Nat /\ h2 \in Nat
      BY <1>1, <1>3, <1>5, <1>7, HalfFacts DEF HalfWords
    <2>4. /\ a0 * b0 = h * h00 + l00 /\ a0 * b1 = h * h01 + l01
          /\ a1 * b0 = h * h10 + l10 /\ a1 * b1 = h * h11 + l11
          /\ l10 + l01 + h00 = h * h1 + l1
          /\ h10 + h01 + l11 + h1 = h * h2 + l2
      BY <2>1, <2>2
    <2>5. a = h * a1 + a0 /\ b = h * b1 + b0 /\ WORD = h * h
      BY <1>1, HalfFacts
    <2>6. quotient = (h11 + h2) * h + l2 /\ remainder = h * l1 + l00
      OBVIOUS
    <2> HIDE DEF h, l00, h00, l01, h01, l10, h10, l11, h11, l1, h1, l2, h2, quotient, remainder
    <2>7. (h * a1 + a0) * (h * b1 + b0)
            = (h * h) * (a1 * b1) + h * (a1 * b0 + a0 * b1) + a0 * b0
      BY <2>3, Z3
    <2>8. (h * h) * (a1 * b1) = (h * h) * (h * h11 + l11)
      BY <2>4
    <2>9. h * (a1 * b0 + a0 * b1) + a0 * b0
            = (h * h) * (h10 + h01) + h * (l10 + l01 + h00) + l00
      BY <2>3, <2>4, Z3
    <2>10. h * (l10 + l01 + h00) = (h * h) * h1 + h * l1
      BY <2>3, <2>4, Z3
    <2>11. (h * h) * (h10 + h01 + l11 + h1) = (h * h) * (h * h2 + l2)
      BY <2>4
    <2>12. (h * a1 + a0) * (h * b1 + b0)
            = (h * h) * ((h11 + h2) * h + l2) + (h * l1 + l00)
      BY <2>3, <2>7, <2>8, <2>9, <2>10, <2>11, Z3
    <2> QED BY <2>5, <2>6, <2>12
  <1>10. remainder \in Nat /\ remainder < WORD
    <2> DEFINE l == LO(m1)  k == LO(x00)
    <2>1. l \in 0 .. HALF - 1 /\ k \in 0 .. HALF - 1
      BY <1>3, <1>5 DEF HalfWords
    <2> HIDE DEF l, k
    <2>2. HALF * l + k \in Nat /\ HALF * l + k < HALF * HALF
      BY <2>1, HalfFacts, Z3
    <2> QED BY <2>2, HalfFacts DEF l, k
  <1>11. quotient \in Nat /\ m3 * HALF \in Nat
    BY <1>7, <1>8, HalfFacts DEF HalfWords, Words
  <1> HIDE DEF quotient, remainder, m3
  <1>12. (a * b) \div WORD = quotient
    BY <1>9, <1>10, <1>11, HalfFacts, DivUnique
  <1>13. quotient < WORD
    <2>1. a * b \in 0 .. WORD * WORD - 1
      BY HalfFacts, ProductBound DEF Words
    <2> QED BY <2>1, <1>9, <1>10, <1>11, HalfFacts, QuotientBound
  <1>14. umulh(a, b) = (((m3 * HALF) % WORD) + LO(m2)) % WORD
    <2>1. x00 % WORD = x00 /\ x01 % WORD = x01 /\ x10 % WORD = x10 /\ x11 % WORD = x11
      BY <1>2, HalfFacts, SmallMod DEF Words
    <2>2. m1 % WORD = m1 /\ m2 % WORD = m2 /\ m3 % WORD = m3
      BY <1>4, <1>6, <1>8, HalfFacts, SmallMod DEF Words
    <2>3. Middle(x01, x10, x00) = m1
      BY <2>2 DEF Middle, m1
    <2> QED BY <2>1, <2>2, <2>3 DEF umulh, m2, m3, a0, a1, b0, b1, x00, x01, x10, x11
  <1>15. umulh(a, b) = quotient
    <2>1. m3 * HALF <= quotient /\ quotient = m3 * HALF + LO(m2)
      BY <1>7, <1>11, HalfFacts DEF quotient, HalfWords
    <2>2. (m3 * HALF) % WORD = m3 * HALF /\ quotient % WORD = quotient
      BY <2>1, <1>11, <1>13, HalfFacts, SmallMod
    <2> QED BY <1>14, <2>1, <2>2
  <1> QED BY <1>12, <1>13, <1>15, <1>11, HalfFacts DEF Words

-----------------------------------------------------------------------------
(* smulh                                                                    *)

LEMMA SignedDivUnique ==
    ASSUME NEW d \in Nat, NEW q \in Int, NEW r \in Nat, r < d, d > 0
    PROVE  (d * q + r) \div d = q
  BY Z3

LEMMA WrapUnique ==
    ASSUME NEW d \in Nat, NEW q \in Int, NEW r \in Nat, r < d, d > 0
    PROVE  (d * q + r) % d = r
  BY Z3

LEMMA WrapAround ==
    ASSUME NEW d \in Nat, NEW k \in Int, d > 0
    PROVE  (k + d) % d = k % d
  <1> DEFINE m == k \div d  r == k % d
  <1>1. m \in Int /\ r \in Nat /\ r < d /\ k = d * m + r
    BY Z3
  <1> HIDE DEF m, r
  <1>2. m + 1 \in Int /\ k + d = d * (m + 1) + r
    BY <1>1, Z3
  <1>3. (d * (m + 1) + r) % d = r
    BY <1>1, <1>2, WrapUnique
  <1>4. (d * m + r) % d = r
    BY <1>1, WrapUnique
  <1> QED BY <1>1, <1>2, <1>3, <1>4

\* The word that stands for a signed number in range is read as that number.
LEMMA SignedOfWord ==
    ASSUME NEW v \in Int, -WORD <= 2 * v, 2 * v < WORD
    PROVE  Signed(v % WORD) = v
  <1>1. CASE v >= 0
    <2>1. v % WORD = v
      BY <1>1, HalfFacts, SmallMod
    <2> QED BY <2>1, HalfFacts DEF Signed, Negative
  <1>2. CASE v < 0
    <2>1. v + WORD \in Nat /\ v + WORD < WORD /\ v = WORD * (-1) + (v + WORD)
      BY <1>2, HalfFacts
    <2>2. (WORD * (-1) + (v + WORD)) % WORD = v + WORD
      BY <2>1, HalfFacts, WrapUnique
    <2>3. v % WORD = v + WORD
      BY <2>1, <2>2
    <2> QED BY <2>3, <1>2, HalfFacts DEF Signed, Negative
  <1> QED BY <1>1, <1>2

LEMMA SignedFacts ==
    ASSUME NEW a \in Words
    PROVE  /\ Signed(a) \in Int
           /\ -WORD <= 2 * Signed(a) /\ 2 * Signed(a) < WORD
           /\ Signed(a) = a - (IF Negative(a) THEN WORD ELSE 0)
  BY HalfFacts DEF Signed, Negative, Words

\* A product of signed numbers is small enough for its high half to have a sign.
LEMMA SignedProduct ==
    ASSUME NEW w \in Nat, w >= 16, NEW u \in Int, NEW v \in Int,
           -w <= 2 * u, 2 * u < w, -w <= 2 * v, 2 * v < w,
           NEW q \in Int, NEW r \in Nat, r < w, u * v = w * q + r
    PROVE  -w <= 2 * q /\ 2 * q < w
  <1>1. 4 * (u * v) <= w * w /\ -(w * w) <= 4 * (u * v)
    BY Z3
  <1>2. 4 * (w * q + r) <= w * w /\ -(w * w) <= 4 * (w * q + r)
    BY <1>1
  <1>3. w * (4 * q) <= w * w /\ -(w * w) <= w * (4 * q + 4)
    BY <1>2, Z3
  <1>4. 4 * q <= w /\ -w <= 4 * q + 4
    BY <1>3, Z3
  <1> QED BY <1>4

LEMMA SmulhCorrect ==
    ASSUME NEW a \in Words, NEW b \in Words
    PROVE  Signed(smulh(a, b)) = (Signed(a) * Signed(b)) \div WORD
  <1> DEFINE q == umulh(a, b)
             r == (a * b) % WORD
             wrap == IF Negative(a) /\ Negative(b) THEN WORD ELSE 0
             v == q - Correction(a, b) + wrap
  <1>1. a \in Nat /\ b \in Nat /\ a * b \in Nat
    BY HalfFacts DEF Words
  <1>2. q \in Nat /\ r \in Nat /\ r < WORD /\ a * b = WORD * q + r
    <2> DEFINE p == a * b
    <2>1. q = p \div WORD /\ r = p % WORD /\ p \in Nat
      BY <1>1, UmulhCorrect
    <2> HIDE DEF p, q, r
    <2>2. /\ p \div WORD \in Nat /\ p % WORD \in 0 .. WORD - 1
          /\ p = WORD * (p \div WORD) + (p % WORD)
      BY <2>1, WordFacts, DivMod
    <2>3. q \in Nat /\ r \in Nat /\ r < WORD /\ p = WORD * q + r
      BY <2>1, <2>2, HalfFacts
    <2> QED BY <2>3 DEF p
  <1> HIDE DEF q, r
  <1>3. v \in Int /\ Signed(a) * Signed(b) = WORD * v + r
    <2>1. CASE Negative(a) /\ Negative(b)
      <3>1. v = q - (b + a) + WORD /\ Signed(a) = a - WORD /\ Signed(b) = b - WORD
        BY <2>1, SignedFacts DEF Correction
      <3>2. (a - WORD) * (b - WORD) = a * b - WORD * (b + a) + WORD * WORD
        BY <1>1, HalfFacts, Z3
      <3>3. WORD * (q - (b + a) + WORD) = WORD * q - WORD * (b + a) + WORD * WORD
        BY <1>1, <1>2, HalfFacts, Z3
      <3> QED BY <3>1, <3>2, <3>3, <1>1, <1>2, HalfFacts
    <2>2. CASE Negative(a) /\ ~Negative(b)
      <3>1. v = q - b /\ Signed(a) = a - WORD /\ Signed(b) = b
        BY <2>2, <1>1, <1>2, SignedFacts DEF Correction
      <3>2. (a - WORD) * b = a * b - WORD * b
        BY <1>1, HalfFacts, Z3
      <3>3. WORD * (q - b) = WORD * q - WORD * b
        BY <1>1, <1>2, HalfFacts, Z3
      <3> QED BY <3>1, <3>2, <3>3, <1>1, <1>2, HalfFacts
    <2>3. CASE ~Negative(a) /\ Negative(b)
      <3>1. v = q - a /\ Signed(a) = a /\ Signed(b) = b - WORD
        BY <2>3, <1>1, <1>2, SignedFacts DEF Correction
      <3>2. a * (b - WORD) = a * b - WORD * a
        BY <1>1, HalfFacts, Z3
      <3>3. WORD * (q - a) = WORD * q - WORD * a
        BY <1>1, <1>2, HalfFacts, Z3
      <3> QED BY <3>1, <3>2, <3>3, <1>1, <1>2, HalfFacts
    <2>4. CASE ~Negative(a) /\ ~Negative(b)
      <3>1. v = q /\ Signed(a) = a /\ Signed(b) = b
        BY <2>4, <1>1, <1>2, SignedFacts DEF Correction
      <3> QED BY <3>1, <1>1, <1>2, HalfFacts
    <2> QED BY <2>1, <2>2, <2>3, <2>4
  <1>4. smulh(a, b) = v % WORD
    <2>1. (q - Correction(a, b)) \in Int
      BY <1>1, <1>2 DEF Correction
    <2> DEFINE c == q - Correction(a, b)
    <2> HIDE DEF c
    <2>2. \A k \in Int : k % WORD = (k + WORD) % WORD
      BY WordFacts, WrapAround
    <2>3. c \in Int /\ (v = c \/ v = c + WORD)
      BY <2>1, HalfFacts DEF c
    <2>4. smulh(a, b) = c % WORD
      BY DEF smulh, c, q
    <2> QED BY <2>2, <2>3, <2>4
  <1> HIDE DEF v
  <1>5. -WORD <= 2 * v /\ 2 * v < WORD
    <2>1. WORD >= 16
      BY HalfFacts
    <2> QED BY <2>1, <1>2, <1>3, SignedFacts, SignedProduct, HalfFacts
  <1>6. Signed(smulh(a, b)) = v
    BY <1>3, <1>4, <1>5, SignedOfWord
  <1>7. (Signed(a) * Signed(b)) \div WORD = v
    BY <1>2, <1>3, HalfFacts, SignedDivUnique
  <1> QED BY <1>6, <1>7

-----------------------------------------------------------------------------
(* Constants                                                                *)

LEMMA QuarterFacts ==
    /\ QUARTER \in Nat /\ QUARTER >= 2
    /\ HALF = QUARTER * QUARTER /\ QUARTER <= HALF
    /\ \E k \in Nat : HALF = 2 * k
  <1>1. QUARTER \in Nat /\ QUARTER >= 2 /\ QUARTER % 2 = 0
    BY WordsAssumption
  <1>2. PICK j \in Nat : QUARTER = 2 * j
    <2>1. QUARTER \div 2 \in Nat /\ QUARTER = 2 * (QUARTER \div 2)
      BY <1>1, Z3
    <2> QED BY <2>1
  <1>3. j * QUARTER \in Nat /\ QUARTER * QUARTER = 2 * (j * QUARTER)
    BY <1>1, <1>2, Z3
  <1>4. QUARTER <= QUARTER * QUARTER
    BY <1>1, Z3
  <1> QED BY <1>1, <1>3, <1>4 DEF HALF

LEMMA SignBit ==
    ASSUME NEW c \in HalfWords
    PROVE  /\ c \in Nat /\ c < HALF
           /\ c > INT32_MAX <=> 2 * c >= HALF
  BY QuarterFacts DEF HalfWords, INT32_MAX

LEMMA SignExtendCorrect ==
    ASSUME NEW c \in HalfWords, NEW complement \in BOOLEAN
    PROVE  sign_extend_2s_compl(c, complement) = x86_imm32(c)
  <1>1. CASE c > INT32_MAX
    <2>1. sign_extend_2s_compl(c, FALSE) = x86_imm32(c)
      BY <1>1, SignBit, HalfFacts DEF sign_extend_2s_compl, x86_imm32
    <2>2. (c - HALF) % WORD = c - HALF + WORD
      <3>1. (c - HALF) + WORD \in Nat /\ (c - HALF) + WORD < WORD
        BY <1>1, SignBit, HalfFacts
      <3>2. ((c - HALF) + WORD) % WORD = (c - HALF) % WORD
        BY SignBit, HalfFacts, WordFacts, WrapAround
      <3>3. ((c - HALF) + WORD) % WORD = (c - HALF) + WORD
        BY <3>1, WordFacts, SmallMod
      <3> QED BY <3>2, <3>3
    <2>3. sign_extend_2s_compl(c, TRUE) = x86_imm32(c)
      BY <1>1, <2>2, SignBit, HalfFacts DEF sign_extend_2s_compl, x86_imm32
    <2> QED BY <2>1, <2>3
  <1>2. CASE ~(c > INT32_MAX)
    <2>1. c % WORD = c
      BY SignBit, HalfFacts, SmallMod
    <2> QED BY <1>2, <2>1, SignBit, HalfFacts DEF sign_extend_2s_compl, x86_imm32
  <1> QED BY <1>1, <1>2

\* The two moves put both quarters in place and the sign above them.
LEMMA Emit_IMM32_Correct ==
    ASSUME NEW c \in HalfWords
    PROVE  EMIT_IMM32(c) = x86_imm32(c)
  <1> DEFINE lo == c % QUARTER
             hi == c \div QUARTER
  <1>1. c \in Nat /\ c < QUARTER * QUARTER /\ c < HALF
    BY SignBit, QuarterFacts
  <1>2. lo \in 0 .. QUARTER - 1 /\ hi \in Nat /\ c = QUARTER * hi + lo
    BY <1>1, QuarterFacts, DivMod
  <1> HIDE DEF lo, hi
  <1>3. hi < QUARTER /\ hi % QUARTER = hi
    <2>1. hi < QUARTER
      BY <1>1, <1>2, QuarterFacts, QuotientBound
    <2> QED BY <2>1, <1>2, QuarterFacts, SmallMod
  <1>4. EMIT_IMM32(c) = movk(mov(c), hi)
    BY <1>3 DEF EMIT_IMM32, hi
  <1>5. CASE c <= INT32_MAX
    <2>1. mov(c) = lo
      BY <1>5 DEF mov, lo
    <2>2. lo \div QUARTER = 0 /\ 0 % QUARTER = 0
      BY <1>2, QuarterFacts, Z3
    <2>3. movk(lo, hi) = lo - (0 * QUARTER) + (hi * QUARTER)
      BY <2>2 DEF movk
    <2>4. movk(lo, hi) = c
      BY <2>3, <1>2, QuarterFacts, Z3
    <2>5. x86_imm32(c) = c
      BY <1>5, SignBit, <1>1, HalfFacts DEF x86_imm32, INT32_MAX
    <2> QED BY <1>4, <2>1, <2>4, <2>5
  <1>6. CASE ~(c <= INT32_MAX)
    <2>1. mov(c) = WORD - 1 - ((QUARTER - 1) - lo)
      BY <1>6 DEF mov, lo
    <2>2. PICK m \in Nat : WORD = QUARTER * (QUARTER * m) /\ m >= 1
      BY HalfFacts, QuarterFacts
    <2>3. mov(c) = QUARTER * (QUARTER * m - 1) + lo /\ QUARTER * m - 1 \in Nat
      BY <2>1, <2>2, <1>2, QuarterFacts, Z3
    <2>4. mov(c) \div QUARTER = QUARTER * m - 1
      BY <2>3, <1>2, QuarterFacts, DivUnique
    <2>5. QUARTER * m - 1 = QUARTER * (m - 1) + (QUARTER - 1)
      BY <2>2, QuarterFacts, Z3
    <2>6. (QUARTER * m - 1) % QUARTER = QUARTER - 1
      BY <2>5, <2>2, QuarterFacts, DivUnique
    <2>7. movk(mov(c), hi) = mov(c) - ((QUARTER - 1) * QUARTER) + (hi * QUARTER)
      BY <2>4, <2>6 DEF movk
    <2>8. movk(mov(c), hi) = WORD - (HALF - c)
      BY <2>1, <2>7, <1>2, QuarterFacts, HalfFacts, Z3
    <2>9. x86_imm32(c) = WORD - (HALF - c)
      BY <1>6, SignBit, <1>1, HalfFacts DEF x86_imm32, INT32_MAX
    <2> QED BY <1>4, <2>8, <2>9
  <1> QED BY <1>5, <1>6

-----------------------------------------------------------------------------
(* Rotations                                                                *)

LEMMA TwoToFacts ==
    /\ TwoTo[0] = 1
    /\ \A n \in Nat : TwoTo[n + 1] = 2 * TwoTo[n] /\ TwoTo[n] \in Nat /\ TwoTo[n] > 0
  <1> DEFINE Unfold(f) == [n \in Nat |-> IF n = 0 THEN 1 ELSE 2 * f[n - 1]]
  <1>1. PICK h \in [Nat -> Nat] : h[0] = 1 /\ \A n \in Nat : h[n + 1] = 2 * h[n]
    <2> DEFINE double == [n \in Nat |-> 2 * n]
    <2>1. 1 \in Nat /\ double \in [Nat -> Nat] /\ \A n \in Nat : double[n] = 2 * n
      OBVIOUS
    <2> DEFINE N == Nat  one == 1
    <2>2. one \in N /\ double \in [N -> N]
      BY <2>1
    <2> HIDE DEF double, N, one
    <2>3. \E h \in [Nat -> N] : h[0] = one /\ \A n \in Nat : h[n + 1] = double[h[n]]
      BY <2>2, Iterates
    <2> QED BY <2>1, <2>3 DEF N, one
  <1>2. h = Unfold(h)
    <2>1. \A n \in Nat : h[n] = IF n = 0 THEN 1 ELSE 2 * h[n - 1]
      <3> SUFFICES ASSUME NEW n \in Nat, n # 0 PROVE h[n] = 2 * h[n - 1]
        BY <1>1
      <3>1. n - 1 \in Nat /\ (n - 1) + 1 = n
        OBVIOUS
      <3> QED BY <1>1, <3>1
    <2> QED BY <2>1
  <1>3. TwoTo = Unfold(TwoTo)
    <2>1. TwoTo = CHOOSE f : f = Unfold(f)
      BY DEF TwoTo
    <2> HIDE DEF Unfold
    <2> QED BY <1>2, <2>1
  <1>4. \A n \in Nat : TwoTo[n] = IF n = 0 THEN 1 ELSE 2 * TwoTo[n - 1]
    <2> DEFINE two == TwoTo
    <2>1. two = Unfold(two)
      BY <1>3
    <2> HIDE DEF two
    <2>2. \A n \in Nat : two[n] = IF n = 0 THEN 1 ELSE 2 * two[n - 1]
      BY <2>1
    <2> QED BY <2>2 DEF two
  <1>5. TwoTo[0] = 1 /\ \A n \in Nat : TwoTo[n + 1] = 2 * TwoTo[n]
    <2>1. \A n \in Nat : n + 1 \in Nat /\ n + 1 # 0 /\ (n + 1) - 1 = n
      OBVIOUS
    <2> QED BY <1>4, <2>1
  <1> DEFINE T == {n \in Nat : TwoTo[n] \in Nat /\ TwoTo[n] > 0}
  <1>6. 0 \in T /\ \A n \in T : n + 1 \in T
    BY <1>5
  <1>7. T = Nat
    <2> HIDE DEF T
    <2>1. T \subseteq Nat
      BY DEF T
    <2> QED BY <1>6, <2>1, NumbersInduction
  <1>8. \A n \in Nat : TwoTo[n] \in Nat /\ TwoTo[n] > 0
    BY <1>7
  <1> HIDE DEF T
  <1> QED BY <1>5, <1>8

LEMMA TwoToSum ==
    ASSUME NEW m \in Nat, NEW n \in Nat
    PROVE  TwoTo[m + n] = TwoTo[m] * TwoTo[n]
  <1> DEFINE T == {k \in Nat : TwoTo[m + k] = TwoTo[m] * TwoTo[k]}
  <1>1. 0 \in T
    BY TwoToFacts
  <1>2. ASSUME NEW k \in T PROVE k + 1 \in T
    <2>1. k \in Nat /\ m + k \in Nat /\ m + (k + 1) = (m + k) + 1
      OBVIOUS
    <2>2. TwoTo[m + (k + 1)] = 2 * TwoTo[m + k] /\ TwoTo[k + 1] = 2 * TwoTo[k]
      BY <2>1, TwoToFacts
    <2>3. TwoTo[m] \in Nat /\ TwoTo[k] \in Nat /\ TwoTo[m + k] = TwoTo[m] * TwoTo[k]
      BY <2>1, TwoToFacts
    <2>4. \A a, b \in Nat : 2 * (a * b) = a * (2 * b)
      BY Z3
    <2> QED BY <2>1, <2>2, <2>3, <2>4
  <1>3. T = Nat
    <2> HIDE DEF T
    <2>1. T \subseteq Nat
      BY DEF T
    <2> QED BY <1>1, <1>2, <2>1, NumbersInduction
  <1> QED BY <1>3

\* Dividing twice.
LEMMA DivDiv ==
    ASSUME NEW a \in Nat, NEW b \in Nat, NEW c \in Nat, b > 0, c > 0
    PROVE  (a \div b) \div c = a \div (b * c)
  <1> DEFINE q == a \div b  r == a % b  p == q \div c  s == q % c
  <1>1. q \in Nat /\ r \in 0 .. b - 1 /\ a = b * q + r
    BY DivMod
  <1>2. p \in Nat /\ s \in 0 .. c - 1 /\ q = c * p + s
    <2> HIDE DEF q
    <2> QED BY <1>1, DivMod
  <1> HIDE DEF q, r, p, s
  <1>3. a = (b * c) * p + (b * s + r)
    <2>1. b * (c * p + s) = (b * c) * p + b * s
      BY <1>2, Z3
    <2> QED BY <1>1, <1>2, <2>1, Z3
  <1>4. b * s + r \in Nat /\ b * s + r < b * c
    <2>1. s + 1 <= c /\ s \in Nat /\ r \in Nat /\ r < b
      BY <1>1, <1>2
    <2>2. b * (s + 1) <= b * c
      BY <2>1, Z3
    <2>3. b * s + r < b * (s + 1) /\ b * s \in Nat /\ b * s + r \in Nat /\ b * c \in Nat
          /\ b * (s + 1) \in Nat
      BY <2>1, Z3
    <2> QED BY <2>2, <2>3
  <1>5. b * c \in Nat /\ b * c > 0
    BY Z3
  <1> DEFINE d == b * c  t == b * s + r
  <1>6. d \in Nat /\ d > 0 /\ t \in Nat /\ t < d /\ a = d * p + t
    BY <1>3, <1>4, <1>5
  <1> HIDE DEF d, t
  <1>7. a \div d = p
    BY <1>6, <1>2, DivUnique
  <1> QED BY <1>7 DEF p, q, d

\* A multiple of the divisor is divided apart.
LEMMA DivSum ==
    ASSUME NEW a \in Nat, NEW b \in Nat, NEW m \in Nat, b > 0
    PROVE  (m * b + a) \div b = m + (a \div b)
  <1> DEFINE q == a \div b  r == a % b
  <1>1. q \in Nat /\ r \in 0 .. b - 1 /\ a = b * q + r
    BY DivMod
  <1> HIDE DEF q, r
  <1>2. m * b + a = b * (m + q) + r
    BY <1>1, Z3
  <1>3. (b * (m + q) + r) \div b = m + q
    <2>1. m + q \in Nat /\ r \in Nat /\ r < b
      BY <1>1
    <2> QED BY <2>1, DivUnique
  <1> QED BY <1>2, <1>3 DEF q

LEMMA Parity ==
    ASSUME NEW a \in Nat, NEW m \in Nat
    PROVE  (2 * m + a) % 2 = a % 2
  OBVIOUS

\* Bit k of h is bit k of l * Q + h if Q has more zeros below.
LEMMA LowBit ==
    ASSUME NEW l \in Nat, NEW h \in Nat, NEW k \in Nat, NEW n \in Nat, k < n
    PROVE  Bit(l * TwoTo[n] + h, k) = Bit(h, k)
  <1> DEFINE j == n - k - 1  K == TwoTo[k]  J == TwoTo[j]
  <1>1. j \in Nat /\ n = (k + j) + 1
    OBVIOUS
  <1>2. TwoTo[n] = 2 * (K * J) /\ K \in Nat /\ K > 0 /\ J \in Nat
    <2>1. K \in Nat /\ K > 0 /\ J \in Nat
      BY <1>1, TwoToFacts
    <2> HIDE DEF j
    <2>2. TwoTo[k + j] = K * J
      BY <1>1, TwoToSum
    <2>3. TwoTo[(k + j) + 1] = 2 * TwoTo[k + j]
      BY <1>1, TwoToFacts
    <2> QED BY <1>1, <2>1, <2>2, <2>3
  <1> HIDE DEF j, K, J
  <1>3. l * (2 * (K * J)) = (2 * (l * J)) * K /\ l * J \in Nat
    BY <1>2, Z3
  <1>4. ((2 * (l * J)) * K + h) \div K = 2 * (l * J) + (h \div K)
    <2> DEFINE m == l * J
    <2>1. m \in Nat /\ 2 * m \in Nat
      BY <1>3
    <2> HIDE DEF m
    <2>2. ((2 * m) * K + h) \div K = 2 * m + (h \div K)
      BY <2>1, <1>2, DivSum
    <2> QED BY <2>2 DEF m
  <1>5. h \div K \in Nat
    BY <1>2, DivMod
  <1>6. (2 * (l * J) + (h \div K)) % 2 = (h \div K) % 2
    BY <1>3, <1>5, Parity
  <1>7. (l * TwoTo[n] + h) \div K = 2 * (l * J) + (h \div K)
    BY <1>2, <1>3, <1>4
  <1> QED BY <1>6, <1>7 DEF Bit, K

\* Bit n + k of l * Q + h is bit k of l, if h is less than Q.
LEMMA HighBit ==
    ASSUME NEW l \in Nat, NEW h \in Nat, NEW k \in Nat, NEW n \in Nat, h < TwoTo[n]
    PROVE  Bit(l * TwoTo[n] + h, n + k) = Bit(l, k)
  <1> DEFINE K == TwoTo[k]  N == TwoTo[n]
  <1>1. TwoTo[n + k] = N * K /\ K \in Nat /\ K > 0 /\ N \in Nat /\ N > 0 /\ h < N
    BY TwoToFacts, TwoToSum
  <1> HIDE DEF K, N
  <1>2. (N * l + h) \div N = l
    BY <1>1, DivUnique
  <1>3. l * N + h = N * l + h /\ N * l + h \in Nat
    BY <1>1, Z3
  <1>4. (l * N + h) \div (N * K) = l \div K
    BY <1>1, <1>2, <1>3, DivDiv
  <1> QED BY <1>1, <1>4 DEF Bit, K, N

LEMMA RotateCorrect ==
    ASSUME NEW a \in Words, NEW n \in 1 .. BITS - 1
    PROVE  /\ rotr64(a, n) \in Words
           /\ \A k \in 0 .. BITS - 1 : Bit(rotr64(a, n), k) = Bit(a, (k + n) % BITS)
  <1> DEFINE P == TwoTo[n]  m == BITS - n  Q == TwoTo[m]
             h == a \div P  l == a % P
  <1>1. /\ BITS \in Nat /\ n \in Nat /\ m \in Nat /\ n + m = BITS /\ m + n = BITS
        /\ m < BITS
    BY WordsAssumption
  <1>2. P \in Nat /\ P > 0 /\ Q \in Nat /\ Q > 0 /\ WORD = P * Q
    <2>1. P \in Nat /\ P > 0 /\ Q \in Nat /\ Q > 0
      BY <1>1, TwoToFacts
    <2> HIDE DEF m
    <2>2. TwoTo[n + m] = P * Q
      BY <1>1, TwoToSum
    <2> QED BY <1>1, <2>1, <2>2, WordsAssumption
  <1>3. a \in Nat /\ a < P * Q
    BY <1>2, HalfFacts DEF Words
  <1>4. h \in Nat /\ l \in 0 .. P - 1 /\ a = P * h + l
    <2> HIDE DEF P
    <2> QED BY <1>2, <1>3, DivMod
  <1> HIDE DEF P, Q, h, l
  <1>5. h < Q
    BY <1>2, <1>3, <1>4, QuotientBound
  <1>6. l * Q + h \in Nat /\ l * Q + h < P * Q /\ l * Q \in Nat /\ l * Q < P * Q
    <2>1. l + 1 <= P /\ l \in Nat /\ h \in Nat
      BY <1>2, <1>4
    <2>2. (l + 1) * Q <= P * Q
      BY <1>2, <2>1, Z3
    <2>3. (l + 1) * Q = l * Q + Q /\ l * Q \in Nat /\ P * Q \in Nat
      BY <1>2, <2>1, Z3
    <2> QED BY <1>2, <1>5, <2>1, <2>2, <2>3
  <1>7. rotr64(a, n) = l * Q + h
    <2>1. a * Q = WORD * h + l * Q
      <3>1. (P * h + l) * Q = (P * Q) * h + l * Q
        BY <1>2, <1>4, Z3
      <3> QED BY <1>2, <1>4, <3>1
    <2> DEFINE r == l * Q
    <2>2. r \in Nat /\ r < WORD /\ a * Q = WORD * h + r
      BY <1>2, <1>6, <2>1
    <2> HIDE DEF r
    <2>3. (a * Q) % WORD = r
      BY <2>2, <1>4, WordFacts, DivUnique
    <2>4. rotr64(a, n) = h + r
      BY <2>3 DEF rotr64, h, Q, P
    <2> QED BY <2>4, <1>4, <1>6 DEF r
  <1>8. rotr64(a, n) \in Words
    BY <1>2, <1>6, <1>7, HalfFacts DEF Words
  <1>9. ASSUME NEW k \in 0 .. BITS - 1
        PROVE  Bit(rotr64(a, n), k) = Bit(a, (k + n) % BITS)
    <2>1. a = h * P + l /\ l < P /\ l \in Nat
      BY <1>2, <1>4, Z3
    <2>2. CASE k < m
      <3>1. (k + n) % BITS = n + k
        <4>1. k + n \in Nat /\ k + n < BITS
          BY <1>1, <2>2
        <4> QED BY <4>1, <1>1, SmallMod
      <3>2. Bit(l * TwoTo[m] + h, k) = Bit(h, k)
        BY <1>1, <1>4, <2>1, <2>2, LowBit
      <3>3. Bit(h * TwoTo[n] + l, n + k) = Bit(h, k)
        BY <1>1, <1>4, <2>1, HighBit DEF P
      <3> QED BY <1>7, <2>1, <3>1, <3>2, <3>3 DEF P, Q
    <2>3. CASE ~(k < m)
      <3> DEFINE j == k - m
      <3>1. j \in Nat /\ k = m + j /\ j < n
        BY <1>1, <2>3
      <3>2. (k + n) % BITS = j
        <4>1. k + n = BITS * 1 + j /\ j < BITS
          BY <1>1, <3>1
        <4> HIDE DEF j
        <4>2. (BITS * 1 + j) % BITS = j
          BY <1>1, <3>1, <4>1, DivUnique
        <4> QED BY <4>1, <4>2
      <3> HIDE DEF j
      <3>3. Bit(l * TwoTo[m] + h, m + j) = Bit(l, j)
        <4> HIDE DEF m
        <4> QED BY <1>1, <1>4, <1>5, <2>1, <3>1, HighBit DEF Q
      <3>4. Bit(h * TwoTo[n] + l, j) = Bit(l, j)
        BY <1>1, <1>4, <2>1, <3>1, LowBit
      <3> QED BY <1>7, <2>1, <3>1, <3>2, <3>3, <3>4 DEF P, Q
    <2> QED BY <2>2, <2>3
  <1> QED BY <1>8, <1>9

-----------------------------------------------------------------------------
(* One step of all computations: a step of its subject, and of no other.    *)

LEMMA Steps ==
    ASSUME [ComputationsNext]_<<subject, vars, bytes, statistics, stream>>
    PROVE  /\ subject' = subject
           /\ [Next]_vars /\ [B!Next]_bytes /\ [S!Next]_statistics /\ [R!Next]_stream
  BY DEF ComputationsNext, WordsStep, BytesStep, StatisticsStep, StreamStep

\* The operands stay what they were, and the result is that of the operation.
Evaluation ==
    /\ opcode \in {"UMULH_R", "SMULH_R", "ROR_C"} => x \in Words
    /\ opcode \in {"UMULH_R", "SMULH_R"} => y \in Words
    /\ opcode = "ROR_C" => y \in 1 .. BITS - 1
    /\ opcode \in {"ADD_C", "A64_C"} => x \in HalfWords
    /\ Is("UMULH_R") => result = umulh(x, y)
    /\ Is("SMULH_R") => result = smulh(x, y)
    /\ Is("ROR_C") => result = rotr64(x, y)
    /\ Is("ADD_C") => result = sign_extend_2s_compl(x, y = 0)
    /\ Is("A64_C") => result = EMIT_IMM32(x)

LEMMA EvaluationHolds == ComputationsSpec => []Evaluation
  <1>1. ComputationsInit => Evaluation
    <2>1. Init => Evaluation
      BY Zenon DEF Init, Evaluation, Is
    <2>2. NoWords => Evaluation
      BY DEF NoWords, Evaluation, Is
    <2> QED BY <2>1, <2>2 DEF ComputationsInit
  <1>2. Evaluation /\ [Next]_vars => Evaluation'
    <2> SUFFICES ASSUME Evaluation, [Next]_vars PROVE Evaluation'
      OBVIOUS
    <2>1. CASE UNCHANGED vars
      BY <2>1 DEF vars, Evaluation, Is
    <2> USE DEF Evaluation, Is, Evaluate
    <2>2. CASE Evaluate("UMULH_R", umulh(x, y))
      BY <2>2
    <2>3. CASE Evaluate("SMULH_R", smulh(x, y))
      BY <2>3
    <2>4. CASE Evaluate("ROR_C", rotr64(x, y))
      BY <2>4
    <2>5. CASE Evaluate("ADD_C", sign_extend_2s_compl(x, y = 0))
      BY <2>5
    <2>6. CASE Evaluate("A64_C", EMIT_IMM32(x))
      BY <2>6
    <2> QED BY <2>1, <2>2, <2>3, <2>4, <2>5, <2>6 DEF Next, Evaluated
  <1> QED BY <1>1, <1>2, Steps, PTL DEF ComputationsSpec

\* The portable umulh and smulh return the high half of the product, signed or
\* not, and rotr64 loses no bit, for words of any width.
THEOREM OperationsAlwaysExact == ComputationsSpec => []OperationsAreExact
  <1>1. Evaluation => UmulhIsExact
    BY UmulhCorrect DEF Evaluation, UmulhIsExact, Is
  <1>2. Evaluation => SmulhIsExact
    BY SmulhCorrect DEF Evaluation, SmulhIsExact, Is
  <1>3. Evaluation => RotatesRight
    BY RotateCorrect DEF Evaluation, RotatesRight, Is
  <1> QED BY <1>1, <1>2, <1>3, EvaluationHolds, PTL DEF OperationsAreExact

\* The interpreter and both compilers use the same constant.
THEOREM ConstantsAlwaysAgree == ComputationsSpec => []ConstantsAgree
  <1>1. Evaluation => ConstantsAgree
    <2>1. Evaluation /\ Is("ADD_C") => result = x86_imm32(x)
      BY SignExtendCorrect DEF Evaluation, Is
    <2>2. Evaluation /\ Is("A64_C") => result = x86_imm32(x)
      BY Emit_IMM32_Correct DEF Evaluation, Is
    <2> QED BY <2>1, <2>2 DEF ConstantsAgree
  <1> QED BY <1>1, EvaluationHolds, PTL

-----------------------------------------------------------------------------
(* The bytes of words                                                       *)

LEMMA ByteFacts == WORD_BYTES \in Nat /\ WORD_BYTES > 0 /\ Sizes \subseteq Nat
  BY InstancesAssumption DEF B!ByteOrderAssumption, B!HASH_BYTES

\* Each step has left behind what the host it runs on makes of it.
Memory ==
    subject = "bytes" =>
        /\ little \in BOOLEAN /\ NATIVE_LITTLE_ENDIAN \in BOOLEAN
        /\ NATIVE_LITTLE_ENDIAN => little
        /\ HASHX_SIZE \in Sizes
        /\ digest \in [0 .. 1 -> B!Words]
        /\ keys # B!None => keys = B!load64_native(B!store64(digest[0]))
        /\ ctx_keys # B!None => ctx_keys = B!load64_native(B!store64(digest[1]))
        /\ salt # B!None => salt = B!load64(B!store64(digest[1]))
        /\ hash # B!None => hash \in [0 .. 3 -> B!Words] /\ output = B!Output(hash)
        /\ hashval # B!None =>
                /\ hash # B!None
                /\ \E behind \in B!Words : hashval = B!load64(B!Array(behind))

LEMMA MemoryHolds == ComputationsSpec => []Memory
  <1>1. ComputationsInit => Memory
    BY DEF ComputationsInit, Memory, B!Init, NoBytes
  <1>2. Memory /\ [ComputationsNext]_<<subject, vars, bytes, statistics, stream>> => Memory'
    <2> SUFFICES ASSUME Memory, subject' = subject, subject = "bytes", [B!Next]_bytes
                 PROVE  Memory'
      BY Steps DEF Memory
    <2> USE DEF B!store64, B!load64, B!store64_native, B!load64_native, B!Output,
                B!Array, B!Byte, B!StoredAny, B!StoredWhole
    <2>1. ASSUME NEW mode \in BOOLEAN, B!Make(mode) PROVE Memory'
      <3>1. /\ keys' = B!load64_native(B!store64(digest[0]))'
            /\ \/ salt' = B!load64(B!store64(digest[1]))' /\ ctx_keys' = ctx_keys
               \/ ctx_keys' = B!load64_native(B!store64(digest[1]))' /\ salt' = salt
        BY <2>1 DEF B!Make, B!host
      <3>2. hash # B!None => B!Output(hash)' = B!Output(hash)
        BY <2>1 DEF B!Make, B!host
      <3>3. \A behind : B!load64(B!Array(behind))' = B!load64(B!Array(behind))
        BY <2>1 DEF B!Make, B!host
      <3>4. /\ B!load64_native(B!store64(digest[0]))' = B!load64_native(B!store64(digest[0]))
            /\ B!load64_native(B!store64(digest[1]))' = B!load64_native(B!store64(digest[1]))
            /\ B!load64(B!store64(digest[1]))' = B!load64(B!store64(digest[1]))
        BY <2>1 DEF B!Make, B!host
      <3>5. UNCHANGED <<little, NATIVE_LITTLE_ENDIAN, HASHX_SIZE, digest, hash, output,
                        hashval>>
        BY <2>1 DEF B!Make, B!host
      <3> HIDE DEF B!store64, B!load64, B!load64_native, B!Output, B!Array
      <3> QED BY <3>1, <3>2, <3>3, <3>4, <3>5 DEF Memory
    <2>2. CASE \E words \in [0 .. 3 -> B!Words] : B!Exec(words)
      <3>1. hash' \in [0 .. 3 -> B!Words] /\ output' = B!Output(hash)'
        BY <2>2 DEF B!Exec, B!host
      <3>2. /\ B!load64_native(B!store64(digest[0]))' = B!load64_native(B!store64(digest[0]))
            /\ B!load64_native(B!store64(digest[1]))' = B!load64_native(B!store64(digest[1]))
            /\ B!load64(B!store64(digest[1]))' = B!load64(B!store64(digest[1]))
        BY <2>2 DEF B!Exec, B!host
      <3>3. /\ hash = B!None
            /\ UNCHANGED <<little, NATIVE_LITTLE_ENDIAN, HASHX_SIZE, digest, keys, ctx_keys,
                           salt, hashval>>
        BY <2>2 DEF B!Exec, B!host
      <3> HIDE DEF B!store64, B!load64, B!load64_native, B!Output, B!Array
      <3> QED BY <3>1, <3>2, <3>3 DEF Memory
    <2>3. ASSUME NEW behind \in B!Words, B!BenchLoad(behind) PROVE Memory'
      <3>1. hashval' = B!load64(B!Array(behind))' /\ B!Output(hash)' = B!Output(hash)
        BY <2>3 DEF B!BenchLoad, B!host
      <3>2. /\ B!load64_native(B!store64(digest[0]))' = B!load64_native(B!store64(digest[0]))
            /\ B!load64_native(B!store64(digest[1]))' = B!load64_native(B!store64(digest[1]))
            /\ B!load64(B!store64(digest[1]))' = B!load64(B!store64(digest[1]))
        BY <2>3 DEF B!BenchLoad, B!host
      <3>3. /\ hash # B!None
            /\ UNCHANGED <<little, NATIVE_LITTLE_ENDIAN, HASHX_SIZE, digest, keys, ctx_keys,
                           salt, hash, output>>
        BY <2>3 DEF B!BenchLoad, B!host
      <3> HIDE DEF B!store64, B!load64, B!load64_native, B!Output, B!Array
      <3> QED BY <3>1, <3>2, <3>3 DEF Memory
    <2>4. CASE UNCHANGED bytes
      <3>1. /\ B!load64_native(B!store64(digest[0]))' = B!load64_native(B!store64(digest[0]))
            /\ B!load64_native(B!store64(digest[1]))' = B!load64_native(B!store64(digest[1]))
            /\ B!load64(B!store64(digest[1]))' = B!load64(B!store64(digest[1]))
            /\ B!Output(hash)' = B!Output(hash)
        BY <2>4 DEF bytes
      <3>2. \A behind : B!load64(B!Array(behind))' = B!load64(B!Array(behind))
        BY <2>4 DEF bytes
      <3> HIDE DEF B!store64, B!load64, B!load64_native, B!Output, B!Array
      <3> QED BY <2>4, <3>1, <3>2 DEF Memory, bytes
    <2> QED BY <2>1, <2>2, <2>3, <2>4 DEF B!Next, B!Compared, B!vars, B!host, bytes
  <1> QED BY <1>1, <1>2, PTL DEF ComputationsSpec

\* Storing and loading a word leaves it as it is; load64_native reads it with its
\* bytes reversed on hosts that are not little endian.
LEMMA StoreLoad ==
    ASSUME NEW w \in B!Words, NATIVE_LITTLE_ENDIAN => little
    PROVE  /\ B!store64(w) = w
           /\ B!load64(w) = w
           /\ B!load64_native(w) = B!AsNative(w)
  BY DEF B!Words, B!Offsets, B!store64, B!load64, B!store64_native, B!load64_native,
         B!AsNative, B!Reversed

\* An address, as a word and an offset in it.
LEMMA Addresses ==
    ASSUME NEW a \in B!HashAddresses
    PROVE  /\ a \in Nat
           /\ a \div WORD_BYTES \in 0 .. 3 /\ a % WORD_BYTES \in B!Offsets
           /\ a = WORD_BYTES * (a \div WORD_BYTES) + (a % WORD_BYTES)
  <1>1. a \in Nat /\ a < WORD_BYTES * 4
    BY ByteFacts DEF B!HashAddresses, B!HASH_BYTES
  <1>2. /\ a \div WORD_BYTES \in Nat /\ a % WORD_BYTES \in 0 .. WORD_BYTES - 1
        /\ a = WORD_BYTES * (a \div WORD_BYTES) + (a % WORD_BYTES)
    BY <1>1, ByteFacts, DivMod
  <1>3. a \div WORD_BYTES < 4
    BY <1>1, <1>2, ByteFacts, QuotientBound
  <1> QED BY <1>1, <1>2, <1>3 DEF B!Offsets

\* Both sets of conditions store just what is put out.
LEMMA StoredIsOutput ==
    ASSUME NEW a \in B!HashAddresses, HASHX_SIZE \in Nat
    PROVE  IF HASHX_SIZE % WORD_BYTES = 0
           THEN B!StoredWhole(a \div WORD_BYTES) <=> a < HASHX_SIZE
           ELSE a < HASHX_SIZE => B!StoredAny(a \div WORD_BYTES)
  <1> DEFINE q == a \div WORD_BYTES  r == a % WORD_BYTES
             s == HASHX_SIZE \div WORD_BYTES  t == HASHX_SIZE % WORD_BYTES
             W == WORD_BYTES
  <1>1. W \in Nat /\ q \in Nat /\ r \in Nat /\ r < W /\ a = W * q + r
    BY Addresses, ByteFacts DEF B!Offsets
  <1>2. s \in Nat /\ t \in Nat /\ HASHX_SIZE = W * s + t
    BY ByteFacts, DivMod
  <1>3. /\ B!StoredWhole(q) <=> HASHX_SIZE >= W * (q + 1)
        /\ B!StoredAny(q) <=> HASHX_SIZE > W * q
    BY DEF B!StoredWhole, B!StoredAny
  <1> HIDE DEF q, r, s, t, W
  <1>4. W * (q + 1) = W * q + W /\ W * q \in Nat
    BY <1>1, Z3
  <1>5. ASSUME t = 0, a < HASHX_SIZE PROVE HASHX_SIZE >= W * (q + 1)
    <2>1. W * q + r < W * s
      BY <1>1, <1>2, <1>5
    <2>2. q < s
      BY <2>1, <1>1, <1>2, QuotientBound
    <2>3. q + 1 <= s
      BY <2>2, <1>1, <1>2
    <2>4. W * (q + 1) <= W * s
      BY <2>3, <1>1, <1>2, Z3
    <2>5. W * s \in Nat /\ W * (q + 1) \in Nat
      BY <1>1, <1>2, Z3
    <2> QED BY <2>4, <2>5, <1>2, <1>5
  <1> QED BY <1>1, <1>2, <1>3, <1>4, <1>5 DEF t, q, W

LEMMA OutputOfWords ==
    ASSUME Memory, subject = "bytes", hash # B!None, NEW a \in B!HashAddresses
    PROVE  output[a] = IF a < HASHX_SIZE
                       THEN hash[a \div WORD_BYTES][a % WORD_BYTES]
                       ELSE B!Untouched
  <1>1. /\ hash \in [0 .. 3 -> B!Words] /\ output = B!Output(hash)
        /\ HASHX_SIZE \in Nat /\ (NATIVE_LITTLE_ENDIAN => little)
    BY ByteFacts DEF Memory
  <1>2. hash[a \div WORD_BYTES] \in B!Words
    BY <1>1, Addresses
  <1>3. B!Byte(hash, a) = hash[a \div WORD_BYTES][a % WORD_BYTES]
    BY <1>1, <1>2, StoreLoad DEF B!Byte
  <1> QED BY <1>1, <1>3, StoredIsOutput DEF B!Output

\* Both ways to write the output write its bytes and no others, for any size.
THEOREM OutputAlwaysPrefix == ComputationsSpec => []OutputIsPrefix
  <1>1. ComputationsSpec => [](subject # "bytes" => hash = B!None)
    <2>1. ComputationsInit => (subject # "bytes" => hash = B!None)
      BY DEF ComputationsInit, NoBytes
    <2>2. (subject # "bytes" => hash = B!None)
            /\ [ComputationsNext]_<<subject, vars, bytes, statistics, stream>>
          => (subject # "bytes" => hash = B!None)'
      BY DEF ComputationsNext, WordsStep, BytesStep, StatisticsStep, StreamStep, bytes
    <2> QED BY <2>1, <2>2, PTL DEF ComputationsSpec
  <1>2. Memory /\ (subject # "bytes" => hash = B!None) => OutputIsPrefix
    BY OutputOfWords DEF OutputIsPrefix, B!OutputIsPrefix
  <1> QED BY <1>1, <1>2, MemoryHolds, PTL

\* Which hosts agree on which words: all on salt and output, those of the same
\* byte order on the keys.
THEOREM HostsOnlyDifferInKeys == ComputationsSpec => []HostsDifferInKeys
  <1>1. ComputationsSpec => [](subject # "bytes" => NoBytes)
    <2>1. ComputationsInit => (subject # "bytes" => NoBytes)
      BY DEF ComputationsInit
    <2>2. (subject # "bytes" => NoBytes)
            /\ [ComputationsNext]_<<subject, vars, bytes, statistics, stream>>
          => (subject # "bytes" => NoBytes)'
      BY DEF ComputationsNext, WordsStep, BytesStep, StatisticsStep, StreamStep, bytes,
             NoBytes
    <2> QED BY <2>1, <2>2, PTL DEF ComputationsSpec
  <1>2. NoBytes => HostsDifferInKeys
    BY DEF NoBytes, HostsDifferInKeys, B!KeysFollowHost, B!BenchReadsOutput
  <1>3. ASSUME Memory, subject = "bytes" PROVE HostsDifferInKeys
    <2>1. digest[0] \in B!Words /\ digest[1] \in B!Words /\ (NATIVE_LITTLE_ENDIAN => little)
      BY <1>3 DEF Memory
    <2>2. B!KeysFollowHost
      BY <1>3, <2>1, StoreLoad DEF Memory, B!KeysFollowHost
    <2>3. ASSUME hashval # B!None, NEW j \in B!Offsets, j < HASHX_SIZE
          PROVE  hashval[j] = hash[0][j]
      <3>1. /\ hash # B!None
            /\ \E behind \in B!Words : hashval = B!load64(B!Array(behind))
        BY <1>3, <2>3 DEF Memory
      <3>2. \A behind : B!load64(B!Array(behind))[j] = output[j]
        BY <2>1, <2>3 DEF B!load64, B!load64_native, B!Array
      <3>3. output[j] = hash[0][j]
        <4>1. j \in B!HashAddresses /\ j \in Nat /\ j < WORD_BYTES
          BY ByteFacts DEF B!Offsets, B!HashAddresses, B!HASH_BYTES
        <4>2. j \div WORD_BYTES = 0 /\ j % WORD_BYTES = j
          <5>1. j = WORD_BYTES * 0 + j
            BY <4>1, ByteFacts
          <5>2. (WORD_BYTES * 0 + j) \div WORD_BYTES = 0
            BY <4>1, ByteFacts, DivUnique
          <5> QED BY <5>1, <5>2, <4>1, ByteFacts, SmallMod
        <4> QED BY <1>3, <2>3, <3>1, <4>1, <4>2, OutputOfWords
      <3> QED BY <3>1, <3>2, <3>3
    <2> QED BY <2>2, <2>3 DEF HostsDifferInKeys, B!BenchReadsOutput
  <1>4. Memory /\ (subject # "bytes" => NoBytes) => HostsDifferInKeys
    BY <1>2, <1>3
  <1> QED BY <1>1, <1>4, MemoryHolds, PTL

-----------------------------------------------------------------------------
(* The random numbers.  A call either takes the next block, which nothing   *)
(* was served from, or the next part of its own buffer, which R!IInv keeps  *)
(* apart from everything served and from the other buffer.                  *)

LEMMA BlocksBounded == MaxBlocks \in Nat
BY InstancesAssumption DEF R!MaxBlocksAssumption

LEMMA InitIInv == R!Init => R!IInv /\ R!NothingLost /\ R!Drawn
BY BlocksBounded DEF R!Init, R!IInv, R!TypeOK, R!ServedOnce, R!NothingLost, R!Drawn,
    R!Waiting8, R!Waiting32, R!Blocks, R!Offsets, R!NoBlock, R!BLOCK_BYTES, R!BLOCK_WORDS

\* A call of either function counts the blocks it takes.
LEMMA DrawnStep == R!TypeOK /\ R!Drawn /\ [R!Next]_stream => R!Drawn'
<1> SUFFICES ASSUME R!TypeOK, R!Drawn, [R!Next]_stream PROVE R!Drawn'
  OBVIOUS
<1>1. CASE R!u8
  BY <1>1 DEF R!Drawn, R!TypeOK, R!u8, R!Return, R!Advance, R!BLOCK_BYTES, R!BLOCK_WORDS
<1>2. CASE R!u32
  BY <1>2 DEF R!Drawn, R!TypeOK, R!u32, R!Return, R!Advance, R!BLOCK_BYTES, R!BLOCK_WORDS
<1>3. CASE UNCHANGED <<counter, count8, count32, calls8, calls32>>
  BY <1>3 DEF R!Drawn
<1> QED BY <1>1, <1>2, <1>3 DEF R!Next, R!Enough, R!vars, stream

LEMMA ServeBytes ==
    ASSUME R!IInv, R!NothingLost, R!u8
    PROVE  R!IInv' /\ R!NothingLost'
<1>1. CASE count8 = 0
  BY <1>1, BlocksBounded DEF R!IInv, R!TypeOK, R!ServedOnce, R!NothingLost,
     R!Waiting8, R!Waiting32, R!Blocks, R!Offsets, R!NoBlock, R!BLOCK_BYTES, R!BLOCK_WORDS,
     R!U32_BYTES, R!u8, R!Return, R!Advance, R!Byte
<1>2. CASE count8 # 0
  BY <1>2, BlocksBounded DEF R!IInv, R!TypeOK, R!ServedOnce, R!NothingLost,
     R!Waiting8, R!Waiting32, R!Blocks, R!Offsets, R!NoBlock, R!BLOCK_BYTES, R!BLOCK_WORDS,
     R!U32_BYTES, R!u8, R!Return, R!Advance, R!Byte
<1> QED BY <1>1, <1>2

LEMMA ServeWords ==
    ASSUME R!IInv, R!NothingLost, R!u32
    PROVE  R!IInv' /\ R!NothingLost'
<1>1. CASE count32 = 0
  BY <1>1, BlocksBounded DEF R!IInv, R!TypeOK, R!ServedOnce, R!NothingLost,
     R!Waiting8, R!Waiting32, R!Blocks, R!Offsets, R!NoBlock, R!BLOCK_BYTES, R!BLOCK_WORDS,
     R!U32_BYTES, R!u32, R!Return, R!Advance, R!Word
<1>2. CASE count32 # 0
  BY <1>2, BlocksBounded DEF R!IInv, R!TypeOK, R!ServedOnce, R!NothingLost,
     R!Waiting8, R!Waiting32, R!Blocks, R!Offsets, R!NoBlock, R!BLOCK_BYTES, R!BLOCK_WORDS,
     R!U32_BYTES, R!u32, R!Return, R!Advance, R!Word
<1> QED BY <1>1, <1>2

\* Nothing but the calls changes the generator.
LEMMA StepIInv == R!IInv /\ R!NothingLost /\ [R!Next]_stream => R!IInv' /\ R!NothingLost'
<1> SUFFICES ASSUME R!IInv, R!NothingLost, [R!Next]_stream
             PROVE  R!IInv' /\ R!NothingLost'
    OBVIOUS
<1>1. CASE R!u8
  BY <1>1, ServeBytes
<1>2. CASE R!u32
  BY <1>2, ServeWords
<1>3. CASE UNCHANGED stream
  BY <1>3 DEF stream, R!IInv, R!TypeOK, R!ServedOnce, R!NothingLost, R!Waiting8,
     R!Waiting32, R!Blocks
<1> QED BY <1>1, <1>2, <1>3 DEF R!Next, R!Enough, R!vars, stream

LEMMA StreamInvariant == ComputationsSpec => [](R!IInv /\ R!NothingLost /\ R!Drawn)
<1>1. ComputationsInit => R!IInv /\ R!NothingLost /\ R!Drawn
  BY InitIInv DEF ComputationsInit, NoStream
<1>2. R!IInv /\ R!NothingLost /\ R!Drawn /\ [R!Next]_stream
        => (R!IInv /\ R!NothingLost /\ R!Drawn)'
  BY StepIInv, DrawnStep DEF R!IInv
<1> QED BY <1>1, <1>2, Steps, PTL DEF ComputationsSpec

\* No byte of the key stream is returned twice by hashx_siphash_rng_u8 and
\* hashx_siphash_rng_u32, in whatever order they are called.
THEOREM NeverServedTwice == ComputationsSpec => []ServedOnce
<1>1. R!IInv => ServedOnce
  BY DEF R!IInv, ServedOnce
<1> QED BY StreamInvariant, <1>1, PTL

\* Every byte of every block made is returned or waiting in its buffer.
THEOREM EverythingServed == ComputationsSpec => []NothingLost
<1>1. R!NothingLost => NothingLost
  BY DEF NothingLost
<1> QED BY StreamInvariant, <1>1, PTL

\* The counter is a function of the numbers of calls.
THEOREM BlocksCounted == ComputationsSpec => []CounterIsExact
<1>1. R!IInv /\ R!Drawn => CounterIsExact
  BY DEF R!IInv, R!TypeOK, R!Drawn, CounterIsExact, R!CounterIsExact, R!BLOCK_BYTES,
     R!BLOCK_WORDS
<1> QED BY StreamInvariant, <1>1, PTL

-----------------------------------------------------------------------------
(* The statistics                                                           *)

LEMMA MaxIs ==
    ASSUME NEW T, T \subseteq Nat, NEW v \in T, \A w \in T : w <= v
    PROVE  S!Max(T) = v
  <1>1. \A w \in T : (\A u \in T : w >= u) => w = v
    OBVIOUS
  <1>2. \A u \in T : v >= u
    OBVIOUS
  <1> QED BY <1>1, <1>2 DEF S!Max

\* A set of numbers with a bound has a maximum.
LEMMA MaxFacts ==
    ASSUME NEW T, T \subseteq Nat, NEW b \in Nat, \A v \in T : v <= b
    PROVE  /\ S!Max({0} \cup T) \in {0} \cup T
           /\ S!Max({0} \cup T) \in Nat
           /\ \A v \in {0} \cup T : v <= S!Max({0} \cup T)
  <1> DEFINE U == {0} \cup T
             Uppers == {u \in Nat : \A v \in U : v <= u}
  <1>1. Uppers \subseteq Nat /\ b \in Uppers /\ U \subseteq Nat
    OBVIOUS
  <1>2. PICK u \in Uppers : \A w \in Uppers : u <= w
    BY <1>1, LeastNumber
  <1>3. u \in U
    <2> SUFFICES ASSUME u \notin U PROVE FALSE
      OBVIOUS
    <2>1. u # 0 /\ u \in Nat /\ \A v \in U : v <= u /\ v # u /\ v \in Nat
      BY <1>1
    <2>2. u - 1 \in Uppers
      <3> HIDE DEF U
      <3> QED BY <2>1
    <2> QED BY <1>2, <2>1, <2>2
  <1>4. S!Max(U) = u
    <2>1. \A w \in U : w <= u
      OBVIOUS
    <2> HIDE DEF U
    <2> QED BY <1>1, <1>3, <2>1, MaxIs
  <1> QED BY <1>1, <1>3, <1>4

LEMMA MaxOfTwo ==
    ASSUME NEW a \in Nat, NEW b \in Nat
    PROVE  S!Max({a, b}) = IF a >= b THEN a ELSE b
  <1>1. CASE a >= b
    BY <1>1, MaxIs
  <1>2. CASE b > a
    BY <1>2, MaxIs
  <1> QED BY <1>1, <1>2

\* Finitely many registers have a bound.
LEMMA RegistersBounded ==
    ASSUME NEW n \in Nat, NEW f, \A r \in 0 .. n - 1 : f[r] \in Nat
    PROVE  \E b \in Nat : \A r \in 0 .. n - 1 : f[r] <= b
  <1> DEFINE T == {m \in Nat : m <= n => \E b \in Nat : \A r \in 0 .. m - 1 : f[r] <= b}
  <1>1. 0 \in T
    OBVIOUS
  <1>2. ASSUME NEW m \in T PROVE m + 1 \in T
    <2> SUFFICES ASSUME m + 1 <= n
                 PROVE  \E b \in Nat : \A r \in 0 .. m : f[r] <= b
      OBVIOUS
    <2>1. PICK b \in Nat : \A r \in 0 .. m - 1 : f[r] <= b
      OBVIOUS
    <2>2. m \in Nat /\ f[m] \in Nat
      OBVIOUS
    <2>3. \A r \in 0 .. m : r \in 0 .. m - 1 \/ r = m
      BY <2>2
    <2>4. \A r \in 0 .. m : f[r] <= b + f[m]
      BY <2>1, <2>2, <2>3
    <2> QED BY <2>2, <2>4
  <1>3. T = Nat
    <2> HIDE DEF T
    <2>1. T \subseteq Nat
      BY DEF T
    <2> QED BY <1>1, <1>2, <2>1, NumbersInduction
  <1>4. n \in T
    <2> HIDE DEF T
    <2> QED BY <1>3
  <1> QED BY <1>4

\* d gives the cycle in which each instruction so far is done.
Inputs(d, k) == {d[j] : j \in {j \in 1 .. k - 1 : S!DependsOn(k, j)}}

Depths(d) ==
    /\ d \in [1 .. Len(code) -> Nat]
    /\ \A k \in 1 .. Len(code) : d[k] = 1 + S!Max({0} \cup Inputs(d, k))

NoConstants ==
    \A k \in 1 .. Len(code) : code[k].src = S!NoRegister => code[k].dst = S!NoRegister

LastWriter(k, r) ==
    code[k].dst = r /\ \A m \in k + 1 .. Len(code) : code[m].dst # r

\* No register is ready before what was written to it last is; without constants
\* it is ready just then.
Latencies(d) ==
    /\ \A k \in 1 .. Len(code) :
        code[k].dst # S!NoRegister => d[k] <= asic_latencies[code[k].dst]
    /\ NoConstants =>
        \A r \in S!Registers :
            \/ asic_latencies[r] = 0
            \/ \E k \in 1 .. Len(code) : LastWriter(k, r) /\ d[k] = asic_latencies[r]

LatencyTypes ==
    /\ code \in Seq(S!Instructions)
    /\ asic_latencies \in [S!Registers \cup {S!NoRegister} -> Nat]

Accounted ==
    subject = "statistics" =>
        /\ LatencyTypes
        /\ \E d : Depths(d) /\ Latencies(d)
        /\ asic_latency # S!NotComputed =>
            asic_latency = S!Max({0} \cup {asic_latencies[r] : r \in S!Registers})

LEMMA InstructionTypes ==
    ASSUME NEW instr \in S!Instructions
    PROVE  /\ instr.dst \in S!Registers \cup {S!NoRegister}
           /\ instr.src \in S!Registers \cup {S!NoRegister}
           /\ instr.dst = S!NoRegister => instr.src = S!NoRegister
           /\ S!NoRegister \notin S!Registers
  <1>1. S!NoRegister \notin S!Registers
    BY DEF S!Registers, S!NoRegister
  <1>2. CASE instr \in [dst : S!Registers, src : S!Registers \cup {S!NoRegister}, wide : {FALSE}]
    BY <1>1, <1>2
  <1>3. CASE instr \in [dst : S!Registers, src : S!Registers, wide : {TRUE}]
    BY <1>1, <1>3
  <1>4. CASE instr \in [dst : {S!NoRegister}, src : {S!NoRegister}, wide : {FALSE}]
    BY <1>1, <1>4
  <1> QED BY <1>1, <1>2, <1>3, <1>4 DEF S!Instructions

\* How a program of n instructions grows by one.
LEMMA AppendFacts ==
    ASSUME NEW instr, NEW n, n = Len(code), LatencyTypes, code' = Append(code, instr)
    PROVE  /\ n \in Nat /\ Len(code') = n + 1
           /\ \A k \in 1 .. n : code'[k] = code[k] /\ code[k] \in S!Instructions
           /\ code'[n + 1] = instr
           /\ \A k \in 1 .. n : \A j \in 1 .. k - 1 : S!DependsOn(k, j)' <=> S!DependsOn(k, j)
           /\ \A j \in 1 .. n : S!DependsOn(n + 1, j)' <=>
                /\ code[j].dst # S!NoRegister
                /\ code[j].dst \in {instr.dst, instr.src}
                /\ LastWriter(j, code[j].dst)
           /\ NoConstants' => NoConstants /\ (instr.src = S!NoRegister => instr.dst = S!NoRegister)
           /\ \A k \in 1 .. n : \A r : LastWriter(k, r) /\ instr.dst # r => LastWriter(k, r)'
           /\ \A r : r = instr.dst => LastWriter(n + 1, r)'
  <1>1. /\ n \in Nat /\ Len(code') = n + 1
        /\ \A k \in 1 .. n : code'[k] = code[k] /\ code[k] \in S!Instructions
        /\ code'[n + 1] = instr
    BY DEF LatencyTypes
  <1>2. ASSUME NEW k \in 1 .. n, NEW j \in 1 .. k - 1
        PROVE  S!DependsOn(k, j)' <=> S!DependsOn(k, j)
    <2>1. j \in 1 .. n /\ \A m \in j + 1 .. k - 1 : m \in 1 .. n
      BY <1>1
    <2> QED BY <1>1, <2>1 DEF S!DependsOn, S!NoRegister
  <1>3. ASSUME NEW j \in 1 .. n
        PROVE  S!DependsOn(n + 1, j)' <=>
                /\ code[j].dst # S!NoRegister
                /\ code[j].dst \in {instr.dst, instr.src}
                /\ LastWriter(j, code[j].dst)
    <2>1. j < n + 1 /\ (n + 1) - 1 = n /\ \A m \in j + 1 .. n : m \in 1 .. n
      BY <1>1
    <2>2. S!DependsOn(n + 1, j)' <=>
            /\ code'[j].dst # S!NoRegister
            /\ code'[j].dst \in {code'[n + 1].dst, code'[n + 1].src}
            /\ \A m \in j + 1 .. n : code'[m].dst # code'[j].dst
      BY <2>1 DEF S!DependsOn, S!NoRegister
    <2> QED BY <1>1, <2>1, <2>2 DEF LastWriter
  <1>4. NoConstants' => NoConstants /\ (instr.src = S!NoRegister => instr.dst = S!NoRegister)
    <2>1. n + 1 \in 1 .. n + 1 /\ \A k \in 1 .. n : k \in 1 .. n + 1
      BY <1>1
    <2> QED BY <1>1, <2>1 DEF NoConstants, S!NoRegister
  <1>5. ASSUME NEW k \in 1 .. n, NEW r, LastWriter(k, r), instr.dst # r
        PROVE  LastWriter(k, r)'
    <2>1. \A m \in k + 1 .. n + 1 : m \in k + 1 .. n \/ m = n + 1
      BY <1>1
    <2>2. \A m \in k + 1 .. n : m \in 1 .. n
      BY <1>1
    <2> QED BY <1>1, <1>5, <2>1, <2>2 DEF LastWriter
  <1>6. ASSUME NEW r, r = instr.dst PROVE LastWriter(n + 1, r)'
    <2>1. (n + 1) + 1 .. n + 1 = {}
      BY <1>1
    <2> QED BY <1>1, <1>6, <2>1 DEF LastWriter
  <1> QED BY <1>1, <1>2, <1>3, <1>4, <1>5, <1>6

\* The depths of what an instruction at the end of the program would use.
Operands(d, instr) ==
    {d[j] : j \in {j \in 1 .. Len(code) : /\ code[j].dst # S!NoRegister
                                         /\ code[j].dst \in {instr.dst, instr.src}
                                         /\ LastWriter(j, code[j].dst)}}

\* The depths of a program with another instruction are those it had, and one
\* more than what that instruction waits for.
LEMMA DepthsGrow ==
    ASSUME NEW instr, NEW n, n = Len(code), LatencyTypes, code' = Append(code, instr),
           NEW d, Depths(d), NEW c \in Nat,
           c = 1 + S!Max({0} \cup Operands(d, instr)),
           NEW e, e = [k \in 1 .. n + 1 |-> IF k = n + 1 THEN c ELSE d[k]]
    PROVE  Depths(e)'
  <1>1. /\ n \in Nat /\ Len(code') = n + 1
        /\ \A k \in 1 .. n : \A j \in 1 .. k - 1 : S!DependsOn(k, j)' <=> S!DependsOn(k, j)
        /\ \A j \in 1 .. n : S!DependsOn(n + 1, j)' <=>
                /\ code[j].dst # S!NoRegister
                /\ code[j].dst \in {instr.dst, instr.src}
                /\ LastWriter(j, code[j].dst)
    BY AppendFacts
  <1>2. d \in [1 .. n -> Nat] /\ \A k \in 1 .. n : d[k] = 1 + S!Max({0} \cup Inputs(d, k))
    BY DEF Depths
  <1>3. e \in [1 .. n + 1 -> Nat] /\ e[n + 1] = c /\ \A k \in 1 .. n : e[k] = d[k]
    BY <1>1, <1>2
  <1>4. ASSUME NEW k \in 1 .. n PROVE e[k] = 1 + S!Max({0} \cup Inputs(e, k)')
    <2>1. \A j \in 1 .. k - 1 : j \in 1 .. n
      BY <1>1
    <2>2. \A v : v \in Inputs(e, k)' <=> \E j \in 1 .. k - 1 : S!DependsOn(k, j)' /\ v = e[j]
      BY DEF Inputs
    <2>3. \A v : v \in Inputs(d, k) <=> \E j \in 1 .. k - 1 : S!DependsOn(k, j) /\ v = d[j]
      BY DEF Inputs
    <2>4. \A v : v \in Inputs(e, k)' <=> v \in Inputs(d, k)
      <3>1. ASSUME NEW j \in 1 .. k - 1
            PROVE  (S!DependsOn(k, j)' <=> S!DependsOn(k, j)) /\ e[j] = d[j]
        <4>1. S!DependsOn(k, j)' <=> S!DependsOn(k, j)
          BY <1>1
        <4>2. e[j] = d[j]
          BY <1>3, <2>1
        <4> QED BY <4>1, <4>2
      <3>2. ASSUME NEW v, v \in Inputs(e, k)' PROVE v \in Inputs(d, k)
        <4>1. PICK j \in 1 .. k - 1 : S!DependsOn(k, j)' /\ v = e[j]
          BY <2>2, <3>2, Zenon
        <4>2. S!DependsOn(k, j) /\ v = d[j]
          BY <3>1, <4>1
        <4> QED BY <2>3, <4>2, Zenon
      <3>3. ASSUME NEW v, v \in Inputs(d, k) PROVE v \in Inputs(e, k)'
        <4>1. PICK j \in 1 .. k - 1 : S!DependsOn(k, j) /\ v = d[j]
          BY <2>3, <3>3, Zenon
        <4>2. S!DependsOn(k, j)' /\ v = e[j]
          BY <3>1, <4>1
        <4> QED BY <2>2, <4>2, Zenon
      <3> QED BY <3>2, <3>3
    <2>5. Inputs(e, k)' = Inputs(d, k)
      BY <2>4, Zenon
    <2> QED BY <1>2, <1>3, <2>5
  <1>5. e[n + 1] = 1 + S!Max({0} \cup Inputs(e, n + 1)')
    <2>1. 1 .. (n + 1) - 1 = 1 .. n
      BY <1>1
    <2>2. \A v : v \in Inputs(e, n + 1)' <=>
                \E j \in 1 .. (n + 1) - 1 : S!DependsOn(n + 1, j)' /\ v = e[j]
      BY DEF Inputs
    <2>3. \A v : v \in Operands(d, instr) <=>
                \E j \in 1 .. n : /\ code[j].dst # S!NoRegister
                                 /\ code[j].dst \in {instr.dst, instr.src}
                                 /\ LastWriter(j, code[j].dst)
                                 /\ v = d[j]
      BY DEF Operands
    <2>4. \A v : v \in Inputs(e, n + 1)' <=> v \in Operands(d, instr)
      <3>1. ASSUME NEW v, v \in Inputs(e, n + 1)' PROVE v \in Operands(d, instr)
        <4>1. PICK j \in 1 .. (n + 1) - 1 : S!DependsOn(n + 1, j)' /\ v = e[j]
          BY <2>2, <3>1, Zenon
        <4>2. j \in 1 .. n /\ v = d[j]
          BY <1>3, <2>1, <4>1
        <4> QED BY <1>1, <2>3, <4>1, <4>2
      <3>2. ASSUME NEW v, v \in Operands(d, instr) PROVE v \in Inputs(e, n + 1)'
        <4>1. PICK j \in 1 .. n : /\ code[j].dst # S!NoRegister
                                 /\ code[j].dst \in {instr.dst, instr.src}
                                 /\ LastWriter(j, code[j].dst)
                                 /\ v = d[j]
          BY <2>3, <3>2, Zenon
        <4>2. S!DependsOn(n + 1, j)' /\ v = e[j] /\ j \in 1 .. (n + 1) - 1
          BY <1>1, <1>3, <2>1, <4>1
        <4> QED BY <2>2, <4>2, Zenon
      <3> QED BY <3>1, <3>2
    <2>5. Inputs(e, n + 1)' = Operands(d, instr)
      BY <2>4, Zenon
    <2> QED BY <1>3, <2>5
  <1>6. \A k \in 1 .. n + 1 : k \in 1 .. n \/ k = n + 1
    BY <1>1
  <1>7. \A k \in 1 .. Len(code)' : e[k] = 1 + S!Max({0} \cup Inputs(e, k)')
    BY <1>1, <1>4, <1>5, <1>6
  <1>8. e \in [1 .. Len(code)' -> Nat]
    BY <1>1, <1>3
  <1> QED BY <1>7, <1>8 DEF Depths, S!Max

LEMMA OperandDepths ==
    ASSUME NEW instr \in S!Instructions, LatencyTypes, NEW d, Depths(d), Latencies(d),
           NEW c, c = 1 + S!Max({0} \cup Operands(d, instr))
    PROVE  /\ c \in Nat /\ c >= 1
           /\ \A v \in Operands(d, instr) : v + 1 <= c
           /\ \A b \in Nat : (\A v \in Operands(d, instr) : v + 1 <= b) /\ b >= 1 => c <= b
           /\ \A v \in Operands(d, instr) :
                \E r \in {instr.dst, instr.src} : r \in S!Registers /\ v <= asic_latencies[r]
  <1> DEFINE T == Operands(d, instr)
  <1>1. ASSUME NEW v \in T
        PROVE  /\ v \in Nat
               /\ \E r \in {instr.dst, instr.src} : r \in S!Registers /\ v <= asic_latencies[r]
    <2>1. PICK j \in 1 .. Len(code) : /\ code[j].dst # S!NoRegister
                                      /\ code[j].dst \in {instr.dst, instr.src}
                                      /\ v = d[j]
      BY DEF Operands
    <2>2. code[j].dst \in S!Registers
      BY <2>1, InstructionTypes DEF LatencyTypes
    <2>3. d[j] \in Nat /\ d[j] <= asic_latencies[code[j].dst]
      BY <2>1 DEF Depths, Latencies
    <2> QED BY <2>1, <2>2, <2>3
  <1>2. /\ instr.dst \in S!Registers \cup {S!NoRegister}
        /\ instr.src \in S!Registers \cup {S!NoRegister}
    BY InstructionTypes
  <1>3. asic_latencies[instr.dst] \in Nat /\ asic_latencies[instr.src] \in Nat
    BY <1>2 DEF LatencyTypes
  <1> DEFINE b == asic_latencies[instr.dst] + asic_latencies[instr.src]
  <1>4. b \in Nat /\ T \subseteq Nat /\ \A v \in T : v <= b
    BY <1>1, <1>3
  <1>5. /\ S!Max({0} \cup T) \in {0} \cup T
        /\ S!Max({0} \cup T) \in Nat
        /\ \A v \in {0} \cup T : v <= S!Max({0} \cup T)
    <2> HIDE DEF T, b
    <2> QED BY <1>4, MaxFacts
  <1> HIDE DEF T
  <1>6. PICK m \in Nat : m \in {0} \cup T /\ (\A v \in {0} \cup T : v <= m) /\ c = 1 + m
    BY <1>5 DEF T
  <1>7. c \in Nat /\ c >= 1 /\ \A v \in T : v + 1 <= c
    BY <1>4, <1>6
  <1>8. ASSUME NEW u \in Nat, \A v \in T : v + 1 <= u, u >= 1 PROVE c <= u
    BY <1>6, <1>8
  <1> QED BY <1>1, <1>7, <1>8 DEF T

\* The code's step keeps count: the latency of what is written is no less than
\* its depth, and no more if nothing read in front of the array goes into it.
LEMMA AccountStep ==
    ASSUME NEW instr \in S!Instructions, S!Account(instr), LatencyTypes,
           NEW d, Depths(d), Latencies(d)
    PROVE  LatencyTypes' /\ \E e : Depths(e)' /\ Latencies(e)'
  <1> DEFINE A == asic_latencies
             L == S!OperandLatency(instr)
  <1>1. PICK n : n = Len(code)
    OBVIOUS
  <1>2. PICK c : c = 1 + S!Max({0} \cup Operands(d, instr))
    OBVIOUS
  <1>3. PICK e : e = [k \in 1 .. n + 1 |-> IF k = n + 1 THEN c ELSE d[k]]
    OBVIOUS
  <1>4. code' = Append(code, instr)
    BY DEF S!Account
  <1>5. /\ instr.dst \in S!Registers \cup {S!NoRegister}
        /\ instr.src \in S!Registers \cup {S!NoRegister}
        /\ instr.dst = S!NoRegister => instr.src = S!NoRegister
        /\ S!NoRegister \notin S!Registers
    BY InstructionTypes
  <1>6. asic_latencies[instr.dst] \in Nat /\ asic_latencies[instr.src] \in Nat
    BY <1>5 DEF LatencyTypes
  <1>7. /\ c \in Nat /\ c >= 1
        /\ \A v \in Operands(d, instr) : v + 1 <= c
        /\ \A b \in Nat : (\A v \in Operands(d, instr) : v + 1 <= b) /\ b >= 1 => c <= b
        /\ \A v \in Operands(d, instr) :
                \E r \in {instr.dst, instr.src} : r \in S!Registers /\ v <= asic_latencies[r]
    BY <1>2, OperandDepths
  <1>8. Depths(e)'
    BY <1>1, <1>2, <1>3, <1>4, <1>7, DepthsGrow
  <1>9. /\ n \in Nat /\ Len(code') = n + 1
        /\ \A k \in 1 .. n : code'[k] = code[k] /\ code[k] \in S!Instructions
        /\ code'[n + 1] = instr
        /\ NoConstants' => NoConstants /\ (instr.src = S!NoRegister => instr.dst = S!NoRegister)
        /\ \A k \in 1 .. n : \A r : LastWriter(k, r) /\ instr.dst # r => LastWriter(k, r)'
        /\ LastWriter(n + 1, instr.dst)'
    BY <1>1, <1>4, AppendFacts
  <1>10. e[n + 1] = c /\ \A k \in 1 .. n : e[k] = d[k] /\ d[k] \in Nat
    BY <1>1, <1>3, <1>9 DEF Depths
  <1>11. \A k \in 1 .. n + 1 : k \in 1 .. n \/ k = n + 1
    BY <1>9
  <1>12. /\ L \in Nat
         /\ L >= asic_latencies[instr.dst] + 1
         /\ L = asic_latencies[instr.dst] + 1 \/ L = asic_latencies[instr.src] + 1
         /\ instr.dst # instr.src => L >= asic_latencies[instr.src] + 1
    <2>1. CASE instr.dst # instr.src
      <3>1. L = S!Max({asic_latencies[instr.dst] + 1, asic_latencies[instr.src] + 1})
        BY <2>1 DEF S!OperandLatency
      <3>2. asic_latencies[instr.dst] + 1 \in Nat /\ asic_latencies[instr.src] + 1 \in Nat
        BY <1>6
      <3>3. L = IF asic_latencies[instr.dst] + 1 >= asic_latencies[instr.src] + 1
                THEN asic_latencies[instr.dst] + 1 ELSE asic_latencies[instr.src] + 1
        BY <3>1, <3>2, MaxOfTwo
      <3> HIDE DEF L
      <3> QED BY <1>6, <2>1, <3>3
    <2>2. CASE instr.dst = instr.src
      <3>1. L = S!Max({asic_latencies[instr.dst] + 1, 0})
        BY <2>2 DEF S!OperandLatency
      <3>2. asic_latencies[instr.dst] + 1 \in Nat /\ 0 \in Nat
        BY <1>6
      <3>3. L = asic_latencies[instr.dst] + 1
        BY <1>6, <3>1, <3>2, MaxOfTwo
      <3> QED BY <1>6, <2>2, <3>3
    <2> QED BY <2>1, <2>2
  <1>13. c <= L
    <2>1. ASSUME NEW v \in Operands(d, instr) PROVE v + 1 <= L
      <3>1. PICK r \in {instr.dst, instr.src} : r \in S!Registers /\ v <= asic_latencies[r]
        BY <1>7
      <3>2. v \in Nat
        BY <1>1, <1>10 DEF Operands
      <3>3. CASE r = instr.dst
        BY <1>6, <1>12, <3>1, <3>2, <3>3
      <3>4. CASE r = instr.src /\ instr.dst # instr.src
        BY <1>6, <1>12, <3>1, <3>2, <3>4
      <3> QED BY <3>1, <3>3, <3>4
    <2>2. L >= 1
      BY <1>6, <1>12
    <2> QED BY <1>7, <1>12, <2>1, <2>2
  <1>14. LatencyTypes'
    <2>1. code' \in Seq(S!Instructions)
      BY <1>4 DEF LatencyTypes
    <2>2. asic_latencies' \in [S!Registers \cup {S!NoRegister} -> Nat]
      <3> HIDE DEF L
      <3>1. asic_latencies' = asic_latencies
                \/ asic_latencies' = [asic_latencies EXCEPT ![instr.dst] = L]
        BY DEF S!Account, L
      <3> QED BY <1>12, <3>1 DEF LatencyTypes
    <2> QED BY <2>1, <2>2 DEF LatencyTypes, S!Registers, S!NoRegister, S!Instructions
  <1>15. /\ \A r \in S!Registers : r # instr.dst => asic_latencies'[r] = asic_latencies[r]
         /\ instr.dst # S!NoRegister => asic_latencies'[instr.dst] = L
    <2> HIDE DEF L
    <2>1. CASE instr.dst = S!NoRegister
      BY <1>5, <2>1 DEF S!Account
    <2>2. CASE instr.dst # S!NoRegister
      <3>1. asic_latencies' = [asic_latencies EXCEPT ![instr.dst] = L]
        BY <2>2 DEF S!Account, L
      <3> QED BY <1>5, <2>2, <3>1 DEF LatencyTypes
    <2> QED BY <2>1, <2>2
  <1> HIDE DEF L
  <1>16. ASSUME NEW k \in 1 .. n + 1, code'[k].dst # S!NoRegister
         PROVE  e[k] <= asic_latencies'[code'[k].dst]
    <2>1. CASE k = n + 1
      BY <1>9, <1>10, <1>13, <1>15, <1>16, <2>1
    <2>2. CASE k \in 1 .. n
      <3>1. code'[k] = code[k] /\ e[k] = d[k] /\ d[k] \in Nat
        BY <1>9, <1>10, <2>2
      <3>2. d[k] <= asic_latencies[code[k].dst]
        BY <1>1, <1>16, <2>2, <3>1 DEF Latencies
      <3>3. code[k].dst \in S!Registers
        BY <1>9, <1>16, <2>2, <3>1, InstructionTypes
      <3>4. CASE code[k].dst = instr.dst
        BY <1>6, <1>12, <1>15, <1>16, <3>1, <3>2, <3>4
      <3>5. CASE code[k].dst # instr.dst
        BY <1>15, <3>1, <3>2, <3>3, <3>5
      <3> QED BY <3>4, <3>5
    <2> QED BY <1>11, <2>1, <2>2
  <1>17. ASSUME NoConstants', NEW r \in S!Registers
         PROVE  \/ asic_latencies'[r] = 0
                \/ \E k \in 1 .. n + 1 : LastWriter(k, r)' /\ e[k] = asic_latencies'[r]
    <2>1. NoConstants /\ (instr.src = S!NoRegister => instr.dst = S!NoRegister)
      BY <1>9, <1>17
    <2>2. \A q \in S!Registers :
            \/ asic_latencies[q] = 0
            \/ \E k \in 1 .. n : LastWriter(k, q) /\ d[k] = asic_latencies[q]
      BY <1>1, <2>1 DEF Latencies
    <2>3. CASE r # instr.dst
      <3>1. asic_latencies'[r] = asic_latencies[r]
        BY <1>15, <2>3
      <3>2. CASE asic_latencies[r] = 0
        BY <3>1, <3>2
      <3>3. ASSUME NEW k \in 1 .. n, LastWriter(k, r), d[k] = asic_latencies[r]
            PROVE  k \in 1 .. n + 1 /\ LastWriter(k, r)' /\ e[k] = asic_latencies'[r]
        <4>1. LastWriter(k, r)'
          BY <1>9, <2>3, <3>3
        <4> QED BY <1>9, <1>10, <3>1, <3>3, <4>1
      <3> QED BY <2>2, <3>2, <3>3
    <2>4. CASE r = instr.dst
      <3>1. instr.dst \in S!Registers /\ instr.src \in S!Registers
        BY <1>5, <2>1, <2>4
      <3>2. ASSUME NEW q \in {instr.dst, instr.src} PROVE asic_latencies[q] + 1 <= c
        <4>1. CASE asic_latencies[q] = 0
          BY <1>7, <4>1
        <4>2. ASSUME NEW k \in 1 .. n, LastWriter(k, q), d[k] = asic_latencies[q]
              PROVE  asic_latencies[q] + 1 <= c
          <5>1. code[k].dst = q /\ q # S!NoRegister
            BY <1>5, <3>1, <4>2 DEF LastWriter
          <5>2. d[k] \in Operands(d, instr)
            BY <1>1, <4>2, <5>1 DEF Operands
          <5> QED BY <1>7, <4>2, <5>2
        <4>3. q \in S!Registers
          BY <3>1
        <4> QED BY <2>2, <4>1, <4>2, <4>3
      <3>3. L <= c
        BY <1>12, <3>2
      <3>4. c = L
        BY <1>7, <1>12, <1>13, <3>3
      <3>5. LastWriter(n + 1, r)'
        BY <1>9, <2>4
      <3>6. e[n + 1] = asic_latencies'[r] /\ n + 1 \in 1 .. n + 1
        BY <1>5, <1>9, <1>10, <1>15, <2>4, <3>1, <3>4
      <3> QED BY <3>5, <3>6
    <2> QED BY <2>3, <2>4
  <1>18. Latencies(e)'
    <2>1. 1 .. Len(code)' = 1 .. n + 1
      BY <1>9
    <2> QED BY <1>16, <1>17, <2>1 DEF Latencies, S!NoRegister, S!Registers
  <1> QED BY <1>8, <1>14, <1>18

LEMMA AccountedHolds == ComputationsSpec => []Accounted
  <1>1. ComputationsInit => Accounted
    <2> SUFFICES ASSUME ComputationsInit, subject = "statistics"
                 PROVE  /\ LatencyTypes /\ asic_latency = S!NotComputed
                        /\ \E d : Depths(d) /\ Latencies(d)
      BY DEF Accounted
    <2>1. S!Init
      BY DEF ComputationsInit
    <2>2. Stale \subseteq Nat /\ S!NoRegister \notin S!Registers
      BY InstancesAssumption DEF S!StatisticsAssumption, S!Registers, S!NoRegister
    <2>3. code = << >> /\ Len(code) = 0 /\ 1 .. Len(code) = {}
      BY <2>1 DEF S!Init
    <2>4. /\ asic_latencies \in [S!Registers \cup {S!NoRegister} -> Nat]
          /\ \A r \in S!Registers : asic_latencies[r] = 0
      BY <2>1, <2>2 DEF S!Init
    <2>5. LatencyTypes
      BY <2>3, <2>4 DEF LatencyTypes
    <2> DEFINE d == [k \in 1 .. Len(code) |-> 0]
    <2>6. Depths(d)
      BY <2>3 DEF Depths
    <2>7. Latencies(d)
      BY <2>3, <2>4 DEF Latencies
    <2> QED BY <2>1, <2>5, <2>6, <2>7 DEF S!Init
  <1>2. Accounted /\ [ComputationsNext]_<<subject, vars, bytes, statistics, stream>> => Accounted'
    <2> SUFFICES ASSUME Accounted, subject' = subject, subject = "statistics",
                        [S!Next]_statistics
                 PROVE  Accounted'
      BY Steps DEF Accounted
    <2>1. PICK d : Depths(d) /\ Latencies(d)
      BY DEF Accounted
    <2>2. LatencyTypes
      BY DEF Accounted
    <2>3. ASSUME NEW instr \in S!Instructions, S!Account(instr) PROVE Accounted'
      <3>1. LatencyTypes' /\ \E e : Depths(e)' /\ Latencies(e)'
        BY <2>1, <2>2, <2>3, AccountStep
      <3>2. asic_latency' = S!NotComputed
        BY <2>3 DEF S!Account
      <3> QED BY <3>1, <3>2 DEF Accounted, S!NotComputed
    <2>4. ASSUME code' = code, asic_latencies' = asic_latencies
          PROVE  LatencyTypes' /\ Depths(d)' /\ Latencies(d)'
      <3>1. LatencyTypes'
        BY <2>2, <2>4 DEF LatencyTypes, S!Registers, S!NoRegister, S!Instructions
      <3>2. Latencies(d)'
        BY <2>1, <2>4 DEF Latencies, LastWriter, NoConstants, S!Registers, S!NoRegister
      <3>3. ASSUME NEW k PROVE Inputs(d, k)' = Inputs(d, k)
        <4>1. \A j : S!DependsOn(k, j)' <=> S!DependsOn(k, j)
          BY <2>4 DEF S!DependsOn, S!NoRegister
        <4>2. \A v : v \in Inputs(d, k)' <=> \E j \in 1 .. k - 1 : S!DependsOn(k, j)' /\ v = d[j]
          BY DEF Inputs
        <4>3. \A v : v \in Inputs(d, k) <=> \E j \in 1 .. k - 1 : S!DependsOn(k, j) /\ v = d[j]
          BY DEF Inputs
        <4>4. \A v : v \in Inputs(d, k)' <=> v \in Inputs(d, k)
          BY <4>1, <4>2, <4>3
        <4> QED BY <4>4, Zenon
      <3>4. Depths(d)'
        <4>1. \A k \in 1 .. Len(code)' : d[k] = 1 + S!Max({0} \cup Inputs(d, k)')
          BY <2>1, <2>4, <3>3 DEF Depths
        <4>2. d \in [1 .. Len(code)' -> Nat]
          BY <2>1, <2>4 DEF Depths
        <4> QED BY <4>1, <4>2 DEF Depths, S!Max
      <3> QED BY <3>1, <3>2, <3>4
    <2>5. CASE S!Finish
      <3>1. LatencyTypes' /\ \E e : Depths(e)' /\ Latencies(e)'
        BY <2>4, <2>5 DEF S!Finish
      <3>2. asic_latency' = S!Max({0} \cup {asic_latencies'[r] : r \in S!Registers})
        BY <2>5 DEF S!Finish
      <3> QED BY <3>1, <3>2 DEF Accounted, S!Registers, S!Max
    <2>6. CASE UNCHANGED statistics
      <3>1. LatencyTypes' /\ \E e : Depths(e)' /\ Latencies(e)'
        BY <2>4, <2>6 DEF statistics
      <3>2. asic_latency' # S!NotComputed =>
                asic_latency' = S!Max({0} \cup {asic_latencies'[r] : r \in S!Registers})
        BY <2>6 DEF statistics, Accounted
      <3> QED BY <3>1, <3>2 DEF Accounted, S!Registers, S!Max, S!NotComputed
    <2> QED BY <2>3, <2>5, <2>6 DEF S!Next, S!Finished, S!vars, statistics
  <1> QED BY <1>1, <1>2, PTL DEF ComputationsSpec

LEMMA NothingComputed == ComputationsSpec => [](subject # "statistics" => asic_latency = S!NotComputed)
  <1>1. ComputationsInit => (subject # "statistics" => asic_latency = S!NotComputed)
    BY DEF ComputationsInit, NoStatistics
  <1>2. /\ subject # "statistics" => asic_latency = S!NotComputed
        /\ [ComputationsNext]_<<subject, vars, bytes, statistics, stream>>
        => (subject # "statistics" => asic_latency = S!NotComputed)'
    BY DEF ComputationsNext, WordsStep, BytesStep, StreamStep, StatisticsStep, statistics,
       S!NotComputed
  <1> QED BY <1>1, <1>2, PTL DEF ComputationsSpec

\* The depths are unique: an instruction waits for earlier ones only.
LEMMA DoneIsDepths ==
    ASSUME NEW d, Depths(d), LatencyTypes
    PROVE  S!Done = d
  <1> DEFINE Good(h) == h = [k \in 1 .. Len(code) |->
                1 + S!Max({0} \cup {h[j] : j \in {j \in 1 .. k - 1 : S!DependsOn(k, j)}})]
  <1>1. Good(d)
    BY DEF Depths, Inputs
  <1>2. S!Done = CHOOSE h : Good(h)
    BY DEF S!Done
  <1>3. Good(S!Done)
    <2> HIDE DEF Good
    <2> QED BY <1>1, <1>2
  <1>4. ASSUME NEW h, Good(h) PROVE h = d
    <2> DEFINE T == {k \in 1 .. Len(code) : h[k] # d[k]}
    <2>0. Len(code) \in Nat
      BY DEF LatencyTypes
    <2>1. T = {}
      <3> SUFFICES ASSUME T # {} PROVE FALSE
        OBVIOUS
      <3>1. T \subseteq Nat
        BY <2>0
      <3>2. PICK k \in T : \A m \in T : k <= m
        BY <3>1, LeastNumber
      <3>3. \A j \in 1 .. k - 1 : h[j] = d[j]
        BY <2>0, <3>2
      <3>4. {h[j] : j \in {j \in 1 .. k - 1 : S!DependsOn(k, j)}} = Inputs(d, k)
        <4> DEFINE J == {j \in 1 .. k - 1 : S!DependsOn(k, j)}
        <4>1. \A j \in J : h[j] = d[j]
          BY <3>3
        <4>2. Inputs(d, k) = {d[j] : j \in J}
          BY DEF Inputs
        <4> HIDE DEF J
        <4>3. {h[j] : j \in J} = Inputs(d, k)
          BY <4>1, <4>2
        <4> QED BY <4>3 DEF J
      <3>5. k \in 1 .. Len(code) /\ h[k] # d[k]
        BY <3>2
      <3>6. h[k] = 1 + S!Max({0} \cup {h[j] : j \in {j \in 1 .. k - 1 : S!DependsOn(k, j)}})
        BY <1>4, <3>5
      <3>7. d[k] = 1 + S!Max({0} \cup Inputs(d, k))
        BY <3>5 DEF Depths
      <3> QED BY <3>4, <3>5, <3>6, <3>7
    <2>2. DOMAIN h = 1 .. Len(code) /\ h = [k \in DOMAIN h |-> h[k]]
      BY <1>4
    <2>3. d = [k \in 1 .. Len(code) |-> d[k]]
      BY DEF Depths
    <2> QED BY <2>1, <2>2, <2>3
  <1> HIDE DEF Good
  <1> QED BY <1>3, <1>4

\* The ASIC latency of a program is the length of the longest chain of
\* operations in it, for programs of any length over any number of registers:
\* never less, and no more unless an instruction has a constant.
THEOREM LatencyAlwaysDepth == ComputationsSpec => []ExactWithoutConstants
  <1>1. ASSUME Accounted, subject = "statistics", asic_latency # S!NotComputed
        PROVE  S!ExactWithoutConstants
    <2> DEFINE A == {asic_latencies[r] : r \in S!Registers}
    <2>1. PICK d : Depths(d) /\ Latencies(d)
      BY <1>1 DEF Accounted
    <2>2. LatencyTypes /\ asic_latency = S!Max({0} \cup A)
      BY <1>1 DEF Accounted
    <2> DEFINE D == {d[k] : k \in {k \in 1 .. Len(code) : code[k].dst # S!NoRegister}}
    <2>3. S!DataflowDepth = S!Max({0} \cup D)
      BY <2>1, <2>2, DoneIsDepths DEF S!DataflowDepth
    <2>4. RegisterCount \in Nat /\ S!Registers = 0 .. RegisterCount - 1
      BY InstancesAssumption DEF S!StatisticsAssumption, S!Registers
    <2>5. \A r \in S!Registers : asic_latencies[r] \in Nat
      BY <2>2 DEF LatencyTypes
    <2>6. PICK b \in Nat : \A r \in S!Registers : asic_latencies[r] <= b
      BY <2>4, <2>5, RegistersBounded
    <2>7. /\ asic_latency \in {0} \cup A
          /\ asic_latency \in Nat
          /\ \A v \in {0} \cup A : v <= asic_latency
      <3>1. A \subseteq Nat /\ \A v \in A : v <= b
        BY <2>5, <2>6
      <3> HIDE DEF A
      <3> QED BY <2>2, <3>1, MaxFacts
    <2>8. ASSUME NEW v \in D PROVE v \in Nat /\ v <= asic_latency
      <3>1. PICK k \in 1 .. Len(code) : code[k].dst # S!NoRegister /\ v = d[k]
        OBVIOUS
      <3>2. code[k].dst \in S!Registers
        BY <2>2, <3>1, InstructionTypes DEF LatencyTypes
      <3>3. d[k] \in Nat /\ d[k] <= asic_latencies[code[k].dst]
        BY <2>1, <3>1 DEF Depths, Latencies
      <3>4. asic_latencies[code[k].dst] \in A
        BY <3>2
      <3>5. asic_latencies[code[k].dst] <= asic_latency /\ asic_latencies[code[k].dst] \in Nat
        BY <2>5, <2>7, <3>2, <3>4
      <3> QED BY <2>7, <3>1, <3>3, <3>5
    <2>9. /\ S!DataflowDepth \in {0} \cup D
          /\ S!DataflowDepth \in Nat
          /\ \A v \in {0} \cup D : v <= S!DataflowDepth
      <3>1. D \subseteq Nat /\ \A v \in D : v <= asic_latency
        BY <2>8
      <3> HIDE DEF D
      <3> QED BY <2>3, <2>7, <3>1, MaxFacts
    <2>10. asic_latency >= S!DataflowDepth
      BY <2>7, <2>8, <2>9
    <2>11. ASSUME NoConstants PROVE asic_latency = S!DataflowDepth
      <3>1. CASE asic_latency = 0
        BY <2>9, <2>10, <3>1
      <3>2. ASSUME NEW r \in S!Registers, asic_latency = asic_latencies[r], asic_latency # 0
            PROVE  asic_latency <= S!DataflowDepth
        <4>1. PICK k \in 1 .. Len(code) : LastWriter(k, r) /\ d[k] = asic_latencies[r]
          BY <2>1, <2>11, <3>2 DEF Latencies
        <4>2. code[k].dst # S!NoRegister
          BY <4>1, <2>4 DEF LastWriter, S!NoRegister
        <4>3. d[k] \in D
          BY <4>2
        <4> QED BY <2>9, <3>2, <4>1, <4>3
      <3> QED BY <2>7, <2>9, <2>10, <3>1, <3>2
    <2> QED BY <2>10, <2>11 DEF S!ExactWithoutConstants, NoConstants
  <1>2. Accounted /\ (subject # "statistics" => asic_latency = S!NotComputed)
            => ExactWithoutConstants
    BY <1>1 DEF ExactWithoutConstants, S!ExactWithoutConstants
  <1> QED BY <1>2, AccountedHolds, NothingComputed, PTL

=============================================================================
