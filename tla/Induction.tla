----------------------------- MODULE Induction -----------------------------
(****************************************************************************)
(* Induction for the proof modules, over sets instead of predicates.        *)
(*                                                                          *)
(* The library's induction theorems take the predicate as a parameter; these*)
(* take the set of what satisfies it, so that a proof can cite them by name.*)
(* All of them come from one fact: a set of natural numbers that is not     *)
(* empty has a least element.                                               *)
(****************************************************************************)
EXTENDS Integers, FiniteSets, FiniteSetTheorems, WellFoundedInduction, TLAPS

\* The least number of a set.
LEMMA LeastNumber ==
    ASSUME NEW T, T \subseteq Nat, T # {}
    PROVE  \E n \in T : \A m \in T : n <= m
<1> DEFINE R == OpToRel(<, Nat)
<1>1. IsWellFoundedOn(R, Nat)
  BY NatLessThanWellFounded
<1>2. \A a, b \in Nat : <<a, b>> \in R <=> a < b
  BY DEF OpToRel
<1> HIDE DEF R
<1>3. PICK n \in T : \A m \in T : ~(<<m, n>> \in R)
  BY <1>1, WFMin, Zenon
<1>4. \A m \in T : ~(m < n)
  BY <1>2, <1>3, Zenon
<1>5. n \in Nat /\ \A m \in T : m \in Nat
  BY Zenon
<1> QED BY <1>4, <1>5

\* What holds of 0 and passes on to the next number holds of all.
LEMMA NumbersInduction ==
    ASSUME NEW T, T \subseteq Nat, 0 \in T, \A n \in T : n + 1 \in T
    PROVE  T = Nat
<1> SUFFICES ASSUME T # Nat PROVE FALSE
  OBVIOUS
<1>1. PICK n \in Nat \ T : \A m \in Nat \ T : n <= m
  <2>1. Nat \ T # {} /\ Nat \ T \subseteq Nat
    OBVIOUS
  <2> QED BY <2>1, LeastNumber
<1>2. n # 0 /\ n - 1 \in T
  BY <1>1
<1> QED BY <1>1, <1>2

\* A search upwards from a finds the first element of T, or ends at b.
LEMMA FirstFrom ==
    ASSUME NEW a \in Nat, NEW b \in Nat, a <= b, NEW T
    PROVE  \E k \in a .. b : /\ \A j \in a .. k - 1 : j \notin T
                             /\ k < b => k \in T
<1> DEFINE Ends == {k \in a .. b : k = b \/ k \in T}
<1>1. Ends \subseteq Nat /\ b \in Ends
  OBVIOUS
<1>2. PICK k \in Ends : \A j \in Ends : k <= j
  BY <1>1, LeastNumber
<1>3. \A j \in a .. k - 1 : j \notin T
  BY <1>1, <1>2
<1> QED BY <1>1, <1>2, <1>3

\* What holds of the empty set, and of a set if of the set without any one of its
\* elements, holds of every finite set.
LEMMA FiniteInduction ==
    ASSUME NEW D, IsFiniteSet(D), NEW Q, {} \in Q,
           \A s \in SUBSET D : s # {} /\ (\A x \in s : s \ {x} \in Q) => s \in Q
    PROVE  D \in Q
<1> SUFFICES ASSUME D \notin Q PROVE FALSE
  OBVIOUS
<1> DEFINE Others == {s \in SUBSET D : s \notin Q}
           T == {Cardinality(s) : s \in Others}
<1>1. \A s \in SUBSET D : IsFiniteSet(s) /\ Cardinality(s) \in Nat
  BY FS_Subset, FS_CardinalityType
<1>2. T \subseteq Nat /\ T # {}
  BY <1>1
<1>3. PICK n \in T : \A m \in T : n <= m
  BY <1>2, LeastNumber
<1>4. PICK s \in Others : n = Cardinality(s)
  BY <1>3
<1>5. s \in SUBSET D /\ s \notin Q /\ s # {}
  BY <1>4
<1>6. ASSUME NEW x \in s PROVE s \ {x} \in Q
  <2>1. s \ {x} \in SUBSET D /\ Cardinality(s \ {x}) = n - 1 /\ n \in Nat
    BY <1>1, <1>4, <1>5, FS_RemoveElement
  <2>2. SUFFICES ASSUME s \ {x} \notin Q PROVE FALSE
    OBVIOUS
  <2>3. n - 1 \in T
    BY <2>1, <2>2
  <2> QED BY <1>3, <2>1, <2>3
<1> QED BY <1>5, <1>6

\* A function can be applied again and again: what the recursive functions over
\* the numbers need to exist.
LEMMA Iterates ==
    ASSUME NEW S, NEW a \in S, NEW f \in [S -> S]
    PROVE  \E h \in [Nat -> S] : h[0] = a /\ \A n \in Nat : h[n + 1] = f[h[n]]
<1> DEFINE Path(n, g) == /\ g \in [0 .. n -> S] /\ g[0] = a
                         /\ \A k \in 0 .. n - 1 : g[k + 1] = f[g[k]]
           T == {n \in Nat : \E g : Path(n, g)}
<1>1. 0 \in T
  <2>1. Path(0, [k \in 0 .. 0 |-> a])
    OBVIOUS
  <2> QED BY <2>1
<1>2. ASSUME NEW n \in T PROVE n + 1 \in T
  <2>1. PICK g : Path(n, g)
    OBVIOUS
  <2> DEFINE longer == [k \in 0 .. n + 1 |-> IF k = n + 1 THEN f[g[n]] ELSE g[k]]
  <2>2. n \in Nat /\ g[n] \in S
    BY <2>1
  <2>3. longer \in [0 .. n + 1 -> S] /\ longer[0] = a
    BY <2>1, <2>2
  <2>4. ASSUME NEW k \in 0 .. (n + 1) - 1 PROVE longer[k + 1] = f[longer[k]]
    BY <2>1, <2>2
  <2>5. Path(n + 1, longer)
    <3> HIDE DEF longer
    <3> QED BY <2>3, <2>4
  <2>6. \E g1 : Path(n + 1, g1)
    <3> HIDE DEF Path, longer
    <3> QED BY <2>5
  <2> QED BY <2>2, <2>6
<1>3. T = Nat
  <2> HIDE DEF T
  <2>1. T \subseteq Nat
    BY DEF T
  <2> QED BY <1>1, <1>2, <2>1, NumbersInduction
<1>4. ASSUME NEW n \in Nat, NEW g, NEW h, Path(n, g), Path(n + 1, h)
      PROVE  h[n] = g[n]
  <2> DEFINE U == {k \in Nat : k <= n => h[k] = g[k]}
  <2>1. 0 \in U
    BY <1>4
  <2>2. ASSUME NEW k \in U PROVE k + 1 \in U
    BY <1>4, <2>2
  <2>3. U = Nat
    <3> HIDE DEF U
    <3>1. U \subseteq Nat
      BY DEF U
    <3> QED BY <2>1, <2>2, <3>1, NumbersInduction
  <2> QED BY <2>3
<1> DEFINE path(n) == CHOOSE g : Path(n, g)
           h == [n \in Nat |-> path(n)[n]]
<1>5. \A n \in Nat : Path(n, path(n))
  <2> HIDE DEF Path
  <2> QED BY <1>3
<1> HIDE DEF path
<1>6. \A n \in Nat : path(n)[n] \in S /\ path(0)[0] = a
  BY <1>5
<1>7. \A n \in Nat : path(n + 1)[n + 1] = f[path(n)[n]]
  <2> SUFFICES ASSUME NEW n \in Nat PROVE path(n + 1)[n + 1] = f[path(n)[n]]
    OBVIOUS
  <2>1. Path(n, path(n)) /\ Path(n + 1, path(n + 1))
    BY <1>5
  <2>2. path(n + 1)[n] = path(n)[n]
    <3> HIDE DEF Path
    <3> QED BY <1>4, <2>1
  <2>3. path(n + 1)[n + 1] = f[path(n + 1)[n]]
    BY <2>1
  <2> QED BY <2>2, <2>3
<1>8. h \in [Nat -> S] /\ h[0] = a
  BY <1>6
<1>9. \A n \in Nat : h[n + 1] = f[h[n]]
  BY <1>7
<1> QED BY <1>8, <1>9
=============================================================================
