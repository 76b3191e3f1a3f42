--------------------------- MODULE CompilersProofs ---------------------------
(****************************************************************************)
(* The code of both compilers means what the program means: for programs of *)
(* any length, with any masks, on words of any width.                       *)
(****************************************************************************)
EXTENDS Compilers, Induction

-----------------------------------------------------------------------------
(* Places in a program.                                                     *)

\* Targets are passed over: what Skip returns is the only place there is.
LEMMA SkipIs ==
    ASSUME NEW prog, Len(prog) \in Nat, NEW n \in 0 .. Len(prog)
    PROVE  /\ Skip(prog, n) \in n .. Len(prog)
           /\ \A j \in n .. Skip(prog, n) - 1 : IsTarget(prog, j)
           /\ Skip(prog, n) < Len(prog) => ~IsTarget(prog, Skip(prog, n))
<1> DEFINE T == {j \in Nat : ~IsTarget(prog, j)}
<1>1. PICK k \in n .. Len(prog) :
        /\ \A j \in n .. k - 1 : j \notin T
        /\ k < Len(prog) => k \in T
  <2>1. n \in Nat /\ n <= Len(prog)
    OBVIOUS
  <2> HIDE DEF T
  <2> QED BY <2>1, FirstFrom
<1>2. /\ \A j \in n .. k - 1 : IsTarget(prog, j)
      /\ k < Len(prog) => ~IsTarget(prog, k)
  BY <1>1
<1> QED BY <1>1, <1>2 DEF Skip

LEMMA SkipUnique ==
    ASSUME NEW prog, Len(prog) \in Nat, NEW n \in 0 .. Len(prog), NEW k \in n .. Len(prog),
           \A j \in n .. k - 1 : IsTarget(prog, j),
           k < Len(prog) => ~IsTarget(prog, k)
    PROVE  Skip(prog, n) = k
<1> DEFINE m == Skip(prog, n)
<1>1. /\ m \in n .. Len(prog)
      /\ \A j \in n .. m - 1 : IsTarget(prog, j)
      /\ m < Len(prog) => ~IsTarget(prog, m)
  BY SkipIs
<1> HIDE DEF m
<1>2. ~(k < m) /\ ~(m < k)
  BY <1>1
<1> QED BY <1>1, <1>2 DEF m

LEMMA SkipStep ==
    ASSUME NEW prog, Len(prog) \in Nat, NEW n \in Nat, n < Len(prog)
    PROVE  /\ ~IsTarget(prog, n) => Skip(prog, n) = n
           /\ IsTarget(prog, n) => Skip(prog, n) = Skip(prog, n + 1)
<1>1. ASSUME ~IsTarget(prog, n) PROVE Skip(prog, n) = n
  BY <1>1, SkipUnique
<1>2. ASSUME IsTarget(prog, n) PROVE Skip(prog, n) = Skip(prog, n + 1)
  <2> DEFINE k == Skip(prog, n + 1)
  <2>1. /\ k \in n + 1 .. Len(prog)
        /\ \A j \in n + 1 .. k - 1 : IsTarget(prog, j)
        /\ k < Len(prog) => ~IsTarget(prog, k)
    BY SkipIs
  <2> HIDE DEF k
  <2>2. k \in n .. Len(prog) /\ \A j \in n .. k - 1 : IsTarget(prog, j)
    BY <1>2, <2>1
  <2> QED BY <2>1, <2>2, SkipUnique DEF k
<1> QED BY <1>1, <1>2

\* A branch goes behind the last target.
LEMMA LandingUnique ==
    ASSUME NEW prog, NEW n \in Nat, NEW k \in 0 .. n,
           k > 0 => IsTarget(prog, k),
           \A j \in k + 1 .. n : ~IsTarget(prog, j)
    PROVE  Landing(prog, n) = k
<1> DEFINE Is(l) == /\ l > 0 => IsTarget(prog, l)
                    /\ \A j \in l + 1 .. n : ~IsTarget(prog, j)
<1>1. \A l \in 0 .. n : Is(l) => l = k
  OBVIOUS
<1>2. Is(k)
  OBVIOUS
<1>3. Landing(prog, n) = CHOOSE l \in 0 .. n : Is(l)
  BY DEF Landing
<1> HIDE DEF Is
<1> QED BY <1>1, <1>2, <1>3

\* The instances have the operators of Encoding.
LEMMA SameOperators ==
    /\ OnX86!MultiplyHigh = MultiplyHigh /\ OnX86!Arithmetic = Arithmetic
    /\ OnX86!Opcodes = Opcodes
    /\ \A op : OnX86!x86_size(op) = x86_size(op)
    /\ \A prog, n : OnX86!Skip(prog, n) = Skip(prog, n)
    /\ OnA64!MultiplyHigh = MultiplyHigh /\ OnA64!Arithmetic = Arithmetic
    /\ OnA64!Opcodes = Opcodes
    /\ \A op : OnA64!a64_size(op) = a64_size(op)
    /\ \A prog, n : OnA64!Skip(prog, n) = Skip(prog, n)
    /\ Meaning!MultiplyHigh = MultiplyHigh /\ Meaning!Arithmetic = Arithmetic
    /\ \A prog, n : Meaning!Skip(prog, n) = Skip(prog, n)
    /\ \A prog, n : Meaning!Landing(prog, n) = Landing(prog, n)
<1>1. /\ OnX86!MultiplyHigh = MultiplyHigh /\ OnX86!Arithmetic = Arithmetic
      /\ OnA64!MultiplyHigh = MultiplyHigh /\ OnA64!Arithmetic = Arithmetic
      /\ Meaning!MultiplyHigh = MultiplyHigh /\ Meaning!Arithmetic = Arithmetic
  BY DEF OnX86!MultiplyHigh, OnX86!Arithmetic, OnA64!MultiplyHigh, OnA64!Arithmetic,
         Meaning!MultiplyHigh, Meaning!Arithmetic, MultiplyHigh, Arithmetic
<1>2. OnX86!Opcodes = Opcodes /\ OnA64!Opcodes = Opcodes
  BY <1>1 DEF OnX86!Opcodes, OnA64!Opcodes, Opcodes
<1>3. \A op : OnX86!x86_size(op) = x86_size(op)
  BY <1>1, <1>2 DEF OnX86!x86_size, x86_size
<1>4. \A op : OnA64!a64_size(op) = a64_size(op)
  BY <1>1, <1>2 DEF OnA64!a64_size, a64_size
<1>5. /\ \A prog, n : OnX86!Skip(prog, n) = Skip(prog, n)
      /\ \A prog, n : OnA64!Skip(prog, n) = Skip(prog, n)
  BY DEF OnX86!Skip, OnA64!Skip, Skip, OnX86!IsTarget, OnA64!IsTarget, IsTarget
<1>6. /\ \A prog, n : Meaning!Skip(prog, n) = Skip(prog, n)
      /\ \A prog, n : Meaning!Landing(prog, n) = Landing(prog, n)
  BY DEF Meaning!Skip, Meaning!Landing, Skip, Landing, Meaning!IsTarget, IsTarget
<1> QED BY <1>1, <1>2, <1>3, <1>4, <1>5, <1>6

LEMMA OpcodeFacts ==
    /\ MultiplyHigh \cap Arithmetic = {}
    /\ "TARGET" \notin MultiplyHigh \cup Arithmetic
    /\ "BRANCH" \notin MultiplyHigh \cup Arithmetic
    /\ \A op \in Opcodes : op \in MultiplyHigh \/ op \in Arithmetic \/ op = "TARGET" \/ op = "BRANCH"
BY DEF Opcodes, MultiplyHigh, Arithmetic

LEMMA X86Sizes ==
    /\ \A op \in MultiplyHigh : x86_size(op) = 9
    /\ \A op \in Arithmetic : x86_size(op) \in 3 .. 7
    /\ x86_size("TARGET") = 5 /\ x86_size("BRANCH") = 10
    /\ \A op \in Opcodes : x86_size(op) \in 3 .. 10
BY DEF x86_size, Opcodes, MultiplyHigh, Arithmetic

LEMMA A64Sizes ==
    /\ \A op \in MultiplyHigh \cup Arithmetic : a64_size(op) \in {4, 12}
    /\ a64_size("TARGET") = 0 /\ a64_size("BRANCH") = 24
    /\ \A op \in Opcodes : a64_size(op) \in {0, 4, 12, 24}
BY DEF a64_size, Opcodes, MultiplyHigh, Arithmetic

-----------------------------------------------------------------------------
(* Where the code of an instruction is.                                     *)

Op(prog, k) == prog[k + 1].opcode

\* t is the last target before index k.
LastTarget(prog, k, t) ==
    /\ t \in 0 .. k - 1
    /\ Op(prog, t) = "TARGET"
    /\ \A j \in t + 1 .. k - 1 : Op(prog, j) # "TARGET"

\* A target leaves the last target before what follows, and nothing else does.
LEMMA LastTargetStep ==
    ASSUME NEW prog, NEW n \in Nat
    PROVE  /\ Op(prog, n) = "TARGET" => LastTarget(prog, n + 1, n)
           /\ Op(prog, n) # "TARGET" =>
                \A t : LastTarget(prog, n, t) => LastTarget(prog, n + 1, t)
BY DEF LastTarget

LEMMA LandsBehindTarget ==
    ASSUME NEW prog, NEW n \in Nat, Op(prog, n) = "BRANCH", NEW t, LastTarget(prog, n, t)
    PROVE  Landing(prog, n) = t
<1>1. t \in 0 .. n /\ IsTarget(prog, t)
  BY DEF LastTarget, IsTarget, Op
<1>2. \A j \in t + 1 .. n : ~IsTarget(prog, j)
  BY DEF LastTarget, IsTarget, Op
<1> QED BY <1>1, <1>2, LandingUnique

\* The position of every instruction's code, and of what follows the last.
Starts(from, size, prog) ==
    CHOOSE s \in [0 .. Len(prog) -> Nat] :
        /\ s[0] = from
        /\ \A k \in 0 .. Len(prog) - 1 : s[k + 1] = s[k] + size[Op(prog, k)]

LEMMA StartsFacts ==
    ASSUME NEW from \in Nat, NEW size \in [Opcodes -> Nat],
           NEW prog, Len(prog) \in Nat, \A k \in 0 .. Len(prog) - 1 : Op(prog, k) \in Opcodes,
           NEW s, s = Starts(from, size, prog)
    PROVE  /\ s \in [0 .. Len(prog) -> Nat]
           /\ s[0] = from
           /\ \A k \in 0 .. Len(prog) - 1 : s[k + 1] = s[k] + size[Op(prog, k)]
           /\ \A j, k \in 0 .. Len(prog) : j <= k => s[j] <= s[k]
<1> DEFINE Is(f, n) == /\ f \in [0 .. n -> Nat]
                       /\ f[0] = from
                       /\ \A k \in 0 .. n - 1 : f[k + 1] = f[k] + size[Op(prog, k)]
           T == {n \in Nat : n <= Len(prog) => \E f : Is(f, n)}
<1>1. 0 \in T
  <2> DEFINE f == [k \in 0 .. 0 |-> from]
  <2>1. f \in [0 .. 0 -> Nat] /\ f[0] = from
    OBVIOUS
  <2> HIDE DEF f
  <2>2. Is(f, 0)
    BY <2>1
  <2> HIDE DEF Is
  <2> QED BY <2>2
<1>2. ASSUME NEW n \in T PROVE n + 1 \in T
  <2>1. SUFFICES ASSUME n + 1 <= Len(prog) PROVE \E f : Is(f, n + 1)
    <3> HIDE DEF Is
    <3> QED OBVIOUS
  <2>2. PICK f : Is(f, n)
    BY <2>1
  <2> DEFINE g == [k \in 0 .. n + 1 |-> IF k = n + 1 THEN f[n] + size[Op(prog, n)] ELSE f[k]]
  <2>3. n \in Nat /\ f[n] \in Nat /\ size[Op(prog, n)] \in Nat
    BY <2>1, <2>2
  <2>4. g \in [0 .. n + 1 -> Nat] /\ g[0] = from /\ g[n + 1] = f[n] + size[Op(prog, n)]
        /\ \A k \in 0 .. n : g[k] = f[k]
    BY <2>2, <2>3
  <2> HIDE DEF g
  <2>5. ASSUME NEW k \in 0 .. (n + 1) - 1 PROVE g[k + 1] = g[k] + size[Op(prog, k)]
    <3>1. CASE k = n
      BY <2>3, <2>4, <3>1
    <3>2. CASE k # n
      BY <2>2, <2>3, <2>4, <3>2
    <3> QED BY <3>1, <3>2
  <2>6. Is(g, n + 1)
    BY <2>4, <2>5
  <2> QED BY <2>6
<1>3. T = Nat
  <2> HIDE DEF T
  <2>1. T \subseteq Nat
    BY DEF T
  <2> QED BY <1>1, <1>2, <2>1, NumbersInduction
<1>4. Is(s, Len(prog))
  <2>1. \E f : Is(f, Len(prog))
    <3>1. Len(prog) \in T
      BY <1>3
    <3> HIDE DEF Is
    <3> QED BY <3>1
  <2> QED BY <2>1 DEF Starts
<1>5. ASSUME NEW j \in 0 .. Len(prog), NEW k \in 0 .. Len(prog), j <= k PROVE s[j] <= s[k]
  <2> DEFINE U == {n \in Nat : j + n <= Len(prog) => s[j] <= s[j + n]}
  <2> HIDE DEF T
  <2>0. s \in [0 .. Len(prog) -> Nat] /\ s[j] \in Nat
    BY <1>4
  <2>1. 0 \in U
    BY <2>0
  <2>2. ASSUME NEW n \in U PROVE n + 1 \in U
    <3>1. SUFFICES ASSUME j + (n + 1) <= Len(prog) PROVE s[j] <= s[j + (n + 1)]
      OBVIOUS
    <3>2. n \in Nat /\ j + n \in 0 .. Len(prog) - 1 /\ s[j] <= s[j + n]
      BY <3>1
    <3>3. s[(j + n) + 1] = s[j + n] + size[Op(prog, j + n)]
      BY <1>4, <3>2
    <3>4. size[Op(prog, j + n)] \in Nat
      BY <3>2
    <3>5. s[j + n] \in Nat /\ s[j] \in Nat
      <4>1. j + n \in 0 .. Len(prog)
        BY <3>2
      <4> HIDE DEF U
      <4> QED BY <2>0, <4>1
    <3>6. (j + n) + 1 = j + (n + 1)
      BY <3>2
    <3> QED BY <3>2, <3>3, <3>4, <3>5, <3>6
  <2>3. U = Nat
    <3> HIDE DEF U
    <3>1. U \subseteq Nat
      BY DEF U
    <3> QED BY <2>1, <2>2, <3>1, NumbersInduction
  <2>4. k - j \in U /\ j + (k - j) = k
    <3> HIDE DEF U
    <3> QED BY <1>5, <2>3
  <2>5. j + (k - j) <= Len(prog) => s[j] <= s[j + (k - j)]
    BY <2>4
  <2> QED BY <2>4, <2>5
<1> QED BY <1>4, <1>5

Item(txt, p, item) == p \in DOMAIN txt /\ txt[p] = item

\* What is emitted behind everything else changes nothing before it.
Overlaid(txt, items) ==
    [p \in DOMAIN txt \cup DOMAIN items |->
        IF p \in DOMAIN items THEN items[p] ELSE txt[p]]

Within(txt, prog, end) ==
    \A p \in DOMAIN txt : p \in 0 .. end - 1 /\ txt[p].src \in 0 .. Len(prog)

LEMMA OverlaidFacts ==
    ASSUME NEW txt, NEW items, NEW prog, NEW n \in Nat, NEW end \in Nat, n <= end,
           Within(txt, prog, n),
           \A p \in DOMAIN items : p \in n .. end - 1 /\ items[p].src \in 0 .. Len(prog)
    PROVE  /\ \A p, item : Item(txt, p, item) => Item(Overlaid(txt, items), p, item)
           /\ \A p, item : Item(items, p, item) => Item(Overlaid(txt, items), p, item)
           /\ Within(Overlaid(txt, items), prog, end)
<1> DEFINE both == Overlaid(txt, items)
<1>1. /\ DOMAIN both = DOMAIN txt \cup DOMAIN items
      /\ \A p \in DOMAIN items : both[p] = items[p]
      /\ \A p \in DOMAIN txt : p \notin DOMAIN items => both[p] = txt[p]
  BY DEF Overlaid
<1>2. \A p \in DOMAIN txt : p \notin DOMAIN items /\ p \in 0 .. end - 1
  BY DEF Within
<1> HIDE DEF both
<1>3. /\ \A p, item : Item(txt, p, item) => Item(both, p, item)
      /\ \A p, item : Item(items, p, item) => Item(both, p, item)
  BY <1>1, <1>2 DEF Item
<1>4. Within(both, prog, end)
  BY <1>1, <1>2 DEF Within
<1> QED BY <1>3, <1>4 DEF both

-----------------------------------------------------------------------------
(* What the x86 compiler emits.                                             *)

X86Size == [op \in Opcodes |-> x86_size(op)]

X86Start(prog) == Starts(OnX86!x86_prologue(WINABI), X86Size, prog)

LEMMA X86Program ==
    ASSUME NEW prog \in Seq(OnX86!Instructions)
    PROVE  /\ Len(prog) \in Nat
           /\ \A k \in 0 .. Len(prog) - 1 :
                /\ Op(prog, k) \in Opcodes
                /\ prog[k + 1] \in OnX86!Instructions
                /\ prog[k + 1].imm32 \in SUBSET Bits
<1>1. Len(prog) \in Nat
  OBVIOUS
<1>2. ASSUME NEW k \in 0 .. Len(prog) - 1
      PROVE  prog[k + 1] \in OnX86!Instructions
  <2>1. k + 1 \in 1 .. Len(prog)
    BY <1>1
  <2> QED BY <2>1
<1> QED BY <1>1, <1>2, SameOperators DEF OnX86!Instructions, OnX86!Words, Op

LEMMA X86StartFacts ==
    ASSUME NEW prog \in Seq(OnX86!Instructions), NEW s, s = X86Start(prog)
    PROVE  /\ s \in [0 .. Len(prog) -> Nat]
           /\ s[0] = OnX86!x86_prologue(WINABI) /\ s[0] > 0
           /\ \A k \in 0 .. Len(prog) - 1 : s[k + 1] = s[k] + x86_size(Op(prog, k))
           /\ \A j, k \in 0 .. Len(prog) : j <= k => s[j] <= s[k]
<1>1. OnX86!x86_prologue(WINABI) \in Nat /\ OnX86!x86_prologue(WINABI) > 0
  BY DEF OnX86!x86_prologue
<1>2. X86Size \in [Opcodes -> Nat]
  BY X86Sizes DEF X86Size
<1>3. Len(prog) \in Nat /\ \A k \in 0 .. Len(prog) - 1 : Op(prog, k) \in Opcodes
  BY X86Program
<1>4. /\ s \in [0 .. Len(prog) -> Nat]
      /\ s[0] = OnX86!x86_prologue(WINABI)
      /\ \A k \in 0 .. Len(prog) - 1 : s[k + 1] = s[k] + X86Size[Op(prog, k)]
      /\ \A j, k \in 0 .. Len(prog) : j <= k => s[j] <= s[k]
  BY <1>1, <1>2, <1>3, StartsFacts DEF X86Start
<1>5. \A k \in 0 .. Len(prog) - 1 : X86Size[Op(prog, k)] = x86_size(Op(prog, k))
  BY <1>3 DEF X86Size
<1> QED BY <1>1, <1>4, <1>5

\* The sum of the sizes in between is the distance of the code.
LEMMA BetweenIsDistance ==
    ASSUME NEW prog \in Seq(OnX86!Instructions), NEW s, s = X86Start(prog),
           NEW j \in 1 .. Len(prog), NEW k \in j .. Len(prog)
    PROVE  OnX86!Between(prog, j, k) = s[k - 1] - s[j - 1]
<1> DEFINE Is(f) == f = [n \in j .. k |->
                            IF n = j THEN 0
                            ELSE f[n - 1] + OnX86!x86_size(prog[n - 1].opcode)]
           sum == CHOOSE f : Is(f)
           d == [n \in j .. k |-> s[n - 1] - s[j - 1]]
<1>1. /\ Len(prog) \in Nat /\ j \in Nat /\ k \in Nat /\ j <= k
      /\ \A n \in 0 .. Len(prog) : s[n] \in Nat
      /\ \A n \in 0 .. Len(prog) - 1 : s[n + 1] = s[n] + x86_size(Op(prog, n))
  <2>1. s \in [0 .. Len(prog) -> Nat]
    BY X86StartFacts
  <2>2. \A n \in 0 .. Len(prog) - 1 : s[n + 1] = s[n] + x86_size(Op(prog, n))
    BY X86StartFacts
  <2> QED BY <2>1, <2>2
<1>2. \A n \in j .. k : n # j =>
        s[n - 1] = s[n - 2] + OnX86!x86_size(prog[n - 1].opcode)
  <2> SUFFICES ASSUME NEW n \in j .. k, n # j
               PROVE  s[n - 1] = s[n - 2] + OnX86!x86_size(prog[n - 1].opcode)
    OBVIOUS
  <2>1. n - 2 \in 0 .. Len(prog) - 1 /\ (n - 2) + 1 = n - 1
    BY <1>1
  <2>2. s[(n - 2) + 1] = s[n - 2] + x86_size(Op(prog, n - 2))
    BY <1>1, <2>1
  <2>3. Op(prog, n - 2) = prog[n - 1].opcode
    BY <2>1 DEF Op
  <2> QED BY <2>1, <2>2, <2>3, SameOperators
<1>3. Is(d)
  <2>1. ASSUME NEW n \in j .. k, n # j
        PROVE  d[n] = d[n - 1] + OnX86!x86_size(prog[n - 1].opcode)
    <3>1. n - 1 \in j .. k /\ (n - 1) - 1 = n - 2 /\ n - 2 \in 0 .. Len(prog)
          /\ n - 1 \in 0 .. Len(prog) - 1 /\ j - 1 \in 0 .. Len(prog)
      BY <1>1, <2>1
    <3>2. d[n] = s[n - 1] - s[j - 1] /\ d[n - 1] = s[n - 2] - s[j - 1]
      BY <3>1
    <3>3. s[n - 1] = s[n - 2] + OnX86!x86_size(prog[n - 1].opcode)
      BY <1>2, <2>1
    <3>4. OnX86!x86_size(prog[n - 1].opcode) \in Int
      <4>1. (n - 2) + 1 = n - 1 /\ n - 2 \in 0 .. Len(prog) - 1
        BY <1>1, <2>1
      <4>2. Op(prog, n - 2) \in Opcodes /\ Op(prog, n - 2) = prog[n - 1].opcode
        BY <4>1, X86Program DEF Op
      <4> QED BY <4>2, X86Sizes, SameOperators
    <3>5. s[n - 2] \in Nat /\ s[j - 1] \in Nat
      BY <1>1, <3>1
    <3> HIDE DEF d
    <3> QED BY <3>2, <3>3, <3>4, <3>5
  <2>2. d[j] = 0
    <3>1. j \in j .. k /\ s[j - 1] \in Nat
      BY <1>1
    <3> QED BY <3>1
  <2>3. d = [n \in j .. k |-> d[n]]
    OBVIOUS
  <2> HIDE DEF d
  <2> QED BY <2>1, <2>2, <2>3
<1>4. Is(sum)
  <2> HIDE DEF Is, d
  <2> QED BY <1>3
<1>5. OnX86!Between(prog, j, k) = sum[k]
  BY DEF OnX86!Between
<1> HIDE DEF sum
<1>6. /\ sum[j] = 0
      /\ \A n \in j .. k : n # j =>
            sum[n] = sum[n - 1] + OnX86!x86_size(prog[n - 1].opcode)
  <2>1. \A n \in j .. k : sum[n] = IF n = j THEN 0
                            ELSE sum[n - 1] + OnX86!x86_size(prog[n - 1].opcode)
    BY <1>4
  <2> QED BY <1>1, <2>1
<1> DEFINE T == {n \in Nat : j + n <= k => sum[j + n] = s[j + n - 1] - s[j - 1]}
<1>7. 0 \in T
  BY <1>1, <1>6
<1>8. ASSUME NEW n \in T PROVE n + 1 \in T
  <2>1. SUFFICES ASSUME j + (n + 1) <= k
                 PROVE  sum[j + (n + 1)] = s[j + (n + 1) - 1] - s[j - 1]
    OBVIOUS
  <2> DEFINE m == j + (n + 1)
  <2>2. m \in j .. k /\ m # j /\ m - 1 = j + n /\ m - 2 = j + n - 1
        /\ m - 2 \in 0 .. Len(prog) - 1 /\ (m - 2) + 1 = m - 1 /\ j - 1 \in 0 .. Len(prog)
    BY <1>1, <2>1
  <2>3. sum[m - 1] = s[m - 2] - s[j - 1]
    BY <1>1, <2>1, <2>2
  <2>4. sum[m] = sum[m - 1] + OnX86!x86_size(prog[m - 1].opcode)
    <3> HIDE DEF m
    <3> QED BY <1>6, <2>2
  <2>5. s[m - 1] = s[m - 2] + OnX86!x86_size(prog[m - 1].opcode)
    <3> HIDE DEF m
    <3> QED BY <1>2, <2>2
  <2>6. s[m - 2] \in Nat /\ s[j - 1] \in Nat /\ OnX86!x86_size(prog[m - 1].opcode) \in Int
    <3>1. Op(prog, m - 2) \in Opcodes /\ Op(prog, m - 2) = prog[m - 1].opcode
      <4> HIDE DEF m
      <4> QED BY <2>2, X86Program DEF Op
    <3>2. s[m - 2] \in Nat /\ s[j - 1] \in Nat
      <4> HIDE DEF m
      <4> QED BY <1>1, <2>2
    <3> HIDE DEF m
    <3> QED BY <3>1, <3>2, X86Sizes, SameOperators
  <2>7. sum[m] = s[m - 1] - s[j - 1]
    <3> HIDE DEF m
    <3> QED BY <2>3, <2>4, <2>5, <2>6
  <2> QED BY <2>7
<1>9. T = Nat
  <2> HIDE DEF T
  <2>1. T \subseteq Nat
    BY DEF T
  <2> QED BY <1>7, <1>8, <2>1, NumbersInduction
<1>10. k - j \in T /\ j + (k - j) = k
  <2> HIDE DEF T
  <2> QED BY <1>1, <1>9
<1>11. sum[j + (k - j)] = s[j + (k - j) - 1] - s[j - 1]
  BY <1>1, <1>10
<1> QED BY <1>5, <1>10, <1>11

\* The target of a branch is near enough for the displacement's eight bits, and
\* there is a wide multiplication before it.
LEMMA BranchNear ==
    ASSUME NEW prog \in Seq(OnX86!Instructions), OnX86!X86Compilable(prog),
           NEW s, s = X86Start(prog),
           NEW n \in 0 .. Len(prog) - 1, Op(prog, n) = "BRANCH"
    PROVE  /\ \E t : LastTarget(prog, n, t)
           /\ \A t : LastTarget(prog, n, t) => s[t] - (s[n] + 8) \in -128 .. -1
           /\ \E w \in 0 .. n - 1 : Op(prog, w) \in MultiplyHigh
           /\ prog[n + 1].imm32 # {} /\ prog[n + 1].imm32 \subseteq Bits
<1>1. Len(prog) \in Nat /\ n + 1 \in 1 .. Len(prog) /\ n + 1 \in DOMAIN prog
  BY X86Program
<1>2. /\ prog[n + 1].imm32 # {}
      /\ \E j \in 1 .. n + 1 : prog[j].opcode \in MultiplyHigh
      /\ \E j \in 1 .. n + 1 :
            /\ prog[j].opcode = "TARGET"
            /\ \A l \in j + 1 .. n + 1 : prog[l].opcode # "TARGET"
            /\ OnX86!Between(prog, j, n + 1) + 8 <= 128
  BY <1>1, SameOperators DEF OnX86!X86Compilable, Op
<1>3. \E w \in 0 .. n - 1 : Op(prog, w) \in MultiplyHigh
  <2>1. PICK j \in 1 .. n + 1 : prog[j].opcode \in MultiplyHigh
    BY <1>2
  <2>2. j # n + 1
    BY <2>1, OpcodeFacts DEF Op
  <2>3. j - 1 \in 0 .. n - 1 /\ (j - 1) + 1 = j
    BY <2>1, <2>2
  <2> QED BY <2>1, <2>3 DEF Op
<1>4. PICK j \in 1 .. n + 1 :
        /\ prog[j].opcode = "TARGET"
        /\ \A l \in j + 1 .. n + 1 : prog[l].opcode # "TARGET"
        /\ OnX86!Between(prog, j, n + 1) + 8 <= 128
  BY <1>2
<1>5. j # n + 1
  BY <1>4 DEF Op
<1>6. j - 1 \in 0 .. n - 1 /\ (j - 1) + 1 = j
  BY <1>5
<1>7. LastTarget(prog, n, j - 1)
  <2>1. ASSUME NEW l \in (j - 1) + 1 .. n - 1 PROVE Op(prog, l) # "TARGET"
    <3>1. l + 1 \in j + 1 .. n + 1
      BY <1>6
    <3> QED BY <1>4, <3>1 DEF Op
  <2> QED BY <1>4, <1>6, <2>1 DEF LastTarget, Op
<1>8. ASSUME NEW t, LastTarget(prog, n, t) PROVE s[t] - (s[n] + 8) \in -128 .. -1
  <2>1. t = j - 1
    BY <1>6, <1>7, <1>8 DEF LastTarget
  <2>2. OnX86!Between(prog, j, n + 1) = s[n] - s[t]
    <3>1. j \in 1 .. Len(prog) /\ n + 1 \in j .. Len(prog) /\ (n + 1) - 1 = n
      BY <1>1
    <3>2. OnX86!Between(prog, j, n + 1) = s[(n + 1) - 1] - s[j - 1]
      BY <3>1, BetweenIsDistance
    <3> QED BY <2>1, <3>1, <3>2
  <2>3. s[t] \in Nat /\ s[n] \in Nat /\ s[t] <= s[n]
    <3>1. t \in 0 .. Len(prog) /\ n \in 0 .. Len(prog) /\ t <= n
      BY <1>1, <1>6, <2>1
    <3> QED BY <3>1, X86StartFacts
  <2>4. s[n] - s[t] + 8 <= 128
    <3>1. OnX86!Between(prog, j, n + 1) + 8 <= 128
      BY <1>4
    <3> QED BY <2>2, <3>1
  <2>5. \A a, b \in Nat : a <= b /\ b - a + 8 <= 128 => a - (b + 8) \in -128 .. -1
    OBVIOUS
  <2> QED BY <2>3, <2>4, <2>5
<1>9. prog[n + 1].imm32 \subseteq Bits
  BY X86Program
<1> QED BY <1>2, <1>3, <1>7, <1>8, <1>9

X86Code(prog, txt, s, k) ==
    /\ Op(prog, k) \in MultiplyHigh =>
        Item(txt, s[k], [op |-> "mul", src |-> k, next |-> s[k + 1]])
    /\ Op(prog, k) \in Arithmetic =>
        Item(txt, s[k], [op |-> "alu", src |-> k, next |-> s[k + 1]])
    /\ Op(prog, k) = "TARGET" =>
        /\ Item(txt, s[k], [op |-> "test_edi", src |-> k])
        /\ Item(txt, s[k] + 2, [op |-> "cmovz", src |-> k])
    /\ Op(prog, k) = "BRANCH" =>
        /\ Item(txt, s[k], [op |-> "or_edx", src |-> k])
        /\ Item(txt, s[k] + 2, [op |-> "test_edx", src |-> k, imm |-> prog[k + 1].imm32])
        /\ \E t : /\ LastTarget(prog, k, t)
                  /\ Item(txt, s[k] + 8, [op |-> "jz", src |-> k,
                                          disp8 |-> (s[t] - (s[k] + 8)) % 256])

\* The code of the first n instructions.
X86Layout(prog, txt, s, n) ==
    /\ Item(txt, 0, [op |-> "prologue", src |-> 0])
    /\ \A k \in 0 .. n - 1 : X86Code(prog, txt, s, k)

LEMMA X86LayoutKept ==
    ASSUME NEW prog, NEW txt, NEW s, NEW n \in Nat, X86Layout(prog, txt, s, n),
           NEW txt2, \A p, item : Item(txt, p, item) => Item(txt2, p, item)
    PROVE  X86Layout(prog, txt2, s, n)
<1>1. Item(txt2, 0, [op |-> "prologue", src |-> 0])
  BY DEF X86Layout
<1>2. ASSUME NEW k \in 0 .. n - 1 PROVE X86Code(prog, txt2, s, k)
  <2>1. X86Code(prog, txt, s, k)
    BY DEF X86Layout
  <2> QED BY <2>1 DEF X86Code
<1> QED BY <1>1, <1>2 DEF X86Layout

X86Running(s) ==
    \/ rip = 0 /\ esi = {} /\ product = {}
    \/ /\ rip > 0
       /\ \E k \in 0 .. Len(code) :
            /\ esi = {} /\ (\E w \in 0 .. k - 1 : Op(code, w) \in MultiplyHigh) => edx = product
            /\ \/ rip = s[k]
               \/ /\ k < Len(code) /\ Op(code, k) = "TARGET"
                  /\ rip = s[k] + 2 /\ (ZF => esi = {})
               \/ /\ k < Len(code) /\ Op(code, k) = "BRANCH"
                  /\ rip = s[k] + 2 /\ esi \subseteq edx
               \/ /\ k < Len(code) /\ Op(code, k) = "BRANCH"
                  /\ rip = s[k] + 8
                  /\ ZF <=> esi = {} /\ product \cap code[k + 1].imm32 = {}

\* The inductive invariant of x86; s[k] is where the code of instruction k starts.
X86Good(s) ==
    /\ machine = "x86"
    /\ pc \in {"compile", "run", "returned"}
    /\ code \in Seq(OnX86!Instructions) /\ OnX86!X86Compilable(code)
    /\ s = X86Start(code)
    /\ i \in 0 .. Len(code)
    /\ pos \in Nat
    /\ target \in Nat \cup {OnX86!NoTarget}
    /\ Within(text, code, pos)
    /\ X86Layout(code, text, s, i)
    /\ esi \in {{}, Bits} /\ edx \in SUBSET Bits /\ ZF \in BOOLEAN /\ product \in SUBSET Bits
    /\ pc = "compile" =>
        /\ pos = s[i]
        /\ \A t : LastTarget(code, i, t) => target = s[t]
        /\ rip = 0 /\ esi = {} /\ product = {}
    /\ pc # "compile" =>
        /\ i = Len(code)
        /\ Item(text, s[i], [op |-> "epilogue", src |-> i])
        /\ X86Running(s)

LEMMA X86EmitKeeps ==
    ASSUME NEW s, X86Good(s), machine' = machine, NEW opcodes, NEW items,
           OnX86!EmitAt(opcodes, items),
           \A p \in DOMAIN items : p \in s[i] .. s[i + 1] - 1 /\ items[p].src = i,
           X86Code(code, items, s, i),
           target' \in Nat \cup {OnX86!NoTarget},
           \A t : LastTarget(code, i + 1, t) => target' = s[t]
    PROVE  X86Good(s)'
<1>1. /\ pc = "compile" /\ i < Len(code) /\ text' = OnX86!With(items) /\ i' = i + 1
      /\ pos' = pos + OnX86!x86_size(code[i + 1].opcode)
      /\ UNCHANGED <<pc, code, esi, edx, ZF, rip, product>>
  BY DEF OnX86!EmitAt, OnX86!instr, OnX86!processor
<1>2. /\ code \in Seq(OnX86!Instructions) /\ s = X86Start(code) /\ pos = s[i]
      /\ Len(code) \in Nat /\ i \in Nat
  BY <1>1, X86Program DEF X86Good
<1>3. s[i + 1] = s[i] + x86_size(Op(code, i)) /\ s[i] \in Nat /\ s[i + 1] \in Nat /\ s[i] <= s[i + 1]
  <2>1. i \in 0 .. Len(code) - 1 /\ i \in 0 .. Len(code) /\ i + 1 \in 0 .. Len(code) /\ i <= i + 1
    BY <1>1, <1>2
  <2>2. s \in [0 .. Len(code) -> Nat]
    BY <1>2, X86StartFacts
  <2> QED BY <1>2, <2>1, <2>2, X86StartFacts
<1>4. pos' = s[i + 1]
  BY <1>1, <1>2, <1>3, SameOperators DEF Op
<1>5. text' = Overlaid(text, items)
  BY <1>1 DEF OnX86!With, Overlaid
<1>6. /\ \A p, item : Item(text, p, item) => Item(text', p, item)
      /\ \A p, item : Item(items, p, item) => Item(text', p, item)
      /\ Within(text', code, pos')
  <2>1. Within(text, code, s[i]) /\ i \in 0 .. Len(code)
    BY <1>2 DEF X86Good
  <2> QED BY <1>3, <1>4, <1>5, <2>1, OverlaidFacts
<1>7. X86Layout(code, text', s, i + 1)
  <2>1. X86Layout(code, text', s, i)
    BY <1>2, <1>6, X86LayoutKept DEF X86Good
  <2>2. X86Code(code, text', s, i)
    BY <1>6 DEF X86Code
  <2> QED BY <1>2, <2>1, <2>2 DEF X86Layout
<1> QED BY <1>1, <1>2, <1>3, <1>4, <1>6, <1>7 DEF X86Good

\* While it compiles, pos is where the next instruction's code will be.
LEMMA X86CompilingFacts ==
    ASSUME NEW s, X86Good(s), pc = "compile", i < Len(code)
    PROVE  /\ i \in Nat /\ i \in 0 .. Len(code) - 1 /\ Op(code, i) \in Opcodes
           /\ code[i + 1].opcode = Op(code, i) /\ OnX86!instr = code[i + 1]
           /\ pos = s[i] /\ s[i] \in Nat /\ s[i + 1] = s[i] + x86_size(Op(code, i))
           /\ \A t : LastTarget(code, i, t) => target = s[t]
           /\ target \in Nat \cup {OnX86!NoTarget}
<1>1. /\ code \in Seq(OnX86!Instructions) /\ s = X86Start(code) /\ pos = s[i]
      /\ i \in 0 .. Len(code)
      /\ \A t : LastTarget(code, i, t) => target = s[t]
      /\ target \in Nat \cup {OnX86!NoTarget}
  BY DEF X86Good
<1>2. Len(code) \in Nat
  BY <1>1, X86Program
<1>3. i \in Nat /\ i \in 0 .. Len(code) - 1
  BY <1>1, <1>2
<1>4. Op(code, i) \in Opcodes
  BY <1>1, <1>3, X86Program
<1>5. s \in [0 .. Len(code) -> Nat]
  BY <1>1, X86StartFacts
<1>6. s[i + 1] = s[i] + x86_size(Op(code, i))
  BY <1>1, <1>3, X86StartFacts
<1> QED BY <1>1, <1>3, <1>4, <1>5, <1>6 DEF Op, OnX86!instr

LEMMA X86EmitsWideMul ==
    ASSUME NEW s, X86Good(s), machine' = machine, OnX86!EmitWideMul PROVE X86Good(s)'
<1>1. PICK items : /\ items = [p \in {pos} |-> [op |-> "mul", src |-> i, next |-> pos + 9]]
                   /\ OnX86!EmitAt(OnX86!MultiplyHigh, items) /\ UNCHANGED target
  BY DEF OnX86!EmitWideMul
<1>2. pc = "compile" /\ i < Len(code) /\ OnX86!instr.opcode \in MultiplyHigh
  BY <1>1, SameOperators DEF OnX86!EmitAt
<1>3. /\ i \in Nat /\ pos = s[i] /\ s[i] \in Nat /\ s[i + 1] = s[i] + 9
      /\ Op(code, i) \in MultiplyHigh
      /\ \A t : LastTarget(code, i, t) => target = s[t]
      /\ target \in Nat \cup {OnX86!NoTarget}
  BY <1>2, X86CompilingFacts, X86Sizes
<1>4. X86Code(code, items, s, i)
  BY <1>1, <1>3, OpcodeFacts DEF X86Code, Item
<1>5. \A p \in DOMAIN items : p \in s[i] .. s[i + 1] - 1 /\ items[p].src = i
  BY <1>1, <1>3
<1>6. \A t : LastTarget(code, i + 1, t) => target' = s[t]
  BY <1>1, <1>3, OpcodeFacts DEF LastTarget
<1> QED BY <1>1, <1>3, <1>4, <1>5, <1>6, X86EmitKeeps

LEMMA X86EmitsCompute ==
    ASSUME NEW s, X86Good(s), machine' = machine, OnX86!EmitCompute PROVE X86Good(s)'
<1>1. PICK items :
        /\ items = [p \in {pos} |-> [op |-> "alu", src |-> i,
                             next |-> pos + OnX86!x86_size(OnX86!instr.opcode)]]
        /\ OnX86!EmitAt(OnX86!Arithmetic, items) /\ UNCHANGED target
  BY DEF OnX86!EmitCompute
<1>2. pc = "compile" /\ i < Len(code) /\ OnX86!instr.opcode \in Arithmetic
  BY <1>1, SameOperators DEF OnX86!EmitAt
<1>3. /\ i \in Nat /\ pos = s[i] /\ s[i] \in Nat /\ s[i + 1] = s[i] + x86_size(Op(code, i))
      /\ Op(code, i) \in Arithmetic
      /\ \A t : LastTarget(code, i, t) => target = s[t]
      /\ target \in Nat \cup {OnX86!NoTarget}
      /\ OnX86!x86_size(OnX86!instr.opcode) = x86_size(Op(code, i))
      /\ x86_size(Op(code, i)) \in 3 .. 7
  BY <1>2, X86CompilingFacts, X86Sizes, SameOperators
<1>4. X86Code(code, items, s, i)
  BY <1>1, <1>3, OpcodeFacts DEF X86Code, Item
<1>5. \A p \in DOMAIN items : p \in s[i] .. s[i + 1] - 1 /\ items[p].src = i
  BY <1>1, <1>3
<1>6. \A t : LastTarget(code, i + 1, t) => target' = s[t]
  BY <1>1, <1>3, OpcodeFacts DEF LastTarget
<1> QED BY <1>1, <1>3, <1>4, <1>5, <1>6, X86EmitKeeps

LEMMA X86EmitsTarget ==
    ASSUME NEW s, X86Good(s), machine' = machine, OnX86!EmitTarget PROVE X86Good(s)'
<1> DEFINE items == [p \in {pos, pos + 2} |->
                        IF p = pos THEN [op |-> "test_edi", src |-> i]
                        ELSE [op |-> "cmovz", src |-> i]]
<1>1. OnX86!EmitAt({"TARGET"}, items) /\ target' = pos
  BY DEF OnX86!EmitTarget
<1>2. pc = "compile" /\ i < Len(code) /\ OnX86!instr.opcode = "TARGET"
  BY <1>1 DEF OnX86!EmitAt
<1>3. /\ i \in Nat /\ pos = s[i] /\ s[i] \in Nat /\ s[i + 1] = s[i] + 5
      /\ Op(code, i) = "TARGET"
  BY <1>2, X86CompilingFacts, X86Sizes
<1>4. /\ DOMAIN items = {s[i], s[i] + 2}
      /\ items[s[i]] = [op |-> "test_edi", src |-> i]
      /\ items[s[i] + 2] = [op |-> "cmovz", src |-> i]
  BY <1>3
<1> HIDE DEF items
<1>5. X86Code(code, items, s, i)
  BY <1>3, <1>4, OpcodeFacts DEF X86Code, Item
<1>6. ASSUME NEW p \in DOMAIN items
      PROVE  p \in s[i] .. s[i + 1] - 1 /\ items[p].src = i
  <2>1. p = s[i] \/ p = s[i] + 2
    BY <1>4
  <2>2. items[s[i]].src = i /\ items[s[i] + 2].src = i
    BY <1>4
  <2> QED BY <1>3, <2>1, <2>2
<1>7. target' \in Nat \cup {OnX86!NoTarget} /\ \A t : LastTarget(code, i + 1, t) => target' = s[t]
  BY <1>1, <1>3 DEF LastTarget
<1> QED BY <1>1, <1>5, <1>6, <1>7, X86EmitKeeps

LEMMA X86EmitsBranch ==
    ASSUME NEW s, X86Good(s), machine' = machine, OnX86!EmitBranch PROVE X86Good(s)'
<1> DEFINE items == [p \in {pos, pos + 2, pos + 8} |->
                IF p = pos THEN [op |-> "or_edx", src |-> i]
                ELSE IF p = pos + 2
                THEN [op |-> "test_edx", src |-> i, imm |-> OnX86!instr.imm32]
                ELSE [op |-> "jz", src |-> i, disp8 |-> OnX86!Displacement % 256]]
<1>1. OnX86!EmitAt({"BRANCH"}, items) /\ target' = target
  BY DEF OnX86!EmitBranch
<1>2. pc = "compile" /\ i < Len(code) /\ OnX86!instr.opcode = "BRANCH"
  BY <1>1 DEF OnX86!EmitAt
<1>3. /\ i \in Nat /\ i \in 0 .. Len(code) - 1
      /\ pos = s[i] /\ s[i] \in Nat /\ s[i + 1] = s[i] + 10
      /\ Op(code, i) = "BRANCH" /\ OnX86!instr = code[i + 1]
      /\ \A t : LastTarget(code, i, t) => target = s[t]
      /\ target \in Nat \cup {OnX86!NoTarget}
  BY <1>2, X86CompilingFacts, X86Sizes
<1>4. PICK t : LastTarget(code, i, t) /\ target = s[t]
  BY <1>3, BranchNear DEF X86Good
<1>5. /\ DOMAIN items = {s[i], s[i] + 2, s[i] + 8}
      /\ items[s[i]] = [op |-> "or_edx", src |-> i]
      /\ items[s[i] + 2] = [op |-> "test_edx", src |-> i, imm |-> code[i + 1].imm32]
      /\ items[s[i] + 8] = [op |-> "jz", src |-> i, disp8 |-> (s[t] - (s[i] + 8)) % 256]
  <2>1. DOMAIN items = {pos, pos + 2, pos + 8}
    OBVIOUS
  <2>2. items[pos] = [op |-> "or_edx", src |-> i]
    OBVIOUS
  <2>3. pos + 2 # pos /\ pos + 8 # pos /\ pos + 8 # pos + 2
    BY <1>3
  <2>4. items[pos + 2] = [op |-> "test_edx", src |-> i, imm |-> OnX86!instr.imm32]
    BY <2>3, Zenon
  <2>5. items[pos + 8] = [op |-> "jz", src |-> i, disp8 |-> OnX86!Displacement % 256]
    BY <2>3, Zenon
  <2>6. OnX86!Displacement = s[t] - (s[i] + 8)
    BY <1>3, <1>4 DEF OnX86!Displacement
  <2> HIDE DEF items
  <2> QED BY <1>3, <2>1, <2>2, <2>4, <2>5, <2>6
<1> HIDE DEF items
<1>6. X86Code(code, items, s, i)
  <2>1. Item(items, s[i], [op |-> "or_edx", src |-> i])
    BY <1>5 DEF Item
  <2>2. Item(items, s[i] + 2, [op |-> "test_edx", src |-> i, imm |-> code[i + 1].imm32])
    BY <1>5 DEF Item
  <2>3. Item(items, s[i] + 8, [op |-> "jz", src |-> i, disp8 |-> (s[t] - (s[i] + 8)) % 256])
    BY <1>5 DEF Item
  <2> QED BY <1>3, <1>4, <2>1, <2>2, <2>3, OpcodeFacts DEF X86Code
<1>7. ASSUME NEW p \in DOMAIN items
      PROVE  p \in s[i] .. s[i + 1] - 1 /\ items[p].src = i
  <2>1. p = s[i] \/ p = s[i] + 2 \/ p = s[i] + 8
    BY <1>5
  <2>2. items[s[i]].src = i /\ items[s[i] + 2].src = i /\ items[s[i] + 8].src = i
    BY <1>5
  <2> QED BY <1>3, <2>1, <2>2
<1>8. target' \in Nat \cup {OnX86!NoTarget} /\ \A u : LastTarget(code, i + 1, u) => target' = s[u]
  BY <1>1, <1>3 DEF LastTarget
<1> QED BY <1>1, <1>6, <1>7, <1>8, X86EmitKeeps

LEMMA X86EmitsEpilogue ==
    ASSUME NEW s, X86Good(s), machine' = machine, OnX86!EmitEpilogue PROVE X86Good(s)'
<1>1. PICK items :
        /\ items = [p \in {pos} |-> [op |-> "epilogue", src |-> i]]
        /\ text' = OnX86!With(items)
  BY DEF OnX86!EmitEpilogue
<1>2. /\ pc = "compile" /\ pc' = "run" /\ i = Len(code)
      /\ pos' = pos + OnX86!x86_epilogue(WINABI)
      /\ UNCHANGED <<code, i, target, rip, esi, edx, ZF, product>>
  BY DEF OnX86!EmitEpilogue, OnX86!processor
<1>3. /\ code \in Seq(OnX86!Instructions) /\ s = X86Start(code) /\ pos = s[i]
      /\ pos \in Nat /\ i \in 0 .. Len(code) /\ Len(code) \in Nat
      /\ rip = 0 /\ esi = {} /\ product = {}
  BY <1>2, X86Program DEF X86Good
<1>4. pos' \in Nat /\ pos < pos'
  <2>1. OnX86!x86_epilogue(WINABI) \in {65, 55}
    BY DEF OnX86!x86_epilogue
  <2> QED BY <1>2, <1>3, <2>1
<1>5. /\ \A p, item : Item(text, p, item) => Item(text', p, item)
      /\ \A p, item : Item(items, p, item) => Item(text', p, item)
      /\ Within(text', code, pos')
  <2>1. text' = Overlaid(text, items)
    BY <1>1 DEF OnX86!With, Overlaid
  <2>2. \A p \in DOMAIN items : p \in pos .. pos' - 1 /\ items[p].src \in 0 .. Len(code)
    <3>1. DOMAIN items = {pos} /\ items[pos].src = i
      BY <1>1
    <3> QED BY <1>3, <1>4, <3>1
  <2>3. Within(text, code, pos)
    BY DEF X86Good
  <2> QED BY <1>3, <1>4, <2>1, <2>2, <2>3, OverlaidFacts
<1>6. Item(text', s[i], [op |-> "epilogue", src |-> i])
  BY <1>1, <1>3, <1>5 DEF Item
<1>7. X86Layout(code, text', s, i)
  BY <1>3, <1>5, X86LayoutKept DEF X86Good
<1>8. X86Running(s)'
  BY <1>2, <1>3 DEF X86Running
<1> QED BY <1>2, <1>3, <1>4, <1>5, <1>6, <1>7, <1>8 DEF X86Good

-----------------------------------------------------------------------------
(* What a step of either machine means.                                     *)

LEMMA MeaningStep ==
    ASSUME NEW a, a = At, NEW a2, a2 = At', NEW j, j = Jumped, NEW j2, j2 = Jumped',
           code' = code,
           \/ a2 = a /\ j2 = j /\ product' = product
           \/ /\ a < Len(code) /\ Op(code, a) \in MultiplyHigh
              /\ a2 = Skip(code, a + 1) /\ j2 = j /\ product' \in SUBSET Bits
           \/ /\ a < Len(code) /\ Op(code, a) \in Arithmetic
              /\ a2 = Skip(code, a + 1) /\ j2 = j /\ product' = product
           \/ /\ a < Len(code) /\ Op(code, a) = "BRANCH" /\ product' = product
              /\ ~j /\ product \cap code[a + 1].imm32 = {}
              /\ a2 = Skip(code, Landing(code, a) + 1) /\ j2 = TRUE
           \/ /\ a < Len(code) /\ Op(code, a) = "BRANCH" /\ product' = product
              /\ ~(~j /\ product \cap code[a + 1].imm32 = {})
              /\ j \in BOOLEAN
              /\ a2 = Skip(code, a + 1) /\ j2 = j
    PROVE  [Meaning!Next]_(Meaning!vars)
<1>1. CASE a2 = a /\ j2 = j /\ product' = product
  BY <1>1 DEF Meaning!vars
<1>2. CASE /\ a < Len(code) /\ Op(code, a) \in MultiplyHigh
           /\ a2 = Skip(code, a + 1) /\ j2 = j /\ product' \in SUBSET Bits
  <2>1. Meaning!WideMul
    BY <1>2, SameOperators DEF Meaning!WideMul, Meaning!Running, Op
  <2> QED BY <2>1 DEF Meaning!Next
<1>3. CASE /\ a < Len(code) /\ Op(code, a) \in Arithmetic
           /\ a2 = Skip(code, a + 1) /\ j2 = j /\ product' = product
  <2>1. Meaning!Compute
    BY <1>3, SameOperators DEF Meaning!Compute, Meaning!Running, Op
  <2> QED BY <2>1 DEF Meaning!Next
<1>4. CASE /\ a < Len(code) /\ Op(code, a) = "BRANCH" /\ product' = product
           /\ ~j /\ product \cap code[a + 1].imm32 = {}
           /\ a2 = Skip(code, Landing(code, a) + 1) /\ j2 = TRUE
  <2>1. Meaning!Branch
    BY <1>4, SameOperators DEF Meaning!Branch, Meaning!Running, Meaning!Taken, Op
  <2> QED BY <2>1 DEF Meaning!Next
<1>5. CASE /\ a < Len(code) /\ Op(code, a) = "BRANCH" /\ product' = product
           /\ ~(~j /\ product \cap code[a + 1].imm32 = {})
           /\ j \in BOOLEAN
           /\ a2 = Skip(code, a + 1) /\ j2 = j
  <2>1. Meaning!Branch
    BY <1>5, SameOperators DEF Meaning!Branch, Meaning!Running, Meaning!Taken, Op
  <2> QED BY <2>1 DEF Meaning!Next
<1> QED BY <1>1, <1>2, <1>3, <1>4, <1>5

-----------------------------------------------------------------------------
(* Running on x86.                                                          *)

\* The processor is at an instruction that comes from the program's index k.
X86Here(s, k) ==
    /\ k \in 0 .. Len(code)
    /\ rip \in DOMAIN text /\ text[rip].src = k
    /\ esi = {} /\ (\E w \in 0 .. k - 1 : Op(code, w) \in MultiplyHigh) => edx = product
    /\ text[rip].op \in {"mul", "alu", "test_edi", "cmovz", "or_edx", "test_edx", "jz", "epilogue"}
    /\ text[rip].op # "epilogue" => k < Len(code)
    /\ text[rip].op = "mul" => Op(code, k) \in MultiplyHigh /\ text[rip].next = s[k + 1]
    /\ text[rip].op = "alu" => Op(code, k) \in Arithmetic /\ text[rip].next = s[k + 1]
    /\ text[rip].op = "test_edi" => Op(code, k) = "TARGET" /\ rip = s[k]
    /\ text[rip].op = "cmovz" =>
        Op(code, k) = "TARGET" /\ rip = s[k] + 2 /\ (ZF => esi = {})
    /\ text[rip].op = "or_edx" => Op(code, k) = "BRANCH" /\ rip = s[k]
    /\ text[rip].op = "test_edx" =>
        /\ Op(code, k) = "BRANCH" /\ rip = s[k] + 2 /\ esi \subseteq edx
        /\ text[rip].imm = code[k + 1].imm32
    /\ text[rip].op = "jz" =>
        /\ Op(code, k) = "BRANCH" /\ rip = s[k] + 8
        /\ ZF <=> esi = {} /\ product \cap code[k + 1].imm32 = {}
        /\ \E t : /\ LastTarget(code, k, t)
                  /\ text[rip].disp8 = (s[t] - (s[k] + 8)) % 256

LEMMA X86IsHere ==
    ASSUME NEW s, X86Good(s), pc # "compile", rip > 0
    PROVE  \E k : X86Here(s, k)
<1>1. PICK k \in 0 .. Len(code) :
        /\ esi = {} /\ (\E w \in 0 .. k - 1 : Op(code, w) \in MultiplyHigh) => edx = product
        /\ \/ rip = s[k]
           \/ /\ k < Len(code) /\ Op(code, k) = "TARGET"
              /\ rip = s[k] + 2 /\ (ZF => esi = {})
           \/ /\ k < Len(code) /\ Op(code, k) = "BRANCH"
              /\ rip = s[k] + 2 /\ esi \subseteq edx
           \/ /\ k < Len(code) /\ Op(code, k) = "BRANCH"
              /\ rip = s[k] + 8
              /\ ZF <=> esi = {} /\ product \cap code[k + 1].imm32 = {}
  BY DEF X86Good, X86Running
<1>2. /\ i = Len(code) /\ Len(code) \in Nat
      /\ Item(text, s[i], [op |-> "epilogue", src |-> i])
      /\ \A l \in 0 .. i - 1 : X86Code(code, text, s, l) /\ Op(code, l) \in Opcodes
  BY X86Program DEF X86Good, X86Layout
<1>3. CASE k = Len(code)
  <2>1. rip = s[k]
    BY <1>1, <1>2, <1>3
  <2> QED BY <1>1, <1>2, <1>3, <2>1 DEF Item, X86Here
<1>4. CASE k # Len(code)
  <2>1. k \in 0 .. i - 1 /\ k < Len(code) /\ X86Code(code, text, s, k) /\ Op(code, k) \in Opcodes
    BY <1>2, <1>4
  <2>2. CASE Op(code, k) \in MultiplyHigh
    <3>1. Item(text, s[k], [op |-> "mul", src |-> k, next |-> s[k + 1]])
      BY <2>1, <2>2 DEF X86Code
    <3>2. rip = s[k]
      BY <1>1, <2>2, OpcodeFacts
    <3> QED BY <1>1, <2>1, <2>2, <3>1, <3>2 DEF Item, X86Here
  <2>3. CASE Op(code, k) \in Arithmetic
    <3>1. Item(text, s[k], [op |-> "alu", src |-> k, next |-> s[k + 1]])
      BY <2>1, <2>3 DEF X86Code
    <3>2. rip = s[k]
      BY <1>1, <2>3, OpcodeFacts
    <3> QED BY <1>1, <2>1, <2>3, <3>1, <3>2 DEF Item, X86Here
  <2>4. CASE Op(code, k) = "TARGET"
    <3>1. /\ Item(text, s[k], [op |-> "test_edi", src |-> k])
          /\ Item(text, s[k] + 2, [op |-> "cmovz", src |-> k])
      BY <2>1, <2>4 DEF X86Code
    <3>2. rip = s[k] \/ (rip = s[k] + 2 /\ (ZF => esi = {}))
      BY <1>1, <2>4
    <3> QED BY <1>1, <2>1, <2>4, <3>1, <3>2 DEF Item, X86Here
  <2>5. CASE Op(code, k) = "BRANCH"
    <3>1. PICK t :
          /\ Item(text, s[k], [op |-> "or_edx", src |-> k])
          /\ Item(text, s[k] + 2, [op |-> "test_edx", src |-> k, imm |-> code[k + 1].imm32])
          /\ LastTarget(code, k, t)
          /\ Item(text, s[k] + 8, [op |-> "jz", src |-> k,
                                   disp8 |-> (s[t] - (s[k] + 8)) % 256])
      BY <2>1, <2>5 DEF X86Code
    <3>2. CASE rip = s[k]
      BY <1>1, <2>1, <2>5, <3>1, <3>2 DEF Item, X86Here
    <3>3. CASE rip = s[k] + 2 /\ esi \subseteq edx
      BY <1>1, <2>1, <2>5, <3>1, <3>3 DEF Item, X86Here
    <3>4. CASE rip = s[k] + 8 /\ (ZF <=> esi = {} /\ product \cap code[k + 1].imm32 = {})
      <4> DEFINE d == (s[t] - (s[k] + 8)) % 256
      <4> HIDE DEF d
      <4>1. Item(text, s[k] + 8, [op |-> "jz", src |-> k, disp8 |-> d])
        BY <3>1 DEF d
      <4>2. /\ rip \in DOMAIN text /\ text[rip].src = k /\ text[rip].op = "jz"
            /\ text[rip].disp8 = d
        BY <3>4, <4>1 DEF Item
      <4> QED BY <1>1, <2>1, <2>5, <3>1, <3>4, <4>2 DEF X86Here, d
    <3> QED BY <1>1, <2>5, <3>2, <3>3, <3>4
  <2> QED BY <2>1, <2>2, <2>3, <2>4, <2>5, OpcodeFacts
<1> QED BY <1>3, <1>4

\* Where this is in the program.
LEMMA X86Means ==
    ASSUME machine = "x86"
    PROVE  /\ pc = "compile" \/ rip = 0 => At = Skip(code, 0) /\ Jumped = FALSE
           /\ pc # "compile" /\ rip > 0 =>
                /\ At = Skip(code, text[rip].src)
                /\ Jumped = (esi # {} \/ (text[rip].op = "cmovz" /\ ZF))
BY SameOperators DEF At, Jumped, OnX86!At, OnX86!Jumped, OnX86!InProgram, OnX86!HasJumped

\* The code of an instruction starts with an instruction of its own.
LEMMA X86Boundary ==
    ASSUME NEW s, X86Good(s), pc # "compile", NEW k \in 0 .. Len(code)
    PROVE  /\ s[k] \in Nat /\ s[k] > 0 /\ Len(code) \in Nat
           /\ s[k] \in DOMAIN text /\ text[s[k]].src = k /\ text[s[k]].op # "cmovz"
           /\ k < Len(code) =>
                /\ Op(code, k) \in Opcodes /\ X86Code(code, text, s, k)
                /\ s[k + 1] = s[k] + x86_size(Op(code, k))
<1>1. /\ code \in Seq(OnX86!Instructions) /\ s = X86Start(code) /\ i = Len(code)
      /\ Item(text, s[i], [op |-> "epilogue", src |-> i])
      /\ \A l \in 0 .. i - 1 : X86Code(code, text, s, l)
  BY DEF X86Good, X86Layout
<1>2. Len(code) \in Nat
  BY <1>1, X86Program
<1>3. s[k] \in Nat /\ s[k] > 0
  <2>1. s \in [0 .. Len(code) -> Nat] /\ s[0] > 0
    BY <1>1, X86StartFacts
  <2>2. s[0] <= s[k] /\ s[0] \in Nat
    BY <1>1, <1>2, <2>1, X86StartFacts
  <2> QED BY <2>1, <2>2
<1>4. CASE k = Len(code)
  BY <1>1, <1>2, <1>3, <1>4 DEF Item
<1>5. CASE k # Len(code)
  <2>1. k \in 0 .. i - 1 /\ k \in 0 .. Len(code) - 1
    BY <1>1, <1>2, <1>5
  <2>2. X86Code(code, text, s, k)
    BY <1>1, <2>1
  <2>3. Op(code, k) \in Opcodes
    BY <1>1, <2>1, X86Program
  <2>4. s[k + 1] = s[k] + x86_size(Op(code, k))
    BY <1>1, <2>1, X86StartFacts
  <2>5. s[k] \in DOMAIN text /\ text[s[k]].src = k /\ text[s[k]].op # "cmovz"
    BY <2>2, <2>3, OpcodeFacts DEF X86Code, Item
  <2> QED BY <1>2, <1>3, <2>2, <2>3, <2>4, <2>5
<1> QED BY <1>4, <1>5

\* The processor gets to rip'.
LEMMA X86Reaches ==
    ASSUME NEW s, X86Good(s), pc # "compile", pc' \in {"run", "returned"},
           UNCHANGED <<machine, code, i, pos, target, text>>,
           rip' > 0, X86Running(s)',
           esi' \in {{}, Bits}, edx' \in SUBSET Bits, ZF' \in BOOLEAN, product' \in SUBSET Bits
    PROVE  /\ X86Good(s)'
           /\ At' = Skip(code, text[rip'].src)
           /\ Jumped' = (esi' # {} \/ (text[rip'].op = "cmovz" /\ ZF'))
<1>1. X86Good(s)'
  BY DEF X86Good
<1>2. machine' = "x86" /\ pc' # "compile" /\ code' = code /\ text' = text
  BY DEF X86Good
<1>3. /\ OnX86!Skip(code', text'[rip'].src) = Skip(code, text[rip'].src)
  BY <1>2, SameOperators
<1>4. At' = Skip(code, text[rip'].src)
  BY <1>2, <1>3 DEF At, OnX86!At, OnX86!InProgram
<1>5. Jumped' = (esi' # {} \/ (text[rip'].op = "cmovz" /\ ZF'))
  BY <1>2 DEF Jumped, OnX86!Jumped, OnX86!InProgram, OnX86!HasJumped
<1> QED BY <1>1, <1>4, <1>5

LEMMA X86ReachesBoundary ==
    ASSUME NEW s, X86Good(s), pc # "compile", pc' \in {"run", "returned"},
           UNCHANGED <<machine, code, i, pos, target, text>>,
           NEW k \in 0 .. Len(code), rip' = s[k],
           esi' = {} /\ (\E w \in 0 .. k - 1 : Op(code, w) \in MultiplyHigh) => edx' = product',
           esi' \in {{}, Bits}, edx' \in SUBSET Bits, ZF' \in BOOLEAN, product' \in SUBSET Bits
    PROVE  X86Good(s)' /\ At' = Skip(code, k) /\ Jumped' = (esi' # {})
<1>1. rip' > 0 /\ text[rip'].src = k /\ text[rip'].op # "cmovz"
  BY X86Boundary
<1>2. X86Running(s)'
  <2>1. code' = code /\ rip' > 0 /\ k \in 0 .. Len(code')
    BY <1>1
  <2> QED BY <2>1 DEF X86Running, Op
<1> QED BY <1>1, <1>2, X86Reaches

\* What is executed behind the prologue.
LEMMA X86Fetches ==
    ASSUME NEW s, X86Good(s), NEW op, op # "prologue", OnX86!Fetch(op)
    PROVE  /\ pc = "run" /\ rip > 0 /\ text[rip].op = op
           /\ UNCHANGED <<code, i, pos, target, text>>
           /\ Jumped = (esi # {} \/ (op = "cmovz" /\ ZF))
           /\ \E k : X86Here(s, k) /\ At = Skip(code, k)
<1>1. /\ pc = "run" /\ rip \in DOMAIN text /\ text[rip].op = op
      /\ UNCHANGED <<code, i, pos, target, text>>
  BY DEF OnX86!Fetch, OnX86!compiler
<1>2. rip \in Nat /\ rip # 0
  <2>1. text[0] = [op |-> "prologue", src |-> 0] /\ pos \in Nat
    BY DEF X86Good, X86Layout, Item
  <2>2. rip \in 0 .. pos - 1
    BY <1>1 DEF X86Good, Within
  <2> QED BY <1>1, <2>1, <2>2
<1>3. PICK k : X86Here(s, k)
  BY <1>1, <1>2, X86IsHere
<1>4. machine = "x86"
  BY DEF X86Good
<1>5. At = Skip(code, k)
  BY <1>1, <1>2, <1>3, <1>4, X86Means DEF X86Here
<1>6. Jumped = (esi # {} \/ (op = "cmovz" /\ ZF))
  BY <1>1, <1>2, <1>4, X86Means
<1> QED BY <1>1, <1>2, <1>3, <1>5, <1>6

LEMMA X86RunsWideMul ==
    ASSUME NEW s, X86Good(s), machine' = machine, OnX86!MulHigh
    PROVE  X86Good(s)' /\ [Meaning!Next]_(Meaning!vars)
<1>1. /\ OnX86!Fetch("mul") /\ edx' \in SUBSET Bits /\ product' = edx' /\ ZF' \in BOOLEAN
      /\ rip' = text[rip].next /\ pc' = pc /\ esi' = esi
  BY DEF OnX86!MulHigh, OnX86!Words
<1>2. /\ pc = "run" /\ text[rip].op = "mul" /\ UNCHANGED <<code, i, pos, target, text>>
      /\ Jumped = (esi # {})
  BY <1>1, X86Fetches
<1>3. PICK k : X86Here(s, k) /\ At = Skip(code, k)
  BY <1>1, X86Fetches
<1>4. /\ k \in 0 .. Len(code) /\ k < Len(code) /\ Op(code, k) \in MultiplyHigh /\ rip' = s[k + 1]
  BY <1>1, <1>2, <1>3 DEF X86Here
<1>5. k + 1 \in 0 .. Len(code) /\ Len(code) \in Nat /\ k \in Nat
  BY <1>2, <1>4, X86Boundary
<1>6. At = k
  BY <1>3, <1>4, <1>5, SkipStep, OpcodeFacts DEF IsTarget, Op
<1>7. esi' \in {{}, Bits}
  BY <1>1 DEF X86Good
<1>8. X86Good(s)' /\ At' = Skip(code, k + 1) /\ Jumped' = (esi' # {})
  BY <1>1, <1>2, <1>4, <1>5, <1>7, X86ReachesBoundary
<1>9. [Meaning!Next]_(Meaning!vars)
  BY <1>1, <1>2, <1>4, <1>6, <1>8, MeaningStep
<1> QED BY <1>8, <1>9

LEMMA X86RunsCompute ==
    ASSUME NEW s, X86Good(s), machine' = machine, OnX86!Alu
    PROVE  X86Good(s)' /\ [Meaning!Next]_(Meaning!vars)
<1>1. /\ OnX86!Fetch("alu") /\ ZF' \in BOOLEAN /\ rip' = text[rip].next
      /\ pc' = pc /\ esi' = esi /\ edx' = edx /\ product' = product
  BY DEF OnX86!Alu
<1>2. /\ pc = "run" /\ text[rip].op = "alu" /\ UNCHANGED <<code, i, pos, target, text>>
      /\ Jumped = (esi # {})
  BY <1>1, X86Fetches
<1>3. PICK k : X86Here(s, k) /\ At = Skip(code, k)
  BY <1>1, X86Fetches
<1>4. /\ k \in 0 .. Len(code) /\ k < Len(code) /\ Op(code, k) \in Arithmetic /\ rip' = s[k + 1]
      /\ esi = {} /\ (\E w \in 0 .. k - 1 : Op(code, w) \in MultiplyHigh) => edx = product
  BY <1>1, <1>2, <1>3 DEF X86Here
<1>5. k + 1 \in 0 .. Len(code) /\ Len(code) \in Nat /\ k \in Nat
  BY <1>2, <1>4, X86Boundary
<1>6. At = k
  BY <1>3, <1>4, <1>5, SkipStep, OpcodeFacts DEF IsTarget, Op
<1>7. esi' \in {{}, Bits} /\ edx' \in SUBSET Bits /\ product' \in SUBSET Bits
  BY <1>1 DEF X86Good
<1>8. esi' = {} /\ (\E w \in 0 .. (k + 1) - 1 : Op(code, w) \in MultiplyHigh) => edx' = product'
  BY <1>1, <1>4, <1>5, OpcodeFacts
<1>9. X86Good(s)' /\ At' = Skip(code, k + 1) /\ Jumped' = (esi' # {})
  BY <1>1, <1>2, <1>4, <1>5, <1>7, <1>8, X86ReachesBoundary
<1>10. [Meaning!Next]_(Meaning!vars)
  BY <1>1, <1>2, <1>4, <1>6, <1>9, MeaningStep
<1> QED BY <1>9, <1>10

LEMMA X86RunsTestEdi ==
    ASSUME NEW s, X86Good(s), machine' = machine, OnX86!TestEdi
    PROVE  X86Good(s)' /\ [Meaning!Next]_(Meaning!vars)
<1>1. /\ OnX86!Fetch("test_edi") /\ ZF' = (Bits = {}) /\ rip' = rip + 2
      /\ pc' = pc /\ esi' = esi /\ edx' = edx /\ product' = product
  BY DEF OnX86!TestEdi, OnX86!edi
<1>2. /\ pc = "run" /\ text[rip].op = "test_edi" /\ UNCHANGED <<code, i, pos, target, text>>
      /\ Jumped = (esi # {})
  BY <1>1, X86Fetches
<1>3. PICK k : X86Here(s, k) /\ At = Skip(code, k)
  BY <1>1, X86Fetches
<1>4. /\ k \in 0 .. Len(code) /\ k < Len(code) /\ Op(code, k) = "TARGET" /\ rip = s[k]
      /\ esi = {} /\ (\E w \in 0 .. k - 1 : Op(code, w) \in MultiplyHigh) => edx = product
  BY <1>2, <1>3 DEF X86Here
<1>5. s[k] \in Nat /\ Item(text, s[k] + 2, [op |-> "cmovz", src |-> k])
  BY <1>2, <1>4, X86Boundary DEF X86Code
<1>6. /\ esi' \in {{}, Bits} /\ edx' \in SUBSET Bits /\ product' \in SUBSET Bits
      /\ ZF' = FALSE
  BY <1>1, MachinesAssumption DEF X86Good, OnX86!X86Assumption
<1>7. rip' = s[k] + 2 /\ rip' > 0 /\ text[rip'].src = k /\ text[rip'].op = "cmovz"
  BY <1>1, <1>4, <1>5 DEF Item
<1>8. X86Running(s)'
  BY <1>1, <1>2, <1>4, <1>6, <1>7 DEF X86Running, Op
<1>9. X86Good(s)' /\ At' = Skip(code, k) /\ Jumped' = (esi' # {})
  BY <1>1, <1>2, <1>6, <1>7, <1>8, X86Reaches
<1>10. [Meaning!Next]_(Meaning!vars)
  BY <1>1, <1>2, <1>3, <1>9, MeaningStep
<1> QED BY <1>9, <1>10

LEMMA X86RunsCmovz ==
    ASSUME NEW s, X86Good(s), machine' = machine, OnX86!Cmovz
    PROVE  X86Good(s)' /\ [Meaning!Next]_(Meaning!vars)
<1>1. /\ OnX86!Fetch("cmovz") /\ esi' = (IF ZF THEN Bits ELSE esi) /\ rip' = rip + 3
      /\ pc' = pc /\ edx' = edx /\ ZF' = ZF /\ product' = product
  BY DEF OnX86!Cmovz, OnX86!edi
<1>2. /\ pc = "run" /\ text[rip].op = "cmovz" /\ UNCHANGED <<code, i, pos, target, text>>
      /\ Jumped = (esi # {} \/ ZF)
  BY <1>1, X86Fetches
<1>3. PICK k : X86Here(s, k) /\ At = Skip(code, k)
  BY <1>1, X86Fetches
<1>4. /\ k \in 0 .. Len(code) /\ k < Len(code) /\ Op(code, k) = "TARGET" /\ rip = s[k] + 2
      /\ esi = {} /\ (\E w \in 0 .. k - 1 : Op(code, w) \in MultiplyHigh) => edx = product
  BY <1>2, <1>3 DEF X86Here
<1>5. /\ k + 1 \in 0 .. Len(code) /\ Len(code) \in Nat /\ k \in Nat
      /\ s[k] \in Nat /\ s[k + 1] = s[k] + 5
  BY <1>2, <1>4, X86Boundary, X86Sizes
<1>6. Bits # {} /\ esi \in {{}, Bits} /\ ZF \in BOOLEAN
  BY MachinesAssumption DEF X86Good, OnX86!X86Assumption
<1>7. /\ esi' \in {{}, Bits} /\ edx' \in SUBSET Bits /\ product' \in SUBSET Bits
      /\ ZF' \in BOOLEAN /\ rip' = s[k + 1]
      /\ esi' = {} => esi = {}
      /\ (esi' # {}) = (esi # {} \/ ZF)
  BY <1>1, <1>4, <1>5, <1>6 DEF X86Good
<1>8. esi' = {} /\ (\E w \in 0 .. (k + 1) - 1 : Op(code, w) \in MultiplyHigh) => edx' = product'
  BY <1>1, <1>4, <1>5, <1>7, OpcodeFacts
<1>9. X86Good(s)' /\ At' = Skip(code, k + 1) /\ Jumped' = (esi' # {})
  BY <1>1, <1>2, <1>5, <1>7, <1>8, X86ReachesBoundary
<1>10. Skip(code, k) = Skip(code, k + 1)
  BY <1>4, <1>5, SkipStep DEF IsTarget, Op
<1>11. [Meaning!Next]_(Meaning!vars)
  BY <1>1, <1>2, <1>3, <1>7, <1>9, <1>10, MeaningStep
<1> QED BY <1>9, <1>11

LEMMA X86RunsOrEdx ==
    ASSUME NEW s, X86Good(s), machine' = machine, OnX86!OrEdx
    PROVE  X86Good(s)' /\ [Meaning!Next]_(Meaning!vars)
<1>1. /\ OnX86!Fetch("or_edx") /\ edx' = edx \cup esi /\ ZF' = (edx' = {}) /\ rip' = rip + 2
      /\ pc' = pc /\ esi' = esi /\ product' = product
  BY DEF OnX86!OrEdx
<1>2. /\ pc = "run" /\ text[rip].op = "or_edx" /\ UNCHANGED <<code, i, pos, target, text>>
      /\ Jumped = (esi # {})
  BY <1>1, X86Fetches
<1>3. PICK k : X86Here(s, k) /\ At = Skip(code, k)
  BY <1>1, X86Fetches
<1>4. /\ k \in 0 .. Len(code) /\ k < Len(code) /\ Op(code, k) = "BRANCH" /\ rip = s[k]
      /\ esi = {} /\ (\E w \in 0 .. k - 1 : Op(code, w) \in MultiplyHigh) => edx = product
  BY <1>2, <1>3 DEF X86Here
<1>5. /\ s[k] \in Nat
      /\ Item(text, s[k] + 2, [op |-> "test_edx", src |-> k, imm |-> code[k + 1].imm32])
  BY <1>2, <1>4, X86Boundary DEF X86Code
<1>6. /\ esi' \in {{}, Bits} /\ edx' \in SUBSET Bits /\ product' \in SUBSET Bits
      /\ ZF' \in BOOLEAN
      /\ esi' \subseteq edx' /\ (esi' = {} => edx' = edx)
  BY <1>1 DEF X86Good
<1>7. rip' = s[k] + 2 /\ rip' > 0 /\ text[rip'].src = k /\ text[rip'].op = "test_edx"
  BY <1>1, <1>4, <1>5 DEF Item
<1>8. X86Running(s)'
  BY <1>1, <1>2, <1>4, <1>6, <1>7 DEF X86Running, Op
<1>9. X86Good(s)' /\ At' = Skip(code, k) /\ Jumped' = (esi' # {})
  BY <1>1, <1>2, <1>6, <1>7, <1>8, X86Reaches
<1>10. [Meaning!Next]_(Meaning!vars)
  BY <1>1, <1>2, <1>3, <1>9, MeaningStep
<1> QED BY <1>9, <1>10

LEMMA X86RunsTestEdx ==
    ASSUME NEW s, X86Good(s), machine' = machine, OnX86!TestEdx
    PROVE  X86Good(s)' /\ [Meaning!Next]_(Meaning!vars)
<1>1. /\ OnX86!Fetch("test_edx") /\ ZF' = (edx \cap text[rip].imm = {}) /\ rip' = rip + 6
      /\ pc' = pc /\ esi' = esi /\ edx' = edx /\ product' = product
  BY DEF OnX86!TestEdx
<1>2. /\ pc = "run" /\ text[rip].op = "test_edx" /\ UNCHANGED <<code, i, pos, target, text>>
      /\ Jumped = (esi # {})
  BY <1>1, X86Fetches
<1>3. PICK k : X86Here(s, k) /\ At = Skip(code, k)
  BY <1>1, X86Fetches
<1>4. /\ k \in 0 .. Len(code) /\ k < Len(code) /\ Op(code, k) = "BRANCH" /\ rip = s[k] + 2
      /\ esi \subseteq edx /\ text[rip].imm = code[k + 1].imm32
      /\ esi = {} /\ (\E w \in 0 .. k - 1 : Op(code, w) \in MultiplyHigh) => edx = product
  BY <1>2, <1>3 DEF X86Here
<1>5. s[k] \in Nat /\ X86Code(code, text, s, k) /\ k \in 0 .. Len(code) - 1
  BY <1>2, <1>4, X86Boundary
<1>6. PICK d : Item(text, s[k] + 8, [op |-> "jz", src |-> k, disp8 |-> d])
  BY <1>4, <1>5 DEF X86Code
<1>7. /\ esi' \in {{}, Bits} /\ edx' \in SUBSET Bits /\ product' \in SUBSET Bits
      /\ ZF' \in BOOLEAN /\ esi \in {{}, Bits}
  BY <1>1 DEF X86Good
<1>8. /\ \E w \in 0 .. k - 1 : Op(code, w) \in MultiplyHigh
      /\ code[k + 1].imm32 # {} /\ code[k + 1].imm32 \subseteq Bits
  BY <1>4, <1>5, BranchNear DEF X86Good
<1>9. ZF' <=> esi' = {} /\ product' \cap code[k + 1].imm32 = {}
  <2>1. CASE esi = {}
    BY <1>1, <1>4, <1>8, <2>1
  <2>2. CASE esi = Bits
    BY <1>1, <1>4, <1>8, <2>2
  <2> QED BY <1>7, <2>1, <2>2
<1>10. rip' = s[k] + 8 /\ rip' > 0 /\ text[rip'].src = k /\ text[rip'].op = "jz"
  BY <1>1, <1>4, <1>5, <1>6 DEF Item
<1>11. X86Running(s)'
  BY <1>1, <1>2, <1>4, <1>7, <1>9, <1>10 DEF X86Running, Op
<1>12. X86Good(s)' /\ At' = Skip(code, k) /\ Jumped' = (esi' # {})
  BY <1>1, <1>2, <1>7, <1>10, <1>11, X86Reaches
<1>13. [Meaning!Next]_(Meaning!vars)
  BY <1>1, <1>2, <1>3, <1>12, MeaningStep
<1> QED BY <1>12, <1>13

\* A displacement of eight bits is what it was before it lost the rest.
LEMMA SignExtends ==
    ASSUME NEW d \in -128 .. -1
    PROVE  OnX86!SignExtend8(d % 256) = d
<1>1. d % 256 = d + 256
  OBVIOUS
<1> QED BY <1>1 DEF OnX86!SignExtend8

LEMMA X86RunsJz ==
    ASSUME NEW s, X86Good(s), machine' = machine, OnX86!Jz
    PROVE  X86Good(s)' /\ [Meaning!Next]_(Meaning!vars)
<1>1. /\ OnX86!Fetch("jz")
      /\ rip' = rip + 2 + (IF ZF THEN OnX86!SignExtend8(text[rip].disp8) ELSE 0)
      /\ pc' = pc /\ esi' = esi /\ edx' = edx /\ ZF' = ZF /\ product' = product
  BY DEF OnX86!Jz
<1>2. /\ pc = "run" /\ text[rip].op = "jz" /\ UNCHANGED <<code, i, pos, target, text>>
      /\ Jumped = (esi # {})
  BY <1>1, X86Fetches
<1>3. PICK k : X86Here(s, k) /\ At = Skip(code, k)
  BY <1>1, X86Fetches
<1>4. /\ k \in 0 .. Len(code) /\ k < Len(code) /\ Op(code, k) = "BRANCH" /\ rip = s[k] + 8
      /\ ZF <=> esi = {} /\ product \cap code[k + 1].imm32 = {}
      /\ esi = {} /\ (\E w \in 0 .. k - 1 : Op(code, w) \in MultiplyHigh) => edx = product
  BY <1>2, <1>3 DEF X86Here
<1>5. /\ s[k] \in Nat /\ s[k + 1] = s[k] + 10 /\ k + 1 \in 0 .. Len(code)
      /\ k \in 0 .. Len(code) - 1 /\ Len(code) \in Nat /\ k \in Nat
  BY <1>2, <1>4, X86Boundary, X86Sizes
<1>6. /\ esi' \in {{}, Bits} /\ edx' \in SUBSET Bits /\ product' \in SUBSET Bits
      /\ ZF' \in BOOLEAN
  BY <1>1 DEF X86Good
<1>7. At = k
  BY <1>3, <1>4, <1>5, SkipStep DEF IsTarget, Op
<1>8. CASE ~ZF
  <2>1. rip' = s[k + 1]
    BY <1>1, <1>4, <1>5, <1>8
  <2>2. esi' = {} /\ (\E w \in 0 .. (k + 1) - 1 : Op(code, w) \in MultiplyHigh) => edx' = product'
    BY <1>1, <1>4, <1>5, OpcodeFacts
  <2>3. X86Good(s)' /\ At' = Skip(code, k + 1) /\ Jumped' = (esi' # {})
    BY <1>1, <1>2, <1>5, <1>6, <2>1, <2>2, X86ReachesBoundary
  <2>4. [Meaning!Next]_(Meaning!vars)
    BY <1>1, <1>2, <1>4, <1>7, <1>8, <2>3, MeaningStep
  <2> QED BY <2>3, <2>4
<1>9. CASE ZF
  <2>1. PICK t : LastTarget(code, k, t) /\ text[rip].disp8 = (s[t] - (s[k] + 8)) % 256
    BY <1>2, <1>3 DEF X86Here
  <2>2. t \in Nat /\ t \in 0 .. k - 1 /\ t \in 0 .. Len(code) /\ t < Len(code) /\ Op(code, t) = "TARGET"
    BY <1>5, <2>1 DEF LastTarget
  <2>3. s[t] \in Nat /\ Item(text, s[t] + 2, [op |-> "cmovz", src |-> t])
    BY <1>2, <2>2, X86Boundary DEF X86Code
  <2>4. s[t] - (s[k] + 8) \in -128 .. -1
    BY <1>4, <1>5, <2>1, BranchNear DEF X86Good
  <2>5. rip' = s[t] + 2
    <3>1. OnX86!SignExtend8(text[rip].disp8) = s[t] - (s[k] + 8)
      BY <2>1, <2>4, SignExtends
    <3>2. rip' = rip + 2 + OnX86!SignExtend8(text[rip].disp8)
      BY <1>1, <1>9
    <3>3. rip = s[k] + 8
      BY <1>4
    <3> QED BY <1>5, <2>3, <3>1, <3>2, <3>3
  <2>6. rip' > 0 /\ text[rip'].src = t /\ text[rip'].op = "cmovz"
    BY <2>3, <2>5 DEF Item
  <2>7. esi' = {} /\ (\E w \in 0 .. t - 1 : Op(code, w) \in MultiplyHigh) => edx' = product'
    BY <1>1, <1>4, <2>2
  <2>8. X86Running(s)'
    BY <1>1, <1>2, <1>4, <1>9, <2>2, <2>5, <2>6, <2>7 DEF X86Running, Op
  <2>9. X86Good(s)' /\ At' = Skip(code, t) /\ Jumped' = TRUE
    BY <1>1, <1>2, <1>6, <1>9, <2>6, <2>8, X86Reaches
  <2>10. Landing(code, k) = t
    BY <1>4, <1>5, <2>1, LandsBehindTarget
  <2>11. Skip(code, t) = Skip(code, t + 1)
    BY <1>5, <2>2, SkipStep DEF IsTarget, Op
  <2>12. [Meaning!Next]_(Meaning!vars)
    BY <1>1, <1>2, <1>4, <1>7, <1>9, <2>9, <2>10, <2>11, MeaningStep
  <2> QED BY <2>9, <2>12
<1> QED BY <1>8, <1>9

LEMMA X86RunsPrologue ==
    ASSUME NEW s, X86Good(s), machine' = machine, OnX86!Prologue
    PROVE  X86Good(s)' /\ [Meaning!Next]_(Meaning!vars)
<1>1. /\ pc = "run" /\ rip \in DOMAIN text /\ text[rip].op = "prologue"
      /\ UNCHANGED <<code, i, pos, target, text>>
      /\ rip' = OnX86!x86_prologue(WINABI) /\ esi' = {} /\ edx' \in SUBSET Bits /\ ZF' = TRUE
      /\ pc' = pc /\ product' = product
  BY DEF OnX86!Prologue, OnX86!Fetch, OnX86!compiler, OnX86!Words
<1>2. /\ machine = "x86" /\ code \in Seq(OnX86!Instructions) /\ s = X86Start(code)
      /\ rip \in Nat
  <2>1. rip \in 0 .. pos - 1
    BY <1>1 DEF X86Good, Within
  <2> QED BY <2>1 DEF X86Good
<1>3. rip = 0
  <2>1. rip > 0 => \E k : X86Here(s, k)
    BY <1>1, X86IsHere
  <2> QED BY <1>1, <1>2, <2>1 DEF X86Here
<1>4. product = {}
  BY <1>1, <1>3 DEF X86Good, X86Running
<1>5. 0 \in 0 .. Len(code) /\ rip' = s[0]
  BY <1>1, <1>2, X86StartFacts, X86Program
<1>6. X86Good(s)' /\ At' = Skip(code, 0) /\ Jumped' = FALSE
  <2>1. esi' \in {{}, Bits} /\ product' \in SUBSET Bits /\ ZF' \in BOOLEAN /\ ~(esi' # {})
    BY <1>1, <1>4
  <2>2. ~\E w \in 0 .. 0 - 1 : Op(code, w) \in MultiplyHigh
    OBVIOUS
  <2>3. pc # "compile" /\ pc' \in {"run", "returned"}
    BY <1>1
  <2>4. UNCHANGED <<machine, code, i, pos, target, text>>
    BY <1>1
  <2> QED BY <1>1, <1>5, <2>1, <2>2, <2>3, <2>4, X86ReachesBoundary
<1>7. At = Skip(code, 0) /\ Jumped = FALSE
  BY <1>2, <1>3, X86Means
<1>8. [Meaning!Next]_(Meaning!vars)
  BY <1>1, <1>6, <1>7, MeaningStep
<1> QED BY <1>6, <1>8

\* A step that leaves the program's place as it is.
LEMMA X86Stays ==
    ASSUME NEW s, X86Good(s), UNCHANGED <<machine, code, i, pos, target, text, rip, esi, edx, ZF, product>>,
           pc' = pc \/ (pc = "run" /\ pc' = "returned")
    PROVE  X86Good(s)' /\ [Meaning!Next]_(Meaning!vars)
<1>1. X86Good(s)'
  <2>1. X86Running(s) => X86Running(s)'
    BY DEF X86Running, Op
  <2> QED BY <2>1 DEF X86Good
<1>2. machine = "x86" /\ machine' = "x86" /\ (pc = "compile") = (pc' = "compile")
  BY DEF X86Good
<1>3. At' = At
  BY <1>2 DEF At, OnX86!At, OnX86!InProgram
<1>4. Jumped' = Jumped
  BY <1>2 DEF Jumped, OnX86!Jumped, OnX86!InProgram, OnX86!HasJumped
<1> QED BY <1>1, <1>3, <1>4, MeaningStep

\* The program has not been entered as long as it is compiled.
LEMMA X86CompilingMeansNothing ==
    ASSUME NEW s, X86Good(s), pc = "compile", X86Good(s)', UNCHANGED <<code, rip, product>>
    PROVE  [Meaning!Next]_(Meaning!vars)
<1>1. machine = "x86" /\ machine' = "x86" /\ rip = 0 /\ rip' = 0
  BY DEF X86Good
<1>2. At' = At
  <2>1. ~OnX86!InProgram /\ ~OnX86!InProgram'
    BY <1>1 DEF OnX86!InProgram
  <2> QED BY <1>1, <2>1 DEF At, OnX86!At
<1>3. Jumped' = Jumped
  BY <1>1 DEF Jumped, OnX86!Jumped, OnX86!InProgram
<1> QED BY <1>2, <1>3, MeaningStep

\* Every step on x86 keeps the invariant, and is one of the program or none.
LEMMA X86Step ==
    ASSUME NEW s, X86Good(s), [Next]_vars
    PROVE  X86Good(s)' /\ [Meaning!Next]_(Meaning!vars)
<1>1. machine = "x86"
  BY DEF X86Good
<1>2. CASE UNCHANGED vars
  BY <1>2, X86Stays DEF vars, x86
<1>3. CASE Next
  <2>1. machine' = machine /\ OnX86!Next
    BY <1>1, <1>3 DEF Next
  <2>2. ASSUME OnX86!EmitWideMul \/ OnX86!EmitCompute \/ OnX86!EmitTarget \/ OnX86!EmitBranch
        PROVE  X86Good(s)' /\ [Meaning!Next]_(Meaning!vars)
    <3>1. X86Good(s)'
      BY <2>1, <2>2, X86EmitsWideMul, X86EmitsCompute, X86EmitsTarget, X86EmitsBranch
    <3>2. pc = "compile" /\ UNCHANGED <<code, rip, product>>
      BY <2>2 DEF OnX86!EmitWideMul, OnX86!EmitCompute, OnX86!EmitTarget, OnX86!EmitBranch,
                  OnX86!EmitAt, OnX86!processor
    <3> QED BY <3>1, <3>2, X86CompilingMeansNothing
  <2>3. ASSUME OnX86!EmitEpilogue
        PROVE  X86Good(s)' /\ [Meaning!Next]_(Meaning!vars)
    <3>1. X86Good(s)'
      BY <2>1, <2>3, X86EmitsEpilogue
    <3>2. pc = "compile" /\ UNCHANGED <<code, rip, product>>
      BY <2>3 DEF OnX86!EmitEpilogue, OnX86!processor
    <3>3. rip = 0 /\ machine' = "x86"
      BY <1>1, <2>1, <3>2 DEF X86Good
    <3> QED BY <3>1, <3>2, X86CompilingMeansNothing
  <2>4. ASSUME OnX86!Epilogue
        PROVE  X86Good(s)' /\ [Meaning!Next]_(Meaning!vars)
    BY <2>1, <2>4, X86Stays DEF OnX86!Epilogue, OnX86!Fetch, OnX86!processor, OnX86!compiler
  <2>5. ASSUME OnX86!Returned
        PROVE  X86Good(s)' /\ [Meaning!Next]_(Meaning!vars)
    BY <2>1, <2>5, X86Stays DEF OnX86!Returned, OnX86!vars, OnX86!processor, OnX86!compiler
  <2> QED BY <2>1, <2>2, <2>3, <2>4, <2>5, X86RunsPrologue, X86RunsWideMul, X86RunsCompute,
             X86RunsTestEdi, X86RunsCmovz, X86RunsOrEdx, X86RunsTestEdx, X86RunsJz
          DEF OnX86!Next
<1> QED BY <1>2, <1>3

\* What the run checks follows from the invariant.
LEMMA X86NeverAstray ==
    ASSUME NEW s, X86Good(s)
    PROVE  OnX86!TypeOK
<1>1. rip \in DOMAIN text
  <2>1. CASE pc = "compile" \/ rip = 0
    BY <2>1 DEF X86Good, X86Layout, Item
  <2>2. CASE pc # "compile" /\ rip > 0
    BY <2>2, X86IsHere DEF X86Here
  <2> QED BY <2>1, <2>2 DEF X86Good, X86Running
<1> QED BY <1>1 DEF X86Good, Within, OnX86!TypeOK, OnX86!Words

LEMMA X86Starts ==
    ASSUME machine = "x86", OnX86!Init
    PROVE  \E s : X86Good(s)
<1> DEFINE s == X86Start(code)
<1>1. /\ code \in Seq(OnX86!Instructions) /\ OnX86!X86Compilable(code)
      /\ pc = "compile" /\ i = 0 /\ pos = OnX86!x86_prologue(WINABI)
      /\ target = OnX86!NoTarget /\ text = [p \in {0} |-> [op |-> "prologue", src |-> 0]]
      /\ rip = 0 /\ esi = {} /\ edx = {} /\ ZF = FALSE /\ product = {}
  BY MachinesAssumption DEF OnX86!Init, OnX86!X86Assumption
<1>2. s[0] = OnX86!x86_prologue(WINABI) /\ s[0] > 0 /\ s[0] \in Nat /\ Len(code) \in Nat
  <2>1. OnX86!x86_prologue(WINABI) \in Nat
    BY DEF OnX86!x86_prologue
  <2> QED BY <1>1, <2>1, X86StartFacts, X86Program
<1>3. Within(text, code, pos)
  BY <1>1, <1>2 DEF Within
<1>4. X86Layout(code, text, s, i)
  BY <1>1 DEF X86Layout, Item
<1>5. \A t : ~LastTarget(code, i, t)
  BY <1>1 DEF LastTarget
<1> HIDE DEF s
<1>6. s = X86Start(code)
  BY DEF s
<1>7. /\ i \in 0 .. Len(code) /\ pos \in Nat /\ pos = s[i]
      /\ target \in Nat \cup {OnX86!NoTarget}
  BY <1>1, <1>2
<1>8. esi \in {{}, Bits} /\ edx \in SUBSET Bits /\ ZF \in BOOLEAN /\ product \in SUBSET Bits
  BY <1>1
<1>9. X86Good(s)
  BY <1>1, <1>3, <1>4, <1>5, <1>6, <1>7, <1>8 DEF X86Good
<1> QED BY <1>9

-----------------------------------------------------------------------------
(* What the A64 compiler emits.                                             *)

A64Size == [op \in Opcodes |-> a64_size(op)]

A64Start(prog) == Starts(OnA64!a64_prologue, A64Size, prog)

LEMMA A64Program ==
    ASSUME NEW prog \in Seq(OnA64!Instructions)
    PROVE  /\ Len(prog) \in Nat
           /\ \A k \in 0 .. Len(prog) - 1 :
                /\ Op(prog, k) \in Opcodes
                /\ Op(prog, k) \in MultiplyHigh \cup Arithmetic => prog[k + 1].dst \in Registers
                /\ prog[k + 1].imm32 \in SUBSET Bits
<1>1. Len(prog) \in Nat
  OBVIOUS
<1>2. ASSUME NEW k \in 0 .. Len(prog) - 1
      PROVE  /\ Op(prog, k) \in Opcodes
             /\ Op(prog, k) \in MultiplyHigh \cup Arithmetic => prog[k + 1].dst \in Registers
             /\ prog[k + 1].imm32 \in SUBSET Bits
  <2>1. k + 1 \in 1 .. Len(prog)
    BY <1>1
  <2>2. prog[k + 1] \in OnA64!Instructions
    BY <2>1
  <2>3. CASE prog[k + 1] \in [opcode : MultiplyHigh \cup Arithmetic, dst : Registers,
                              imm32 : SUBSET Bits]
    BY <2>3 DEF Op, Opcodes
  <2>4. CASE prog[k + 1] \in [opcode : {"TARGET", "BRANCH"}, dst : {OnA64!None},
                              imm32 : SUBSET Bits]
    BY <2>4, OpcodeFacts DEF Op, Opcodes
  <2> QED BY <2>2, <2>3, <2>4, SameOperators DEF OnA64!Instructions, OnA64!Words
<1> QED BY <1>1, <1>2

LEMMA A64StartFacts ==
    ASSUME NEW prog \in Seq(OnA64!Instructions), NEW s, s = A64Start(prog)
    PROVE  /\ s \in [0 .. Len(prog) -> Nat]
           /\ s[0] = 40
           /\ \A k \in 0 .. Len(prog) - 1 : s[k + 1] = s[k] + a64_size(Op(prog, k))
           /\ \A j, k \in 0 .. Len(prog) : j <= k => s[j] <= s[k]
<1>1. OnA64!a64_prologue = 40
  BY DEF OnA64!a64_prologue
<1>2. A64Size \in [Opcodes -> Nat]
  BY A64Sizes DEF A64Size
<1>3. Len(prog) \in Nat /\ \A k \in 0 .. Len(prog) - 1 : Op(prog, k) \in Opcodes
  BY A64Program
<1>4. /\ s \in [0 .. Len(prog) -> Nat]
      /\ s[0] = 40
      /\ \A k \in 0 .. Len(prog) - 1 : s[k + 1] = s[k] + A64Size[Op(prog, k)]
      /\ \A j, k \in 0 .. Len(prog) : j <= k => s[j] <= s[k]
  BY <1>1, <1>2, <1>3, StartsFacts DEF A64Start
<1>5. \A k \in 0 .. Len(prog) - 1 : A64Size[Op(prog, k)] = a64_size(Op(prog, k))
  BY <1>3 DEF A64Size
<1> QED BY <1>4, <1>5

\* The code consists of instructions of four bytes, at most six for one of the
\* program.
LEMMA A64Aligned ==
    ASSUME NEW prog \in Seq(OnA64!Instructions), NEW s, s = A64Start(prog),
           NEW k \in 0 .. Len(prog)
    PROVE  \E m \in 0 .. 10 + 6 * k : s[k] = 4 * m
<1> DEFINE U == {n \in Nat : n <= Len(prog) => \E m \in 0 .. 10 + 6 * n : s[n] = 4 * m}
<1>0. Len(prog) \in Nat
  BY A64Program
<1>1. 0 \in U
  <2>1. s[0] = 4 * 10 /\ 10 \in 0 .. 10 + 6 * 0
    BY A64StartFacts
  <2> QED BY <2>1
<1>2. ASSUME NEW n \in U PROVE n + 1 \in U
  <2>1. SUFFICES ASSUME n + 1 <= Len(prog)
                 PROVE  \E m \in 0 .. 10 + 6 * (n + 1) : s[n + 1] = 4 * m
    OBVIOUS
  <2>2. n \in 0 .. Len(prog) - 1 /\ n \in Nat
    BY <1>0, <2>1
  <2>3. PICK m \in 0 .. 10 + 6 * n : s[n] = 4 * m
    BY <2>1, <2>2
  <2>4. Op(prog, n) \in Opcodes /\ s[n + 1] = s[n] + a64_size(Op(prog, n))
    BY <2>2, A64Program, A64StartFacts
  <2>5. a64_size(Op(prog, n)) \in {0, 4, 12, 24}
    BY <2>4, A64Sizes
  <2> HIDE DEF U
  <2>6. PICK d \in {0, 1, 3, 6} : a64_size(Op(prog, n)) = 4 * d
    BY <2>5
  <2>7. m + d \in 0 .. 10 + 6 * (n + 1) /\ s[n + 1] = 4 * (m + d)
    BY <2>2, <2>3, <2>4, <2>6
  <2> QED BY <2>7
<1>3. U = Nat
  <2> HIDE DEF U
  <2>1. U \subseteq Nat
    BY DEF U
  <2> QED BY <1>1, <1>2, <2>1, NumbersInduction
<1>4. k \in U /\ k <= Len(prog)
  <2> HIDE DEF U
  <2> QED BY <1>0, <1>3
<1> QED BY <1>4

\* The displacement's 19 bits are enough for every program that fits its array.
LEMMA A64Displacement ==
    ASSUME NEW prog \in Seq(OnA64!Instructions), Len(prog) <= 512, NEW s, s = A64Start(prog),
           NEW k \in 0 .. Len(prog) - 1, NEW t \in 0 .. k - 1
    PROVE  (s[k] + 20) + 4 * OnA64!SignExtend19(((s[t] - (s[k] + 20)) \div 4) % OnA64!IMM19) = s[t]
<1>1. Len(prog) \in Nat
  BY A64Program
<1>2. k \in 0 .. Len(prog) /\ t \in 0 .. Len(prog) /\ k \in Nat /\ t \in Nat /\ t <= k
  BY <1>1
<1>3. PICK a \in 0 .. 10 + 6 * k : s[k] = 4 * a
  BY <1>2, A64Aligned
<1>4. PICK b \in 0 .. 10 + 6 * t : s[t] = 4 * b
  BY <1>2, A64Aligned
<1>5. s[t] <= s[k]
  BY <1>2, A64StartFacts
<1>6. b <= a /\ a \in 0 .. 3082 /\ b \in 0 .. 3082
  BY <1>1, <1>2, <1>3, <1>4, <1>5
<1>7. (s[t] - (s[k] + 20)) \div 4 = b - a - 5
  <2>1. s[t] - (s[k] + 20) = 4 * (b - a - 5)
    BY <1>3, <1>4, <1>6
  <2> QED BY <1>6, <2>1
<1>8. \A h \in Nat : h > 4000 =>
        LET m == (b - a - 5) % (2 * h)
        IN  (IF m < h THEN m ELSE m - 2 * h) = b - a - 5
  <2> SUFFICES ASSUME NEW h \in Nat, h > 4000
               PROVE  LET m == (b - a - 5) % (2 * h)
                      IN  (IF m < h THEN m ELSE m - 2 * h) = b - a - 5
    OBVIOUS
  <2>1. (b - a - 5) % (2 * h) = (b - a - 5) + 2 * h
    BY <1>6
  <2> QED BY <1>6, <2>1
<1>9. OnA64!SignExtend19((b - a - 5) % OnA64!IMM19) = b - a - 5
  <2> DEFINE h == 256 * 1024
  <2>1. h \in Nat /\ h > 4000 /\ OnA64!IMM19 = 2 * h /\ OnA64!IMM19 \div 2 = h
    BY DEF OnA64!IMM19
  <2> HIDE DEF h
  <2> QED BY <1>8, <2>1 DEF OnA64!SignExtend19
<1> QED BY <1>3, <1>4, <1>6, <1>7, <1>9

\* A target emits nothing: what follows is in its place.
LEMMA A64Skips ==
    ASSUME NEW prog \in Seq(OnA64!Instructions), NEW s, s = A64Start(prog),
           NEW k \in 0 .. Len(prog)
    PROVE  s[Skip(prog, k)] = s[k]
<1> DEFINE e == Skip(prog, k)
           U == {n \in Nat : k + n <= e => s[k + n] = s[k]}
<1>1. /\ Len(prog) \in Nat /\ e \in k .. Len(prog) /\ k \in Nat /\ e \in Nat
      /\ \A j \in k .. e - 1 : IsTarget(prog, j)
  BY A64Program, SkipIs
<1> HIDE DEF e
<1>2. 0 \in U
  BY <1>1
<1>3. ASSUME NEW n \in U PROVE n + 1 \in U
  <2>1. SUFFICES ASSUME k + (n + 1) <= e PROVE s[k + (n + 1)] = s[k]
    OBVIOUS
  <2>2. /\ n \in Nat /\ k + n \in k .. e - 1 /\ k + n \in 0 .. Len(prog) - 1 /\ s[k + n] = s[k]
        /\ (k + n) + 1 = k + (n + 1) /\ k + n \in 0 .. Len(prog)
    BY <1>1, <2>1
  <2>3. Op(prog, k + n) = "TARGET"
    BY <1>1, <2>2 DEF IsTarget, Op
  <2>4. s[(k + n) + 1] = s[k + n] + 0 /\ s[k + n] \in Nat
    <3>1. s \in [0 .. Len(prog) -> Nat]
      BY A64StartFacts
    <3> QED BY <2>2, <2>3, <3>1, A64StartFacts, A64Sizes
  <2> QED BY <2>2, <2>4
<1>4. U = Nat
  <2> HIDE DEF U
  <2>1. U \subseteq Nat
    BY DEF U
  <2> QED BY <1>2, <1>3, <2>1, NumbersInduction
<1>5. e - k \in U /\ k + (e - k) = e
  <2> HIDE DEF U
  <2> QED BY <1>1, <1>4
<1>6. k + (e - k) <= e => s[k + (e - k)] = s[k]
  BY <1>5
<1>7. s[e] = s[k]
  BY <1>1, <1>5, <1>6
<1> QED BY <1>7 DEF e

\* Index m is a wide multiplication between a target and index n, with no branch
\* since the target: OnA64!Watched, counted from 0.
Live(prog, m, n) ==
    /\ m \in 0 .. n - 1
    /\ Op(prog, m) \in MultiplyHigh
    /\ \E j \in 0 .. m - 1 : /\ Op(prog, j) = "TARGET"
                             /\ \A b \in j .. n - 1 : Op(prog, b) # "BRANCH"

\* It is the last one: its register is kept.
Kept(prog, m, n) ==
    /\ Live(prog, m, n)
    /\ \A l \in m + 1 .. n - 1 : Op(prog, l) \notin MultiplyHigh

LEMMA LiveIsWatched ==
    ASSUME NEW prog, NEW n \in Nat, NEW m \in 0 .. n - 1
    PROVE  Live(prog, m, n) <=> OnA64!Watched(prog, m + 1, n + 1)
<1>1. ASSUME Live(prog, m, n) PROVE OnA64!Watched(prog, m + 1, n + 1)
  <2>1. PICK j \in 0 .. m - 1 : /\ Op(prog, j) = "TARGET"
                                /\ \A b \in j .. n - 1 : Op(prog, b) # "BRANCH"
    BY <1>1 DEF Live
  <2>2. j + 1 \in 1 .. (m + 1) - 1 /\ prog[j + 1].opcode = "TARGET"
    BY <2>1 DEF Op
  <2>3. ASSUME NEW b \in j + 1 .. (n + 1) - 1 PROVE prog[b].opcode # "BRANCH"
    <3>1. b - 1 \in j .. n - 1 /\ (b - 1) + 1 = b
      BY <2>1
    <3> QED BY <2>1, <3>1 DEF Op
  <2> QED BY <1>1, <2>2, <2>3, SameOperators DEF Live, Op, OnA64!Watched
<1>2. ASSUME OnA64!Watched(prog, m + 1, n + 1) PROVE Live(prog, m, n)
  <2>1. PICK j \in 1 .. (m + 1) - 1 :
            /\ prog[j].opcode = "TARGET"
            /\ \A b \in j .. (n + 1) - 1 : prog[b].opcode # "BRANCH"
    BY <1>2 DEF OnA64!Watched
  <2>2. j - 1 \in 0 .. m - 1 /\ (j - 1) + 1 = j /\ Op(prog, j - 1) = "TARGET"
    BY <2>1 DEF Op
  <2>3. ASSUME NEW b \in j - 1 .. n - 1 PROVE Op(prog, b) # "BRANCH"
    <3>1. b + 1 \in j .. (n + 1) - 1
      BY <2>1
    <3> QED BY <2>1, <3>1 DEF Op
  <2>4. Op(prog, m) \in MultiplyHigh
    BY <1>2, SameOperators DEF OnA64!Watched, Op
  <2> QED BY <2>2, <2>3, <2>4 DEF Live
<1> QED BY <1>1, <1>2

\* What the compiler relies on.
LEMMA A64Relies ==
    ASSUME NEW prog \in Seq(OnA64!Instructions), OnA64!A64Compilable(prog)
    PROVE  /\ Len(prog) <= 512
           /\ \A n \in 0 .. Len(prog) - 1 :
                /\ Op(prog, n) \in Arithmetic =>
                    \A m : Kept(prog, m, n) => prog[m + 1].dst # prog[n + 1].dst
                /\ Op(prog, n) = "BRANCH" =>
                    prog[n + 1].imm32 # {} /\ \E m : Live(prog, m, n)
<1>1. Len(prog) \in Nat /\ Len(prog) <= 512
  BY A64Program DEF OnA64!A64Compilable, OnA64!MAX_INSTRUCTIONS
<1>2. ASSUME NEW n \in 0 .. Len(prog) - 1, Op(prog, n) \in Arithmetic,
             NEW m, Kept(prog, m, n), prog[m + 1].dst = prog[n + 1].dst
      PROVE  FALSE
  <2>1. n \in Nat /\ m \in 0 .. n - 1 /\ n + 1 \in DOMAIN prog /\ m + 1 \in 1 .. (n + 1) - 1
    BY <1>1, <1>2 DEF Kept, Live
  <2>2. OnA64!Watched(prog, m + 1, n + 1)
    BY <1>2, <2>1, LiveIsWatched DEF Kept
  <2>3. prog[n + 1].opcode \in OnA64!Arithmetic
    BY <1>2, SameOperators DEF Op
  <2>4. \/ prog[m + 1].dst # prog[n + 1].dst
        \/ \E l \in (m + 1) + 1 .. (n + 1) - 1 : prog[l].opcode \in OnA64!MultiplyHigh
    BY <2>1, <2>2, <2>3 DEF OnA64!A64Compilable
  <2>5. PICK l \in (m + 1) + 1 .. (n + 1) - 1 : prog[l].opcode \in MultiplyHigh
    BY <1>2, <2>4, SameOperators
  <2>6. l - 1 \in m + 1 .. n - 1 /\ (l - 1) + 1 = l
    BY <2>1, <2>5
  <2>7. Op(prog, l - 1) \in MultiplyHigh
    BY <2>5, <2>6 DEF Op
  <2> QED BY <1>2, <2>6, <2>7 DEF Kept
<1>3. ASSUME NEW n \in 0 .. Len(prog) - 1, Op(prog, n) = "BRANCH"
      PROVE  prog[n + 1].imm32 # {} /\ \E m : Live(prog, m, n)
  <2>1. n \in Nat /\ n + 1 \in DOMAIN prog /\ prog[n + 1].opcode = "BRANCH"
    BY <1>1, <1>3 DEF Op
  <2>2. prog[n + 1].imm32 # {} /\ \E m \in 1 .. (n + 1) - 1 : OnA64!Watched(prog, m, n + 1)
    BY <2>1 DEF OnA64!A64Compilable
  <2>3. PICK m \in 1 .. (n + 1) - 1 : OnA64!Watched(prog, m, n + 1)
    BY <2>2
  <2>4. m - 1 \in 0 .. n - 1 /\ (m - 1) + 1 = m
    BY <2>1, <2>3
  <2>5. Live(prog, m - 1, n)
    BY <2>1, <2>3, <2>4, LiveIsWatched
  <2> QED BY <2>2, <2>5
<1> QED BY <1>1, <1>2, <1>3

\* How one more instruction changes what is kept.
LEMMA KeptStep ==
    ASSUME NEW prog, NEW n \in Nat, Op(prog, n) \in Opcodes
    PROVE  /\ Op(prog, n) \in Arithmetic \cup {"TARGET"} =>
                \A m : /\ Kept(prog, m, n + 1) <=> Kept(prog, m, n)
                       /\ Live(prog, m, n + 1) => Live(prog, m, n)
           /\ Op(prog, n) = "BRANCH" => \A m : ~Live(prog, m, n + 1)
           /\ Op(prog, n) \in MultiplyHigh => \A m : Kept(prog, m, n + 1) => m = n
<1>1. ASSUME Op(prog, n) \in Arithmetic \cup {"TARGET"}, NEW m
      PROVE  /\ Kept(prog, m, n + 1) <=> Kept(prog, m, n)
             /\ Live(prog, m, n + 1) => Live(prog, m, n)
  <2>0. Op(prog, n) \notin MultiplyHigh /\ Op(prog, n) # "BRANCH"
    BY <1>1, OpcodeFacts
  <2>1. ASSUME Kept(prog, m, n + 1) PROVE Kept(prog, m, n)
    <3>1. m \in 0 .. n /\ m # n
      BY <2>0, <2>1 DEF Kept, Live
    <3>2. m \in 0 .. n - 1
      BY <3>1
    <3> QED BY <2>1, <3>2 DEF Kept, Live
  <2>2. ASSUME Kept(prog, m, n) PROVE Kept(prog, m, n + 1)
    <3>1. m \in 0 .. n - 1 /\ m \in 0 .. (n + 1) - 1
      BY <2>2 DEF Kept, Live
    <3>2. PICK j \in 0 .. m - 1 : /\ Op(prog, j) = "TARGET"
                                  /\ \A b \in j .. n - 1 : Op(prog, b) # "BRANCH"
      BY <2>2 DEF Kept, Live
    <3>3. \A b \in j .. (n + 1) - 1 : Op(prog, b) # "BRANCH"
      BY <2>0, <3>2
    <3>4. \A l \in m + 1 .. (n + 1) - 1 : Op(prog, l) \notin MultiplyHigh
      BY <2>0, <2>2, <3>1 DEF Kept
    <3> QED BY <2>2, <3>1, <3>2, <3>3, <3>4 DEF Kept, Live
  <2>3. ASSUME Live(prog, m, n + 1) PROVE Live(prog, m, n)
    <3>1. m \in 0 .. n /\ m # n
      BY <2>0, <2>3 DEF Live
    <3>2. m \in 0 .. n - 1
      BY <3>1
    <3> QED BY <2>3, <3>2 DEF Live
  <2> QED BY <2>1, <2>2, <2>3
<1>2. ASSUME Op(prog, n) = "BRANCH", NEW m, Live(prog, m, n + 1) PROVE FALSE
  <2>1. PICK j \in 0 .. m - 1 : \A b \in j .. (n + 1) - 1 : Op(prog, b) # "BRANCH"
    BY <1>2 DEF Live
  <2>2. n \in j .. (n + 1) - 1
    BY <1>2, <2>1 DEF Live
  <2> QED BY <1>2, <2>1, <2>2
<1>3. ASSUME Op(prog, n) \in MultiplyHigh, NEW m, Kept(prog, m, n + 1) PROVE m = n
  <2>1. m \in 0 .. n
    BY <1>3 DEF Kept, Live
  <2>2. m # n => n \in m + 1 .. (n + 1) - 1
    BY <2>1
  <2> QED BY <1>3, <2>2 DEF Kept
<1> QED BY <1>1, <1>2, <1>3

\* Targets change nothing about it.
LEMMA KeptSkips ==
    ASSUME NEW prog, Len(prog) \in Nat, NEW n \in 0 .. Len(prog), NEW m,
           Kept(prog, m, Skip(prog, n))
    PROVE  Kept(prog, m, n)
<1> DEFINE e == Skip(prog, n)
<1>1. e \in n .. Len(prog) /\ \A j \in n .. e - 1 : Op(prog, j) = "TARGET"
  BY SkipIs DEF IsTarget, Op
<1> HIDE DEF e
<1>2. Kept(prog, m, e)
  BY DEF e
<1>3. m \in 0 .. e - 1 /\ Op(prog, m) \in MultiplyHigh
  BY <1>2 DEF Kept, Live
<1>4. m \in 0 .. n - 1
  BY <1>1, <1>3, OpcodeFacts
<1> QED BY <1>1, <1>2, <1>4 DEF Kept, Live

\* The last target, with no branch since.
OpenTarget(prog, n, t) ==
    /\ LastTarget(prog, n, t)
    /\ \A b \in t .. n - 1 : Op(prog, b) # "BRANCH"

Closed(prog, n) ==
    \A j \in 0 .. n - 1 : Op(prog, j) = "TARGET" => \E b \in j .. n - 1 : Op(prog, b) = "BRANCH"

LEMMA ClosedHasNone ==
    ASSUME NEW prog, NEW n \in Nat, Closed(prog, n)
    PROVE  \A m : ~Live(prog, m, n)
<1> SUFFICES ASSUME NEW m, Live(prog, m, n) PROVE FALSE
  OBVIOUS
<1>1. m \in 0 .. n - 1
  BY DEF Live
<1>2. PICK j \in 0 .. m - 1 : /\ Op(prog, j) = "TARGET"
                              /\ \A b \in j .. n - 1 : Op(prog, b) # "BRANCH"
  BY DEF Live
<1>3. j \in 0 .. n - 1
  BY <1>1, <1>2
<1> QED BY <1>2, <1>3 DEF Closed

LEMMA OpenStep ==
    ASSUME NEW prog, NEW n \in Nat, Op(prog, n) \in Opcodes
    PROVE  /\ Op(prog, n) = "TARGET" => OpenTarget(prog, n + 1, n)
           /\ Op(prog, n) = "BRANCH" => Closed(prog, n + 1)
           /\ Op(prog, n) \in MultiplyHigh \cup Arithmetic =>
                /\ \A t : OpenTarget(prog, n, t) => OpenTarget(prog, n + 1, t)
                /\ Closed(prog, n) => Closed(prog, n + 1)
           /\ Op(prog, n) \in MultiplyHigh =>
                \A t : OpenTarget(prog, n, t) => Kept(prog, n, n + 1)
<1>1. Op(prog, n) = "TARGET" => OpenTarget(prog, n + 1, n)
  BY DEF OpenTarget, LastTarget
<1>2. Op(prog, n) = "BRANCH" => Closed(prog, n + 1)
  BY DEF Closed
<1>3. ASSUME Op(prog, n) \in MultiplyHigh \cup Arithmetic
      PROVE  /\ \A t : OpenTarget(prog, n, t) => OpenTarget(prog, n + 1, t)
             /\ Closed(prog, n) => Closed(prog, n + 1)
  <2>1. Op(prog, n) # "TARGET" /\ Op(prog, n) # "BRANCH"
    BY <1>3, OpcodeFacts
  <2>2. ASSUME NEW t, OpenTarget(prog, n, t) PROVE OpenTarget(prog, n + 1, t)
    <3>1. t \in 0 .. (n + 1) - 1 /\ Op(prog, t) = "TARGET"
      BY <2>2 DEF OpenTarget, LastTarget
    <3>2. \A j \in t + 1 .. (n + 1) - 1 : Op(prog, j) # "TARGET"
      BY <2>1, <2>2 DEF OpenTarget, LastTarget
    <3>3. \A b \in t .. (n + 1) - 1 : Op(prog, b) # "BRANCH"
      BY <2>1, <2>2 DEF OpenTarget
    <3> QED BY <3>1, <3>2, <3>3 DEF OpenTarget, LastTarget
  <2>3. ASSUME Closed(prog, n) PROVE Closed(prog, n + 1)
    <3>1. ASSUME NEW j \in 0 .. (n + 1) - 1, Op(prog, j) = "TARGET"
          PROVE  \E b \in j .. (n + 1) - 1 : Op(prog, b) = "BRANCH"
      <4>1. j \in 0 .. n - 1
        BY <2>1, <3>1
      <4>2. PICK b \in j .. n - 1 : Op(prog, b) = "BRANCH"
        BY <2>3, <3>1, <4>1 DEF Closed
      <4>3. b \in j .. (n + 1) - 1
        BY <4>1, <4>2
      <4> QED BY <4>2, <4>3
    <3> QED BY <3>1 DEF Closed
  <2> QED BY <2>2, <2>3
<1>4. ASSUME Op(prog, n) \in MultiplyHigh, NEW t, OpenTarget(prog, n, t)
      PROVE  Kept(prog, n, n + 1)
  <2>1. OpenTarget(prog, n + 1, t)
    BY <1>3, <1>4
  <2>2. t \in 0 .. n - 1 /\ Op(prog, t) = "TARGET" /\ n \in 0 .. (n + 1) - 1
    BY <1>4 DEF OpenTarget, LastTarget
  <2>3. \A b \in t .. (n + 1) - 1 : Op(prog, b) # "BRANCH"
    BY <2>1 DEF OpenTarget
  <2>4. Live(prog, n, n + 1)
    BY <1>4, <2>2, <2>3 DEF Live
  <2> QED BY <2>4 DEF Kept
<1> QED BY <1>1, <1>2, <1>3, <1>4

A64Code(prog, txt, s, k) ==
    /\ Op(prog, k) \in MultiplyHigh =>
        Item(txt, s[k], [op |-> "mul", src |-> k, dst |-> prog[k + 1].dst, next |-> s[k + 1]])
    /\ Op(prog, k) \in Arithmetic =>
        Item(txt, s[k], [op |-> "alu", src |-> k, dst |-> prog[k + 1].dst, next |-> s[k + 1]])
    /\ Op(prog, k) = "BRANCH" =>
        /\ \E m : /\ Kept(prog, m, k)
                  /\ Item(txt, s[k], [op |-> "tst", src |-> k, creg |-> prog[m + 1].dst,
                                      imm |-> prog[k + 1].imm32])
        /\ Item(txt, s[k] + 16, [op |-> "csinv", src |-> k])
        /\ \E t : /\ LastTarget(prog, k, t)
                  /\ Item(txt, s[k] + 20,
                        [op |-> "b.eq", src |-> k,
                         imm19 |-> ((s[t] - (s[k] + 20)) \div 4) % OnA64!IMM19])

\* The code of the first n instructions.
A64Layout(prog, txt, s, n) ==
    /\ Item(txt, 0, [op |-> "prologue", src |-> 0])
    /\ \A k \in 0 .. n - 1 : A64Code(prog, txt, s, k)

LEMMA A64LayoutKept ==
    ASSUME NEW prog, NEW txt, NEW s, NEW n \in Nat, A64Layout(prog, txt, s, n),
           NEW txt2, \A p, item : Item(txt, p, item) => Item(txt2, p, item)
    PROVE  A64Layout(prog, txt2, s, n)
<1>1. Item(txt2, 0, [op |-> "prologue", src |-> 0])
  BY DEF A64Layout
<1>2. ASSUME NEW k \in 0 .. n - 1 PROVE A64Code(prog, txt2, s, k)
  <2>1. A64Code(prog, txt, s, k)
    BY DEF A64Layout
  <2> QED BY <2>1 DEF A64Code
<1> QED BY <1>1, <1>2 DEF A64Layout

A64Running(s) ==
    \/ address = 0 /\ w9 = {} /\ product = {}
    \/ /\ address > 0
       /\ \E k \in 0 .. Len(code) :
            \/ /\ address = s[k]
               /\ k < Len(code) => Op(code, k) # "TARGET"
               /\ w9 = {} => \A m : Kept(code, m, k) => x[code[m + 1].dst] = product
            \/ /\ k < Len(code) /\ Op(code, k) = "BRANCH"
               /\ address = s[k] + 16
               /\ Z <=> w9 = {} /\ product \cap code[k + 1].imm32 = {}
            \/ /\ k < Len(code) /\ Op(code, k) = "BRANCH"
               /\ address = s[k] + 20
               /\ Z => w9 # {}

\* The inductive invariant of A64; s[k] is where the code of instruction k starts.
A64Good(s) ==
    /\ machine = "a64"
    /\ pc \in {"compile", "run", "returned"}
    /\ code \in Seq(OnA64!Instructions) /\ OnA64!A64Compilable(code)
    /\ s = A64Start(code)
    /\ i \in 0 .. Len(code)
    /\ pos \in Nat
    /\ target \in Nat \cup {OnA64!None} /\ creg \in Registers \cup {OnA64!None}
    /\ Within(text, code, pos)
    /\ A64Layout(code, text, s, i)
    /\ x \in [Registers -> SUBSET Bits] /\ product \in SUBSET Bits
    /\ w9 \in {{}, Bits} /\ Z \in BOOLEAN
    /\ pc = "compile" =>
        /\ pos = s[i]
        /\ target = OnA64!None => Closed(code, i)
        /\ target # OnA64!None => \E t : OpenTarget(code, i, t) /\ target = s[t]
        /\ creg = OnA64!None => \A m : ~Live(code, m, i)
        /\ creg # OnA64!None => \E m : Kept(code, m, i) /\ creg = code[m + 1].dst
        /\ address = 0 /\ w9 = {} /\ product = {}
    /\ pc # "compile" =>
        /\ i = Len(code)
        /\ Item(text, s[i], [op |-> "epilogue", src |-> i])
        /\ A64Running(s)

\* While it compiles, pos is where the next instruction's code will be.
LEMMA A64CompilingFacts ==
    ASSUME NEW s, A64Good(s), pc = "compile", i < Len(code)
    PROVE  /\ i \in Nat /\ i \in 0 .. Len(code) - 1 /\ Op(code, i) \in Opcodes
           /\ code[i + 1].opcode = Op(code, i) /\ OnA64!instr = code[i + 1]
           /\ pos = s[i] /\ s[i] \in Nat /\ s[i + 1] \in Nat
           /\ s[i + 1] = s[i] + a64_size(Op(code, i)) /\ s[i] <= s[i + 1]
           /\ OnA64!a64_size(OnA64!instr.opcode) = a64_size(Op(code, i))
<1>1. /\ code \in Seq(OnA64!Instructions) /\ s = A64Start(code) /\ pos = s[i]
      /\ i \in 0 .. Len(code)
  BY DEF A64Good
<1>2. Len(code) \in Nat
  BY <1>1, A64Program
<1>3. i \in Nat /\ i \in 0 .. Len(code) - 1 /\ i + 1 \in 0 .. Len(code)
  BY <1>1, <1>2
<1>4. Op(code, i) \in Opcodes
  BY <1>1, <1>3, A64Program
<1>5. s \in [0 .. Len(code) -> Nat]
  BY <1>1, A64StartFacts
<1>6. s[i + 1] = s[i] + a64_size(Op(code, i))
  BY <1>1, <1>3, A64StartFacts
<1>7. s[i] <= s[i + 1]
  BY <1>3, <1>4, <1>5, <1>6, A64Sizes
<1> QED BY <1>1, <1>3, <1>4, <1>5, <1>6, <1>7, SameOperators DEF Op, OnA64!instr

LEMMA A64EmitKeeps ==
    ASSUME NEW s, A64Good(s), machine' = machine, NEW opcodes, NEW items,
           OnA64!EmitAt(opcodes, items), pc' = pc,
           \A p \in DOMAIN items : p \in s[i] .. s[i + 1] - 1 /\ items[p].src = i,
           A64Code(code, items, s, i),
           target' \in Nat \cup {OnA64!None}, creg' \in Registers \cup {OnA64!None},
           target' = OnA64!None => Closed(code, i + 1),
           target' # OnA64!None => \E t : OpenTarget(code, i + 1, t) /\ target' = s[t],
           creg' = OnA64!None => \A m : ~Live(code, m, i + 1),
           creg' # OnA64!None => \E m : Kept(code, m, i + 1) /\ creg' = code[m + 1].dst
    PROVE  A64Good(s)'
<1>1. /\ pc = "compile" /\ i < Len(code) /\ text' = OnA64!With(items) /\ i' = i + 1
      /\ pos' = pos + OnA64!a64_size(OnA64!instr.opcode)
      /\ UNCHANGED <<pc, code, address, x, w9, Z, product>>
  BY DEF OnA64!EmitAt, OnA64!processor
<1>2. /\ code \in Seq(OnA64!Instructions) /\ s = A64Start(code)
      /\ Len(code) \in Nat /\ i \in Nat /\ i \in 0 .. Len(code)
  BY <1>1, A64Program DEF A64Good
<1>3. s[i] \in Nat /\ s[i + 1] \in Nat /\ s[i] <= s[i + 1] /\ pos = s[i] /\ pos' = s[i + 1]
  BY <1>1, A64CompilingFacts
<1>4. text' = Overlaid(text, items)
  BY <1>1 DEF OnA64!With, Overlaid
<1>5. /\ \A p, item : Item(text, p, item) => Item(text', p, item)
      /\ \A p, item : Item(items, p, item) => Item(text', p, item)
      /\ Within(text', code, pos')
  <2>1. Within(text, code, s[i])
    BY <1>3 DEF A64Good
  <2> QED BY <1>2, <1>3, <1>4, <2>1, OverlaidFacts
<1>6. A64Layout(code, text', s, i + 1)
  <2>1. A64Layout(code, text', s, i)
    BY <1>2, <1>5, A64LayoutKept DEF A64Good
  <2>2. A64Code(code, text', s, i)
    BY <1>5 DEF A64Code
  <2> QED BY <1>2, <2>1, <2>2 DEF A64Layout
<1> QED BY <1>1, <1>2, <1>3, <1>5, <1>6 DEF A64Good

LEMMA A64EmitsWideMul ==
    ASSUME NEW s, A64Good(s), machine' = machine, OnA64!EmitWideMul PROVE A64Good(s)'
<1> DEFINE items == OnA64!Operation("mul")
<1>1. /\ OnA64!EmitAt(OnA64!MultiplyHigh, items)
      /\ creg' = (IF target # OnA64!None THEN OnA64!instr.dst ELSE creg)
      /\ pc' = pc /\ target' = target
  BY DEF OnA64!EmitWideMul
<1>2. pc = "compile" /\ i < Len(code) /\ OnA64!instr.opcode \in MultiplyHigh
  BY <1>1, SameOperators DEF OnA64!EmitAt
<1>3. /\ i \in Nat /\ pos = s[i] /\ s[i] \in Nat /\ s[i + 1] = s[i] + a64_size(Op(code, i))
      /\ Op(code, i) \in MultiplyHigh /\ Op(code, i) \in Opcodes /\ OnA64!instr = code[i + 1]
      /\ OnA64!a64_size(OnA64!instr.opcode) = a64_size(Op(code, i))
      /\ i \in 0 .. Len(code) - 1
  BY <1>2, A64CompilingFacts
<1>4. a64_size(Op(code, i)) \in {4, 12}
  BY <1>3, A64Sizes
<1>5. code[i + 1].dst \in Registers /\ code[i + 1].dst # OnA64!None
  BY <1>3, A64Program, MachinesAssumption DEF A64Good, OnA64!A64Assumption
<1>6. items = [p \in {s[i]} |-> [op |-> "mul", src |-> i, dst |-> code[i + 1].dst,
                                 next |-> s[i + 1]]]
  BY <1>3 DEF OnA64!Operation
<1> HIDE DEF items
<1>7. A64Code(code, items, s, i)
  BY <1>3, <1>6, OpcodeFacts DEF A64Code, Item
<1>8. \A p \in DOMAIN items : p \in s[i] .. s[i + 1] - 1 /\ items[p].src = i
  BY <1>3, <1>4, <1>6
<1>9. /\ target \in Nat \cup {OnA64!None} /\ creg \in Registers \cup {OnA64!None}
      /\ target = OnA64!None => Closed(code, i)
      /\ target # OnA64!None => \E t : OpenTarget(code, i, t) /\ target = s[t]
      /\ creg # OnA64!None => \E m : Kept(code, m, i)
  BY <1>2 DEF A64Good
<1>10. CASE target = OnA64!None
  <2>1. Closed(code, i) /\ Closed(code, i + 1) /\ \A m : ~Live(code, m, i)
    BY <1>3, <1>9, <1>10, OpenStep, ClosedHasNone
  <2>2. \A m : ~Live(code, m, i + 1)
    <3>1. i + 1 \in Nat
      BY <1>3
    <3> QED BY <2>1, <3>1, ClosedHasNone
  <2>3. creg = OnA64!None /\ creg' = OnA64!None /\ target' = OnA64!None
    BY <1>1, <1>9, <1>10, <2>1 DEF Kept
  <2> QED BY <1>1, <1>7, <1>8, <1>9, <2>1, <2>2, <2>3, A64EmitKeeps
<1>11. CASE target # OnA64!None
  <2>1. PICK t : OpenTarget(code, i, t) /\ target = s[t]
    BY <1>9, <1>11
  <2>2. OpenTarget(code, i + 1, t) /\ Kept(code, i, i + 1)
    BY <1>3, <2>1, OpenStep
  <2>3. creg' = code[i + 1].dst /\ creg' # OnA64!None /\ target' = s[t] /\ target' # OnA64!None
        /\ target' \in Nat \cup {OnA64!None} /\ creg' \in Registers \cup {OnA64!None}
    BY <1>1, <1>3, <1>5, <1>9, <1>11, <2>1
  <2> QED BY <1>1, <1>7, <1>8, <2>2, <2>3, A64EmitKeeps
<1> QED BY <1>10, <1>11

\* The assertion holds.
LEMMA A64EmitsCompute ==
    ASSUME NEW s, A64Good(s), machine' = machine, OnA64!EmitCompute PROVE A64Good(s)'
<1> DEFINE items == OnA64!Operation("alu")
<1>1. /\ OnA64!EmitAt(OnA64!Arithmetic, items)
      /\ pc' = (IF creg = OnA64!instr.dst THEN "aborted" ELSE pc)
      /\ creg' = creg /\ target' = target
  BY DEF OnA64!EmitCompute
<1>2. pc = "compile" /\ i < Len(code) /\ OnA64!instr.opcode \in Arithmetic
  BY <1>1, SameOperators DEF OnA64!EmitAt
<1>3. /\ i \in Nat /\ pos = s[i] /\ s[i] \in Nat /\ s[i + 1] = s[i] + a64_size(Op(code, i))
      /\ Op(code, i) \in Arithmetic /\ Op(code, i) \in Opcodes /\ OnA64!instr = code[i + 1]
      /\ OnA64!a64_size(OnA64!instr.opcode) = a64_size(Op(code, i))
      /\ i \in 0 .. Len(code) - 1
  BY <1>2, A64CompilingFacts
<1>4. a64_size(Op(code, i)) \in {4, 12}
  BY <1>3, A64Sizes
<1>5. code[i + 1].dst \in Registers /\ code[i + 1].dst # OnA64!None
  BY <1>3, A64Program, MachinesAssumption DEF A64Good, OnA64!A64Assumption
<1>6. items = [p \in {s[i]} |-> [op |-> "alu", src |-> i, dst |-> code[i + 1].dst,
                                 next |-> s[i + 1]]]
  BY <1>3 DEF OnA64!Operation
<1> HIDE DEF items
<1>7. A64Code(code, items, s, i)
  BY <1>3, <1>6, OpcodeFacts DEF A64Code, Item
<1>8. \A p \in DOMAIN items : p \in s[i] .. s[i + 1] - 1 /\ items[p].src = i
  BY <1>3, <1>4, <1>6
<1>9. /\ target \in Nat \cup {OnA64!None} /\ creg \in Registers \cup {OnA64!None}
      /\ target = OnA64!None => Closed(code, i)
      /\ target # OnA64!None => \E t : OpenTarget(code, i, t) /\ target = s[t]
      /\ creg = OnA64!None => \A m : ~Live(code, m, i)
      /\ creg # OnA64!None => \E m : Kept(code, m, i) /\ creg = code[m + 1].dst
  BY <1>2 DEF A64Good
<1>10. creg # OnA64!instr.dst
  <2>1. SUFFICES ASSUME creg = OnA64!instr.dst PROVE FALSE
    OBVIOUS
  <2>2. PICK m : Kept(code, m, i) /\ creg = code[m + 1].dst
    BY <1>3, <1>5, <1>9, <2>1
  <2> QED BY <1>3, <2>1, <2>2, A64Relies DEF A64Good
<1>11. /\ target = OnA64!None => Closed(code, i + 1)
       /\ target # OnA64!None => \E t : OpenTarget(code, i + 1, t) /\ target = s[t]
  BY <1>3, <1>9, OpenStep
<1>12. /\ creg = OnA64!None => \A m : ~Live(code, m, i + 1)
       /\ creg # OnA64!None => \E m : Kept(code, m, i + 1) /\ creg = code[m + 1].dst
  BY <1>3, <1>9, KeptStep
<1> QED BY <1>1, <1>7, <1>8, <1>9, <1>10, <1>11, <1>12, A64EmitKeeps

LEMMA A64EmitsTarget ==
    ASSUME NEW s, A64Good(s), machine' = machine, OnA64!EmitTarget PROVE A64Good(s)'
<1>1. /\ OnA64!EmitAt({"TARGET"}, << >>) /\ pc' = pc /\ creg' = creg /\ target' = pos
  BY DEF OnA64!EmitTarget
<1>2. pc = "compile" /\ i < Len(code) /\ OnA64!instr.opcode = "TARGET"
  BY <1>1 DEF OnA64!EmitAt
<1>3. /\ i \in Nat /\ pos = s[i] /\ s[i] \in Nat
      /\ Op(code, i) = "TARGET" /\ Op(code, i) \in Opcodes
  BY <1>2, A64CompilingFacts
<1>4. A64Code(code, << >>, s, i) /\ DOMAIN << >> = {}
  BY <1>3, OpcodeFacts DEF A64Code
<1>5. /\ creg \in Registers \cup {OnA64!None}
      /\ creg = OnA64!None => \A m : ~Live(code, m, i)
      /\ creg # OnA64!None => \E m : Kept(code, m, i) /\ creg = code[m + 1].dst
  BY <1>2 DEF A64Good
<1>6. /\ creg = OnA64!None => \A m : ~Live(code, m, i + 1)
      /\ creg # OnA64!None => \E m : Kept(code, m, i + 1) /\ creg = code[m + 1].dst
  BY <1>3, <1>5, KeptStep
<1>7. OpenTarget(code, i + 1, i) /\ target' = s[i] /\ target' # OnA64!None
      /\ target' \in Nat \cup {OnA64!None}
  BY <1>1, <1>3, OpenStep DEF OnA64!None
<1> QED BY <1>1, <1>4, <1>5, <1>6, <1>7, A64EmitKeeps

LEMMA A64EmitsBranch ==
    ASSUME NEW s, A64Good(s), machine' = machine, OnA64!EmitBranch PROVE A64Good(s)'
<1> DEFINE items == OnA64!BranchItems
<1>1. /\ OnA64!EmitAt({"BRANCH"}, items) /\ pc' = pc
      /\ creg' = OnA64!None /\ target' = OnA64!None
  BY DEF OnA64!EmitBranch
<1>2. pc = "compile" /\ i < Len(code) /\ OnA64!instr.opcode = "BRANCH"
  BY <1>1 DEF OnA64!EmitAt
<1>3. /\ i \in Nat /\ i \in 0 .. Len(code) - 1
      /\ pos = s[i] /\ s[i] \in Nat /\ s[i + 1] = s[i] + 24
      /\ Op(code, i) = "BRANCH" /\ Op(code, i) \in Opcodes /\ OnA64!instr = code[i + 1]
  BY <1>2, A64CompilingFacts, A64Sizes
<1>4. \E m : Live(code, m, i)
  BY <1>3, A64Relies DEF A64Good
<1>5. target # OnA64!None /\ creg # OnA64!None
  <2>1. target = OnA64!None => \A m : ~Live(code, m, i)
    BY <1>2, <1>3, ClosedHasNone DEF A64Good
  <2>2. creg = OnA64!None => \A m : ~Live(code, m, i)
    BY <1>2 DEF A64Good
  <2> QED BY <1>4, <2>1, <2>2
<1>6. PICK t : LastTarget(code, i, t) /\ target = s[t]
  BY <1>2, <1>5 DEF A64Good, OpenTarget
<1>7. PICK m : Kept(code, m, i) /\ creg = code[m + 1].dst
  BY <1>2, <1>5 DEF A64Good
<1>8. /\ DOMAIN items = {s[i], s[i] + 16, s[i] + 20}
      /\ items[s[i]] = [op |-> "tst", src |-> i, creg |-> code[m + 1].dst,
                        imm |-> code[i + 1].imm32]
      /\ items[s[i] + 16] = [op |-> "csinv", src |-> i]
      /\ items[s[i] + 20] = [op |-> "b.eq", src |-> i,
                             imm19 |-> ((s[t] - (s[i] + 20)) \div 4) % OnA64!IMM19]
  <2>1. DOMAIN items = {pos, pos + 16, pos + 20}
    BY DEF OnA64!BranchItems
  <2>2. items[pos] = [op |-> "tst", src |-> i, creg |-> creg, imm |-> OnA64!instr.imm32]
    BY DEF OnA64!BranchItems
  <2>3. pos + 16 # pos /\ pos + 20 # pos /\ pos + 20 # pos + 16
    BY <1>3
  <2>4. items[pos + 16] = [op |-> "csinv", src |-> i]
    BY <2>3, Zenon DEF OnA64!BranchItems
  <2>5. items[pos + 20] = [op |-> "b.eq", src |-> i, imm19 |-> OnA64!Displacement(pos + 20)]
    BY <2>3, Zenon DEF OnA64!BranchItems
  <2>6. OnA64!Displacement(pos + 20) = ((s[t] - (s[i] + 20)) \div 4) % OnA64!IMM19
    BY <1>3, <1>6 DEF OnA64!Displacement
  <2> HIDE DEF items
  <2> QED BY <1>3, <1>7, <2>1, <2>2, <2>4, <2>5, <2>6
<1> HIDE DEF items
<1>9. A64Code(code, items, s, i)
  <2>1. Item(items, s[i], [op |-> "tst", src |-> i, creg |-> code[m + 1].dst,
                           imm |-> code[i + 1].imm32])
    BY <1>8 DEF Item
  <2>2. Item(items, s[i] + 16, [op |-> "csinv", src |-> i])
    BY <1>8 DEF Item
  <2>3. Item(items, s[i] + 20, [op |-> "b.eq", src |-> i,
                             imm19 |-> ((s[t] - (s[i] + 20)) \div 4) % OnA64!IMM19])
    BY <1>8 DEF Item
  <2> QED BY <1>3, <1>6, <1>7, <2>1, <2>2, <2>3, OpcodeFacts DEF A64Code
<1>10. ASSUME NEW p \in DOMAIN items
       PROVE  p \in s[i] .. s[i + 1] - 1 /\ items[p].src = i
  <2>1. p = s[i] \/ p = s[i] + 16 \/ p = s[i] + 20
    BY <1>8
  <2>2. items[s[i]].src = i /\ items[s[i] + 16].src = i /\ items[s[i] + 20].src = i
    BY <1>8
  <2> QED BY <1>3, <2>1, <2>2
<1>11. Closed(code, i + 1) /\ \A l : ~Live(code, l, i + 1)
  BY <1>3, OpenStep, KeptStep
<1> QED BY <1>1, <1>9, <1>10, <1>11, A64EmitKeeps

LEMMA A64EmitsEpilogue ==
    ASSUME NEW s, A64Good(s), machine' = machine, OnA64!EmitEpilogue PROVE A64Good(s)'
<1>1. PICK items :
        /\ items = [p \in {pos} |-> [op |-> "epilogue", src |-> i]]
        /\ text' = OnA64!With(items)
  BY DEF OnA64!EmitEpilogue
<1>2. /\ pc = "compile" /\ pc' = "run" /\ i = Len(code)
      /\ pos' = pos + OnA64!a64_epilogue
      /\ UNCHANGED <<code, i, target, creg, address, x, w9, Z, product>>
  BY DEF OnA64!EmitEpilogue, OnA64!processor
<1>3. /\ code \in Seq(OnA64!Instructions) /\ s = A64Start(code) /\ pos = s[i]
      /\ pos \in Nat /\ i \in 0 .. Len(code) /\ Len(code) \in Nat
      /\ address = 0 /\ w9 = {} /\ product = {}
  BY <1>2, A64Program DEF A64Good
<1>4. pos' \in Nat /\ pos < pos'
  BY <1>2, <1>3 DEF OnA64!a64_epilogue
<1>5. /\ \A p, item : Item(text, p, item) => Item(text', p, item)
      /\ \A p, item : Item(items, p, item) => Item(text', p, item)
      /\ Within(text', code, pos')
  <2>1. text' = Overlaid(text, items)
    BY <1>1 DEF OnA64!With, Overlaid
  <2>2. \A p \in DOMAIN items : p \in pos .. pos' - 1 /\ items[p].src \in 0 .. Len(code)
    <3>1. DOMAIN items = {pos} /\ items[pos].src = i
      BY <1>1
    <3> QED BY <1>3, <1>4, <3>1
  <2>3. Within(text, code, pos)
    BY DEF A64Good
  <2> QED BY <1>3, <1>4, <2>1, <2>2, <2>3, OverlaidFacts
<1>6. Item(text', s[i], [op |-> "epilogue", src |-> i])
  BY <1>1, <1>3, <1>5 DEF Item
<1>7. A64Layout(code, text', s, i)
  BY <1>3, <1>5, A64LayoutKept DEF A64Good
<1>8. A64Running(s)'
  BY <1>2, <1>3 DEF A64Running
<1> QED BY <1>2, <1>3, <1>4, <1>5, <1>6, <1>7, <1>8 DEF A64Good

-----------------------------------------------------------------------------
(* Running on A64.                                                          *)

\* The code of an instruction starts with an instruction of its own, that of a
\* target with what follows the target.
LEMMA A64Boundary ==
    ASSUME NEW s, A64Good(s), pc # "compile", NEW k \in 0 .. Len(code)
    PROVE  /\ s[k] \in Nat /\ s[k] > 0 /\ Len(code) \in Nat
           /\ Skip(code, k) \in k .. Len(code)
           /\ Skip(code, k) < Len(code) => Op(code, Skip(code, k)) # "TARGET"
           /\ s[Skip(code, k)] = s[k] /\ Skip(code, Skip(code, k)) = Skip(code, k)
           /\ s[k] \in DOMAIN text /\ text[s[k]].src = Skip(code, k)
           /\ text[s[k]].op \in {"mul", "alu", "tst", "epilogue"}
           /\ k < Len(code) =>
                /\ Op(code, k) \in Opcodes /\ A64Code(code, text, s, k)
                /\ s[k + 1] = s[k] + a64_size(Op(code, k))
<1>1. /\ code \in Seq(OnA64!Instructions) /\ s = A64Start(code) /\ i = Len(code)
      /\ Item(text, s[i], [op |-> "epilogue", src |-> i])
      /\ \A l \in 0 .. i - 1 : A64Code(code, text, s, l)
  BY DEF A64Good, A64Layout
<1>2. Len(code) \in Nat
  BY <1>1, A64Program
<1>3. s[k] \in Nat /\ s[k] > 0
  <2>1. s \in [0 .. Len(code) -> Nat] /\ s[0] = 40
    BY <1>1, A64StartFacts
  <2>2. s[0] <= s[k]
    BY <1>1, <1>2, <2>1, A64StartFacts
  <2> QED BY <2>1, <2>2
<1>4. ASSUME k < Len(code)
      PROVE  /\ Op(code, k) \in Opcodes /\ A64Code(code, text, s, k)
             /\ s[k + 1] = s[k] + a64_size(Op(code, k))
  <2>1. k \in 0 .. i - 1 /\ k \in 0 .. Len(code) - 1
    BY <1>1, <1>2, <1>4
  <2> QED BY <1>1, <2>1, A64Program, A64StartFacts
<1> DEFINE e == Skip(code, k)
<1>5. e \in k .. Len(code) /\ (e < Len(code) => ~IsTarget(code, e))
  BY <1>2, SkipIs
<1>6. s[e] = s[k]
  BY <1>1, A64Skips
<1> HIDE DEF e
<1>7. e \in 0 .. Len(code) /\ (e < Len(code) => Op(code, e) # "TARGET")
  BY <1>2, <1>5 DEF IsTarget, Op
<1>8. Skip(code, e) = e
  <2>1. e \in e .. Len(code) /\ \A j \in e .. e - 1 : IsTarget(code, j)
    BY <1>2, <1>5
  <2> QED BY <1>2, <1>5, <1>7, <2>1, SkipUnique
<1>9. s[e] \in DOMAIN text /\ text[s[e]].src = e /\ text[s[e]].op \in {"mul", "alu", "tst", "epilogue"}
  <2>1. CASE e = Len(code)
    BY <1>1, <2>1 DEF Item
  <2>2. CASE e # Len(code)
    <3>1. e \in 0 .. i - 1 /\ e \in 0 .. Len(code) - 1
      BY <1>1, <1>2, <1>7, <2>2
    <3>2. A64Code(code, text, s, e) /\ Op(code, e) \in Opcodes /\ Op(code, e) # "TARGET"
      BY <1>1, <1>7, <3>1, A64Program
    <3>3. CASE Op(code, e) \in MultiplyHigh
      BY <3>2, <3>3 DEF A64Code, Item
    <3>4. CASE Op(code, e) \in Arithmetic
      BY <3>2, <3>4 DEF A64Code, Item
    <3>5. CASE Op(code, e) = "BRANCH"
      <4>1. PICK r : Item(text, s[e], [op |-> "tst", src |-> e, creg |-> r,
                                       imm |-> code[e + 1].imm32])
        BY <3>2, <3>5 DEF A64Code
      <4> QED BY <4>1 DEF Item
    <3> QED BY <3>2, <3>3, <3>4, <3>5, OpcodeFacts
  <2> QED BY <2>1, <2>2
<1> QED BY <1>2, <1>3, <1>4, <1>5, <1>6, <1>7, <1>8, <1>9 DEF e

\* The processor is at an instruction that comes from the program's index k.
A64Here(s, k) ==
    /\ k \in 0 .. Len(code)
    /\ address \in DOMAIN text /\ text[address].src = k
    /\ text[address].op \in {"mul", "alu", "tst", "csinv", "b.eq", "epilogue"}
    /\ text[address].op # "epilogue" => k < Len(code)
    /\ text[address].op \in {"mul", "alu", "tst", "epilogue"} /\ w9 = {} =>
        \A m : Kept(code, m, k) => x[code[m + 1].dst] = product
    /\ text[address].op = "mul" =>
        /\ Op(code, k) \in MultiplyHigh
        /\ text[address].dst = code[k + 1].dst /\ text[address].next = s[k + 1]
    /\ text[address].op = "alu" =>
        /\ Op(code, k) \in Arithmetic
        /\ text[address].dst = code[k + 1].dst /\ text[address].next = s[k + 1]
    /\ text[address].op = "tst" =>
        /\ Op(code, k) = "BRANCH" /\ address = s[k]
        /\ text[address].imm = code[k + 1].imm32
        /\ \E m : Kept(code, m, k) /\ text[address].creg = code[m + 1].dst
    /\ text[address].op = "csinv" =>
        /\ Op(code, k) = "BRANCH" /\ address = s[k] + 16
        /\ Z <=> w9 = {} /\ product \cap code[k + 1].imm32 = {}
    /\ text[address].op = "b.eq" =>
        Op(code, k) = "BRANCH" /\ address = s[k] + 20 /\ (Z => w9 # {})

LEMMA A64IsHere ==
    ASSUME NEW s, A64Good(s), pc # "compile", address > 0
    PROVE  \E k : A64Here(s, k)
<1>1. PICK k \in 0 .. Len(code) :
        \/ /\ address = s[k]
           /\ k < Len(code) => Op(code, k) # "TARGET"
           /\ w9 = {} => \A m : Kept(code, m, k) => x[code[m + 1].dst] = product
        \/ /\ k < Len(code) /\ Op(code, k) = "BRANCH"
           /\ address = s[k] + 16
           /\ Z <=> w9 = {} /\ product \cap code[k + 1].imm32 = {}
        \/ /\ k < Len(code) /\ Op(code, k) = "BRANCH"
           /\ address = s[k] + 20
           /\ Z => w9 # {}
  BY DEF A64Good, A64Running
<1>2. Len(code) \in Nat
  BY A64Boundary
<1>3. CASE /\ address = s[k]
           /\ k < Len(code) => Op(code, k) # "TARGET"
           /\ w9 = {} => \A m : Kept(code, m, k) => x[code[m + 1].dst] = product
  <2>1. CASE k = Len(code)
    <3>1. Item(text, s[k], [op |-> "epilogue", src |-> k])
      BY <2>1 DEF A64Good
    <3> QED BY <1>3, <3>1 DEF Item, A64Here
  <2>2. CASE k < Len(code)
    <3>1. A64Code(code, text, s, k) /\ Op(code, k) \in Opcodes /\ Op(code, k) # "TARGET"
      BY <1>3, <2>2, A64Boundary
    <3>2. CASE Op(code, k) \in MultiplyHigh
      <4>1. Item(text, s[k], [op |-> "mul", src |-> k, dst |-> code[k + 1].dst,
                              next |-> s[k + 1]])
        BY <3>1, <3>2 DEF A64Code
      <4> QED BY <1>3, <2>2, <3>2, <4>1 DEF Item, A64Here
    <3>3. CASE Op(code, k) \in Arithmetic
      <4>1. Item(text, s[k], [op |-> "alu", src |-> k, dst |-> code[k + 1].dst,
                              next |-> s[k + 1]])
        BY <3>1, <3>3 DEF A64Code
      <4> QED BY <1>3, <2>2, <3>3, <4>1 DEF Item, A64Here
    <3>4. CASE Op(code, k) = "BRANCH"
      <4>1. PICK m : /\ Kept(code, m, k)
                     /\ Item(text, s[k], [op |-> "tst", src |-> k, creg |-> code[m + 1].dst,
                                          imm |-> code[k + 1].imm32])
        BY <3>1, <3>4 DEF A64Code
      <4> QED BY <1>3, <2>2, <3>4, <4>1 DEF Item, A64Here
    <3> QED BY <3>1, <3>2, <3>3, <3>4, OpcodeFacts
  <2> QED BY <1>2, <2>1, <2>2
<1>4. CASE /\ k < Len(code) /\ Op(code, k) = "BRANCH"
           /\ address = s[k] + 16
           /\ Z <=> w9 = {} /\ product \cap code[k + 1].imm32 = {}
  <2>1. Item(text, s[k] + 16, [op |-> "csinv", src |-> k])
    BY <1>4, A64Boundary DEF A64Code
  <2> QED BY <1>4, <2>1 DEF Item, A64Here
<1>5. CASE /\ k < Len(code) /\ Op(code, k) = "BRANCH"
           /\ address = s[k] + 20
           /\ Z => w9 # {}
  <2>1. PICK d : Item(text, s[k] + 20, [op |-> "b.eq", src |-> k, imm19 |-> d])
    BY <1>5, A64Boundary DEF A64Code
  <2> QED BY <1>5, <2>1 DEF Item, A64Here
<1> QED BY <1>1, <1>3, <1>4, <1>5

\* What the b.eq of a branch does.
LEMMA A64BEq ==
    ASSUME NEW s, A64Good(s), pc # "compile",
           NEW k \in 0 .. Len(code), k < Len(code), Op(code, k) = "BRANCH"
    PROVE  /\ s[k + 1] = s[k] + 24 /\ k + 1 \in 0 .. Len(code)
           /\ s[k] + 20 \in DOMAIN text /\ text[s[k] + 20].op = "b.eq"
           /\ text[s[k] + 20].src = k
           /\ \E t : /\ LastTarget(code, k, t) /\ t \in 0 .. Len(code) /\ t < Len(code)
                     /\ (s[k] + 20) + 4 * OnA64!SignExtend19(text[s[k] + 20].imm19) = s[t]
<1>1. /\ A64Code(code, text, s, k) /\ s[k + 1] = s[k] + 24 /\ Len(code) \in Nat
      /\ k + 1 \in 0 .. Len(code) /\ k \in 0 .. Len(code) - 1
  BY A64Boundary, A64Sizes
<1>2. PICK t : /\ LastTarget(code, k, t)
               /\ Item(text, s[k] + 20,
                    [op |-> "b.eq", src |-> k,
                     imm19 |-> ((s[t] - (s[k] + 20)) \div 4) % OnA64!IMM19])
  BY <1>1 DEF A64Code
<1> DEFINE d == ((s[t] - (s[k] + 20)) \div 4) % OnA64!IMM19
<1>3. (s[k] + 20) + 4 * OnA64!SignExtend19(d) = s[t]
  <2>1. code \in Seq(OnA64!Instructions) /\ Len(code) <= 512 /\ s = A64Start(code)
    BY A64Relies DEF A64Good
  <2>2. t \in 0 .. k - 1
    BY <1>2 DEF LastTarget
  <2> QED BY <1>1, <2>1, <2>2, A64Displacement
<1>4. Item(text, s[k] + 20, [op |-> "b.eq", src |-> k, imm19 |-> d])
  BY <1>2
<1> HIDE DEF d
<1>5. /\ s[k] + 20 \in DOMAIN text /\ text[s[k] + 20].op = "b.eq" /\ text[s[k] + 20].src = k
      /\ text[s[k] + 20].imm19 = d
  BY <1>4 DEF Item
<1>6. t \in 0 .. Len(code) /\ t < Len(code)
  BY <1>1, <1>2 DEF LastTarget
<1> QED BY <1>1, <1>2, <1>3, <1>5, <1>6

\* Where an address is in the program.
LEMMA A64Means ==
    ASSUME machine = "a64"
    PROVE  /\ pc = "compile" \/ address = 0 => At = Skip(code, 0) /\ Jumped = FALSE
           /\ pc \in {"run", "returned"} /\ address > 0 =>
                /\ Jumped = (w9 # {})
                /\ text[address].op # "b.eq" => At = Skip(code, text[address].src)
                /\ text[address].op = "b.eq" /\ Z =>
                    At = Skip(code,
                        text[address + 4 * OnA64!SignExtend19(text[address].imm19)].src)
                /\ text[address].op = "b.eq" /\ ~Z => At = Skip(code, text[address + 4].src)
BY SameOperators DEF At, Jumped, OnA64!At, OnA64!Jumped, OnA64!InProgram, OnA64!Decided,
                     OnA64!Destination

LEMMA A64MeansNext ==
    ASSUME machine' = "a64", pc' \in {"run", "returned"}, address' > 0,
           code' = code, text' = text
    PROVE  /\ Jumped' = (w9' # {})
           /\ text[address'].op # "b.eq" => At' = Skip(code, text[address'].src)
           /\ text[address'].op = "b.eq" /\ Z' =>
                At' = Skip(code,
                    text[address' + 4 * OnA64!SignExtend19(text[address'].imm19)].src)
           /\ text[address'].op = "b.eq" /\ ~Z' => At' = Skip(code, text[address' + 4].src)
<1>1. OnA64!InProgram'
  BY DEF OnA64!InProgram
<1>2. \A n : OnA64!Skip(code, n) = Skip(code, n)
  BY SameOperators
<1>3. At' = Skip(code, text[OnA64!Decided'].src)
  BY <1>1, <1>2 DEF At, OnA64!At
<1>4. Jumped' = (w9' # {})
  BY <1>1 DEF Jumped, OnA64!Jumped
<1>5. /\ text[address'].op # "b.eq" => OnA64!Decided' = address'
      /\ text[address'].op = "b.eq" /\ Z' =>
            OnA64!Decided' = address' + 4 * OnA64!SignExtend19(text[address'].imm19)
      /\ text[address'].op = "b.eq" /\ ~Z' => OnA64!Decided' = address' + 4
  BY DEF OnA64!Decided, OnA64!Destination, OnA64!SignExtend19, OnA64!IMM19
<1> QED BY <1>3, <1>4, <1>5

\* The processor gets to the code of index n.
LEMMA A64ReachesBoundary ==
    ASSUME NEW s, A64Good(s), pc # "compile", pc' \in {"run", "returned"},
           UNCHANGED <<machine, code, i, pos, target, creg, text>>,
           NEW n \in 0 .. Len(code), address' = s[n],
           w9' = {} => \A m : Kept(code, m, n) => x'[code[m + 1].dst] = product',
           x' \in [Registers -> SUBSET Bits], product' \in SUBSET Bits,
           w9' \in {{}, Bits}, Z' \in BOOLEAN
    PROVE  A64Good(s)' /\ At' = Skip(code, n) /\ Jumped' = (w9' # {})
<1> DEFINE e == Skip(code, n)
<1>1. /\ s[n] > 0 /\ Len(code) \in Nat /\ e \in n .. Len(code)
      /\ e < Len(code) => Op(code, e) # "TARGET"
      /\ s[e] = s[n] /\ text[s[n]].src = e /\ Skip(code, e) = e
      /\ text[s[n]].op # "b.eq"
  BY A64Boundary
<1>2. \A m : Kept(code, m, e) => Kept(code, m, n)
  BY <1>1, KeptSkips
<1> HIDE DEF e
<1>3. /\ address' > 0 /\ e \in 0 .. Len(code') /\ address' = s[e]
      /\ e < Len(code') => Op(code', e) # "TARGET"
      /\ w9' = {} => \A m : Kept(code', m, e) => x'[code'[m + 1].dst] = product'
  BY <1>1, <1>2
<1>4. A64Running(s)'
  BY <1>3 DEF A64Running
<1>5. A64Good(s)'
  BY <1>4 DEF A64Good
<1>6. At' = Skip(code, e) /\ Jumped' = (w9' # {})
  <2>1. machine' = "a64" /\ text' = text /\ code' = code /\ address' > 0
    BY <1>3 DEF A64Good
  <2> QED BY <1>1, <2>1, A64MeansNext
<1> QED BY <1>1, <1>5, <1>6 DEF e

\* What is executed behind the prologue.
LEMMA A64Fetches ==
    ASSUME NEW s, A64Good(s), NEW op, op # "prologue", OnA64!Fetch(op)
    PROVE  /\ pc = "run" /\ address > 0 /\ text[address].op = op
           /\ UNCHANGED <<code, i, pos, target, creg, text>>
           /\ Jumped = (w9 # {})
           /\ \E k : A64Here(s, k) /\ (op # "b.eq" => At = Skip(code, k))
<1>1. /\ pc = "run" /\ address \in DOMAIN text /\ text[address].op = op
      /\ UNCHANGED <<code, i, pos, target, creg, text>>
  BY DEF OnA64!Fetch, OnA64!compiler
<1>2. address \in Nat /\ address # 0
  <2>1. text[0] = [op |-> "prologue", src |-> 0] /\ pos \in Nat
    BY DEF A64Good, A64Layout, Item
  <2>2. address \in 0 .. pos - 1
    BY <1>1 DEF A64Good, Within
  <2> QED BY <1>1, <2>1, <2>2
<1>3. PICK k : A64Here(s, k)
  BY <1>1, <1>2, A64IsHere
<1>4. machine = "a64"
  BY DEF A64Good
<1>5. op # "b.eq" => At = Skip(code, k)
  BY <1>1, <1>2, <1>3, <1>4, A64Means DEF A64Here
<1>6. Jumped = (w9 # {})
  BY <1>1, <1>2, <1>4, A64Means
<1> QED BY <1>1, <1>2, <1>3, <1>5, <1>6

LEMMA A64RunsPrologue ==
    ASSUME NEW s, A64Good(s), machine' = machine, OnA64!Prologue
    PROVE  A64Good(s)' /\ [Meaning!Next]_(Meaning!vars)
<1>1. /\ pc = "run" /\ address \in DOMAIN text /\ text[address].op = "prologue"
      /\ UNCHANGED <<code, i, pos, target, creg, text>>
      /\ address' = 40 /\ x' \in [Registers -> SUBSET Bits] /\ w9' = {}
      /\ pc' = pc /\ Z' = Z /\ product' = product
  BY DEF OnA64!Prologue, OnA64!Fetch, OnA64!compiler, OnA64!Words, OnA64!a64_prologue
<1>2. /\ machine = "a64" /\ code \in Seq(OnA64!Instructions) /\ s = A64Start(code)
      /\ address \in Nat
  <2>1. address \in 0 .. pos - 1
    BY <1>1 DEF A64Good, Within
  <2> QED BY <2>1 DEF A64Good
<1>3. address = 0
  <2>1. address > 0 => \E k : A64Here(s, k)
    BY <1>1, A64IsHere
  <2> QED BY <1>1, <1>2, <2>1 DEF A64Here
<1>4. product = {} /\ Z \in BOOLEAN
  BY <1>1, <1>3 DEF A64Good, A64Running
<1>5. 0 \in 0 .. Len(code) /\ address' = s[0]
  BY <1>1, <1>2, A64StartFacts, A64Program
<1>6. \A m : ~Kept(code, m, 0)
  BY DEF Kept, Live
<1>7. A64Good(s)' /\ At' = Skip(code, 0) /\ Jumped' = FALSE
  <2>1. product' \in SUBSET Bits /\ w9' \in {{}, Bits} /\ Z' \in BOOLEAN /\ ~(w9' # {})
    BY <1>1, <1>4
  <2>2. pc # "compile" /\ pc' \in {"run", "returned"}
    BY <1>1
  <2>3. UNCHANGED <<machine, code, i, pos, target, creg, text>>
    BY <1>1
  <2> QED BY <1>1, <1>5, <1>6, <2>1, <2>2, <2>3, A64ReachesBoundary
<1>8. At = Skip(code, 0) /\ Jumped = FALSE
  BY <1>2, <1>3, A64Means
<1>9. [Meaning!Next]_(Meaning!vars)
  BY <1>1, <1>7, <1>8, MeaningStep
<1> QED BY <1>7, <1>9

LEMMA A64RunsWideMul ==
    ASSUME NEW s, A64Good(s), machine' = machine, OnA64!MulHigh
    PROVE  A64Good(s)' /\ [Meaning!Next]_(Meaning!vars)
<1>1. /\ OnA64!Fetch("mul") /\ product' \in SUBSET Bits
      /\ x' = [x EXCEPT ![text[address].dst] = product']
      /\ address' = text[address].next /\ pc' = pc /\ w9' = w9 /\ Z' = Z
  BY DEF OnA64!MulHigh, OnA64!Words
<1>2. /\ pc = "run" /\ text[address].op = "mul"
      /\ UNCHANGED <<code, i, pos, target, creg, text>> /\ Jumped = (w9 # {})
  BY <1>1, A64Fetches
<1>3. PICK k : A64Here(s, k) /\ At = Skip(code, k)
  BY <1>1, A64Fetches
<1>4. /\ k \in 0 .. Len(code) /\ k < Len(code) /\ Op(code, k) \in MultiplyHigh
      /\ text[address].dst = code[k + 1].dst /\ text[address].next = s[k + 1]
  BY <1>2, <1>3 DEF A64Here
<1>5. /\ k + 1 \in 0 .. Len(code) /\ Len(code) \in Nat /\ k \in Nat /\ k \in 0 .. Len(code) - 1
      /\ Op(code, k) \in Opcodes
  BY <1>2, <1>4, A64Boundary
<1>6. At = k
  BY <1>3, <1>4, <1>5, SkipStep, OpcodeFacts DEF IsTarget, Op
<1>7. x \in [Registers -> SUBSET Bits] /\ w9' \in {{}, Bits} /\ Z' \in BOOLEAN
  BY <1>1 DEF A64Good
<1>8. code[k + 1].dst \in Registers
  BY <1>4, <1>5, A64Program DEF A64Good
<1>9. x' \in [Registers -> SUBSET Bits] /\ x'[code[k + 1].dst] = product'
  BY <1>1, <1>4, <1>7, <1>8
<1>10. \A m : Kept(code, m, k + 1) => x'[code[m + 1].dst] = product'
  BY <1>4, <1>5, <1>9, KeptStep
<1>11. A64Good(s)' /\ At' = Skip(code, k + 1) /\ Jumped' = (w9' # {})
  <2>1. pc # "compile" /\ pc' \in {"run", "returned"} /\ address' = s[k + 1]
    BY <1>1, <1>2, <1>4
  <2>2. UNCHANGED <<machine, code, i, pos, target, creg, text>>
    BY <1>2
  <2> QED BY <1>1, <1>5, <1>7, <1>9, <1>10, <2>1, <2>2, A64ReachesBoundary
<1>12. [Meaning!Next]_(Meaning!vars)
  BY <1>1, <1>2, <1>4, <1>6, <1>11, MeaningStep
<1> QED BY <1>11, <1>12

LEMMA A64RunsCompute ==
    ASSUME NEW s, A64Good(s), machine' = machine, OnA64!Alu
    PROVE  A64Good(s)' /\ [Meaning!Next]_(Meaning!vars)
<1>1. PICK w \in SUBSET Bits :
      /\ OnA64!Fetch("alu") /\ x' = [x EXCEPT ![text[address].dst] = w]
      /\ address' = text[address].next /\ pc' = pc /\ w9' = w9 /\ Z' = Z /\ product' = product
  BY DEF OnA64!Alu, OnA64!Words
<1>2. /\ pc = "run" /\ text[address].op = "alu"
      /\ UNCHANGED <<code, i, pos, target, creg, text>> /\ Jumped = (w9 # {})
  BY <1>1, A64Fetches
<1>3. PICK k : A64Here(s, k) /\ At = Skip(code, k)
  BY <1>1, A64Fetches
<1>4. /\ k \in 0 .. Len(code) /\ k < Len(code) /\ Op(code, k) \in Arithmetic
      /\ text[address].dst = code[k + 1].dst /\ text[address].next = s[k + 1]
      /\ w9 = {} => \A m : Kept(code, m, k) => x[code[m + 1].dst] = product
  BY <1>2, <1>3 DEF A64Here
<1>5. /\ k + 1 \in 0 .. Len(code) /\ Len(code) \in Nat /\ k \in Nat /\ k \in 0 .. Len(code) - 1
      /\ Op(code, k) \in Opcodes
  BY <1>2, <1>4, A64Boundary
<1>6. At = k
  BY <1>3, <1>4, <1>5, SkipStep, OpcodeFacts DEF IsTarget, Op
<1>7. /\ x \in [Registers -> SUBSET Bits] /\ w9' \in {{}, Bits} /\ Z' \in BOOLEAN
      /\ product' \in SUBSET Bits
  BY <1>1 DEF A64Good
<1>8. x' \in [Registers -> SUBSET Bits]
  BY <1>1, <1>7
<1>9. ASSUME w9' = {}, NEW m, Kept(code, m, k + 1) PROVE x'[code[m + 1].dst] = product'
  <2>1. Kept(code, m, k)
    BY <1>4, <1>5, <1>9, KeptStep
  <2>2. x[code[m + 1].dst] = product
    BY <1>1, <1>4, <1>9, <2>1
  <2>3. code[m + 1].dst # code[k + 1].dst
    BY <1>4, <1>5, <2>1, A64Relies DEF A64Good
  <2>4. code[m + 1].dst \in Registers
    <3>1. m \in 0 .. Len(code) - 1 /\ Op(code, m) \in MultiplyHigh
      BY <1>5, <2>1 DEF Kept, Live
    <3> QED BY <3>1, A64Program DEF A64Good
  <2> QED BY <1>1, <1>4, <1>7, <2>2, <2>3, <2>4
<1>10. A64Good(s)' /\ At' = Skip(code, k + 1) /\ Jumped' = (w9' # {})
  <2>1. pc # "compile" /\ pc' \in {"run", "returned"} /\ address' = s[k + 1]
    BY <1>1, <1>2, <1>4
  <2>2. UNCHANGED <<machine, code, i, pos, target, creg, text>>
    BY <1>2
  <2> QED BY <1>5, <1>7, <1>8, <1>9, <2>1, <2>2, A64ReachesBoundary
<1>11. [Meaning!Next]_(Meaning!vars)
  BY <1>1, <1>2, <1>4, <1>6, <1>10, MeaningStep
<1> QED BY <1>10, <1>11

LEMMA A64RunsTst ==
    ASSUME NEW s, A64Good(s), machine' = machine, OnA64!Tst
    PROVE  A64Good(s)' /\ [Meaning!Next]_(Meaning!vars)
<1>1. /\ OnA64!Fetch("tst")
      /\ Z' = ((w9 \cup x[text[address].creg]) \cap text[address].imm = {})
      /\ address' = address + 16
      /\ pc' = pc /\ x' = x /\ w9' = w9 /\ product' = product
  BY DEF OnA64!Tst
<1>2. /\ pc = "run" /\ text[address].op = "tst"
      /\ UNCHANGED <<code, i, pos, target, creg, text>> /\ Jumped = (w9 # {})
  BY <1>1, A64Fetches
<1>3. PICK k : A64Here(s, k) /\ At = Skip(code, k)
  BY <1>1, A64Fetches
<1>4. PICK m : Kept(code, m, k) /\ text[address].creg = code[m + 1].dst
  BY <1>2, <1>3 DEF A64Here
<1>5. /\ k \in 0 .. Len(code) /\ k < Len(code) /\ Op(code, k) = "BRANCH" /\ address = s[k]
      /\ text[address].imm = code[k + 1].imm32
      /\ w9 = {} => x[code[m + 1].dst] = product
  BY <1>2, <1>3, <1>4 DEF A64Here
<1>6. /\ s[k] \in Nat /\ s[k] > 0 /\ Len(code) \in Nat /\ k \in 0 .. Len(code) - 1
      /\ Item(text, s[k] + 16, [op |-> "csinv", src |-> k])
  <2>1. s[k] \in Nat /\ s[k] > 0 /\ Len(code) \in Nat /\ A64Code(code, text, s, k)
    BY <1>2, <1>5, A64Boundary
  <2>2. A64Code(code, text, s, k) /\ k \in 0 .. Len(code) - 1
    BY <1>5, <2>1
  <2>3. Item(text, s[k] + 16, [op |-> "csinv", src |-> k])
    BY <1>5, <2>2 DEF A64Code
  <2> QED BY <2>1, <2>2, <2>3
<1>7. /\ machine = "a64" /\ x \in [Registers -> SUBSET Bits] /\ w9 \in {{}, Bits}
      /\ product \in SUBSET Bits
      /\ code[k + 1].imm32 # {} /\ code[k + 1].imm32 \subseteq Bits
  BY <1>5, <1>6, A64Relies, A64Program DEF A64Good
<1>8. Z' \in BOOLEAN /\ (Z' <=> w9' = {} /\ product' \cap code[k + 1].imm32 = {})
  <2>1. CASE w9 = {}
    BY <1>1, <1>4, <1>5, <2>1
  <2>2. CASE w9 = Bits
    BY <1>1, <1>5, <1>7, <2>2
  <2> QED BY <1>7, <2>1, <2>2
<1>9. address' = s[k] + 16 /\ address' > 0 /\ text[address'].src = k /\ text[address'].op = "csinv"
  BY <1>1, <1>5, <1>6 DEF Item
<1>10. A64Running(s)'
  <2>1. code' = code
    BY <1>2
  <2>2. /\ k \in 0 .. Len(code') /\ k < Len(code') /\ Op(code', k) = "BRANCH"
        /\ Z' <=> w9' = {} /\ product' \cap code'[k + 1].imm32 = {}
    BY <1>5, <1>8, <2>1
  <2> QED BY <1>9, <2>2 DEF A64Running
<1>11. A64Good(s)'
  <2>1. pc' = "run" /\ pc # "compile" /\ UNCHANGED <<machine, code, i, pos, target, creg, text>>
    BY <1>1, <1>2
  <2> QED BY <1>1, <1>7, <1>8, <1>10, <2>1 DEF A64Good
<1>12. At' = Skip(code, k) /\ Jumped' = (w9' # {})
  BY <1>1, <1>2, <1>7, <1>9, A64MeansNext
<1>13. [Meaning!Next]_(Meaning!vars)
  BY <1>1, <1>2, <1>3, <1>12, MeaningStep
<1> QED BY <1>11, <1>13

\* This is where a branch decides.
LEMMA A64RunsCsinv ==
    ASSUME NEW s, A64Good(s), machine' = machine, OnA64!Csinv
    PROVE  A64Good(s)' /\ [Meaning!Next]_(Meaning!vars)
<1>1. /\ OnA64!Fetch("csinv") /\ w9' = (IF Z THEN Bits \ w9 ELSE w9)
      /\ address' = address + 4
      /\ pc' = pc /\ x' = x /\ Z' = Z /\ product' = product
  BY DEF OnA64!Csinv
<1>2. /\ pc = "run" /\ text[address].op = "csinv"
      /\ UNCHANGED <<code, i, pos, target, creg, text>> /\ Jumped = (w9 # {})
  BY <1>1, A64Fetches
<1>3. PICK k : A64Here(s, k) /\ At = Skip(code, k)
  BY <1>1, A64Fetches
<1>4. /\ k \in 0 .. Len(code) /\ k < Len(code) /\ Op(code, k) = "BRANCH" /\ address = s[k] + 16
      /\ Z <=> w9 = {} /\ product \cap code[k + 1].imm32 = {}
  BY <1>2, <1>3 DEF A64Here
<1>5. s[k] \in Nat /\ s[k] > 0 /\ Len(code) \in Nat /\ k \in 0 .. Len(code) - 1 /\ k \in Nat
  BY <1>2, <1>4, A64Boundary
<1>6. PICK t :
      /\ s[k + 1] = s[k] + 24 /\ k + 1 \in 0 .. Len(code)
      /\ text[s[k] + 20].op = "b.eq"
      /\ LastTarget(code, k, t) /\ t \in 0 .. Len(code) /\ t < Len(code)
      /\ (s[k] + 20) + 4 * OnA64!SignExtend19(text[s[k] + 20].imm19) = s[t]
  BY <1>2, <1>4, A64BEq
<1>7. /\ machine = "a64" /\ x \in [Registers -> SUBSET Bits] /\ w9 \in {{}, Bits}
      /\ product \in SUBSET Bits /\ Z \in BOOLEAN
      /\ code[k + 1].imm32 # {} /\ code[k + 1].imm32 \subseteq Bits
  BY <1>4, <1>5, A64Relies, A64Program DEF A64Good
<1>8. /\ Z => w9 = {} /\ w9' = Bits /\ w9' # {}
      /\ ~Z => w9' = w9
      /\ w9' \in {{}, Bits}
  BY <1>1, <1>4, <1>7
<1>9. address' = s[k] + 20 /\ address' > 0 /\ text[address'].op = "b.eq"
  <2>1. address' = address + 4 /\ address = s[k] + 16
    BY <1>1, <1>4
  <2>2. address' = s[k] + 20 /\ s[k] + 20 > 0
    BY <1>5, <2>1
  <2>3. text[s[k] + 20].op = "b.eq"
    BY <1>6
  <2> QED BY <2>2, <2>3
<1>10. A64Running(s)'
  <2>1. code' = code /\ Z' = Z
    BY <1>1, <1>2
  <2>2. /\ k \in 0 .. Len(code') /\ k < Len(code') /\ Op(code', k) = "BRANCH"
        /\ Z' => w9' # {}
    BY <1>4, <1>8, <2>1
  <2> QED BY <1>9, <2>2 DEF A64Running
<1>11. A64Good(s)'
  <2>1. pc' = "run" /\ pc # "compile" /\ UNCHANGED <<machine, code, i, pos, target, creg, text>>
    BY <1>1, <1>2
  <2> QED BY <1>1, <1>7, <1>8, <1>10, <2>1 DEF A64Good
<1>12. At = k
  BY <1>3, <1>4, <1>5, SkipStep DEF IsTarget, Op
<1>13. /\ Jumped' = (w9' # {})
       /\ Z' => At' = Skip(code, text[s[t]].src)
       /\ ~Z' => At' = Skip(code, text[s[k + 1]].src)
  <2>1. /\ Jumped' = (w9' # {})
        /\ Z' => At' = Skip(code,
                    text[address' + 4 * OnA64!SignExtend19(text[address'].imm19)].src)
        /\ ~Z' => At' = Skip(code, text[address' + 4].src)
    BY <1>1, <1>2, <1>7, <1>9, A64MeansNext
  <2>2. address' + 4 = s[k + 1]
    BY <1>5, <1>6, <1>9
  <2>3. address' + 4 * OnA64!SignExtend19(text[address'].imm19) = s[t]
    BY <1>6, <1>9
  <2> QED BY <2>1, <2>2, <2>3
<1>14. /\ Skip(code, text[s[t]].src) = Skip(code, t)
       /\ Skip(code, text[s[k + 1]].src) = Skip(code, k + 1)
  BY <1>2, <1>6, A64Boundary
<1>15. CASE Z
  <2>1. Landing(code, k) = t
    BY <1>4, <1>5, <1>6, LandsBehindTarget
  <2>2. Skip(code, t) = Skip(code, t + 1)
    BY <1>5, <1>6, SkipStep DEF LastTarget, IsTarget, Op
  <2>3. At' = Skip(code, Landing(code, k) + 1)
    BY <1>1, <1>13, <1>14, <1>15, <2>1, <2>2
  <2>4. ~Jumped /\ Jumped' = TRUE /\ product \cap code[k + 1].imm32 = {}
    BY <1>2, <1>4, <1>8, <1>13, <1>15
  <2>5. [Meaning!Next]_(Meaning!vars)
    BY <1>1, <1>2, <1>4, <1>12, <2>3, <2>4, MeaningStep
  <2> QED BY <1>11, <2>5
<1>16. CASE ~Z
  <2>1. At' = Skip(code, k + 1) /\ Jumped' = Jumped /\ Jumped \in BOOLEAN
    BY <1>1, <1>2, <1>8, <1>13, <1>14, <1>16
  <2>2. ~(~Jumped /\ product \cap code[k + 1].imm32 = {})
    BY <1>2, <1>4, <1>16
  <2>3. [Meaning!Next]_(Meaning!vars)
    BY <1>1, <1>2, <1>4, <1>12, <2>1, <2>2, MeaningStep
  <2> QED BY <1>11, <2>3
<1> QED BY <1>7, <1>15, <1>16

LEMMA A64RunsBEq ==
    ASSUME NEW s, A64Good(s), machine' = machine, OnA64!BEq
    PROVE  A64Good(s)' /\ [Meaning!Next]_(Meaning!vars)
<1>1. /\ OnA64!Fetch("b.eq") /\ address' = OnA64!Destination
      /\ pc' = pc /\ x' = x /\ w9' = w9 /\ Z' = Z /\ product' = product
  BY DEF OnA64!BEq
<1>2. /\ pc = "run" /\ text[address].op = "b.eq" /\ address > 0
      /\ UNCHANGED <<code, i, pos, target, creg, text>> /\ Jumped = (w9 # {})
  BY <1>1, A64Fetches
<1>3. PICK k : A64Here(s, k)
  BY <1>1, A64Fetches
<1>4. /\ k \in 0 .. Len(code) /\ k < Len(code) /\ Op(code, k) = "BRANCH" /\ address = s[k] + 20
      /\ Z => w9 # {}
  BY <1>2, <1>3 DEF A64Here
<1>5. s[k] \in Nat /\ Len(code) \in Nat /\ k \in Nat /\ Op(code, k) \in Opcodes
  BY <1>2, <1>4, A64Boundary
<1>6. PICK t :
      /\ s[k + 1] = s[k] + 24 /\ k + 1 \in 0 .. Len(code)
      /\ t \in 0 .. Len(code)
      /\ (s[k] + 20) + 4 * OnA64!SignExtend19(text[s[k] + 20].imm19) = s[t]
  BY <1>2, <1>4, A64BEq
<1>7. /\ machine = "a64" /\ x \in [Registers -> SUBSET Bits] /\ w9 \in {{}, Bits}
      /\ product \in SUBSET Bits /\ Z \in BOOLEAN
  BY DEF A64Good
<1> DEFINE n == IF Z THEN t ELSE k + 1
<1>8. n \in 0 .. Len(code)
  BY <1>6
<1>9. OnA64!Destination = s[n]
  <2>1. CASE Z
    BY <1>4, <1>6, <2>1 DEF OnA64!Destination
  <2>2. CASE ~Z
    <3>1. address + 4 = s[k + 1]
      BY <1>4, <1>5, <1>6
    <3> QED BY <2>2, <3>1 DEF OnA64!Destination
  <2> QED BY <2>1, <2>2
<1>10. ASSUME w9 = {} PROVE \A m : ~Kept(code, m, n)
  <2>1. n = k + 1
    BY <1>4, <1>10
  <2>2. \A m : ~Live(code, m, k + 1)
    BY <1>4, <1>5, KeptStep
  <2> HIDE DEF n
  <2> QED BY <2>1, <2>2 DEF Kept
<1>11. At = Skip(code, n)
  <2>1. text[s[n]].src = Skip(code, n) /\ Skip(code, Skip(code, n)) = Skip(code, n)
    <3> HIDE DEF n
    <3> QED BY <1>2, <1>8, A64Boundary
  <2>2. At = Skip(code, text[OnA64!Destination].src)
    BY <1>2, <1>7, A64Means DEF OnA64!Destination
  <2> HIDE DEF n
  <2> QED BY <1>9, <2>1, <2>2
<1> HIDE DEF n
<1>12. A64Good(s)' /\ At' = Skip(code, n) /\ Jumped' = (w9' # {})
  <2>1. pc # "compile" /\ pc' \in {"run", "returned"} /\ address' = s[n]
    BY <1>1, <1>2, <1>9
  <2>2. UNCHANGED <<machine, code, i, pos, target, creg, text>>
    BY <1>2
  <2>3. w9' = {} => \A m : Kept(code, m, n) => x'[code[m + 1].dst] = product'
    BY <1>1, <1>10
  <2>4. /\ x' \in [Registers -> SUBSET Bits] /\ product' \in SUBSET Bits
        /\ w9' \in {{}, Bits} /\ Z' \in BOOLEAN
    BY <1>1, <1>7
  <2> QED BY <1>8, <2>1, <2>2, <2>3, <2>4, A64ReachesBoundary
<1>13. [Meaning!Next]_(Meaning!vars)
  BY <1>1, <1>2, <1>11, <1>12, MeaningStep
<1> QED BY <1>12, <1>13

\* A step that leaves the program's place as it is.
LEMMA A64Stays ==
    ASSUME NEW s, A64Good(s),
           UNCHANGED <<machine, code, i, pos, target, creg, text, address, x, w9, Z, product>>,
           pc' = pc \/ (pc = "run" /\ pc' = "returned")
    PROVE  A64Good(s)' /\ [Meaning!Next]_(Meaning!vars)
<1>1. A64Good(s)'
  <2>1. A64Running(s) => A64Running(s)'
    BY DEF A64Running
  <2> QED BY <2>1 DEF A64Good
<1>2. machine = "a64" /\ machine' = "a64"
      /\ (pc \in {"run", "returned"}) = (pc' \in {"run", "returned"})
  BY DEF A64Good
<1>3. At' = At
  BY <1>2 DEF At, OnA64!At, OnA64!InProgram, OnA64!Decided, OnA64!Destination
<1>4. Jumped' = Jumped
  BY <1>2 DEF Jumped, OnA64!Jumped, OnA64!InProgram
<1> QED BY <1>1, <1>3, <1>4, MeaningStep

\* The program has not been entered as long as it is compiled.
LEMMA A64CompilingMeansNothing ==
    ASSUME NEW s, A64Good(s), pc = "compile", A64Good(s)', UNCHANGED <<code, address, product>>
    PROVE  [Meaning!Next]_(Meaning!vars)
<1>1. machine = "a64" /\ machine' = "a64" /\ address = 0 /\ address' = 0
  BY DEF A64Good
<1>2. At' = At
  <2>1. ~OnA64!InProgram /\ ~OnA64!InProgram'
    BY <1>1 DEF OnA64!InProgram
  <2> QED BY <1>1, <2>1 DEF At, OnA64!At
<1>3. Jumped' = Jumped
  BY <1>1 DEF Jumped, OnA64!Jumped, OnA64!InProgram
<1> QED BY <1>2, <1>3, MeaningStep

\* Every step on A64 keeps the invariant, and is one of the program or none.
LEMMA A64Step ==
    ASSUME NEW s, A64Good(s), [Next]_vars
    PROVE  A64Good(s)' /\ [Meaning!Next]_(Meaning!vars)
<1>1. machine = "a64"
  BY DEF A64Good
<1>2. CASE UNCHANGED vars
  BY <1>2, A64Stays DEF vars, a64
<1>3. CASE Next
  <2>1. machine' = machine /\ OnA64!Next
    BY <1>1, <1>3 DEF Next
  <2>2. ASSUME \/ OnA64!EmitWideMul \/ OnA64!EmitCompute \/ OnA64!EmitTarget
               \/ OnA64!EmitBranch \/ OnA64!EmitEpilogue
        PROVE  A64Good(s)' /\ [Meaning!Next]_(Meaning!vars)
    <3>1. A64Good(s)'
      BY <2>1, <2>2, A64EmitsWideMul, A64EmitsCompute, A64EmitsTarget, A64EmitsBranch,
         A64EmitsEpilogue
    <3>2. pc = "compile" /\ UNCHANGED <<code, address, product>>
      BY <2>2 DEF OnA64!EmitWideMul, OnA64!EmitCompute, OnA64!EmitTarget, OnA64!EmitBranch,
                  OnA64!EmitEpilogue, OnA64!EmitAt, OnA64!processor
    <3> QED BY <3>1, <3>2, A64CompilingMeansNothing
  <2>3. ASSUME OnA64!Epilogue
        PROVE  A64Good(s)' /\ [Meaning!Next]_(Meaning!vars)
    BY <2>1, <2>3, A64Stays DEF OnA64!Epilogue, OnA64!Fetch, OnA64!processor, OnA64!compiler
  <2>4. ASSUME OnA64!Returned
        PROVE  A64Good(s)' /\ [Meaning!Next]_(Meaning!vars)
    BY <2>1, <2>4, A64Stays DEF OnA64!Returned, OnA64!vars, OnA64!processor, OnA64!compiler
  <2> QED BY <2>1, <2>2, <2>3, <2>4, A64RunsPrologue, A64RunsWideMul, A64RunsCompute,
             A64RunsTst, A64RunsCsinv, A64RunsBEq DEF OnA64!Next
<1> QED BY <1>2, <1>3

\* What the run checks follows from the invariant.
LEMMA A64NeverAstray ==
    ASSUME NEW s, A64Good(s)
    PROVE  OnA64!TypeOK /\ OnA64!NeverAborts
<1>1. address \in DOMAIN text
  <2>1. CASE pc = "compile" \/ address = 0
    BY <2>1 DEF A64Good, A64Layout, Item
  <2>2. CASE pc # "compile" /\ address > 0
    BY <2>2, A64IsHere DEF A64Here
  <2> QED BY <2>1, <2>2 DEF A64Good, A64Running
<1> QED BY <1>1 DEF A64Good, Within, OnA64!TypeOK, OnA64!Words, OnA64!NeverAborts

LEMMA A64Starts ==
    ASSUME machine = "a64", OnA64!Init
    PROVE  \E s : A64Good(s)
<1> DEFINE s == A64Start(code)
<1>1. /\ code \in Seq(OnA64!Instructions) /\ OnA64!A64Compilable(code)
      /\ pc = "compile" /\ i = 0 /\ pos = 40
      /\ target = OnA64!None /\ creg = OnA64!None
      /\ text = [p \in {0} |-> [op |-> "prologue", src |-> 0]]
      /\ address = 0 /\ x = [r \in Registers |-> {}] /\ w9 = {} /\ Z = FALSE /\ product = {}
  BY MachinesAssumption DEF OnA64!Init, OnA64!A64Assumption, OnA64!a64_prologue
<1>2. s[0] = 40 /\ Len(code) \in Nat
  BY <1>1, A64StartFacts, A64Program
<1>3. Within(text, code, pos)
  BY <1>1, <1>2 DEF Within
<1>4. A64Layout(code, text, s, i)
  BY <1>1 DEF A64Layout, Item
<1>5. Closed(code, i) /\ \A m : ~Live(code, m, i)
  BY <1>1 DEF Closed, Live
<1> HIDE DEF s
<1>6. s = A64Start(code)
  BY DEF s
<1>7. /\ i \in 0 .. Len(code) /\ pos \in Nat /\ pos = s[i]
      /\ target \in Nat \cup {OnA64!None} /\ creg \in Registers \cup {OnA64!None}
  BY <1>1, <1>2
<1>8. /\ x \in [Registers -> SUBSET Bits] /\ product \in SUBSET Bits
      /\ w9 \in {{}, Bits} /\ Z \in BOOLEAN
  BY <1>1
<1>9. A64Good(s)
  BY <1>1, <1>3, <1>4, <1>5, <1>6, <1>7, <1>8 DEF A64Good
<1> QED BY <1>9

-----------------------------------------------------------------------------
(* Both.                                                                    *)

Good == (\E s : X86Good(s)) \/ (\E s : A64Good(s))

LEMMA GoodStart == Init => Good
<1>1. CASE machine = "x86" /\ OnX86!Init
  BY <1>1, X86Starts DEF Good
<1>2. CASE machine = "a64" /\ OnA64!Init
  BY <1>2, A64Starts DEF Good
<1> QED BY <1>1, <1>2 DEF Init

LEMMA GoodStep ==
    ASSUME Good, [Next]_vars
    PROVE  Good' /\ [Meaning!Next]_(Meaning!vars)
<1>1. ASSUME NEW s, X86Good(s) PROVE Good' /\ [Meaning!Next]_(Meaning!vars)
  <2>1. X86Good(s)' /\ [Meaning!Next]_(Meaning!vars)
    BY <1>1, X86Step
  <2> QED BY <2>1 DEF Good
<1>2. ASSUME NEW s, A64Good(s) PROVE Good' /\ [Meaning!Next]_(Meaning!vars)
  <2>1. A64Good(s)' /\ [Meaning!Next]_(Meaning!vars)
    BY <1>2, A64Step
  <2> QED BY <2>1 DEF Good
<1> QED BY <1>1, <1>2 DEF Good

LEMMA MeaningStart == Init => Meaning!Init
<1> SUFFICES ASSUME Init PROVE Meaning!Init
  OBVIOUS
<1>1. code \in Seq(OnX86!Instructions) \/ code \in Seq(OnA64!Instructions)
  <2>1. (\E s : X86Good(s)) \/ (\E s : A64Good(s))
    BY GoodStart DEF Good
  <2> QED BY <2>1 DEF X86Good, A64Good
<1>2. product = {} /\ pc = "compile" /\ machine \in {"x86", "a64"}
  BY DEF Init, OnX86!Init, OnA64!Init
<1>3. At = Skip(code, 0) /\ Jumped = FALSE
  BY <1>2, X86Means, A64Means
<1> QED BY <1>1, <1>2, <1>3, SameOperators DEF Meaning!Init

LEMMA AlwaysGood == Spec => []Good
<1>1. Good /\ [Next]_vars => Good'
  BY GoodStep
<1> QED BY GoodStart, <1>1, PTL DEF Spec

\* Neither compiler emits a jump that leaves its instructions, whatever program
\* with near targets and kept registers it is given, and no assertion of
\* hashx_compile_a64 fails.
THEOREM CompiledNeverAstray == Spec => []NeverAstray
<1>1. Good => NeverAstray
  <2>1. ASSUME NEW s, X86Good(s) PROVE NeverAstray
    BY <2>1, X86NeverAstray DEF NeverAstray, X86Good
  <2>2. ASSUME NEW s, A64Good(s) PROVE NeverAstray
    BY <2>2, A64NeverAstray DEF NeverAstray, A64Good
  <2> QED BY <2>1, <2>2 DEF Good
<1> QED BY AlwaysGood, <1>1, PTL

\* Every step of the compiled code is one of the program or none, on both
\* machines: the jumps, the masks and the single branch taken are the program's.
THEOREM CompiledMeansTheProgram == Spec => MeansTheProgram
<1>1. Good /\ [Next]_vars => [Meaning!Next]_(Meaning!vars)
  BY GoodStep
<1> QED BY MeaningStart, AlwaysGood, <1>1, PTL DEF Spec, MeansTheProgram, Meaning!Spec

=============================================================================
