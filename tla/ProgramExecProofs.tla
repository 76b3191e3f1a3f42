-------------------------- MODULE ProgramExecProofs --------------------------
(****************************************************************************)
(* Proofs about ProgramExec, for every set of programs and every word size. *)
(*                                                                          *)
(* RunsSoFar is the heart of the invariant: the instructions executed are   *)
(* always a prefix of the program and, after the jump, once more those      *)
(* behind the target.  A second jump would break it; branch_enable, FALSE   *)
(* after the first, prevents it.                                            *)
(****************************************************************************)
EXTENDS ProgramExec, FiniteSetTheorems, Induction, TLAPS

\* The positions of a program are natural numbers below its length.
LEMMA CodeType ==
    ASSUME code \in Programs
    PROVE  /\ Len(code) \in Nat
           /\ \A k \in Indices : k \in Nat /\ k < Len(code)
BY ProgramsAssumption DEF Indices

\* Nothing was counted before the first instruction.
LEMMA NoBranchesYet == code \in Programs => Cardinality(BranchesBefore(0)) = 0
<1> SUFFICES ASSUME code \in Programs
             PROVE  Cardinality(BranchesBefore(0)) = 0
    OBVIOUS
<1>1. BranchesBefore(0) = {}
  BY CodeType DEF BranchesBefore, Indices
<1> QED BY <1>1, FS_EmptySet

\* One more instruction counts if it is a branch.
LEMMA BranchesStep ==
    ASSUME code \in Programs, i \in Indices
    PROVE  /\ Cardinality(BranchesBefore(i)) \in Nat
           /\ instr.opcode = "BRANCH" =>
                Cardinality(BranchesBefore(i + 1)) = Cardinality(BranchesBefore(i)) + 1
           /\ instr.opcode # "BRANCH" =>
                BranchesBefore(i + 1) = BranchesBefore(i)
<1>1. IsFiniteSet(BranchesBefore(i)) /\ Cardinality(BranchesBefore(i)) \in Nat
  <2>1. IsFiniteSet(Indices)
    BY CodeType, FS_Interval DEF Indices
  <2>2. IsFiniteSet(BranchesBefore(i))
    BY <2>1, FS_Subset DEF BranchesBefore
  <2> QED BY <2>2, FS_CardinalityType
<1>2. CASE instr.opcode = "BRANCH"
  <2>1. BranchesBefore(i + 1) = BranchesBefore(i) \cup {i}
    BY <1>2, CodeType DEF BranchesBefore, Indices, instr
  <2>2. i \notin BranchesBefore(i)
    BY CodeType DEF BranchesBefore
  <2> QED BY <1>1, <1>2, <2>1, <2>2, FS_AddElement
<1>3. CASE instr.opcode # "BRANCH"
  BY <1>1, <1>3, CodeType DEF BranchesBefore, Indices, instr
<1> QED BY <1>2, <1>3

LEMMA InitIInv == Init => IInv
<1> SUFFICES ASSUME Init PROVE IInv
    OBVIOUS
<1>1. code \in Programs /\ Len(code) \in Nat
  BY CodeType DEF Init
<1>2. TypeOK
  BY <1>1 DEF Init, TypeOK, Words, Indices
<1>3. RunsSoFar /\ LastTarget /\ JumpedBack /\ RepeatsOneStretch
  BY <1>1 DEF Init, RunsSoFar, LastTarget, JumpedBack, RepeatsOneStretch,
     Repeated, Jumped, Indices
<1>4. CountedOnTheWay /\ CountsItsBranch
  BY <1>1, NoBranchesYet DEF Init, CountedOnTheWay, CountsItsBranch, Jumped
<1> QED BY <1>2, <1>3, <1>4 DEF IInv

\* An instruction that goes on to the next one, jump and branches unchanged.
LEMMA NextInstruction ==
    ASSUME IInv, NEW ops, Execute(ops), i' = i + 1,
           UNCHANGED <<branch_enable, branches, jump>>,
           \/ target' = target /\ instr.opcode # "TARGET"
           \/ target' = i,
           branch_idx' = branch_idx + (IF instr.opcode = "BRANCH" THEN 1 ELSE 0),
           result' \in Words
    PROVE  IInv'
<1>1. code \in Programs /\ Len(code) \in Nat /\ i \in Indices /\ code' = code
  BY CodeType DEF IInv, TypeOK, Execute, Indices
<1>2. TypeOK'
  BY <1>1 DEF IInv, TypeOK, Execute, Indices
<1>3. Indices' = Indices /\ Repeated' = Repeated
  BY <1>1 DEF Indices, Repeated, Jumped
<1>4. RunsSoFar'
  <2>1. ASSUME NEW k \in Indices
        PROVE  runs'[k] = (IF k < i + 1 THEN 1 ELSE 0)
                            + (IF k \in Repeated THEN 1 ELSE 0)
    <3>1. k \in Nat /\ i \in Nat /\ runs[k] \in Nat
      BY <1>1, CodeType DEF IInv, TypeOK
    <3>2. runs[k] = (IF k < i THEN 1 ELSE 0) + (IF k \in Repeated THEN 1 ELSE 0)
      BY DEF IInv, RunsSoFar
    <3>3. runs'[k] = IF k = i THEN runs[k] + 1 ELSE runs[k]
      BY <1>1 DEF IInv, TypeOK, Execute
    <3> QED BY <3>1, <3>2, <3>3
  <2> QED BY <1>3, <2>1 DEF RunsSoFar
<1>5. LastTarget'
  BY <1>1, <1>3, CodeType DEF IInv, TypeOK, LastTarget, instr
<1>6. JumpedBack' /\ RepeatsOneStretch'
  BY <1>1, <1>3 DEF IInv, JumpedBack, RepeatsOneStretch, Jumped
<1>7. CountedOnTheWay'
  <2>1. BranchesBefore(i)' = BranchesBefore(i + 1)
    BY <1>1, <1>3 DEF BranchesBefore
  <2>2. CASE branch_enable
    BY <1>1, <2>1, <2>2, BranchesStep DEF IInv, CountedOnTheWay
  <2> QED BY <2>2 DEF CountedOnTheWay
<1>8. CountsItsBranch'
  BY <1>1 DEF IInv, CountsItsBranch, BranchesBefore, Jumped, Indices
<1> QED BY <1>2, <1>4, <1>5, <1>6, <1>7, <1>8 DEF IInv

\* The jump: the stretch behind the target is about to be repeated.
LEMMA JumpStep == IInv /\ BranchTaken => IInv'
<1> SUFFICES ASSUME IInv, BranchTaken PROVE IInv'
    OBVIOUS
<1>1. code \in Programs /\ Len(code) \in Nat /\ i \in Indices /\ code' = code
  BY CodeType DEF IInv, TypeOK, BranchTaken, Execute, Indices
<1>2. branch_enable /\ ~branch_enable' /\ target <= i
  BY DEF BranchTaken, Taken, IInv, LastTarget
<1>3. TypeOK'
  <2>1. i \in 0 .. Len(code) /\ target \in 0 .. Len(code) /\ target + 1 \in 0 .. Len(code)
    BY <1>1, <1>2, CodeType DEF IInv, TypeOK
  <2>2. runs' \in [Indices -> Nat]
    BY <1>1 DEF IInv, TypeOK, BranchTaken, Execute
  <2>3. jump' \in [from : 0 .. Len(code), to : 0 .. Len(code)]
    BY <2>1 DEF BranchTaken
  <2>4. branches' \subseteq Nat /\ branch_idx' \in Nat
    BY DEF IInv, TypeOK, BranchTaken
  <2>5. Indices' = Indices
    BY <1>1 DEF Indices
  <2> QED BY <1>1, <1>2, <2>1, <2>2, <2>3, <2>4, <2>5 DEF IInv, TypeOK, BranchTaken
<1>4. RunsSoFar' /\ JumpedBack'
  BY <1>1, <1>2 DEF IInv, TypeOK, BranchTaken, Execute, RunsSoFar, JumpedBack,
     Repeated, Jumped, Indices
<1>5. LastTarget' /\ RepeatsOneStretch'
  BY <1>1, <1>2 DEF IInv, TypeOK, BranchTaken, Execute, LastTarget,
     RepeatsOneStretch, Repeated, Jumped, Indices, instr
<1>6. CountedOnTheWay' /\ CountsItsBranch'
  BY <1>1, <1>2 DEF IInv, TypeOK, BranchTaken, CountedOnTheWay, CountsItsBranch,
     BranchesBefore, Jumped, Indices
<1> QED BY <1>3, <1>4, <1>5, <1>6 DEF IInv

LEMMA StepIInv == IInv /\ [Next]_vars => IInv'
<1> SUFFICES ASSUME IInv, [Next]_vars PROVE IInv'
    OBVIOUS
<1>t. branch_idx \in Nat /\ result \in Words
  BY DEF IInv, TypeOK
<1>1. CASE WideMul
  <2>1. Execute(MultiplyHigh) /\ instr.opcode # "BRANCH"
    BY <1>1 DEF WideMul, Execute, MultiplyHigh
  <2>2. instr.opcode # "TARGET"
    BY <1>1 DEF WideMul, Execute, MultiplyHigh
  <2> QED BY <1>1, <1>t, <2>1, <2>2, NextInstruction DEF WideMul
<1>2. CASE Compute
  <2>1. Execute(Arithmetic) /\ instr.opcode # "BRANCH"
    BY <1>2 DEF Compute, Execute, Arithmetic
  <2>2. instr.opcode # "TARGET"
    BY <1>2 DEF Compute, Execute, Arithmetic
  <2> QED BY <1>2, <1>t, <2>1, <2>2, NextInstruction DEF Compute
<1>3. CASE Target
  <2>1. Execute({"TARGET"}) /\ instr.opcode # "BRANCH"
    BY <1>3 DEF Target, Execute
  <2> QED BY <1>3, <1>t, <2>1, NextInstruction DEF Target
<1>4. CASE BranchTaken
  BY <1>4, JumpStep
<1>5. CASE BranchNotTaken
  <2>1. Execute({"BRANCH"}) /\ instr.opcode = "BRANCH"
    BY <1>5 DEF BranchNotTaken, Execute
  <2> QED BY <1>5, <1>t, <2>1, NextInstruction DEF BranchNotTaken
<1>6. CASE UNCHANGED vars
  BY <1>6 DEF vars, IInv, TypeOK, RunsSoFar, LastTarget, JumpedBack,
     RepeatsOneStretch, CountedOnTheWay, CountsItsBranch, Repeated, Jumped,
     BranchesBefore, Indices
<1> QED BY <1>1, <1>2, <1>3, <1>4, <1>5, <1>6 DEF Next, Return

\* The inductive invariant: how far the execution is, and what was repeated.
THEOREM Invariant == Spec => []IInv
BY InitIInv, StepIInv, PTL DEF Spec

\* The work per hash is bounded: no instruction is executed more than twice.
THEOREM WorkIsBounded == Spec => []RunsOnce
<1>1. IInv => RunsOnce
  BY CodeType DEF IInv, TypeOK, RunsSoFar, RunsOnce, Indices
<1> QED BY Invariant, <1>1, PTL

\* Only a stretch without a target is repeated.
THEOREM OneStretch == Spec => []RepeatsOneStretch
<1>1. IInv => RepeatsOneStretch
  BY DEF IInv
<1> QED BY Invariant, <1>1, PTL

\* The statistics count a branch of the program.
THEOREM BranchCounted == Spec => []CountsItsBranch
<1>1. IInv => CountsItsBranch
  BY DEF IInv
<1> QED BY Invariant, <1>1, PTL

-----------------------------------------------------------------------------
(* The refinement of HashProgram.                                           *)

\* Targets are passed over: what Skip returns is the only place there is.
LEMMA SkipIs ==
    ASSUME code \in Programs, NEW n \in 0 .. Len(code)
    PROVE  /\ Skip(code, n) \in n .. Len(code)
           /\ \A j \in n .. Skip(code, n) - 1 : IsTarget(code, j)
           /\ Skip(code, n) < Len(code) => ~IsTarget(code, Skip(code, n))
<1>1. Len(code) \in Nat /\ n \in Nat /\ n <= Len(code)
  BY CodeType
<1> DEFINE T == {j \in Nat : ~IsTarget(code, j)}
<1>2. PICK k \in n .. Len(code) :
        /\ \A j \in n .. k - 1 : j \notin T
        /\ k < Len(code) => k \in T
  <2> HIDE DEF T
  <2> QED BY <1>1, FirstFrom
<1>3. /\ \A j \in n .. k - 1 : IsTarget(code, j)
      /\ k < Len(code) => ~IsTarget(code, k)
  BY <1>1, <1>2
<1> QED BY <1>2, <1>3 DEF Skip

LEMMA SkipUnique ==
    ASSUME code \in Programs, NEW n \in 0 .. Len(code), NEW k \in n .. Len(code),
           \A j \in n .. k - 1 : IsTarget(code, j),
           k < Len(code) => ~IsTarget(code, k)
    PROVE  Skip(code, n) = k
<1> DEFINE m == Skip(code, n)
<1>1. /\ m \in n .. Len(code) /\ Len(code) \in Nat
      /\ \A j \in n .. m - 1 : IsTarget(code, j)
      /\ m < Len(code) => ~IsTarget(code, m)
  BY SkipIs, CodeType
<1> HIDE DEF m
<1>2. ~(k < m) /\ ~(m < k)
  BY <1>1
<1> QED BY <1>1, <1>2 DEF m

LEMMA SkipStep ==
    ASSUME code \in Programs, NEW n \in Indices
    PROVE  /\ ~IsTarget(code, n) => Skip(code, n) = n
           /\ IsTarget(code, n) => Skip(code, n) = Skip(code, n + 1)
<1>1. n \in 0 .. Len(code) /\ n + 1 \in 0 .. Len(code) /\ Len(code) \in Nat /\ n < Len(code)
  BY CodeType DEF Indices
<1>2. ASSUME ~IsTarget(code, n) PROVE Skip(code, n) = n
  BY <1>1, <1>2, SkipUnique
<1>3. ASSUME IsTarget(code, n) PROVE Skip(code, n) = Skip(code, n + 1)
  <2> DEFINE k == Skip(code, n + 1)
  <2>1. /\ k \in n + 1 .. Len(code)
        /\ \A j \in n + 1 .. k - 1 : IsTarget(code, j)
        /\ k < Len(code) => ~IsTarget(code, k)
    BY <1>1, SkipIs
  <2> HIDE DEF k
  <2>2. k \in n .. Len(code) /\ \A j \in n .. k - 1 : IsTarget(code, j)
    BY <1>1, <1>3, <2>1
  <2> QED BY <1>1, <2>1, <2>2, SkipUnique DEF k
<1> QED BY <1>2, <1>3

\* A target that was met, or 0, with none behind it: that is where a branch goes.
LEMMA LandingUnique ==
    ASSUME NEW prog, NEW n \in Nat, NEW k \in 0 .. n,
           k > 0 => IsTarget(prog, k),
           \A j \in k + 1 .. n : ~IsTarget(prog, j)
    PROVE  Landing(prog, n) = k
<1> DEFINE Is(l) == /\ l > 0 => IsTarget(prog, l)
                    /\ \A j \in l + 1 .. n : ~IsTarget(prog, j)
<1>1. \A l \in 0 .. n : Is(l) => l = k
  OBVIOUS
<1>2. Is(k)
  OBVIOUS
<1>3. Landing(prog, n) = CHOOSE l \in 0 .. n : Is(l)
  BY DEF Landing
<1> HIDE DEF Is
<1> QED BY <1>1, <1>2, <1>3

\* What `target` holds is the index of a target, but for its first value.
HoldsTarget == target > 0 => IsTarget(code, target)

LEMMA StepHoldsTarget == HoldsTarget /\ [Next]_vars => HoldsTarget'
<1> SUFFICES ASSUME HoldsTarget, [Next]_vars PROVE HoldsTarget'
    OBVIOUS
<1>1. CASE Target
  BY <1>1 DEF Target, Execute, HoldsTarget, IsTarget, instr
<1>2. CASE WideMul \/ Compute \/ BranchTaken \/ BranchNotTaken
  BY <1>2 DEF WideMul, Compute, BranchTaken, BranchNotTaken, Execute, HoldsTarget
<1>3. CASE UNCHANGED vars
  BY <1>3 DEF vars, HoldsTarget
<1> QED BY <1>1, <1>2, <1>3 DEF Next, Return

\* An enabled branch goes where it means to go.
LEMMA TargetIsLanding ==
    ASSUME IInv, HoldsTarget, branch_enable, i \in Indices, ~IsTarget(code, i)
    PROVE  Landing(code, i) = target
<1>1. i \in Nat /\ target \in 0 .. i
  BY CodeType DEF IInv, TypeOK, LastTarget
<1>2. \A j \in target + 1 .. i : ~IsTarget(code, j)
  BY <1>1, CodeType DEF IInv, TypeOK, LastTarget, IsTarget, Indices
<1> QED BY <1>1, <1>2, LandingUnique DEF HoldsTarget

\* The instruction at i is the one at `at`, unless it is a target.
LEMMA SamePlace ==
    ASSUME IInv, NEW ops, Execute(ops), "TARGET" \notin ops
    PROVE  /\ i \in Indices /\ code \in Programs /\ code' = code
           /\ ~IsTarget(code, i)
           /\ Skip(code, i) = i
           /\ Meaning!Running(ops)
<1>1. i \in Indices /\ code \in Programs /\ code' = code /\ i < Len(code)
  BY CodeType DEF Execute, IInv, TypeOK, Indices
<1>2. ~IsTarget(code, i)
  BY DEF Execute, IsTarget, instr
<1>3. Skip(code, i) = i
  BY <1>1, <1>2, SkipStep
<1> QED BY <1>1, <1>2, <1>3 DEF Meaning!Running, Execute, instr

LEMMA SameOperators ==
    /\ Meaning!MultiplyHigh = MultiplyHigh
    /\ Meaning!Arithmetic = Arithmetic
    /\ \A prog, n : Meaning!Skip(prog, n) = Skip(prog, n)
    /\ \A prog, n : Meaning!Landing(prog, n) = Landing(prog, n)
<1>1. Meaning!MultiplyHigh = MultiplyHigh /\ Meaning!Arithmetic = Arithmetic
  BY DEF Meaning!MultiplyHigh, MultiplyHigh, Meaning!Arithmetic, Arithmetic
<1>2. \A prog, n : Meaning!Skip(prog, n) = Skip(prog, n)
  BY DEF Meaning!Skip, Skip, Meaning!IsTarget, IsTarget
<1>3. \A prog, n : Meaning!Landing(prog, n) = Landing(prog, n)
  BY DEF Meaning!Landing, Landing, Meaning!IsTarget, IsTarget
<1> QED BY <1>1, <1>2, <1>3

LEMMA StepMeaning ==
    IInv /\ HoldsTarget /\ [Next]_vars => [Meaning!Next]_(Meaning!vars)
<1> SUFFICES ASSUME IInv, HoldsTarget, [Next]_vars
             PROVE  [Meaning!Next]_(Meaning!vars)
    OBVIOUS
<1>1. CASE WideMul
  <2>1. Execute(MultiplyHigh) /\ "TARGET" \notin MultiplyHigh
    BY <1>1 DEF WideMul, MultiplyHigh
  <2>2. Meaning!WideMul
    BY <1>1, <2>1, SamePlace, SameOperators DEF Meaning!WideMul, WideMul, Words
  <2> QED BY <2>2 DEF Meaning!Next
<1>2. CASE Compute
  <2>1. Execute(Arithmetic) /\ "TARGET" \notin Arithmetic
    BY <1>2 DEF Compute, Arithmetic
  <2>2. Meaning!Compute
    BY <1>2, <2>1, SamePlace, SameOperators DEF Meaning!Compute, Compute
  <2> QED BY <2>2 DEF Meaning!Next
<1>3. CASE Target
  <2>1. code' = code /\ code \in Programs /\ i \in Indices /\ i' = i + 1 /\ IsTarget(code, i)
    BY <1>3, CodeType DEF Target, Execute, IInv, TypeOK, Indices, IsTarget, instr
  <2>2. Skip(code, i)' = Skip(code, i)
    BY <2>1, SkipStep
  <2> QED BY <1>3, <2>1, <2>2 DEF Meaning!vars, Target
<1>4. CASE BranchTaken \/ BranchNotTaken
  <2>1. Execute({"BRANCH"})
    BY <1>4 DEF BranchTaken, BranchNotTaken
  <2>2. /\ i \in Indices /\ code' = code /\ Skip(code, i) = i
        /\ ~IsTarget(code, i) /\ Meaning!Running({"BRANCH"})
    BY <2>1, SamePlace
  <2>3. Meaning!Taken <=> Taken
    BY <2>2 DEF Meaning!Taken, Taken, instr
  <2>4. CASE BranchTaken
    <3>1. Taken /\ branch_enable /\ Landing(code, i) = target
      BY <2>2, <2>4, TargetIsLanding DEF BranchTaken, Taken
    <3>2. i' = Landing(code, i) + 1 /\ ~branch_enable' /\ result' = result
      BY <2>4, <3>1 DEF BranchTaken
    <3>3. Meaning!Branch
      BY <2>2, <2>3, <3>1, <3>2, SameOperators DEF Meaning!Branch
    <3> QED BY <3>3 DEF Meaning!Next
  <2>5. CASE BranchNotTaken
    <3>1. ~Taken /\ i' = i + 1 /\ branch_enable' = branch_enable /\ result' = result
      BY <2>5 DEF BranchNotTaken
    <3>2. Meaning!Branch
      BY <2>2, <2>3, <3>1, SameOperators DEF Meaning!Branch
    <3> QED BY <3>2 DEF Meaning!Next
  <2> QED BY <1>4, <2>4, <2>5
<1>5. CASE UNCHANGED vars
  BY <1>5 DEF vars, Meaning!vars
<1> QED BY <1>1, <1>2, <1>3, <1>4, <1>5 DEF Next, Return

\* hashx_program_execute implements the meaning of every program.
THEOREM InterpreterMeansIt == Spec => MeansTheProgram
<1>1. Init => Meaning!Init /\ HoldsTarget
  BY SameOperators DEF Init, Meaning!Init, HoldsTarget
<1>2. HoldsTarget /\ [Next]_vars => HoldsTarget'
  BY StepHoldsTarget
<1>3. IInv /\ HoldsTarget /\ [Next]_vars => [Meaning!Next]_(Meaning!vars)
  BY StepMeaning
<1> QED BY <1>1, <1>2, <1>3, Invariant, PTL DEF Spec, Meaning!Spec, MeansTheProgram
=============================================================================
