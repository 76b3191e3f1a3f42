---------------------------- MODULE ContextProofs ----------------------------
(****************************************************************************)
(* Proofs about Context, for every set of seeds.                            *)
(****************************************************************************)
EXTENDS Context, TLAPS

\* The instances start without a function and without memory.
LEMMA InitIInv == Init => IInv
BY DEF Init, IInv, TypeOK, NothingLeaks, Whole, NoAnswer

\* hashx_alloc leaves the user with a fresh instance or with nothing at all.
LEMMA AllocStep ==
    ASSUME IInv, ~fault, NEW t \in hashx_type, hashx_alloc(t),
           UNCHANGED <<answer, fault, environment>>
    PROVE  IInv'
<1>1. CASE AllocUnsupported(t) \/ AllocNoContext(t)
  BY <1>1 DEF environment, IInv, TypeOK, NothingLeaks, Whole, hashx_alloc, instance,
     AllocUnsupported, AllocNoContext
<1>2. CASE AllocNoStore(t)
  BY <1>2 DEF environment, IInv, TypeOK, NothingLeaks, Whole, hashx_alloc, AllocNoStore, Freed
<1>3. CASE Alloc(t)
  BY <1>3 DEF environment, IInv, TypeOK, NothingLeaks, Whole, hashx_alloc, Alloc, Store,
     hashx_type
<1> QED BY <1>1, <1>2, <1>3 DEF hashx_alloc

\* hashx_make: a rejected seed, and success on either type of instance.
LEMMA MakeStep ==
    ASSUME IInv, ~fault, NEW seed \in Seeds, hashx_make(seed),
           UNCHANGED environment
    PROVE  IInv'
<1> USE ContextAssumption DEF environment, IInv, TypeOK, NothingLeaks, Whole, hashx_make
<1>1. CASE MakeRejected(seed)
  BY <1>1 DEF MakeRejected, Store, hashx_type
<1>2. CASE MakeInterpreted(seed)
  BY <1>2 DEF MakeInterpreted, Initialized, Succeed, Store, hashx_type
<1>3. CASE MakeCompiled(seed)
  BY <1>3 DEF MakeCompiled, Initialized, Compile, Succeed, page_protect, Store,
     hashx_type
<1> QED BY <1>1, <1>2, <1>3

\* hashx_exec does not change the instance.
LEMMA ExecStep ==
    ASSUME IInv, ~fault, hashx_exec, UNCHANGED environment
    PROVE  IInv'
<1>1. answer' \in {NoAnswer} \cup (Seeds \cup {"uninit"}) \X (Seeds \cup {"uninit"})
  <2>1. CASE UNCHANGED answer
    BY <2>1 DEF IInv, TypeOK
  <2>2. CASE answer' = <<content, keys>>
    BY <2>2 DEF IInv, TypeOK
  <2> QED BY <2>1, <2>2 DEF hashx_exec
<1> QED BY <1>1 DEF environment, IInv, TypeOK, NothingLeaks, Whole, hashx_exec, MayExec,
     instance, Store

\* hashx_free returns what the instance owned: its type is known by then.
LEMMA FreeStep ==
    ASSUME IInv, ~fault, hashx_free, UNCHANGED <<answer, fault, environment>>
    PROVE  IInv'
BY DEF environment, IInv, TypeOK, NothingLeaks, Whole, hashx_free, Freed, Store, hashx_type

LEMMA StepIInv == IInv /\ [Next]_vars => IInv'
<1> SUFFICES ASSUME IInv, [Next]_vars PROVE IInv'
    OBVIOUS
<1>1. CASE ~fault /\ Call /\ UNCHANGED environment
  BY <1>1, AllocStep, MakeStep, ExecStep, FreeStep DEF Call
<1>2. CASE UNCHANGED vars
  BY <1>2 DEF vars, environment, instance, IInv, TypeOK, NothingLeaks, Whole, Store
<1> QED BY <1>1, <1>2 DEF Next, Crashed

\* The inductive invariant: with the types of the variables, what an instance
\* owns, and that it is one function unless a failed hashx_make overwrote it.
THEOREM Invariant == Spec => []IInv
BY InitIInv, StepIInv, PTL DEF Spec

\* No allocation or failure leaks memory of hashx_alloc.
THEOREM MemoryReturned == Spec => []NothingLeaks
<1>1. IInv => NothingLeaks
  BY DEF IInv
<1> QED BY Invariant, <1>1, PTL

\* What the user may run is the function of the last hashx_make that succeeded.
THEOREM FunctionIsWhole == Spec => []OneFunction
<1>1. IInv => OneFunction
  BY ContextAssumption DEF IInv, TypeOK, Whole, OneFunction, MayExec, hashx_type
<1> QED BY Invariant, <1>1, PTL

-----------------------------------------------------------------------------
(* Where mprotect works.                                                    *)

\* Compiled code is executable whenever a function exists.
Executable ==
    "mprotect" \notin Failures =>
        /\ ~fault
        /\ handle = "ctx" /\ type = "COMPILED" /\ has_program => prot = "rx"

LEMMA StepExecutable ==
    ASSUME IInv, Executable, [Next]_vars
    PROVE  Executable'
<1>0. UNCHANGED Failures
  BY DEF Next, Crashed, vars, environment
<1>1. ASSUME NEW t \in hashx_type, hashx_alloc(t), UNCHANGED fault
      PROVE  Executable'
  BY <1>0, <1>1 DEF Executable, hashx_alloc, AllocUnsupported, AllocNoContext,
     AllocNoStore, Alloc
<1>2. ASSUME NEW seed \in Seeds, hashx_make(seed)
      PROVE  Executable'
  <2>1. CASE MakeRejected(seed) \/ MakeInterpreted(seed)
    BY <1>0, <1>2, <2>1 DEF Executable, hashx_make, MakeRejected, MakeInterpreted,
       Initialized
  <2>2. CASE MakeCompiled(seed)
    BY <1>0, <1>2, <2>2 DEF Executable, hashx_make, MakeCompiled, Compile, page_protect
  <2> QED BY <1>2, <2>1, <2>2 DEF hashx_make
<1>3. CASE hashx_exec
  BY <1>0, <1>3 DEF Executable, hashx_exec, MayExec, instance
<1>4. CASE hashx_free /\ UNCHANGED fault
  BY <1>0, <1>4 DEF Executable, hashx_free
<1>5. CASE UNCHANGED vars
  BY <1>0, <1>5 DEF Executable, vars, instance
<1> QED BY <1>1, <1>2, <1>3, <1>4, <1>5 DEF Next, Call, Crashed

\* Where mprotect works no call of the interface, in any order, writes to or
\* runs a page that does not allow it.
THEOREM ProcessAlwaysSurvives == Spec => []ProcessSurvives
<1>1. Init => Executable
  BY DEF Init, Executable
<1>2. IInv /\ Executable /\ [Next]_vars => Executable'
  BY StepExecutable
<1>3. Executable => ProcessSurvives
  BY DEF Executable, ProcessSurvives
<1> QED BY <1>1, <1>2, <1>3, Invariant, PTL DEF Spec

-----------------------------------------------------------------------------
(* The refinement.                                                          *)

LEMMA InitPromise == Init => Promise!Init
BY DEF Init, Promise!Init, NoAnswer

\* Every call is a call of the interface, or changes nothing it speaks of.
LEMMA StepPromise ==
    ASSUME ~ExecAfterFailedMake, IInv, [Next]_vars
    PROVE  [Promise!Next]_Promise!vars
<1> USE ContextAssumption DEF Promise!vars
<1>1. CASE fault \/ UNCHANGED vars
  BY <1>1 DEF Next, Crashed, vars, instance
<1>2. ASSUME ~fault, NEW t \in hashx_type, hashx_alloc(t), UNCHANGED <<answer, fault>>
      PROVE  [Promise!Next]_Promise!vars
  BY <1>2 DEF hashx_alloc, AllocUnsupported, AllocNoContext, AllocNoStore,
     Alloc, instance, Promise!Next, Promise!Create, Promise!Exists
<1>3. ASSUME ~fault, NEW seed \in Seeds, hashx_make(seed)
      PROVE  [Promise!Next]_Promise!vars
  <2>1. CASE MakeRejected(seed)
    BY <1>3, <2>1 DEF hashx_make, MakeRejected, IInv, TypeOK, Whole, hashx_type,
       Promise!Next, Promise!Fail, Promise!Exists
  <2>2. CASE MakeInterpreted(seed)
    BY <1>3, <2>2 DEF hashx_make, MakeInterpreted, Initialized, Succeed, IInv,
       Whole, Promise!Next, Promise!Make, Promise!Exists
  <2>3. CASE MakeCompiled(seed)
    BY <1>3, <2>3 DEF hashx_make, MakeCompiled, Initialized, Compile, Succeed,
       page_protect, IInv, TypeOK, Whole, Promise!Next, Promise!Make,
       Promise!Free, Promise!Exists
  <2> QED BY <1>3, <2>1, <2>2, <2>3 DEF hashx_make
<1>4. ASSUME ~fault, hashx_exec
      PROVE  [Promise!Next]_Promise!vars
  BY <1>4 DEF hashx_exec, MayExec, instance, IInv, TypeOK, Whole, hashx_type,
     Promise!Next, Promise!Exec, Promise!Free, Promise!Exists
<1>5. ASSUME ~fault, hashx_free, UNCHANGED <<answer, fault>>
      PROVE  [Promise!Next]_Promise!vars
  BY <1>5 DEF hashx_free, IInv, TypeOK, Whole, Promise!Next, Promise!Free,
     Promise!Exists
<1> QED BY <1>1, <1>2, <1>3, <1>4, <1>5 DEF Next, Call, Crashed

\* An instance is what hashx.h promises, provided the user does not run an
\* interpreted one after a hashx_make that failed.
THEOREM ImplementsPromise ==
    ASSUME ~ExecAfterFailedMake
    PROVE  Spec => KeepsPromise
<1>1. IInv /\ [Next]_vars => [Promise!Next]_Promise!vars
  BY StepPromise
<1> QED BY InitPromise, Invariant, <1>1, PTL DEF Spec, KeepsPromise, Promise!Spec

=============================================================================
