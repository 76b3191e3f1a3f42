----------------------------- MODULE BenchProofs -----------------------------
(****************************************************************************)
(* Proofs about Bench, for any numbers of seeds and threads.                *)
(*                                                                          *)
(* A seed belongs to one thread, by its remainder, and was tested exactly   *)
(* if that thread's loop variable is past it.  This holds while no loop     *)
(* variable has wrapped around; OvershootAlwaysBounded says when none will. *)
(****************************************************************************)
EXTENDS Bench, Induction, TLAPS

Begun(t) == thread[t] \in {"running", "ended"}

Types ==
    /\ threads \in ThreadCounts
    /\ pc \in {"alloc", "create", "join", "report", "reported", "failed", "crashed"}
    /\ thd \in Jobs
    /\ thread \in [Jobs -> {"none", "created", "running", "ended"}]
    /\ seed \in [Jobs -> Int]
    /\ tests \in [Seeds -> Nat]
    /\ wrapped \subseteq Jobs

\* The loop variables keep their remainders and stop right behind the end.
LoopVariables ==
    \A t \in Jobs :
        /\ seed[t] \in Nat
        /\ ~Begun(t) => seed[t] = 0
        /\ Begun(t) => seed[t] >= START /\ seed[t] < END + threads /\ Owner(seed[t]) = t
        /\ thread[t] = "ended" => seed[t] >= END

\* A thread that main has not come to is not there.
NotYetCreated ==
    /\ pc = "alloc" => \A t \in Jobs : thread[t] = "none"
    /\ pc = "create" => \A t \in Jobs : t >= thd => thread[t] = "none"

TestedOnce ==
    \A s \in Seeds :
        tests[s] = IF Begun(Owner(s)) /\ seed[Owner(s)] > s THEN 1 ELSE 0

\* Main has joined the threads before its loop variable.
Joined ==
    /\ pc = "join" => \A t \in Jobs : t < thd => thread[t] \in {"ended", "none"}
    /\ pc \in {"report", "reported"} => \A t \in Jobs : thread[t] \in {"ended", "none"}

Partition == Types /\ LoopVariables /\ TestedOnce

-----------------------------------------------------------------------------
(* Remainders                                                               *)

LEMMA Remainder ==
    ASSUME NEW a \in Nat, NEW n \in Nat, n > 0
    PROVE  /\ a % n \in 0 .. n - 1
           /\ (a + n) % n = a % n
           /\ a < n => a % n = a
  <1>1. a % n \in 0 .. n - 1 /\ (a < n => a % n = a)
    BY Z3
  <1> DEFINE p == a \div n  r == a % n
  <1>2. p \in Nat /\ r \in Nat /\ r < n /\ a = n * p + r
    BY Z3
  <1> HIDE DEF p, r
  <1>3. p + 1 \in Nat /\ a + n = n * (p + 1) + r
    BY <1>2, Z3
  <1>4. \A q \in Nat : (n * q + r) % n = r
    BY <1>2, Z3
  <1>5. (a + n) % n = r /\ a % n = r
    BY <1>2, <1>3, <1>4
  <1> QED BY <1>1, <1>5

\* Between a number and the next with its remainder there is none with it.
LEMMA NextWithRemainder ==
    ASSUME NEW a \in Nat, NEW b \in Nat, NEW n \in Nat, n > 0,
           a % n = b % n, a < b
    PROVE  a + n <= b
  <1> DEFINE p == a \div n  q == b \div n  r == a % n
  <1>1. p \in Nat /\ q \in Nat /\ r \in Nat /\ a = n * p + r /\ b = n * q + r
    BY Z3
  <1> HIDE DEF p, q, r
  <1>2. p < q
    BY <1>1, Z3
  <1>3. n * (p + 1) <= n * q
    BY <1>1, <1>2, Z3
  <1> QED BY <1>1, <1>3, Z3

LEMMA Constants ==
    ASSUME Types
    PROVE  /\ threads \in Nat /\ threads > 0
           /\ START \in Nat /\ END \in Nat /\ START <= END
           /\ INT_MAX \in Nat /\ END <= INT_MAX
           /\ Jobs = 0 .. threads - 1
  BY BenchAssumption DEF Types, END, Jobs

LEMMA OwnerIsJob ==
    ASSUME Types, NEW s \in Nat, s >= START
    PROVE  /\ Owner(s) \in Jobs
           /\ Owner(s + threads) = Owner(s)
  <1>1. s - START \in Nat /\ (s + threads) - START = (s - START) + threads
    BY Constants
  <1> QED BY <1>1, Constants, Remainder DEF Owner

\* No seed of the thread is passed over.
LEMMA NextOfOwner ==
    ASSUME Types, NEW s \in Seeds, NEW n \in Nat, n >= START,
           Owner(s) = Owner(n), s > n
    PROVE  s >= n + threads
  <1>1. s - START \in Nat /\ n - START \in Nat /\ n - START < s - START /\ s \in Nat
    BY Constants DEF Seeds
  <1>2. (n - START) + threads <= s - START
    BY <1>1, Constants, NextWithRemainder DEF Owner
  <1> QED BY <1>1, <1>2, Constants

-----------------------------------------------------------------------------
(* The partition of the seeds                                               *)

LEMMA InitPartition == Init => Partition
  <1> SUFFICES ASSUME Init PROVE Partition
    OBVIOUS
  <1>1. Types
    BY BenchAssumption DEF Init, Types, Jobs
  <1>2. LoopVariables
    BY DEF Init, LoopVariables, Begun
  <1>3. TestedOnce
    <2> SUFFICES ASSUME NEW s \in Seeds PROVE tests[s] = 0 /\ ~Begun(Owner(s))
      BY DEF TestedOnce
    <2>1. Owner(s) \in Jobs
      BY <1>1, OwnerIsJob, Constants DEF Seeds
    <2> QED BY <2>1 DEF Init, Begun
  <1> QED BY <1>1, <1>2, <1>3 DEF Partition

\* Steps that do not concern the workers.
LEMMA Unconcerned ==
    ASSUME Types, UNCHANGED <<threads, seed, tests, wrapped>>,
           thread' \in [Jobs -> {"none", "created", "running", "ended"}],
           \A t \in Jobs : Begun(t)' <=> Begun(t),
           \A t \in Jobs : thread'[t] = "ended" => thread[t] = "ended" \/ seed[t] >= END,
           pc' \in {"alloc", "create", "join", "report", "reported", "failed", "crashed"},
           thd' \in Jobs
    PROVE  Types' /\ (Partition => Partition')
  <1>1. Types'
    BY DEF Types, Jobs
  <1> SUFFICES ASSUME Partition PROVE Partition'
    BY <1>1
  <1>2. LoopVariables'
    BY DEF Partition, LoopVariables, Types, Jobs, Owner
  <1>3. TestedOnce'
    <2> SUFFICES ASSUME NEW s \in Seeds
                 PROVE  tests'[s] = IF Begun(Owner(s))' /\ seed'[Owner(s)'] > s THEN 1 ELSE 0
      BY DEF TestedOnce
    <2>1. Owner(s) \in Jobs /\ Owner(s)' = Owner(s)
      BY OwnerIsJob, Constants DEF Partition, Seeds, Owner
    <2>2. Begun(Owner(s))' <=> Begun(Owner(s))
      BY <2>1 DEF Begun
    <2> QED BY <2>1, <2>2 DEF Partition, TestedOnce
  <1> QED BY <1>1, <1>2, <1>3 DEF Partition

LEMMA WorkerTypes ==
    ASSUME Types, NEW j \in Jobs, Worker(j)
    PROVE  Types'
  <1>1. CASE Start(j)
    BY <1>1, Constants DEF Types, Start, FirstSeed, Wrapped, Jobs
  <1>2. CASE TestSeed(j) \/ SkipSeed(j) \/ StraySeed(j)
    <2>1. /\ UNCHANGED <<threads, pc, thd, thread>> /\ Jobs' = Jobs
          /\ NextSeed(j)
      BY <1>2 DEF TestSeed, SkipSeed, StraySeed, Jobs
    <2>2. seed' \in [Jobs -> Int] /\ wrapped' \subseteq Jobs
      BY <2>1, Constants DEF Types, NextSeed, Step, Wrapped
    <2>3. tests' \in [Seeds -> Nat]
      BY <2>1 DEF Types, NextSeed, MANY
    <2> QED BY <2>1, <2>2, <2>3 DEF Types
  <1>3. CASE End(j)
    BY <1>3 DEF Types, End, Jobs
  <1> QED BY <1>1, <1>2, <1>3 DEF Worker

\* What the steps of a worker are if its loop variable does not wrap around.
LEMMA StartUnwrapped ==
    ASSUME Types, NEW j \in Jobs, Start(j), wrapped' = {}
    PROVE  wrapped = {} /\ seed' = [seed EXCEPT ![j] = START + j]
  BY DEF Start, FirstSeed

LEMMA SeedUnwrapped ==
    ASSUME Types, NEW j \in Jobs, TestSeed(j) \/ SkipSeed(j) \/ StraySeed(j),
           wrapped' = {}
    PROVE  /\ wrapped = {}
           /\ TestSeed(j) \/ SkipSeed(j)
           /\ seed' = [seed EXCEPT ![j] = @ + threads]
           /\ tests' = [s \in Seeds |-> IF s = seed[j] /\ tests[s] < 2
                                        THEN tests[s] + 1 ELSE tests[s]]
  BY DEF TestSeed, SkipSeed, StraySeed, NextSeed, Step, MANY

LEMMA StartPartition ==
    ASSUME Partition, NEW j \in Jobs, Start(j), wrapped' = {}
    PROVE  Partition'
  <1>1. /\ UNCHANGED <<threads, pc, thd, tests>> /\ Jobs' = Jobs
        /\ thread[j] = "created" /\ thread' = [thread EXCEPT ![j] = "running"]
        /\ seed' = [seed EXCEPT ![j] = START + j]
    BY StartUnwrapped DEF Partition, Start, Jobs
  <1>2. Types
    BY DEF Partition
  <1>3. Types'
    BY <1>1, <1>2, Constants DEF Start, Types
  <1>4. j \in Nat /\ j < threads /\ START + j \in Nat /\ Owner(START + j) = j
    <2>1. (START + j) - START = j /\ j \in Nat /\ j < threads
      BY <1>2, Constants
    <2> QED BY <2>1, <1>2, Constants, Remainder DEF Owner
  <1>5. LoopVariables'
    <2> SUFFICES ASSUME NEW t \in Jobs
                 PROVE  /\ seed'[t] \in Nat
                        /\ ~Begun(t)' => seed'[t] = 0
                        /\ Begun(t)' => /\ seed'[t] >= START /\ seed'[t] < END + threads
                                        /\ Owner(seed'[t]) = t
                        /\ thread'[t] = "ended" => seed'[t] >= END
      BY <1>1 DEF LoopVariables, Owner
    <2>1. CASE t = j
      BY <2>1, <1>1, <1>2, <1>4, Constants DEF Types, Begun
    <2>2. CASE t # j
      BY <2>2, <1>1, <1>2 DEF Types, Partition, LoopVariables, Begun
    <2> QED BY <2>1, <2>2
  <1>6. TestedOnce'
    <2> SUFFICES ASSUME NEW s \in Seeds
                 PROVE  tests[s] = IF /\ thread'[Owner(s)] \in {"running", "ended"}
                                        /\ seed'[Owner(s)] > s
                                     THEN 1 ELSE 0
      BY <1>1 DEF TestedOnce, Owner, Begun
    <2>1. Owner(s) \in Jobs /\ s \in Nat /\ s >= START
      BY <1>2, OwnerIsJob, Constants DEF Seeds
    <2>2. CASE Owner(s) = j
      <3>1. tests[s] = 0
        BY <2>2, <1>1 DEF Partition, TestedOnce, Begun
      <3>2. ~(START + j > s)
        <4>1. SUFFICES ASSUME START + j > s PROVE FALSE
          OBVIOUS
        <4>2. s - START \in Nat /\ s - START < threads
          BY <4>1, <2>1, <1>2, <1>4, Constants
        <4>3. Owner(s) = s - START
          BY <4>2, <1>2, Constants, Remainder DEF Owner
        <4> QED BY <4>1, <4>3, <2>1, <2>2, <1>2, Constants
      <3> QED BY <3>1, <3>2, <2>2, <1>1, <1>2 DEF Types
    <2>3. CASE Owner(s) # j
      BY <2>3, <2>1, <1>1, <1>2 DEF Types, Partition, TestedOnce, Begun
    <2> QED BY <2>2, <2>3
  <1> QED BY <1>3, <1>5, <1>6 DEF Partition

\* A seed is tested, or passed over as rejected: both count it.
LEMMA SeedPartition ==
    ASSUME Partition, NEW j \in Jobs, TestSeed(j) \/ SkipSeed(j), wrapped' = {}
    PROVE  Partition'
  <1> DEFINE n == seed[j]
  <1>1. /\ UNCHANGED <<threads, pc, thd, thread>> /\ Jobs' = Jobs
        /\ thread[j] = "running" /\ n < END
        /\ seed' = [seed EXCEPT ![j] = n + threads]
        /\ tests' = [s \in Seeds |-> IF s = n /\ tests[s] < 2 THEN tests[s] + 1
                                     ELSE tests[s]]
    BY SeedUnwrapped DEF Partition, TestSeed, SkipSeed, HasSeed, Jobs
  <1>2. Types
    BY DEF Partition
  <1>3. n \in Seeds /\ n \in Nat /\ n >= START /\ Owner(n) = j
    BY <1>1, <1>2, Constants DEF Partition, LoopVariables, Begun, Types, Seeds
  <1>4. Types'
    BY <1>1, <1>2, <1>3, Constants DEF Types, TestSeed, SkipSeed
  <1>5. Owner(n + threads) = j
    BY <1>2, <1>3, OwnerIsJob
  <1>6. LoopVariables'
    <2> SUFFICES ASSUME NEW t \in Jobs
                 PROVE  /\ seed'[t] \in Nat
                        /\ ~Begun(t)' => seed'[t] = 0
                        /\ Begun(t)' => /\ seed'[t] >= START /\ seed'[t] < END + threads
                                        /\ Owner(seed'[t]) = t
                        /\ thread'[t] = "ended" => seed'[t] >= END
      BY <1>1 DEF LoopVariables, Owner
    <2>1. CASE t = j
      BY <2>1, <1>1, <1>2, <1>3, <1>5, Constants DEF Types, Begun
    <2>2. CASE t # j
      BY <2>2, <1>1, <1>2 DEF Types, Partition, LoopVariables, Begun
    <2> QED BY <2>1, <2>2
  <1>7. TestedOnce'
    <2> SUFFICES ASSUME NEW s \in Seeds
                 PROVE  tests'[s] = IF Begun(Owner(s)) /\ seed'[Owner(s)] > s THEN 1 ELSE 0
      BY <1>1 DEF TestedOnce, Owner, Begun
    <2>1. Owner(s) \in Jobs /\ s \in Nat /\ s >= START
      BY <1>2, OwnerIsJob, Constants DEF Seeds
    <2>2. tests[s] = IF Begun(Owner(s)) /\ seed[Owner(s)] > s THEN 1 ELSE 0
      BY DEF Partition, TestedOnce
    <2>3. CASE s = n
      <3>1. tests[s] = 0
        BY <2>2, <2>3, <1>3
      <3>2. tests'[s] = 1
        BY <3>1, <2>3, <1>1, <1>2, <1>3 DEF Types
      <3>3. Begun(Owner(s)) /\ seed'[Owner(s)] > s
        BY <2>3, <1>1, <1>2, <1>3, Constants DEF Begun, Types
      <3> QED BY <3>2, <3>3
    <2>4. CASE s # n /\ Owner(s) = j
      <3>1. tests'[s] = tests[s]
        BY <2>4, <1>1, <1>2 DEF Types
      <3>2. n > s <=> n + threads > s
        <4>1. CASE s > n
          BY <4>1, <2>4, <2>1, <1>2, <1>3, NextOfOwner, Constants
        <4>2. CASE s < n
          BY <4>2, <2>1, <1>2, <1>3, Constants
        <4> QED BY <4>1, <4>2, <2>1, <2>4, <1>3
      <3>3. seed'[j] = n + threads
        BY <1>1, <1>2 DEF Types
      <3> QED BY <3>1, <3>2, <3>3, <2>2, <2>4
    <2>5. CASE s # n /\ Owner(s) # j
      <3>1. tests'[s] = tests[s] /\ seed'[Owner(s)] = seed[Owner(s)]
        BY <2>5, <2>1, <1>1, <1>2 DEF Types
      <3> QED BY <3>1, <2>2
    <2> QED BY <2>3, <2>4, <2>5
  <1> QED BY <1>4, <1>6, <1>7 DEF Partition

LEMMA EndPartition ==
    ASSUME Partition, NEW j \in Jobs, End(j)
    PROVE  Partition'
  <1>1. Types /\ thread[j] = "running" /\ seed[j] >= END
    BY Constants DEF End, HasSeed, Partition, Types
  <1>2. thread' = [thread EXCEPT ![j] = "ended"]
    BY DEF End
  <1> QED BY <1>1, <1>2, Unconcerned DEF End, Partition, Types, Begun

LEMMA EachThd ==
    ASSUME Types, NEW from, NEW to, Each(from, to)
    PROVE  /\ pc = from
           /\ \/ thd' = thd + 1 /\ thd' \in Jobs /\ pc' = from
              \/ thd' = 0 /\ thd' \in Jobs /\ pc' = to /\ thd = threads - 1
  BY Constants DEF Each, Types

LEMMA MainPartition ==
    ASSUME Types, NotYetCreated, Main
    PROVE  Types' /\ (Partition => Partition') /\ NotYetCreated'
  <1> DEFINE states == {"none", "created", "running", "ended"}
  <1>1. Types
    OBVIOUS
  <1>2. CASE Alloc
    <2>1. /\ pc = "alloc" /\ thd' \in Jobs /\ UNCHANGED <<threads, seed, tests, wrapped>>
          /\ \/ pc' = "alloc" /\ thd' = thd + 1
             \/ pc' = "create" /\ threads > 1
             \/ pc' = "join" /\ ~(threads > 1)
      BY <1>1, <1>2, EachThd, Constants DEF Alloc
    <2>2. \A t \in Jobs : thread[t] = "none" /\ thread'[t] \in {"none", "created"}
      BY <1>1, <1>2, <2>1, Constants DEF Alloc, NotYetCreated, Types
    <2>3. thread' \in [Jobs -> states]
      BY <1>1, <1>2 DEF Alloc, Types
    <2>4. Types' /\ (Partition => Partition')
      BY <2>1, <2>2, <2>3, Unconcerned DEF Begun
    <2>5. pc' # "join" => threads > 1
      BY <1>1, <2>1, Constants DEF Types
    <2>6. NotYetCreated'
      BY <1>2, <2>1, <2>2, <2>5 DEF Alloc, NotYetCreated, Jobs
    <2> QED BY <2>4, <2>6
  <1>3. CASE AllocFails
    <2>1. Types' /\ (Partition => Partition')
      BY <1>1, <1>3, Unconcerned DEF AllocFails, Types, Begun
    <2> QED BY <1>3, <2>1 DEF AllocFails, NotYetCreated
  <1>4. CASE Create
    <2>1. /\ pc = "create" /\ thread[thd] = "none" /\ UNCHANGED <<threads, seed, tests, wrapped>>
          /\ thd' \in Jobs
          /\ (thd' = thd + 1 /\ pc' = "create") \/ pc' = "join"
      BY <1>1, <1>4, EachThd, Constants DEF Create, NotYetCreated, Types
    <2>2. /\ thread' \in [Jobs -> states]
          /\ \A t \in Jobs : t # thd => thread'[t] = thread[t]
          /\ thread'[thd] \in {"none", "created"}
      BY <1>1, <1>4, <2>1 DEF Create, Types
    <2>3. Types' /\ (Partition => Partition')
      BY <1>1, <2>1, <2>2, Unconcerned DEF Begun, Types
    <2>4. NotYetCreated'
      BY <1>1, <2>1, <2>2, Constants DEF NotYetCreated, Jobs, Types
    <2> QED BY <2>3, <2>4
  <1>5. CASE Join
    <2>1. /\ pc = "join" /\ UNCHANGED <<threads, seed, tests, wrapped, thread>>
          /\ thd' \in Jobs /\ pc' \in {"join", "report"}
      BY <1>1, <1>5, EachThd DEF Join
    <2>2. Types' /\ (Partition => Partition')
      BY <1>1, <2>1, Unconcerned DEF Begun, Types
    <2> QED BY <2>1, <2>2 DEF NotYetCreated
  <1>6. ASSUME NEW v \in Hashes, Report(v) 
        PROVE  Types' /\ (Partition => Partition') /\ NotYetCreated'
    <2>1. pc' = "reported" /\ UNCHANGED <<threads, seed, tests, wrapped, thread, thd>>
      BY <1>6 DEF Report
    <2>2. Types' /\ (Partition => Partition')
      BY <1>1, <2>1, Unconcerned DEF Begun, Types
    <2> QED BY <2>1, <2>2 DEF NotYetCreated
  <1>7. CASE JoinCrashes
    <2>1. pc' = "crashed" /\ UNCHANGED <<threads, seed, tests, wrapped, thread, thd>>
      BY <1>7 DEF JoinCrashes
    <2>2. Types' /\ (Partition => Partition')
      BY <1>1, <2>1, Unconcerned DEF Begun, Types
    <2> QED BY <2>1, <2>2 DEF NotYetCreated
  <1> QED BY <1>2, <1>3, <1>4, <1>5, <1>6, <1>7 DEF Main

\* A thread that runs was created before.
LEMMA WorkerNotYetCreated ==
    ASSUME Types, NotYetCreated, NEW j \in Jobs, Worker(j)
    PROVE  NotYetCreated'
  <1>1. /\ thread[j] # "none" /\ UNCHANGED <<threads, pc, thd>>
        /\ \A t \in Jobs : t # j => thread'[t] = thread[t]
    BY DEF Types, Worker, Start, TestSeed, SkipSeed, StraySeed, End, HasSeed
  <1> QED BY <1>1 DEF NotYetCreated, Jobs

IInv == Types /\ NotYetCreated /\ (wrapped = {} => Partition)

LEMMA StepIInv == IInv /\ [Next]_vars => IInv'
  <1> SUFFICES ASSUME IInv, [Next]_vars PROVE IInv'
    OBVIOUS
  <1>1. CASE Main
    <2>1. UNCHANGED wrapped
      BY <1>1 DEF Main, Alloc, AllocFails, Create, Join, JoinCrashes, Report
    <2> QED BY <1>1, <2>1, MainPartition DEF IInv
  <1>2. ASSUME NEW j \in Jobs, Worker(j) PROVE IInv'
    <2>1. Types' /\ NotYetCreated'
      BY <1>2, WorkerTypes, WorkerNotYetCreated DEF IInv
    <2>2. ASSUME wrapped' = {} PROVE Partition'
      <3>1. CASE Start(j)
        BY <2>2, <3>1, StartUnwrapped, StartPartition DEF IInv
      <3>2. CASE TestSeed(j) \/ SkipSeed(j) \/ StraySeed(j)
        BY <2>2, <3>2, SeedUnwrapped, SeedPartition DEF IInv
      <3>3. CASE End(j)
        BY <2>2, <3>3, EndPartition DEF IInv, End
      <3> QED BY <1>2, <3>1, <3>2, <3>3 DEF Worker
    <2> QED BY <2>1, <2>2 DEF IInv
  <1>3. CASE UNCHANGED vars
    BY <1>3, Unconcerned DEF vars, IInv, Types, Begun, NotYetCreated, Jobs
  <1> QED BY <1>1, <1>2, <1>3 DEF Next, Exited

LEMMA InitIInv == Init => IInv
  <1>1. Init => NotYetCreated
    BY DEF Init, NotYetCreated
  <1> QED BY <1>1, InitPartition DEF IInv, Partition

LEMMA Invariant == Spec => []IInv
  BY InitIInv, StepIInv, PTL DEF Spec

\* No thread tests a seed of another, or one of its own twice, unless a loop
\* variable wraps around.
THEOREM NeverTestedTwice == Spec => []EachSeedOnce
  <1>1. IInv => EachSeedOnce
    BY DEF IInv, Partition, TestedOnce, EachSeedOnce
  <1> QED BY <1>1, Invariant, PTL

LEMMA InitOvershoot == Init => OvershootIsBounded
  <1> SUFFICES ASSUME Init, NEW t \in Jobs PROVE seed[t] <= END + threads - 1
    BY DEF OvershootIsBounded, Init
  <1>1. Types
    BY InitIInv DEF IInv
  <1> QED BY <1>1, Constants DEF Init

\* An addition starts from a seed before the end.
LEMMA StepOvershoot == IInv /\ OvershootIsBounded /\ [Next]_vars => OvershootIsBounded'
  <1> SUFFICES ASSUME IInv, OvershootIsBounded, [Next]_vars PROVE OvershootIsBounded'
    OBVIOUS
  <1>1. Types
    BY DEF IInv
  <1>2. ASSUME UNCHANGED <<threads, seed, wrapped>> PROVE OvershootIsBounded'
    BY <1>2 DEF OvershootIsBounded, Fits, Jobs
  <1>3. CASE Main \/ UNCHANGED vars
    BY <1>2, <1>3
       DEF Main, Alloc, AllocFails, Create, Join, JoinCrashes, Report, vars
  <1>4. ASSUME NEW j \in Jobs, Start(j) PROVE OvershootIsBounded'
    <2>1. /\ threads' = threads /\ Jobs' = Jobs
          /\ seed' = [seed EXCEPT ![j] = FirstSeed(j)]
          /\ START + j <= INT_MAX => UNCHANGED wrapped
      BY <1>4 DEF Start, Jobs
    <2>2. j \in Nat /\ START + j <= END + threads - 1 /\ FirstSeed(j) <= START + j
      BY <1>1, Constants DEF FirstSeed, Wrapped
    <2>3. FirstSeed(j) \in Int
      BY <1>1, <2>2, Constants DEF FirstSeed, Wrapped
    <2>4. \A t \in Jobs' : seed'[t] <= END + threads' - 1
      BY <1>1, <2>1, <2>2, <2>3, Constants DEF OvershootIsBounded, Types
    <2>5. Fits => START + j <= INT_MAX
      BY <1>1, <2>2, Constants DEF Fits
    <2> QED BY <2>1, <2>4, <2>5 DEF OvershootIsBounded, Fits
  <1>5. ASSUME NEW j \in Jobs, TestSeed(j) \/ SkipSeed(j) \/ StraySeed(j)
        PROVE  OvershootIsBounded'
    <2> DEFINE n == seed[j] + threads
    <2>1. /\ threads' = threads /\ Jobs' = Jobs /\ seed[j] < END
          /\ \/ seed' = [seed EXCEPT ![j] = n] /\ UNCHANGED wrapped
             \/ n > INT_MAX /\ seed' = [seed EXCEPT ![j] = Wrapped(n)]
      BY <1>5 DEF TestSeed, SkipSeed, StraySeed, HasSeed, NextSeed, Step, Jobs
    <2>2. n \in Int /\ n <= END + threads - 1 /\ Wrapped(n) \in Int /\ Wrapped(n) <= n
      BY <1>1, <2>1, Constants DEF Types, Wrapped
    <2> HIDE DEF n
    <2>3. \A t \in Jobs' : seed'[t] <= END + threads' - 1
      <3>1. ASSUME NEW m \in Int, m <= END + threads - 1, seed' = [seed EXCEPT ![j] = m]
            PROVE  \A t \in Jobs : seed'[t] <= END + threads - 1
        BY <1>1, <3>1 DEF OvershootIsBounded, Types
      <3>2. CASE seed' = [seed EXCEPT ![j] = n]
        BY <2>1, <2>2, <3>1, <3>2
      <3>3. CASE seed' = [seed EXCEPT ![j] = Wrapped(n)]
        <4> DEFINE m == Wrapped(n)
        <4>1. m \in Int /\ m <= END + threads - 1 /\ seed' = [seed EXCEPT ![j] = m]
          BY <1>1, <2>2, <3>3, Constants
        <4> HIDE DEF m
        <4> QED BY <2>1, <3>1, <4>1
      <3> QED BY <2>1, <3>2, <3>3
    <2>4. Fits => ~(n > INT_MAX)
      BY <1>1, <2>2, Constants DEF Fits
    <2> QED BY <2>1, <2>3, <2>4 DEF OvershootIsBounded, Fits
  <1>6. ASSUME NEW j \in Jobs, End(j) PROVE OvershootIsBounded'
    BY <1>2, <1>6 DEF End
  <1> QED BY <1>3, <1>4, <1>5, <1>6 DEF Next, Worker, Exited

\* No loop variable goes further than a step past the last seed, and none wraps
\* around where there is room in an int for that step.
THEOREM OvershootAlwaysBounded == Spec => []OvershootIsBounded
  BY InitOvershoot, StepOvershoot, Invariant, PTL DEF Spec

-----------------------------------------------------------------------------
(* What main waits for, where no creation fails                             *)

LEMMA StepJoined == IInv /\ Joined /\ [Next]_vars => Joined'
  <1> SUFFICES ASSUME IInv, Joined, [Next]_vars PROVE Joined'
    OBVIOUS
  <1>1. Types
    BY DEF IInv
  <1>2. CASE Join
    <2>1. /\ pc = "join" /\ UNCHANGED <<threads, thread>>
          /\ thread[thd] \in {"ended", "none"}
          /\ \/ thd' = thd + 1 /\ pc' = "join"
             \/ pc' = "report" /\ thd = threads - 1
      BY <1>1, <1>2, EachThd DEF Join, Joins
    <2> QED BY <1>1, <2>1, Constants DEF Joined, Jobs, Types
  <1>3. CASE Alloc \/ Create
    <2>1. pc' \in {"alloc", "create"} \/ (pc' = "join" /\ thd' = 0)
      BY <1>1, <1>3, EachThd DEF Alloc, Create
    <2> QED BY <1>1, <2>1, Constants DEF Joined, Jobs, Alloc, Create
  <1>4. CASE AllocFails \/ JoinCrashes \/ \E v \in Hashes : Report(v)
    BY <1>4 DEF Joined, AllocFails, JoinCrashes, Report, Jobs
  <1>5. ASSUME NEW j \in Jobs, Worker(j) PROVE Joined'
    <2>1. /\ thread[j] \in {"created", "running"} /\ UNCHANGED <<threads, pc, thd>>
          /\ \A t \in Jobs : t # j => thread'[t] = thread[t]
      BY <1>1, <1>5 DEF Types, Worker, Start, TestSeed, SkipSeed, StraySeed, End, HasSeed
    <2> QED BY <2>1 DEF Joined, Jobs
  <1>6. CASE UNCHANGED vars
    BY <1>6 DEF Joined, vars, Jobs
  <1> QED BY <1>2, <1>3, <1>4, <1>5, <1>6 DEF Next, Main, Exited

\* When main reports, the seeds announced have been tested, but for those of
\* threads that could not be created.
THEOREM AnnouncedAlwaysDone == Spec => []AnnouncedIsDone
  <1>1. Init => Joined
    BY DEF Init, Joined
  <1>2. IInv /\ Joined /\ [Next]_vars => Joined'
    BY StepJoined
  <1>3. IInv /\ Joined => AnnouncedIsDone
    <2> SUFFICES ASSUME IInv, Joined, pc = "reported", wrapped = {}, NEW s \in Seeds
                 PROVE  tests[s] = IF thread[Owner(s)] = "none" THEN 0 ELSE 1
      BY DEF AnnouncedIsDone
    <2>1. Types /\ Owner(s) \in Jobs
      BY OwnerIsJob, Constants DEF IInv, Partition, Seeds
    <2>2. CASE thread[Owner(s)] = "none"
      BY <2>2 DEF IInv, Partition, TestedOnce, Begun
    <2>3. CASE thread[Owner(s)] = "ended"
      <3>1. seed[Owner(s)] >= END /\ seed[Owner(s)] \in Nat
        BY <2>1, <2>3 DEF IInv, Partition, LoopVariables, Types
      <3>2. seed[Owner(s)] > s
        BY <2>1, <3>1, Constants DEF Seeds
      <3> QED BY <2>3, <3>2 DEF IInv, Partition, TestedOnce, Begun
    <2> QED BY <2>1, <2>2, <2>3 DEF Joined
  <1> QED BY <1>1, <1>2, <1>3, Invariant, PTL DEF Spec

-----------------------------------------------------------------------------
(* What main adds up                                                        *)

\* The order in which a sum goes through the terms makes no difference.
LEMMA SumByTerms ==
    ASSUME NEW D, IsFiniteSet(D), NEW f \in [D -> Int],
           NEW g \in [SUBSET D -> Int], g[{}] = 0,
           \A s \in SUBSET D : \A d \in s : g[s] = f[d] + g[s \ {d}]
    PROVE  SumFunction(f) = g[D]
  <1> DEFINE Some(s) == CHOOSE d \in s : TRUE
             Unfold(h) == [s \in SUBSET D |-> IF s = {} THEN 0
                                              ELSE f[Some(s)] + h[s \ {Some(s)}]]
             iter == CHOOSE h : h = Unfold(h)
  <1>1. SumFunction(f) = iter[D]
    BY DEF SumFunction, SumFunctionOnSet, FoldFunctionOnSet, MapThenFoldSet
  <1>2. \A s \in SUBSET D : s # {} => Some(s) \in s
    OBVIOUS
  <1>3. g = Unfold(g)
    <2>1. \A s \in SUBSET D :
            g[s] = IF s = {} THEN 0 ELSE f[Some(s)] + g[s \ {Some(s)}]
      BY <1>2
    <2> QED BY <2>1
  <1>4. iter = Unfold(iter)
    <2> HIDE DEF Unfold
    <2> QED BY <1>3
  <1> DEFINE Q == {s \in SUBSET D : iter[s] = g[s]}
  <1>5. \A s \in SUBSET D : iter[s] = IF s = {} THEN 0
                                      ELSE f[Some(s)] + iter[s \ {Some(s)}]
    <2> HIDE DEF iter, Some
    <2> QED BY <1>4
  <1> HIDE DEF iter, Some
  <1>6. {} \in Q
    BY <1>5
  <1>7. \A s \in SUBSET D : s # {} /\ (\A d \in s : s \ {d} \in Q) => s \in Q
    <2> SUFFICES ASSUME NEW s \in SUBSET D, s # {}, \A d \in s : s \ {d} \in Q
                 PROVE  s \in Q
      OBVIOUS
    <2>1. Some(s) \in s /\ s \ {Some(s)} \in Q
      BY <1>2
    <2> QED BY <1>5, <2>1
  <1>8. D \in Q
    <2> HIDE DEF Q
    <2> QED BY <1>6, <1>7, FiniteInduction
  <1> QED BY <1>1, <1>8

Least(v, S) == v \in S /\ \A w \in S : v <= w

\* A set of natural numbers that is not empty has one minimum.
LEMMA MinIsLeast ==
    ASSUME NEW S, S \subseteq Nat, NEW v, Least(v, S)
    PROVE  Min(S) = v
  <1>1. \A w \in S : (\A u \in S : w <= u) => w = v
    BY DEF Least
  <1>2. v \in S /\ \A u \in S : v <= u
    BY DEF Least
  <1> QED BY <1>1, <1>2 DEF Min

\* The seeds with a function that thread t has tested.
Done(t) == {s \in Made : Owner(s) = t /\ s < seed[t]}

AccountTypes ==
    /\ hash \in [Seeds -> Hashes \cup {Rejected}]
    /\ total_hashes \in [Jobs -> Int]
    /\ best_hash \in [Jobs -> Int]

\* A thread accounts for its seeds so far.
Accounts ==
    /\ AccountTypes
    /\ \A t \in Jobs : Begun(t) =>
            /\ total_hashes[t] = NONCES * Cardinality(Done(t))
            /\ Least(best_hash[t], {HASH_MAX} \cup {hash[s] : s \in Done(t)})

LEMMA MadeFacts ==
    ASSUME Types, AccountTypes
    PROVE  /\ IsFiniteSet(Made) /\ Made \subseteq Seeds
           /\ \A s \in Made : hash[s] \in Nat /\ hash[s] < HASH_MAX
           /\ \A S \in SUBSET Made : IsFiniteSet(S) /\ Cardinality(S) \in Nat
           /\ \A t : IsFiniteSet(Done(t)) /\ Cardinality(Done(t)) \in Nat
  <1>1. IsFiniteSet(Seeds)
    BY Constants, FS_Interval DEF Seeds
  <1>2. IsFiniteSet(Made) /\ Made \subseteq Seeds
    BY <1>1, FS_Subset DEF Made
  <1>3. \A S \in SUBSET Made : IsFiniteSet(S) /\ Cardinality(S) \in Nat
    BY <1>2, FS_Subset, FS_CardinalityType
  <1>4. \A s \in Made : hash[s] \in Nat /\ hash[s] < HASH_MAX
    BY BenchAssumption DEF Made, AccountTypes
  <1>5. \A t : Done(t) \in SUBSET Made
    BY DEF Done
  <1> QED BY <1>2, <1>3, <1>4, <1>5

\* Steps in which no thread's account changes.
LEMMA AccountUnchanged ==
    ASSUME Accounts, UNCHANGED <<threads, hash, seed, total_hashes, best_hash>>,
           \A t \in Jobs : Begun(t)' => Begun(t)
    PROVE  Accounts'
  <1>1. Jobs' = Jobs /\ Made' = Made /\ \A t \in Jobs : Done(t)' = Done(t)
    BY DEF Jobs, Made, Done, Owner
  <1>2. AccountTypes'
    BY <1>1 DEF Accounts, AccountTypes
  <1> QED BY <1>1, <1>2 DEF Accounts

LEMMA StartAccount ==
    ASSUME Partition, Accounts, NEW j \in Jobs, Start(j), wrapped' = {}
    PROVE  Accounts'
  <1>1. /\ UNCHANGED <<threads, hash>> /\ Jobs' = Jobs /\ Made' = Made
        /\ thread' = [thread EXCEPT ![j] = "running"]
        /\ seed' = [seed EXCEPT ![j] = START + j]
        /\ total_hashes' = [total_hashes EXCEPT ![j] = 0]
        /\ best_hash' = [best_hash EXCEPT ![j] = HASH_MAX]
    BY StartUnwrapped DEF Partition, Start, Jobs, Made
  <1>2. Types /\ AccountTypes
    BY DEF Partition, Accounts
  <1>3. Done(j)' = {}
    <2> SUFFICES ASSUME NEW s \in Made, Owner(s) = j, s < seed'[j] PROVE FALSE
      BY <1>1 DEF Done, Owner
    <2>1. s \in Nat /\ s >= START /\ s < START + j /\ j \in Nat /\ j < threads
      BY <1>1, <1>2, MadeFacts, Constants DEF Seeds, Types
    <2>2. s - START \in Nat /\ s - START < threads
      BY <2>1, <1>2, Constants
    <2>3. Owner(s) = s - START
      BY <2>2, <1>2, Constants, Remainder DEF Owner
    <2> QED BY <2>1, <2>3, <1>2, Constants
  <1>4. ASSUME NEW t \in Jobs, t # j
        PROVE  /\ Done(t)' = Done(t) /\ (Begun(t)' <=> Begun(t))
               /\ total_hashes'[t] = total_hashes[t] /\ best_hash'[t] = best_hash[t]
    BY <1>1, <1>2, <1>4 DEF Done, Owner, Begun, Types, AccountTypes
  <1>5. /\ total_hashes'[j] = NONCES * Cardinality(Done(j)')
        /\ Least(best_hash'[j], {HASH_MAX} \cup {hash'[s] : s \in Done(j)'})
    BY <1>1, <1>2, <1>3, FS_EmptySet, BenchAssumption DEF AccountTypes, Least
  <1>6. AccountTypes'
    BY <1>1, <1>2, BenchAssumption DEF AccountTypes
  <1> QED BY <1>1, <1>4, <1>5, <1>6 DEF Accounts, Least

\* What a step does to the seeds done by its thread.
LEMMA DoneStep ==
    ASSUME Partition, Accounts, NEW j \in Jobs, TestSeed(j) \/ SkipSeed(j),
           wrapped' = {}
    PROVE  /\ Jobs' = Jobs /\ hash' = hash /\ Made' = Made
           /\ seed[j] \in Seeds
           /\ seed[j] \notin Done(j)
           /\ Done(j)' = Done(j) \cup ({seed[j]} \cap Made)
           /\ \A t \in Jobs : t # j => Done(t)' = Done(t)
           /\ \A t : Begun(t)' <=> Begun(t)
           /\ Begun(j)
  <1> DEFINE n == seed[j]
  <1>1. /\ UNCHANGED <<threads, hash, thread>> /\ Jobs' = Jobs /\ Made' = Made
        /\ thread[j] = "running" /\ n < END
        /\ seed' = [seed EXCEPT ![j] = n + threads]
    BY SeedUnwrapped DEF Partition, TestSeed, SkipSeed, HasSeed, Jobs, Made
  <1>2. Types /\ AccountTypes
    BY DEF Partition, Accounts
  <1>3. n \in Seeds /\ n \in Nat /\ n >= START /\ Owner(n) = j
    BY <1>1, <1>2, Constants DEF Partition, LoopVariables, Begun, Types, Seeds
  <1>4. Done(j)' = Done(j) \cup ({n} \cap Made)
    <2>1. ASSUME NEW s \in Made, Owner(s) = j
          PROVE  s < n + threads <=> s < n \/ s = n
      <3>1. s \in Seeds /\ s \in Nat
        BY <1>2, MadeFacts, Constants DEF Seeds
      <3>2. s > n => s >= n + threads
        BY <2>1, <3>1, <1>2, <1>3, NextOfOwner
      <3> QED BY <3>1, <3>2, <1>2, <1>3, Constants
    <2>2. seed'[j] = n + threads
      BY <1>1, <1>2 DEF Types
    <2>3. Done(j)' = {s \in Made : Owner(s) = j /\ s < n + threads}
      BY <1>1, <2>2 DEF Done, Owner
    <2> QED BY <2>1, <2>3, <1>3 DEF Done
  <1>5. \A t \in Jobs : t # j => Done(t)' = Done(t)
    BY <1>1, <1>2 DEF Done, Owner, Types
  <1>6. n \notin Done(j)
    BY <1>3 DEF Done
  <1> QED BY <1>1, <1>3, <1>4, <1>5, <1>6 DEF Begun

LEMMA SeedAccount ==
    ASSUME Partition, Accounts, NEW j \in Jobs, TestSeed(j) \/ SkipSeed(j),
           wrapped' = {}
    PROVE  Accounts'
  <1> DEFINE n == seed[j]
  <1>1. Types /\ AccountTypes
    BY DEF Partition, Accounts
  <1>2. CASE SkipSeed(j)
    <2>1. n \notin Made /\ UNCHANGED <<total_hashes, best_hash>>
      BY <1>2 DEF SkipSeed, Made
    <2>2. \A t \in Jobs : Done(t)' = Done(t) /\ (Begun(t)' <=> Begun(t))
      BY <1>2, <2>1, DoneStep
    <2>3. hash' = hash /\ Jobs' = Jobs
      BY <1>2, DoneStep
    <2>4. AccountTypes'
      BY <1>1, <2>1, <2>3 DEF AccountTypes
    <2> QED BY <2>1, <2>2, <2>3, <2>4 DEF Accounts
  <1>3. CASE TestSeed(j)
    <2>1. /\ hash[n] # Rejected
          /\ total_hashes' = [total_hashes EXCEPT ![j] = @ + NONCES]
          /\ best_hash' = [best_hash EXCEPT ![j] =
                IF hash[n] < @ THEN hash[n] ELSE @]
      BY <1>3 DEF TestSeed
    <2>2. n \in Made /\ Done(j)' = Done(j) \cup {n} /\ n \notin Done(j)
      BY <1>3, <2>1, DoneStep DEF Made
    <2>3. total_hashes'[j] = NONCES * Cardinality(Done(j)')
      <3>1. Cardinality(Done(j)') = Cardinality(Done(j)) + 1
        BY <2>2, <1>1, MadeFacts, FS_AddElement
      <3>2. total_hashes[j] = NONCES * Cardinality(Done(j))
        BY <1>3, DoneStep DEF Accounts
      <3>3. \A c \in Nat : NONCES * c + NONCES = NONCES * (c + 1)
        BY BenchAssumption
      <3>4. total_hashes'[j] = total_hashes[j] + NONCES
        BY <2>1, <1>1 DEF AccountTypes
      <3> QED BY <3>1, <3>2, <3>3, <3>4, <1>1, MadeFacts
    <2>4. Least(best_hash'[j], {HASH_MAX} \cup {hash'[s] : s \in Done(j)'})
      <3>1. Least(best_hash[j], {HASH_MAX} \cup {hash[s] : s \in Done(j)})
        BY <1>3, DoneStep DEF Accounts
      <3>2. hash[n] \in Nat /\ HASH_MAX \in Nat /\ \A s \in Done(j) : hash[s] \in Nat
        BY <2>2, <1>1, MadeFacts, BenchAssumption DEF Done
      <3>3. {HASH_MAX} \cup {hash'[s] : s \in Done(j)'}
              = ({HASH_MAX} \cup {hash[s] : s \in Done(j)}) \cup {hash[n]}
        BY <2>2, <1>3, DoneStep
      <3>4. best_hash'[j] = IF hash[n] < best_hash[j] THEN hash[n] ELSE best_hash[j]
        BY <2>1, <1>1 DEF AccountTypes
      <3>5. \A w \in {HASH_MAX} \cup {hash[s] : s \in Done(j)} : w \in Nat
        BY <3>2
      <3> DEFINE S == {HASH_MAX} \cup {hash[s] : s \in Done(j)}
      <3> HIDE DEF S
      <3>6. Least(best_hash'[j], S \cup {hash[n]})
        BY <3>1, <3>2, <3>4, <3>5 DEF Least, S
      <3> QED BY <3>3, <3>6 DEF S
    <2>5. ASSUME NEW t \in Jobs, t # j
          PROVE  /\ Done(t)' = Done(t) /\ (Begun(t)' <=> Begun(t))
                 /\ total_hashes'[t] = total_hashes[t] /\ best_hash'[t] = best_hash[t]
      BY <2>1, <2>5, <1>1, <1>3, DoneStep DEF AccountTypes
    <2>6. AccountTypes'
      <3>1. hash[n] \in Int /\ NONCES \in Int
        BY <2>2, <1>1, MadeFacts, BenchAssumption
      <3> QED BY <3>1, <2>1, <1>1, <1>3, DoneStep DEF AccountTypes
    <2>7. Jobs' = Jobs /\ hash' = hash
      BY <1>3, DoneStep
    <2> QED BY <2>3, <2>4, <2>5, <2>6, <2>7 DEF Accounts, Least
  <1> QED BY <1>2, <1>3

AccountsHold == wrapped = {} => Accounts

LEMMA StepAccounts == IInv /\ AccountsHold /\ [Next]_vars => AccountsHold'
  <1> SUFFICES ASSUME IInv, AccountsHold, [Next]_vars, wrapped' = {} PROVE Accounts'
    BY DEF AccountsHold
  <1>1. Types
    BY DEF IInv
  <1>2. CASE Main
    <2>1. UNCHANGED <<threads, hash, seed, total_hashes, best_hash, wrapped>>
      BY <1>2 DEF Main, Alloc, AllocFails, Create, Join, JoinCrashes, Report
    <2>2. \A t \in Jobs : Begun(t)' => Begun(t)
      BY <1>1, <1>2
         DEF Main, Alloc, AllocFails, Create, Join, JoinCrashes, Report, Begun, Types
    <2> QED BY <2>1, <2>2, AccountUnchanged DEF IInv, AccountsHold
  <1>3. ASSUME NEW j \in Jobs, Worker(j) PROVE Accounts'
    <2>1. CASE Start(j)
      BY <1>1, <2>1, StartUnwrapped, StartAccount DEF IInv, AccountsHold
    <2>2. CASE TestSeed(j) \/ SkipSeed(j) \/ StraySeed(j)
      BY <1>1, <2>2, SeedUnwrapped, SeedAccount DEF IInv, AccountsHold
    <2>3. CASE End(j)
      <3>1. Partition /\ Accounts
        BY <2>3 DEF End, IInv, AccountsHold
      <3> QED BY <1>1, <2>3, <3>1, AccountUnchanged DEF End, Begun, Types
    <2> QED BY <1>3, <2>1, <2>2, <2>3 DEF Worker
  <1>4. CASE UNCHANGED vars
    BY <1>4, AccountUnchanged DEF vars, Begun, IInv, AccountsHold
  <1> QED BY <1>2, <1>3, <1>4 DEF Next, Exited

\* When all threads have ended, the accounts of all add up to the seeds made.
LEMMA AllDone ==
    ASSUME Partition, Accounts, \A t \in Jobs : thread[t] = "ended"
    PROVE  \A t \in Jobs : Done(t) = {s \in Made : Owner(s) = t}
  <1>1. Types
    BY DEF Partition
  <1> SUFFICES ASSUME NEW t \in Jobs, NEW s \in Made, Owner(s) = t
               PROVE  s < seed[t]
    BY DEF Done
  <1>2. s \in Seeds /\ s \in Nat /\ s < END
    BY <1>1, MadeFacts, Constants DEF Accounts, Seeds
  <1>3. seed[t] \in Nat /\ seed[t] >= END
    BY <1>1 DEF Partition, LoopVariables, Types
  <1> QED BY <1>1, <1>2, <1>3, Constants

LEMMA TotalIsExact ==
    ASSUME Partition, Accounts, \A t \in Jobs : thread[t] = "ended"
    PROVE  SumFunction(total_hashes) = NONCES * Cardinality(Made)
  <1>1. Types /\ AccountTypes
    BY DEF Partition, Accounts
  <1> DEFINE Of(S) == {s \in Made : Owner(s) \in S}
             g == [S \in SUBSET Jobs |-> NONCES * Cardinality(Of(S))]
  <1>2. IsFiniteSet(Jobs)
    BY <1>1, Constants, FS_Interval
  <1>3. g[{}] = 0
    BY FS_EmptySet, BenchAssumption
  <1>4. ASSUME NEW S \in SUBSET Jobs, NEW t \in S
        PROVE  g[S] = total_hashes[t] + g[S \ {t}]
    <2>1. total_hashes[t] = NONCES * Cardinality({s \in Made : Owner(s) = t})
      BY AllDone DEF Accounts, Begun
    <2> DEFINE A == {s \in Made : Owner(s) = t}  B == Of(S \ {t})
    <2>2. Of(S) = A \cup B /\ A \cap B = {}
      OBVIOUS
    <2>3. /\ IsFiniteSet(A) /\ Cardinality(A) \in Nat
          /\ IsFiniteSet(B) /\ Cardinality(B) \in Nat
      BY <1>1, MadeFacts
    <2>5. g[S] = NONCES * Cardinality(Of(S)) /\ g[S \ {t}] = NONCES * Cardinality(B)
      OBVIOUS
    <2> HIDE DEF A, B, g, Of
    <2>4. Cardinality(Of(S)) = Cardinality(A) + Cardinality(B)
      <3>1. Cardinality({}) = 0
        BY FS_EmptySet
      <3>2. Cardinality(A \cup B) = Cardinality(A) + Cardinality(B) - Cardinality(A \cap B)
        BY <2>3, FS_Union
      <3>3. Cardinality(A \cup B) = Cardinality(A) + Cardinality(B) - 0
        BY <3>1, <3>2, <2>2
      <3> QED BY <2>2, <2>3, <3>3
    <2>6. \A a, b \in Nat : NONCES * (a + b) = NONCES * a + NONCES * b
      BY BenchAssumption
    <2> QED BY <2>1, <2>3, <2>4, <2>5, <2>6 DEF A
  <1>5. g \in [SUBSET Jobs -> Int]
    <2>1. \A S \in SUBSET Jobs : Cardinality(Of(S)) \in Nat
      BY <1>1, MadeFacts
    <2> HIDE DEF Of
    <2> QED BY <2>1, BenchAssumption
  <1>6. g[Jobs] = NONCES * Cardinality(Made)
    <2>1. Of(Jobs) = Made
      BY <1>1, MadeFacts, OwnerIsJob, Constants DEF Seeds
    <2> QED BY <2>1
  <1> HIDE DEF g
  <1>7. SumFunction(total_hashes) = g[Jobs]
    BY <1>1, <1>2, <1>3, <1>4, <1>5, SumByTerms DEF AccountTypes
  <1> QED BY <1>6, <1>7

LEMMA BestIsExact ==
    ASSUME Partition, Accounts, \A t \in Jobs : thread[t] = "ended"
    PROVE  Min(Range(best_hash) \cup {HASH_MAX})
              = Min({HASH_MAX} \cup {hash[s] : s \in Made})
  <1>1. Types /\ AccountTypes
    BY DEF Partition, Accounts
  <1> DEFINE A == Range(best_hash) \cup {HASH_MAX}
             B == {HASH_MAX} \cup {hash[s] : s \in Made}
  <1>2. \A t \in Jobs : Least(best_hash[t], {HASH_MAX} \cup
                                {hash[s] : s \in {s \in Made : Owner(s) = t}})
    BY AllDone DEF Accounts, Begun
  <1>3. B \subseteq Nat /\ HASH_MAX \in Nat
    BY <1>1, MadeFacts, BenchAssumption
  <1>4. A \subseteq B
    BY <1>1, <1>2 DEF Least, Range, AccountTypes
  <1>5. \A w \in B : \E v \in A : v <= w
    <2> SUFFICES ASSUME NEW s \in Made PROVE \E v \in A : v <= hash[s]
      BY <1>3
    <2>1. Owner(s) \in Jobs
      BY <1>1, MadeFacts, OwnerIsJob, Constants DEF Seeds
    <2>2. best_hash[Owner(s)] <= hash[s]
      BY <1>2, <2>1 DEF Least
    <2>3. best_hash[Owner(s)] \in A
      BY <1>1, <2>1 DEF Range, AccountTypes
    <2> QED BY <2>2, <2>3
  <1>6. PICK v \in A : \A w \in A : v <= w
    <2>1. A \subseteq Nat /\ A # {}
      BY <1>3, <1>4
    <2> QED BY <2>1, LeastNumber
  <1>7. Least(v, A) /\ Least(v, B)
    <2> HIDE DEF A, B
    <2> QED BY <1>3, <1>4, <1>5, <1>6 DEF Least
  <1>8. Min(A) = v /\ Min(B) = v
    <2>1. A \subseteq Nat
      BY <1>3, <1>4
    <2> HIDE DEF A, B
    <2> QED BY <1>3, <1>7, <2>1, MinIsLeast
  <1> QED BY <1>8

LEMMA StepReport ==
    IInv /\ Joined /\ AccountsHold /\ ReportIsExact /\ [Next]_vars => ReportIsExact'
  <1> SUFFICES ASSUME IInv, Joined, AccountsHold, ReportIsExact, [Next]_vars,
                      pc' = "reported", wrapped' = {},
                      \A t \in Jobs' : thread'[t] # "none"
               PROVE  /\ report'.total = NONCES * Cardinality(Made')
                      /\ report'.best = Min({HASH_MAX} \cup {hash'[s] : s \in Made'})
    BY DEF ReportIsExact
  <1>1. Types
    BY DEF IInv
  <1>2. ASSUME NEW v \in Hashes, Report(v)
        PROVE  /\ report'.total = NONCES * Cardinality(Made')
               /\ report'.best = Min({HASH_MAX} \cup {hash'[s] : s \in Made'})
    <2>1. /\ UNCHANGED <<threads, hash, thread>> /\ Made' = Made /\ Jobs' = Jobs
          /\ pc = "report" /\ wrapped = {}
      BY <1>2 DEF Report, Made, Jobs
    <2>6. Partition /\ Accounts /\ AccountTypes
      BY <2>1 DEF IInv, AccountsHold, Accounts
    <2>2. \A t \in Jobs : thread[t] = "ended"
      BY <2>1 DEF Joined
    <2>3. \A t \in Jobs : total_hashes[t] \in Nat /\ best_hash[t] \in Nat
      <3> SUFFICES ASSUME NEW t \in Jobs
                   PROVE  total_hashes[t] \in Nat /\ best_hash[t] \in Nat
        OBVIOUS
      <3>1. total_hashes[t] = NONCES * Cardinality(Done(t)) /\ Cardinality(Done(t)) \in Nat
        BY <2>2, <2>6, <1>1, MadeFacts DEF Accounts, Begun
      <3>2. best_hash[t] \in {HASH_MAX} \cup {hash[s] : s \in Done(t)}
        BY <2>2, <2>6 DEF Accounts, Begun, Least
      <3> QED BY <3>1, <3>2, <1>1, <2>6, MadeFacts, BenchAssumption DEF Done
    <2>4. /\ [t \in Jobs |-> IF total_hashes[t] = Unwritten THEN v ELSE total_hashes[t]]
                = total_hashes
          /\ [t \in Jobs |-> IF best_hash[t] = Unwritten THEN v ELSE best_hash[t]]
                = best_hash
      BY <2>3, <2>6 DEF Unwritten, AccountTypes
    <2>5. report' = [total |-> SumFunction(total_hashes),
                     best |-> Min(Range(best_hash) \cup {HASH_MAX})]
      BY <1>2, <2>4 DEF Report
    <2> QED BY <2>1, <2>2, <2>5, <2>6, TotalIsExact, BestIsExact
  <1>3. CASE pc = "reported" /\ UNCHANGED <<threads, hash, pc, thread, report, wrapped>>
    <2>1. Made' = Made /\ Jobs' = Jobs
      BY <1>3 DEF Made, Jobs
    <2> QED BY <1>3, <2>1 DEF ReportIsExact
  <1>4. CASE Alloc \/ AllocFails \/ Create \/ Join \/ JoinCrashes
    BY <1>1, <1>4, EachThd DEF Alloc, AllocFails, Create, Join, JoinCrashes, Each
  <1>5. ASSUME NEW j \in Jobs, Worker(j) PROVE FALSE
    <2>1. thread[j] \in {"created", "running"} /\ pc = "reported"
      BY <1>5 DEF Worker, Start, TestSeed, SkipSeed, StraySeed, End, HasSeed
    <2> QED BY <2>1 DEF Joined
  <1>6. CASE UNCHANGED vars
    BY <1>3, <1>6 DEF vars
  <1> QED BY <1>2, <1>3, <1>4, <1>5, <1>6 DEF Next, Main, Exited

\* The sum and the minimum main prints are those of the seeds announced, for any
\* number of seeds and threads, in whatever order the threads run.
THEOREM ReportAlwaysExact == Spec => []ReportIsExact
  <1>1. Init => Joined /\ AccountsHold /\ ReportIsExact
    BY DEF Init, Unwritten, Joined, AccountsHold, Accounts, AccountTypes, Begun, ReportIsExact
  <1>2. IInv /\ Joined /\ [Next]_vars => Joined'
    BY StepJoined
  <1>3. IInv /\ AccountsHold /\ [Next]_vars => AccountsHold'
    BY StepAccounts
  <1>4. IInv /\ Joined /\ AccountsHold /\ ReportIsExact /\ [Next]_vars
           => ReportIsExact'
    BY StepReport
  <1> QED BY <1>1, <1>2, <1>3, <1>4, Invariant, PTL DEF Spec
=============================================================================
