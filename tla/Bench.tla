-------------------------------- MODULE Bench --------------------------------
(****************************************************************************)
(* The benchmark: main distributes the seeds over worker threads, waits for *)
(* them, and adds up what they report.                                      *)
(*                                                                          *)
(* Thread t tests the seeds start + t, start + t + threads, ...  A step of  *)
(* a worker tests one seed with all its nonces; of the hashes only the      *)
(* least one matters.                                                       *)
(*                                                                          *)
(* Two things the C standard leaves undefined are choices over what the     *)
(* builds of this code do: an int that overflows, and joining the thread 0. *)
(****************************************************************************)
EXTENDS Integers, FiniteSets, FiniteSetsExt, Functions

CONSTANTS
    START, SEEDS, NONCES,   \* the options of the command line
    ThreadCounts,           \* --threads is one of these
    Hashes,                 \* the least hash of a seed is one of these
    HASH_MAX,               \* UINT64_MAX, above them
    INT_MAX,
    Failures                \* calls that may fail: "hashx_alloc", "create"

END == START + SEEDS
Seeds == START .. END - 1

\* read_int_option takes no negative numbers, and a thread there always is;
\* seeds + start stays an int.  The loop variables of the workers may not.
ASSUME BenchAssumption ==
    /\ START \in Nat /\ SEEDS \in Nat /\ NONCES \in Nat \ {0}
    /\ ThreadCounts \subseteq Nat \ {0}
    /\ Hashes \subseteq Nat
    /\ HASH_MAX \in Nat
    /\ \A v \in Hashes : v < HASH_MAX
    /\ INT_MAX \in Nat
    /\ END <= INT_MAX

VARIABLES
    threads,
    hash,       \* of every seed, or Rejected
    pc,         \* main: "alloc", "create", "join", "report", then
                \* "reported", "failed", or "crashed"
    thd,        \* main's loop variable
    thread,     \* jobs[].thread: "none", "created", "running", "ended"
    seed,       \* the workers' loop variables
    total_hashes, best_hash,    \* of jobs[], Unwritten at first
    report,     \* what main prints
    tests,      \* history: how often each seed was tested, up to MANY
    wrapped     \* history: the workers whose loop variable wrapped around

vars == <<threads, hash, pc, thd, thread, seed, total_hashes, best_hash,
          report, tests, wrapped>>

Jobs == 0 .. threads - 1

Rejected == -1
Unwritten == -1
MANY == 2
NoReport == [total |-> Unwritten, best |-> Unwritten]

Init ==
    /\ threads \in ThreadCounts
    /\ hash \in [Seeds -> Hashes \cup {Rejected}]
    /\ pc = "alloc"
    /\ thd = 0
    /\ thread = [t \in Jobs |-> "none"]
    /\ seed = [t \in Jobs |-> 0]
    /\ total_hashes = [t \in Jobs |-> Unwritten]
    /\ best_hash = [t \in Jobs |-> Unwritten]
    /\ report = NoReport
    /\ tests = [s \in Seeds |-> 0]
    /\ wrapped = {}

-----------------------------------------------------------------------------
(* main                                                                     *)

\* for (int thd = 0; thd < threads; ++thd), and on to the next loop.
Each(from, to) ==
    /\ pc = from
    /\ IF thd + 1 < threads THEN thd' = thd + 1 /\ pc' = from
       ELSE thd' = 0 /\ pc' = to

\* With a single thread main itself is the worker.
Alloc ==
    /\ Each("alloc", IF threads > 1 THEN "create" ELSE "join")
    /\ thread' = IF threads > 1 THEN thread ELSE [thread EXCEPT ![0] = "created"]
    /\ UNCHANGED <<threads, hash, seed, total_hashes, best_hash, report, tests,
                   wrapped>>

AllocFails ==
    /\ "hashx_alloc" \in Failures
    /\ pc = "alloc"
    /\ pc' = "failed"
    /\ UNCHANGED <<threads, hash, thd, thread, seed, total_hashes, best_hash,
                   report, tests, wrapped>>

\* hashx_thread_create; a thread that could not be created is 0.
Create ==
    /\ Each("create", "join")
    /\ \/ thread' = [thread EXCEPT ![thd] = "created"]
       \/ "create" \in Failures /\ UNCHANGED thread
    /\ UNCHANGED <<threads, hash, seed, total_hashes, best_hash, report, tests,
                   wrapped>>

\* Mutant: main does not wait for the threads.
JoinsAtOnce == TRUE

\* hashx_thread_join: waits for a thread that was created.  Of a thread 0,
\* WaitForSingleObject returns at once.
Joins == thread[thd] \in {"ended", "none"}

Join ==
    /\ Joins
    /\ Each("join", "report")
    /\ UNCHANGED <<threads, hash, thread, seed, total_hashes, best_hash, report,
                   tests, wrapped>>

\* pthread_join of a thread 0 is undefined: it reads the descriptor of the
\* thread at that address, and the process with all its threads dies.
JoinCrashes ==
    /\ pc = "join"
    /\ thread[thd] = "none"
    /\ pc' = "crashed"
    /\ UNCHANGED <<threads, hash, thd, thread, seed, total_hashes, best_hash,
                   report, tests, wrapped>>

\* What no worker has written is what malloc left there.
Report(leftover) ==
    LET read(f) == [t \in Jobs |-> IF f[t] = Unwritten THEN leftover ELSE f[t]]
    IN  /\ pc = "report"
        /\ pc' = "reported"
        /\ report' = [total |-> SumFunction(read(total_hashes)),
                      best |-> Min(Range(read(best_hash)) \cup {HASH_MAX})]
        /\ UNCHANGED <<threads, hash, thd, thread, seed, total_hashes, best_hash, tests,
                       wrapped>>

-----------------------------------------------------------------------------
(* worker                                                                   *)

\* What an int that does not hold n wraps around to.
Wrapped(n) == n - 2 * (INT_MAX + 1)

\* jobs[thd].start, stored as an int.
FirstSeed(t) == IF START + t <= INT_MAX THEN START + t ELSE Wrapped(START + t)

Start(t) ==
    /\ thread[t] = "created"
    /\ thread' = [thread EXCEPT ![t] = "running"]
    /\ seed' = [seed EXCEPT ![t] = FirstSeed(t)]
    /\ wrapped' = IF START + t <= INT_MAX THEN wrapped ELSE wrapped \cup {t}
    /\ total_hashes' = [total_hashes EXCEPT ![t] = 0]
    /\ best_hash' = [best_hash EXCEPT ![t] = HASH_MAX]
    /\ UNCHANGED <<threads, hash, pc, thd, report, tests>>

\* Mutant: every other seed of a thread is passed over.
DoubleStep == 2 * threads

\* jobs[thd].step
Step == threads

HasSeed(t) == thread[t] = "running" /\ seed[t] < END

\* The seed was tested, and seed += step.  If that overflows, the loop
\* variable may be in a register that is wide enough, or wrap around.
NextSeed(t) ==
    /\ tests' = [s \in Seeds |-> IF s = seed[t] /\ tests[s] < MANY THEN tests[s] + 1
                                 ELSE tests[s]]
    /\ \/ /\ seed' = [seed EXCEPT ![t] = @ + Step]
          /\ UNCHANGED wrapped
       \/ /\ seed[t] + Step > INT_MAX
          /\ seed' = [seed EXCEPT ![t] = Wrapped(@ + Step)]
          /\ wrapped' = wrapped \cup {t}

\* hashx_make succeeds: all nonces are tested.
TestSeed(t) ==
    /\ HasSeed(t) /\ t \notin wrapped
    /\ hash[seed[t]] # Rejected
    /\ total_hashes' = [total_hashes EXCEPT ![t] = @ + NONCES]
    /\ best_hash' = [best_hash EXCEPT ![t] =
            IF hash[seed[t]] < @ THEN hash[seed[t]] ELSE @]
    /\ NextSeed(t)
    /\ UNCHANGED <<threads, hash, pc, thd, thread, report>>

\* hashx_make fails: continue.
SkipSeed(t) ==
    /\ HasSeed(t) /\ t \notin wrapped
    /\ hash[seed[t]] = Rejected
    /\ NextSeed(t)
    /\ UNCHANGED <<threads, hash, pc, thd, thread, total_hashes, best_hash, report>>

\* The same for a seed reached by wrapping around.  What it adds to the numbers
\* of the thread is not followed.
StraySeed(t) ==
    /\ HasSeed(t) /\ t \in wrapped
    /\ NextSeed(t)
    /\ UNCHANGED <<threads, hash, pc, thd, thread, total_hashes, best_hash, report>>

\* Mutant: the worker spins on the seed after the last.
Spin(t) == thread[t] = "running" /\ ~HasSeed(t) /\ UNCHANGED vars

End(t) ==
    /\ thread[t] = "running"
    /\ ~HasSeed(t)
    /\ thread' = [thread EXCEPT ![t] = "ended"]
    /\ UNCHANGED <<threads, hash, pc, thd, seed, total_hashes, best_hash, report,
                   tests, wrapped>>

-----------------------------------------------------------------------------
Main ==
    \/ Alloc \/ AllocFails \/ Create
    \/ Join \/ JoinCrashes
    \/ \E v \in Hashes : Report(v)

Worker(t) ==
    /\ pc # "crashed"
    /\ Start(t) \/ TestSeed(t) \/ SkipSeed(t) \/ StraySeed(t) \/ End(t)

Exited == pc \in {"reported", "failed", "crashed"} /\ UNCHANGED vars

Next == Main \/ (\E t \in Jobs : Worker(t)) \/ Exited

\* The operating system runs main and every thread that was created.
Fairness ==
    /\ WF_vars(Main)
    /\ \A t \in 0 .. Max(ThreadCounts) - 1 : WF_vars(t \in Jobs /\ Worker(t))

Spec == Init /\ [][Next]_vars /\ Fairness

-----------------------------------------------------------------------------
(* Properties.                                                              *)

TypeOK ==
    /\ threads \in ThreadCounts
    /\ hash \in [Seeds -> Hashes \cup {Rejected}]
    /\ pc \in {"alloc", "create", "join", "report", "reported", "failed", "crashed"}
    /\ thd \in Jobs
    /\ thread \in [Jobs -> {"none", "created", "running", "ended"}]
    /\ seed \in [Jobs -> Int]
    /\ total_hashes \in [Jobs -> Nat \cup {Unwritten}]
    /\ best_hash \in [Jobs -> Nat \cup {Unwritten}]
    /\ report \in [total : Nat \cup {Unwritten}, best : Nat \cup {Unwritten}]
    /\ tests \in [Seeds -> 0 .. MANY]
    /\ wrapped \subseteq Jobs

Made == {s \in Seeds : hash[s] # Rejected}

\* The thread that tests seed s.
Owner(s) == (s - START) % threads

\* There is room in an int for a step from the last seed.
Fits == END + threads - 1 <= INT_MAX

\* "Testing seeds %i-%i with %i nonces each": each of them once, but for those
\* of threads that could not be created, which nothing reports, and unless a
\* loop variable wrapped around.
AnnouncedIsDone ==
    pc = "reported" /\ wrapped = {} =>
        \A s \in Seeds : tests[s] = IF thread[Owner(s)] = "none" THEN 0 ELSE 1

\* Main reads what the workers have written, and only when all are done: if
\* there are all of them, the sum and the minimum it prints are exact.
ReportIsExact ==
    pc = "reported" /\ wrapped = {} /\ (\A t \in Jobs : thread[t] # "none") =>
        /\ report.total = NONCES * Cardinality(Made)
        /\ report.best = Min({HASH_MAX} \cup {hash[s] : s \in Made})

\* No two threads test the same seed, whatever their number.
EachSeedOnce == wrapped = {} => \A s \in Seeds : tests[s] <= 1

\* A loop variable goes past the last seed by at most the number of threads, so
\* that none overflows unless the seeds end that close to INT_MAX; there some do.
OvershootIsBounded ==
    /\ \A t \in Jobs : seed[t] <= END + threads - 1
    /\ Fits => wrapped = {}

\* Main does not wait for ever: it reports, runs out of memory, or dies joining a
\* thread that was never created.  (A worker that wrapped around may never end.)
Finishes ==
    Fits => <>(\/ pc \in {"reported", "failed"}
               \/ pc = "crashed" /\ thread[thd] = "none")
=============================================================================
