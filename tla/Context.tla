------------------------------- MODULE Context -------------------------------
(****************************************************************************)
(* The life of one HashX instance: hashx_alloc, hashx_make, hashx_exec and  *)
(* hashx_free (context.c, hashx.c), the code buffer of the compiler and its *)
(* page protection (compiler.c, virtual_memory.c).                          *)
(*                                                                          *)
(* The calls of one instance come one after the other, so each is an        *)
(* action.  malloc, mmap and mprotect may fail.  A program, the code made   *)
(* from it and the keys of the hash are known by the seed they come from;   *)
(* whether the generator accepts the program of a seed depends on the seed  *)
(* alone (module Program is the generator).                                 *)
(****************************************************************************)
EXTENDS FiniteSets

CONSTANTS
    Seeds,
    GoodSeeds,      \* the seeds whose program hashx_program_generate accepts
    ExecAfterFailedMake
                    \* does the user run an interpreted instance whose last
                    \* hashx_make failed?  bench.c and the tests do not.

ASSUME ContextAssumption ==
    /\ GoodSeeds \subseteq Seeds
    /\ ExecAfterFailedMake \in BOOLEAN
    /\ Seeds \cap {"none", "empty", "lost", "uninit"} = {}

\* Nothing was computed yet.
NoAnswer == <<"none", "none">>

hashx_type == {"INTERPRETED", "COMPILED"}

VARIABLES
    HASHX_COMPILER,
                \* is there a compiler for this architecture?
    Failures,   \* the calls that may fail: "malloc", "mmap", "mprotect"
    handle,     \* what the user has: "none", "NULL", "NOTSUPP", "ctx"
    owned,      \* memory allocated: of "ctx", "program", "pages"
    type,       \* ctx->type
    content,    \* seed of what is in ctx->program or in ctx->code
    prot,       \* protection of the pages: "rw" or "rx"
    keys,       \* seed of ctx->keys
    has_program,
    returned,   \* history: what the last hashx_make returned
    created,    \* history: seed of the last hashx_make that returned 1
    answer,     \* seeds of the program run and the keys used by hashx_exec
    fault       \* history: has the process hit a protected page?

\* What no call changes.
environment == <<HASHX_COMPILER, Failures>>
instance == <<owned, type, content, prot, keys, has_program, returned, created>>
vars == <<environment, handle, instance, answer, fault>>

Init ==
    /\ HASHX_COMPILER \in BOOLEAN
    /\ Failures \in SUBSET {"malloc", "mmap", "mprotect"}
    /\ handle = "none"
    /\ owned = {}
    /\ type = "uninit"
    /\ content = "uninit"
    /\ prot = "rw"
    /\ keys = "uninit"
    /\ has_program = FALSE
    /\ returned = "none"
    /\ created = "none"
    /\ answer = NoAnswer
    /\ fault = FALSE

-----------------------------------------------------------------------------
(* hashx_free                                                               *)

\* Where ctx->code, which shares its place with ctx->program, points.
Store(t) == IF t = "COMPILED" THEN "pages" ELSE "program"

\* Mutant: the pages are not unmapped.
LeakPages(allocated, code, t) ==
    IF code = "NULL" THEN {allocated \ {"ctx"}}
    ELSE IF t = "COMPILED" THEN {allocated \ {"ctx"}}
    ELSE {allocated \ {"ctx", "program"}}

\* The memory that hashx_free may leave allocated.  ctx->type is only looked
\* at if ctx->code is not NULL; before hashx_alloc has set it, it is garbage.
Freed(allocated, code, t) ==
    IF code = "NULL" THEN {allocated \ {"ctx"}}
    ELSE {allocated \ {"ctx", Store(read)} :
            read \in IF t = "uninit" THEN hashx_type ELSE {t}}

hashx_free ==
    /\ handle = "ctx"
    /\ handle' = "none"
    /\ owned' \in Freed(owned, Store(type), type)
    /\ UNCHANGED <<type, content, prot, keys, has_program, returned, created>>

-----------------------------------------------------------------------------
(* hashx_alloc                                                              *)

Supported(t) == HASHX_COMPILER \/ t # "COMPILED"

AllocUnsupported(t) ==
    /\ ~Supported(t)
    /\ handle' = "NOTSUPP"
    /\ UNCHANGED instance

\* The context cannot be allocated: hashx_free(NULL) does nothing.
AllocNoContext(t) ==
    /\ Supported(t)
    /\ "malloc" \in Failures
    /\ handle' = "NULL"
    /\ UNCHANGED instance

\* The program or the code cannot be: ctx->type is not set yet.
AllocNoStore(t) ==
    /\ Supported(t)
    /\ (IF t = "COMPILED" THEN "mmap" ELSE "malloc") \in Failures
    /\ handle' = "NULL"
    /\ owned' \in Freed(owned \cup {"ctx"}, "NULL", "uninit")
    /\ UNCHANGED <<type, content, prot, keys, has_program, returned, created>>

\* Mutant: has_program is whatever the memory held before.
AllocStale(t) ==
    /\ Supported(t)
    /\ handle' = "ctx"
    /\ owned' = owned \cup {"ctx", Store(t)}
    /\ type' = t
    /\ content' = "uninit"
    /\ prot' = "rw"
    /\ keys' = "uninit"
    /\ returned' = "none"
    /\ created' = "none"
    /\ UNCHANGED has_program

Alloc(t) ==
    /\ Supported(t)
    /\ handle' = "ctx"
    /\ owned' = owned \cup {"ctx", Store(t)}
    /\ type' = t
    /\ content' = "uninit"
    /\ prot' = "rw"
    /\ keys' = "uninit"
    /\ has_program' = FALSE
    /\ returned' = "none"
    /\ created' = "none"

hashx_alloc(t) ==
    /\ handle # "ctx"
    /\ AllocUnsupported(t) \/ AllocNoContext(t) \/ AllocNoStore(t) \/ Alloc(t)

-----------------------------------------------------------------------------
(* hashx_make                                                               *)

\* Mutant: the keys are copied before the program is known to be accepted.
MakeRejectedLate(seed) ==
    /\ seed \notin GoodSeeds
    /\ returned' = "failure"
    /\ content' = IF type = "INTERPRETED" THEN seed ELSE content
    /\ keys' = seed
    /\ UNCHANGED <<has_program, prot, created, fault>>

\* initialize_program fails.  An interpreted instance has generated into
\* ctx->program, a compiled one into a program on the stack.
MakeRejected(seed) ==
    /\ seed \notin GoodSeeds
    /\ returned' = "failure"
    /\ content' = IF type = "INTERPRETED" THEN seed ELSE content
    /\ UNCHANGED <<keys, has_program, prot, created, fault>>

\* initialize_program succeeds.
Initialized(seed) ==
    /\ seed \in GoodSeeds
    /\ keys' = seed
    /\ has_program' = TRUE

Succeed(seed) == returned' = "success" /\ created' = seed

MakeInterpreted(seed) ==
    /\ type = "INTERPRETED"
    /\ Initialized(seed)
    /\ content' = seed
    /\ Succeed(seed)
    /\ UNCHANGED <<prot, fault>>

\* The protection page_protect may leave: nobody looks at its result.
page_protect(current, rules) ==
    IF "mprotect" \in Failures THEN {current, rules} ELSE {rules}

\* Mutant: the pages are not made executable.
CompileWritable(seed) ==
    /\ content' = seed
    /\ prot' = "rw"
    /\ UNCHANGED fault

\* hashx_compile: hashx_vm_rw, the code, hashx_vm_rx.
Compile(seed) ==
    \E p \in page_protect(prot, "rw") :
        IF p = "rw"
        THEN /\ content' = seed
             /\ prot' \in page_protect(p, "rx")
             /\ UNCHANGED fault
        ELSE /\ fault' = TRUE
             /\ UNCHANGED <<content, prot>>

MakeCompiled(seed) ==
    /\ type = "COMPILED"
    /\ Initialized(seed)
    /\ Compile(seed)
    /\ IF fault' THEN UNCHANGED <<returned, created>> ELSE Succeed(seed)

hashx_make(seed) ==
    /\ handle = "ctx"
    /\ MakeRejected(seed) \/ MakeInterpreted(seed) \/ MakeCompiled(seed)
    /\ UNCHANGED <<handle, owned, type, answer>>

-----------------------------------------------------------------------------
(* hashx_exec                                                               *)

\* The user calls hashx_exec on an instance that has a function.
MayExec ==
    /\ handle = "ctx"
    /\ created # "none"
    /\ type = "COMPILED" \/ returned = "success" \/ ExecAfterFailedMake

hashx_exec ==
    /\ MayExec
    /\ has_program
    /\ IF type = "COMPILED" /\ prot = "rw"
       THEN fault' = TRUE /\ UNCHANGED answer
       ELSE answer' = <<content, keys>> /\ UNCHANGED fault
    /\ UNCHANGED <<handle, instance>>

Call ==
    \/ (\E t \in hashx_type : hashx_alloc(t)) /\ UNCHANGED <<answer, fault>>
    \/ \E seed \in Seeds : hashx_make(seed)
    \/ hashx_exec
    \/ hashx_free /\ UNCHANGED <<answer, fault>>

Crashed == fault /\ UNCHANGED vars

Next == (~fault /\ Call /\ UNCHANGED environment) \/ Crashed

Spec == Init /\ [][Next]_vars

-----------------------------------------------------------------------------
(* Properties.                                                              *)

TypeOK ==
    /\ HASHX_COMPILER \in BOOLEAN
    /\ Failures \subseteq {"malloc", "mmap", "mprotect"}
    /\ handle \in {"none", "NULL", "NOTSUPP", "ctx"}
    /\ owned \subseteq {"ctx", "program", "pages"}
    /\ type \in hashx_type \cup {"uninit"}
    /\ content \in Seeds \cup {"uninit"}
    /\ prot \in {"rw", "rx"}
    /\ keys \in Seeds \cup {"uninit"}
    /\ has_program \in BOOLEAN
    /\ returned \in {"none", "success", "failure"}
    /\ created \in Seeds \cup {"none"}
    /\ answer \in {NoAnswer} \cup (Seeds \cup {"uninit"}) \X (Seeds \cup {"uninit"})
    /\ fault \in BOOLEAN

\* Whichever allocation fails and whatever the type, no memory is left when
\* the user has no instance, and an instance owns just its own store.
NothingLeaks ==
    IF handle = "ctx" THEN owned = {"ctx", Store(type)} ELSE owned = {}

\* The function a user may run is whole: program (or code) and keys are of the
\* seed of the last hashx_make that succeeded.  One that fails later does not
\* touch a compiled instance.
OneFunction ==
    ~fault /\ ~ExecAfterFailedMake /\ MayExec =>
        has_program /\ content = created /\ keys = created

\* As long as mprotect works the process is never killed by a page that cannot
\* be written or executed, in whatever order it compiles and runs functions.
ProcessSurvives == "mprotect" \notin Failures => ~fault

\* hashx.c:64, assert(ctx->has_program): past it, what hashx_exec computes is
\* the function of one seed.
AssertionSuffices == answer[1] = answer[2]

\* hashx.h:114, "@return 1 on success, 0 on failure": a hashx_make that has
\* returned 1 has made a function that can be run.
SuccessCanRun ==
    handle = "ctx" /\ type = "COMPILED" /\ returned = "success" => prot = "rx"

-----------------------------------------------------------------------------
(* The inductive invariant behind them.                                     *)

\* has_program tells whether some hashx_make has succeeded, and unless the
\* last one failed on an interpreted instance the context is that function.
Whole ==
    handle = "ctx" /\ ~fault =>
        /\ type \in hashx_type
        /\ has_program <=> created # "none"
        /\ returned = "success" => has_program
        /\ has_program => keys = created /\ created \in GoodSeeds
        /\ has_program /\ (type = "COMPILED" \/ returned = "success") =>
                content = created
        /\ has_program /\ returned = "failure" /\ type = "INTERPRETED" =>
                content # created

IInv == TypeOK /\ NothingLeaks /\ Whole

-----------------------------------------------------------------------------
(* The instance keeps the promise of the interface.                         *)

Promise == INSTANCE HashFunction WITH
    function <- IF handle # "ctx" \/ fault THEN "none"
                ELSE IF ~has_program THEN "empty"
                ELSE IF content = keys THEN keys ELSE "lost",
    answer <- IF answer[1] = answer[2] THEN answer[1] ELSE "lost"

KeepsPromise == Promise!Spec
=============================================================================
