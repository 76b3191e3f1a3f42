---------------------------- MODULE HashFunction ----------------------------
(****************************************************************************)
(* What a HashX instance promises to its user (the comments of hashx.h):    *)
(* it is created empty, hashx_make turns it into the function of a seed or  *)
(* fails, and hashx_exec computes that one function.  Nothing is promised   *)
(* about the function after a hashx_make that failed: it is kept or lost.   *)
(****************************************************************************)
CONSTANT Seeds

VARIABLES
    function,   \* seed of the function; or "none", "empty" or "lost"
    answer      \* the function the last hashx_exec computed

vars == <<function, answer>>

Exists == function # "none"

Init == function = "none" /\ answer = "none"

Create == ~Exists /\ function' = "empty" /\ UNCHANGED answer

Make(seed) == Exists /\ function' = seed /\ UNCHANGED answer

Fail ==
    /\ function \in Seeds
    /\ function' = "lost"
    /\ UNCHANGED answer

Exec == function \in Seeds /\ answer' = function /\ UNCHANGED function

Free == Exists /\ function' = "none" /\ UNCHANGED answer

Next ==
    \/ Create
    \/ \E seed \in Seeds : Make(seed)
    \/ Fail
    \/ Exec
    \/ Free

Spec == Init /\ [][Next]_vars
=============================================================================
