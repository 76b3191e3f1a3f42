----------------------------- MODULE LayoutWalk -----------------------------
(****************************************************************************)
(* What the program generator promises, without registers, ports, random    *)
(* numbers or counters: it walks the layout slot by slot, three slots per   *)
(* CPU cycle, an instruction with two uOPs taking two slots.  A walk that   *)
(* cannot place an instruction gives up the slot and resumes one cycle      *)
(* later, and the program is accepted exactly if that never happened.       *)
(****************************************************************************)
EXTENDS Integers

CONSTANT TARGET_CYCLE      \* instructions are generated until this CPU cycle

VARIABLES
    slot,       \* the next sub-cycle to fill
    skipped,    \* has the walk given up a slot?
    verdict     \* "none" while walking, then "accept" or "reject"

vars == <<slot, skipped, verdict>>

End == 3 * TARGET_CYCLE

\* Of every 36 slots those of the branch target, the branch and the two wide
\* multiplications are followed by one they use as well.
Width(s) == IF s % 36 \in {1, 12, 19, 24} THEN 2 ELSE 1

Init == slot = 0 /\ skipped = FALSE /\ verdict = "none"

Fill ==
    /\ verdict = "none"
    /\ slot < End
    /\ slot' = slot + Width(slot)
    /\ UNCHANGED <<skipped, verdict>>

\* Past the end there is nothing left to give up, unless slots were lost.
Skip ==
    /\ verdict = "none"
    /\ slot < End \/ skipped
    /\ slot' = slot + 3
    /\ skipped' = TRUE
    /\ UNCHANGED verdict

Decide ==
    /\ verdict = "none"
    /\ slot >= End
    /\ verdict' = IF skipped THEN "reject" ELSE "accept"
    /\ UNCHANGED <<slot, skipped>>

Next == Fill \/ Skip \/ Decide

Spec == Init /\ [][Next]_vars

-----------------------------------------------------------------------------
TypeOK ==
    /\ slot \in Nat
    /\ skipped \in BOOLEAN
    /\ verdict \in {"none", "accept", "reject"}
=============================================================================
