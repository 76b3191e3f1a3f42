\* Two seeds with a function, one without.
CONSTANTS
    s1 = s1
    s2 = s2
    bad = bad
    Seeds = {s1, s2, bad}
    GoodSeeds = {s1, s2}
    ExecAfterFailedMake = FALSE
SPECIFICATION Spec
INVARIANTS
    SuccessCanRun
