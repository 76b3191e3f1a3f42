\* Contexts and threads may be missing; the loop variables of five threads
\* overflow.
CONSTANTS
    START = 1
    SEEDS = 3
    NONCES = 2
    ThreadCounts = {1, 2, 4, 5}
    Hashes = {5, 7}
    HASH_MAX = 9
    INT_MAX = 7
    Failures = {"hashx_alloc", "create"}
SPECIFICATION Spec
INVARIANTS
    OvershootIsBounded
    AnnouncedIsDone
    ReportIsExact
PROPERTIES
    Finishes
