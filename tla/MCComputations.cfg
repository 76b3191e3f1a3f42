CONSTANTS
    QUARTER = 4
    BITS = 8
    WORD_BYTES = 2
    Bytes = {1, 2}
    Sizes = {1, 2, 3, 4, 5, 6, 7, 8}
    RegisterCount = 2
    MaxSize = 4
    Stale = {0, 3}
    MaxBlocks = 4
SPECIFICATION ComputationsSpec
INVARIANTS
    OperationsAreExact
    ConstantsAgree
    OutputIsPrefix
    HostsDifferInKeys
    ExactWithoutConstants
    ServedOnce
    NothingLost
    CounterIsExact
