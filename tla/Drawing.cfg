\* Two registers: nearly everything stalls, so every retry and skip happens.
CONSTANTS
    r5 = r5
    ra = ra
    w1 = w1
    Registers = {r5, ra}
    REGISTER_NEEDS_DISPLACEMENT = r5
    TARGET_CYCLE = 12
    HASHX_PROGRAM_MAX_SIZE = 32
    REQUIREMENT_SIZE = 32
    REQUIREMENT_MUL_COUNT = 12
    REQUIREMENT_LATENCY = 15
    MAX_RETRIES = 1
    U8Draws = {0, 1, 2, 3, 4, 5, 6, 7}
    WideParams = {w1}
    MASK_BITS = 4
    LOG2_BRANCH_PROB = 3
    UINT32_MAX = 255
    U32Draws = {0, 1, 64}
SPECIFICATION DrawingSpec
INVARIANTS
    NoPortDelay
    ImmediatesAreUsable
PROPERTIES
    DrawsAreChoices
    Terminates
