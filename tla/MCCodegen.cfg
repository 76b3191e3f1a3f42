CONSTANTS
    r5 = r5
    ra = ra
    rb = rb
    rc = rc
    rd = rd
    w1 = w1
    Registers = {r5, ra, rb, rc, rd}
    REGISTER_NEEDS_DISPLACEMENT = r5
    TARGET_CYCLE = 7
    HASHX_PROGRAM_MAX_SIZE = 18
    REQUIREMENT_SIZE = 18
    REQUIREMENT_MUL_COUNT = 7
    REQUIREMENT_LATENCY = 10
    MAX_RETRIES = 1
    U8Draws = {1, 7}
    WideParams = {w1}
    WINABI = FALSE
SPECIFICATION CodegenSpec
SYMMETRY Symmetry
INVARIANTS
    IInv
    Saturated
    LatencyIsLastRetirement
    CodeFits
    TestedRegisterKept
PROPERTIES
    UopsExecuteTogether
