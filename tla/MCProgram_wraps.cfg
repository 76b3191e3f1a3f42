CONSTANTS
    r5 = r5
    ra = ra
    rb = rb
    rc = rc
    rd = rd
    w1 = w1
    Registers = {r5, ra, rb, rc, rd}
    REGISTER_NEEDS_DISPLACEMENT = r5
    TARGET_CYCLE = 14
    HASHX_PROGRAM_MAX_SIZE = 37
    REQUIREMENT_SIZE = 37
    REQUIREMENT_MUL_COUNT = 14
    REQUIREMENT_LATENCY = 17
    MAX_RETRIES = 1
    U8Draws = {0, 2}
    WideParams = {w1}
SPECIFICATION Spec
SYMMETRY Symmetry
INVARIANTS
    EnoughReadyRegisters
    UniformShape
    AcceptedIffNeverSkipped
PROPERTIES
    WalksTheLayout
