CONSTANTS
    ra = ra
    rb = rb
    Bits = {1, 2}
    Registers = {ra, rb}
    WINABI = FALSE
    X86Programs <- ShortX86Programs
    A64Programs <- ShortA64Programs
    X86Length = 7
    A64Length = 6
    Mask = {1}
SPECIFICATION Spec
SYMMETRY Symmetry
INVARIANTS
    NeverAstray
PROPERTIES
    MeansTheProgram
