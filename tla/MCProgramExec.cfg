\* Every program of up to six instructions.
CONSTANTS
    Bits = {1}
    Programs <- MCPrograms
    MaxLength = 6
SPECIFICATION Spec
PROPERTIES
    MeansTheProgram
INVARIANTS
    RunsOnce
    RepeatsOneStretch
    CountsItsBranch
