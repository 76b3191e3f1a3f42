\* Blocks of 3 bytes, words of 2 bits: the counter carries at 6 and 9 bytes.
CONSTANTS
    BLAKE2B_BLOCKBYTES = 3
    WORD = 4
    MaxLength = 15
SPECIFICATION Spec
INVARIANTS
    KeepsLastBlock
    CounterIsExact
PROPERTIES
    DigestsTheMessage
