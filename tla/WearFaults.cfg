SPECIFICATION Spec
CONSTANTS
    WRITE_SIZE = 4
    LOGICAL_SIZE = 4
    LOG_SLOTS = 2
    BYTE = 3
    OPTIMIZED_LIMIT = 0
    WORD_LIMIT = 0
    MULTIBYTE_MAX = 1
    SECTORS = 2
    SectorOf <- TwoSectors
    Value = {1}
    MaxLength = 1
    Faults = {"init", "unlock", "erase", "write"}
INVARIANTS LockedBetweenCalls LogParses
PROPERTY ImplementsStore
