SPECIFICATION Spec
CONSTANTS
    WRITE_SIZE = 2
    LOGICAL_SIZE = 4
    LOG_SLOTS = 4
    BYTE = 2
    OPTIMIZED_LIMIT = 1
    WORD_LIMIT = 2
    MULTIBYTE_MAX = 5
    SECTORS = 2
    SectorOf <- TwoSectors
    Value = {0, 1}
    MaxLength = 2
    Faults = {}
INVARIANTS TypeOK IdleMeansStored AllOrNothing WritesOnlyErased
