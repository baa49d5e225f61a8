SPECIFICATION Spec
CONSTANTS
    WRITE_SIZE = 4
    LOGICAL_SIZE = 4
    LOG_SLOTS = 3
    BYTE = 2
    OPTIMIZED_LIMIT = 0
    WORD_LIMIT = 0
    MULTIBYTE_MAX = 1
    SECTORS = 2
    SectorOf <- TwoSectors
    Value = {0, 1}
    MaxLength = 1
    Faults = {"write"}
PROPERTY SuccessMeansPersistent
