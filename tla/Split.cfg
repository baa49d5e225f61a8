SPECIFICATION Spec
CONSTANTS
    Data = {0, 1, 2}
    Garbage = garbage
    Crc <- Collide
    RETRIES = 2
    MAX_ERRORS = 2
    UINT8_MAX = 2
    SYNC_THROTTLE = 1
    CHECK_TIMEOUT = 1
    WATCHDOG = 1
    Source = {0, 1}
INVARIANT DisconnectReleases
PROPERTIES OnlyForward MatrixArrives SourceArrives
