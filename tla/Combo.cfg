SPECIFICATION Spec
CONSTANTS
    Key = {1, 2, 3, 4, 5}
    COMBOS = 4
    Keys <- Nested
    COMBO_TERM <- Terms
    COMBO_HOLD_TERM = 3
    MUST_HOLD = {4}
    MUST_TAP = {3}
    IN_ORDER = {}
    RELEASE_EARLY = {}
    STRICT_TIMER = FALSE
    TOGGLE = {5}
    KEY_BUFFER_LENGTH = 4
    BUFFER_LENGTH = 5
    ZeroTime = FALSE
INVARIANTS TypeOK NothingSticks
PROPERTIES EveryPressOnce PressThenRelease ReadyFires KeysArrive
