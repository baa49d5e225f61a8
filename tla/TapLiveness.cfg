SPECIFICATION FairSpec
CONSTANTS
    NumKeys = 3
    NumLayers = 2
    Code = {"a", "b", "c", "d"}
    Mod = {"sft", "ctl"}
    Keymap <- ToggleKey
    TAPPING_TOGGLE = 2
    MaxCount = 3
    TIMER_MOD = 4
    TAPPING_TERM <- Term2
    QUICK_TAP_TERM <- Term2
    WAITING_BUFFER_SIZE = 2
    PERMISSIVE_HOLD = {}
    HOLD_ON_OTHER_KEY_PRESS = {1, 2}
    MaxDelay = 1
    MaxChanges = 1
    BackToBack = TRUE
INVARIANTS
    NoPressWaits
    ReportNeverStuck
PROPERTIES
    PressesInOrder
    EveryKeyInOrder
    EventuallyDecided
    EventuallyReset
