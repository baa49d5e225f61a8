SPECIFICATION Spec
CONSTANTS
    NumKeys = 3
    NumLayers = 2
    Code = {"a", "b", "c", "d"}
    Mod = {"sft", "ctl"}
    Keymap <- CoveredKeys
    TAPPING_TOGGLE = 2
    MaxCount = 3
    TIMER_MOD = 6
    TAPPING_TERM <- Term3
    QUICK_TAP_TERM <- Term3
    WAITING_BUFFER_SIZE = 8
    PERMISSIVE_HOLD = {1}
    HOLD_ON_OTHER_KEY_PRESS = {2}
    MaxDelay = 1
    MaxChanges = 1
    BackToBack = FALSE
INVARIANTS
    ReportNeverStuck
