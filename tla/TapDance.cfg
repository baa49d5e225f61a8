SPECIFICATION Spec
CONSTANTS
    Key = {1, 2, 3, 4, 5, 6}
    Layer = {0, 1}
    Mod = {"S"}
    Code = {"a", "b", "c", "d", "e", "f"}
    Dance = {"pair", "move", "toggle"}
    Keymap <- MCKeymap
    ModsOf <- MCModsOf
    Kind <- MCKind
    First <- MCFirst
    Second <- MCSecond
    Resets = {}
    TAPPING_TERM = 1
    MaxTaps = 3
    MaxDown = 3
INVARIANTS TypeOK NothingSticks
PROPERTIES ModsOfTap InterruptsLast ImplementsLife DanceDecided
