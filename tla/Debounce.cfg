SPECIFICATION Spec
CONSTANTS
    Key = {1, 2, 3}
    RowOf <- TwoRows
    Algorithms = {"none", "sym_defer_g", "sym_defer_pr", "sym_defer_pk", "sym_eager_pr", "sym_eager_pk", "asym_eager_defer_pk"}
    DEBOUNCE = 2
    MaxDelay = 3
INVARIANTS EagerAtOnce CatchesUp
PROPERTIES DeferNeedsQuiet EagerLocksOut
