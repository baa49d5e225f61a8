SPECIFICATION Spec
CONSTANTS
    SLOTS = 3
    TOKENS = 3
    TIMES = 18
    Delay = {2, 3}
    MaxGap = 2
    Replace = FALSE
INVARIANT TokensUnique
PROPERTIES ImplementsQueue DueRuns
