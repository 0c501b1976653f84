SPECIFICATION MacroSpec
CONSTANTS
    N = 3
    Span = 1
    MaxMs = 4
INVARIANTS
    MacroTypeOK
    OneLane
    Balanced
    WaitWithinScale
    FreshAggressors
CHECK_DEADLOCK FALSE
