SPECIFICATION LaneFair
CONSTANTS
    Timeout <- MCTimeout
    TickMod = 4
    TmoScale = 1
    EqMinTrain = 1
    BackoffCap = 2
    LossTicks = 1
    JudgeSyms = 4094
    MaxBerE5 = 5
    AgcSettle = 1
    ConvBlocks = 1
    RetryCap = 1
    NudgeMax = 0
    VgaCodes = {30}
    SymCounts = {4094}
    ErrCounts = {0, 1}
    SettleBlocks = 1
    LockDwell = 2
    BlockSyms = 4094
    MaxGlitch = 1
PROPERTIES
    Recovers
    KeepsTrying
