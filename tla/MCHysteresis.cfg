SPECIFICATION LaneSpec
CONSTANTS
    Timeout <- MCTimeout
    TickMod = 5
    TmoScale = 1
    EqMinTrain = 2
    BackoffCap = 2
    LossTicks = 2
    JudgeSyms = 8188
    MaxBerE5 = 5
    AgcSettle = 2
    ConvBlocks = 2
    RetryCap = 2
    NudgeMax = 0
    VgaCodes = {30}
    SymCounts = {4094}
    ErrCounts = {0, 1}
    SettleBlocks = 1
    LockDwell = 2
    BlockSyms = 4094
    MaxGlitch = 1
PROPERTIES
    HysteresisPerVisit
