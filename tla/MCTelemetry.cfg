SPECIFICATION TelemetrySpec
CONSTANTS
    Lanes = {l0, l1, l2}
    FrameBytes = 2
    FifoBytes = 5
    Drain = 1
    Chunks = 2
    SeqMod = 3
INVARIANTS
    TelemetryTypeOK
    NothingDropped
    FramesWhole
PROPERTIES
    RecordsComplete
