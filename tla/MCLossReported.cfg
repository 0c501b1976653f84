SPECIFICATION HostFair
CONSTANTS
    Lanes = {l0}
    FrameBytes = 3
    FifoBytes = 4
    WireBytes = 3
    Drain = 2
    Chunks = 2
    SeqMod = 4
    MaxLosses = 2
    MaxFaults = 2
    Lookalikes <- MCLookalikes
PROPERTIES
    LossReported
