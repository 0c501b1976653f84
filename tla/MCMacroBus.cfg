SPECIFICATION MacroBusSpec
CONSTANTS
  NLanes = 2
  Lanes = {0, 1}
  Service = 2
  FrameBytes = 2
  FifoBytes = 4
  Drain = 2
  Chunks = 2
  SeqMod = 1
PROPERTY
  StatusNotStarved
