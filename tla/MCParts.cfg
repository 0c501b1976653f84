SPECIFICATION PartsSpec
CHECK_DEADLOCK FALSE
CONSTANTS
  NLanes = 2
  EventLanes = {0}
  MaxNest = 2
  MaxPending = 1
  Levels = {5, 60, 90, 150, 200, 300, 600, 2000, 9000, 20000}
  Attempts = {0, 1, 2, 3, 5, 29}
  AgcBudget = 120
  VgaGain <- MCVgaGain
  TiaGain <- MCTiaGain
  AdaptLanes = {0, 1}
  FirstLane = 0
  Grads <- MCGrads
  AccMax = 11
  ApplyShift = 2
  ApplyMax = 1
  TrackLeak = 2
  QuietBlocks = 2
  GfSize = 16
  GfPoly = 19
  RsN = 6
  RsK = 2
  Messages <- MCMessages
  ErrVals = {3, 14}
  MaxErrs = 3
  FlagSets <- MCFlagSets
  AlignSyms = 3
  AlignMax = 2
  CwGf = 3
  MsgGf = 1
  PerGf = 2
  BlockLen = 9
  LatMax = 3
  LatCorr = 4
  Lags = {0, 1, 2}
  MaxTraining = 3
  MaxPayload = 6
  Ui = 16
  IntegMax = 2
  Gain = 1
  Drifts <- MCDrifts
  NoWrap = 3
  Dwell = 3
  OlaB = 3
  H <- MCOwn
  Hx <- MCCoupling
  Inputs <- MCInputs
  Buf = 2
  PerPoint = 2
  MaxPoints = 2
  FileLines <- MCFileLines
  MaxLines = 3
INVARIANTS
  PartsTypeOK
  NoLostUpdate
  InterruptsServed
  EventsKept
  AgcSettles
  SettledExpressible
  CorrectsWithinBudget
  GivesUpOnlyOutOfReach
  SuccessIsHonest
  PayloadInStep
  ReferenceFollows
  ResidualExplained
  LockMeansHeld
  OutputIsConvolution
  LoadedAsWritten
PROPERTIES
  GainFollowsError
  TurnedOnlyByGradient
