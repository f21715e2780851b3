CONSTANTS
  TxPeriodMs = 2
  FrameBytes = 3
  McuStates = {"NORMAL", "ESTOP", "RECOVERY"}
  Verdicts = {"NORMAL", "SOFT_REQ", "HARD_ESTOP"}
SPECIFICATION TxSpec
INVARIANT CommandWhole
PROPERTIES RequestsReachBoard EstopReachesBoard
