CONSTANTS
  Tx = {"l", "r"}
  Local = {"l"}
  Stakes = {0, 2}
  Million = 1
  Difficulty = 16
  MinimumDifficulty = 1
  StaleThreshold = 1
  ResubmitAdjustChanSize = 10
  MaxHeight = 2
  MaxEvents = 1
  MoreTxs = 0
  MaxLate = 1
SPECIFICATION Spec
INVARIANT OwnHeadVerifies
CHECK_DEADLOCK FALSE
