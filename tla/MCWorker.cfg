CONSTANTS
  Tx = {"l", "r"}
  Local = {"l"}
  Stakes = {0}
  Million = 1
  Difficulty = 16
  MinimumDifficulty = 1
  StaleThreshold = 1
  ResubmitAdjustChanSize = 10
  MaxHeight = 2
  MaxEvents = 2
  MoreTxs = 0
  MaxLate = 1
SPECIFICATION FairSpec
INVARIANTS OneSearch ResultHasTask SyncPauses 
PROPERTY MiningGoesOn
CHECK_DEADLOCK FALSE
