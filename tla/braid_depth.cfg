SPECIFICATION FairSpec
CONSTANTS
  Block <- CrossedBlocks
  View <- Crossed
  Trusted <- Base
  CaughtUp = {2,4,6,8}
  Certifiable = {}
  FinalDepth = 1
  MaxWindow = 8
  MaxPending = 2
  MaxMergeParents = 4
  SelfHealWindow = 8
  PendingMaxTipLag = 1
  CertGrace = 0
  ParentReach = 1
  CertForkChoice = FALSE
  DepthFinality = TRUE
  FinalQuorum = 0
  CleanupStride = 2
INVARIANTS
  TypeOK
  FrozenIsBatchPrefix
  DrainedLineHolds
PROPERTIES
  CaughtUpJoins
  LineNotPinned
