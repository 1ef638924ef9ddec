SPECIFICATION FairSpec
CONSTANTS
  Block <- DelayedBlocks
  View <- Delayed
  Trusted <- Base
  CaughtUp = {}
  Certifiable = {2,4,5,7}
  FinalDepth = 2
  MaxWindow = 8
  MaxPending = 3
  MaxMergeParents = 4
  SelfHealWindow = 8
  PendingMaxTipLag = 1
  CertGrace = 2
  ParentReach = 1
  CertForkChoice = TRUE
  DepthFinality = FALSE
  FinalQuorum = 0
  CleanupStride = 2
INVARIANTS
  LateParentAdmissible
  MissingParentsAdmissible
  TipMemoIsRecount
  ParkedWaitsOnUnknown
PROPERTIES
  CertificateNeverLowers
  FrozenSpineStable
  EventuallyDecided
