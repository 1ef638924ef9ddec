SPECIFICATION Spec
CONSTANTS
  v1 = v1
  v2 = v2
  v3 = v3
  v4 = v4
  Validator = {v1, v2, v3, v4}
  Byzantine = {v1}
  Producer = {}
  CrashProne = {}
  Block <- ForkBlocks
  Root = 1
  Chain <- ForkChain
  Height <- ForkHeight
  VoteDepth = 1
  CheckpointInterval = 1
  FinalDepth = 2
  CertForkChoice = TRUE
  DepthFinality = FALSE
  AnchorSeed = TRUE
  HashFetch = FALSE
  RangeSync = TRUE
  ReseedLag = 2
SYMMETRY PlainSymmetry
PROPERTIES
  LockReleasedOnlyByCertificate
