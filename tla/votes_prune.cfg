SPECIFICATION Spec
CONSTANTS
  v1 = v1
  v2 = v2
  v3 = v3
  v4 = v4
  follower = follower
  stranger = stranger
  blockA = blockA
  blockB = blockB
  Validator = {v1, v2}
  Byzantine = {}
  Outsider = {}
  Node = {follower}
  CrashProne = {}
  Height = {1, 2, 3}
  Tuple = {blockA, blockB}
  MaxHeight = 4
  CheckpointInterval = 1
  RetentionHeights = 1
  MaxVotes = 3
  PruneEvery = 2
  SpineVoting = FALSE
  ReadErrors = FALSE
SYMMETRY PlainSymmetry
INVARIANTS
  OneViewNeverConflicts
  NoMissedCertificate
  RetainedBounded
PROPERTIES
  CertificatesStand
