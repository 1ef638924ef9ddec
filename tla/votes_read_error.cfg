SPECIFICATION Spec
CONSTANTS
  v1 = v1
  v2 = v2
  v3 = v3
  v4 = v4
  follower = follower
  stranger = stranger
  blockA = blockA
  blockB = blockB
  Validator = {v1, v2, v3, v4}
  Byzantine = {v1}
  Outsider = {}
  Node = {v2, follower}
  CrashProne = {v2}
  Height = {1}
  Tuple = {blockA, blockB}
  MaxHeight = 3
  CheckpointInterval = 1
  RetentionHeights = 2
  MaxVotes = 6
  PruneEvery = 2
  SpineVoting = TRUE
  ReadErrors = TRUE
SYMMETRY PlainSymmetry
INVARIANTS
  SignedOncePerHeight
