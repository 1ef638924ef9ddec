CONSTANTS
    Chunk = 1
    IdxEvery = 2
    Cadence = 1
    RingCap = 3
    ForkHits = 3
    Limits <- Followers
    Damages <- AllDamages
SPECIFICATION Spec
INVARIANTS TypeOK RingOnChain HistoryOnDisk
PROPERTIES BootResumes FollowerRecovers
CHECK_DEADLOCK FALSE
