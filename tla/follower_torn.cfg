CONSTANTS
    Chunk = 1
    IdxEvery = 2
    Cadence = 1
    RingCap = 3
    ForkHits = 3
    Limits <- Stops
    Damages <- AllDamages
SPECIFICATION Spec
PROPERTIES AppendedBlocksSurviveRestart
CHECK_DEADLOCK FALSE
