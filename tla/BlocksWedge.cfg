CONSTANTS
    StartBlock = 1
    EndBlock = 6
    NChunks = 2
    NReserved = 2
    CheckpointBlocks = {0, 1}
    IsYaffs2 = TRUE
    AlwaysCheckErased = FALSE
    WrAttempts = 1
    LeisurelyCopies = 1
    MaxStrikes = 0
    MayCollect = {TRUE, FALSE}
    NShortOpCaches = 0
    LiveAtMount <- FiveOldBlocks
    MaxRequests = 2
    MaxPads = 1
    MaxFaults = 1
SPECIFICATION Spec
CHECK_DEADLOCK FALSE
INVARIANT CollectionAdvances
