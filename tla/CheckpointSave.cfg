SPECIFICATION Spec
CONSTANTS
    NBlocks = 5
    NChunks = 2
    Keys = {k1, k2, k3}
    StreamPages = 3
    MaxCheckpointBlocks = 2
    Reserved = 2
    CheckpointBlocks = 1
    FullSaves = FALSE
    BadKeepsData = FALSE
    MaxRequests = 5
    MaxCrashes = 1
    MaxFaults = 1
SYMMETRY Symmetry
CHECK_DEADLOCK FALSE
INVARIANTS TypeOK CheckpointIsTrue CountersAgree SavedIsRestorable ErasedIsErased

