SPECIFICATION Spec
CONSTANTS
    NBlocks = 5
    NChunks = 4
    Keys = {k1, k2, k3}
    StreamPages = 3
    MaxCheckpointBlocks = 2
    Reserved = 2
    CheckpointBlocks = 2
    FullSaves = TRUE
    BadKeepsData = FALSE
    MaxRequests = 11
    MaxCrashes = 0
    MaxFaults = 0
SYMMETRY Symmetry
CHECK_DEADLOCK FALSE
INVARIANTS WritesHaveData

