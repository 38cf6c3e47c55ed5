SPECIFICATION Spec
CONSTANTS
    None = None
    NBlocks = 4
    Reserved = 2
    NChunks = 3
    Keys <- FileKeys
    MaxCopies = 3
    FlippedBits = {1, 21, 33}
    MaxWrites = 4
    MaxCrashes = 1
    MaxFlips = 1
    MaxFaults = 1
CHECK_DEADLOCK FALSE
INVARIANTS TypeOK NothingReverts
