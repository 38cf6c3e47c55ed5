SPECIFICATION Spec
CONSTANTS
    None = None
    NBlocks = 4
    Reserved = 2
    NChunks = 3
    Keys <- DataKeys
    MaxCopies = 1
    FlippedBits = {}
    MaxWrites = 6
    MaxCrashes = 1
    MaxFlips = 0
    MaxFaults = 0
CHECK_DEADLOCK FALSE
INVARIANTS NothingReverts
