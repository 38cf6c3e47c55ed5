SPECIFICATION Spec
CONSTANTS
    Files = {f1, f2}
    None = None
    BytesPerChunk = 2
    MaxSize = 6
    NCaches = 2
    Values = {1, 2}
    SmallHole = 1
    UseLimit = 3
    TotalFree = 5
    Reserve = 2
    Requests = {"write", "read", "resize", "flush", "sync", "header", "remove"}
    Writes <- SomeWrites
    Reads <- SomeReads
    Sizes = {0, 1, 3}
    MaxRequests = 4
SYMMETRY Symmetry
CHECK_DEADLOCK FALSE
INVARIANTS TypeOK OneEntryPerChunk CachedIsKept DirtyIsFlushed NothingBehindTheEnd CountCovers
PROPERTY ImplementsFiles
