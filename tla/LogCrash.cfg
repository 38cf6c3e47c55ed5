SPECIFICATION Spec
CONSTANTS
    Ids = {i1, i2, i3}
    Names = {n1, n2}
    None = None
    BytesPerChunk = 2
    NChunks = 2
    SmallHole = 1
    CacheSize = 0
    GcCopies = 1
    Requests = {"create", "link", "write", "truncate", "flush", "setattr",
                "unlink", "rename", "open", "close", "gc"}
    Writes <- Across
    Sizes = {0, 3}
    GcWhenMounting = FALSE
    CrashWhenMoving = FALSE
    CopyWhenWriting = FALSE
    MaxRequests = 4
    MaxCrashes = 1
    MaxFaults = 1
SYMMETRY Symmetry
CHECK_DEADLOCK FALSE
INVARIANTS TypeOK DurableWhenIdle NoStaleBytes ChunksVerify NothingHangs NamesUnique
PROPERTY ImplementsStore
