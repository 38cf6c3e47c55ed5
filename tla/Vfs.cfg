SPECIFICATION Spec
CONSTANTS
    A = A
    B = B
    m = m
    n = n
    Threads = {t1, t2}
    Dirs = {A, B}
    Names = {m, n}
    Ids = {1, 2, 3}
    Contents <- SomeContents
    Room = 1
    QuietDirs = TRUE
    QuietHoles = TRUE
    MaxRequests = 2
CHECK_DEADLOCK FALSE
INVARIANTS TypeOK InodesMatch NothingFreedIsUsed NothingLeaks EntriesListed SyncSaves

PROPERTIES CallsEnd
