----------------------------- MODULE YaffsCache -----------------------------
(***************************************************************************)
(* The short operations cache of yaffs_guts.c (dev->srCache) and the       *)
(* requests that go through it: reads, writes, zeros written over a small  *)
(* hole, resizes, flushes and removals.                                    *)
(*                                                                         *)
(* All requests run under the gross lock, one at a time.  A request is a   *)
(* list of jobs; a job works chunk by chunk, one action per chunk, and     *)
(* may first have to flush a file (flushing), one action per chunk again.  *)
(*                                                                         *)
(* nFreeChunks counts the free chunks.  The collector, which turns deleted *)
(* chunks into erased ones, and the block manager are YaffsBlocks; what    *)
(* the NAND keeps over a power failure is YaffsLog.  Headers, which        *)
(* replace their older copy, are left out of the count.                    *)
(***************************************************************************)
EXTENDS Integers, Sequences, FiniteSets

CONSTANTS
    Files,          \* yaffs_Object's of type file
    None,           \* no object
    BytesPerChunk,  \* nDataBytesPerChunk
    MaxSize,        \* bound: the largest size of a file
    NCaches,        \* nShortOpCaches
    Values,         \* the bytes written
    SmallHole,      \* YAFFS_SMALL_HOLE_THRESHOLD
    UseLimit,       \* 100000000 in yaffs_UseChunkCache
    TotalFree,      \* the free chunks of an empty device
    Reserve,        \* chunks of the reserved blocks and of the checkpoint
    Requests,       \* the kinds of requests made
    Writes, Reads,  \* the <<offset, length>> of the writes and reads made
    Sizes,          \* the sizes files are set to
    MaxRequests     \* bound: how many requests are made

ASSUME CacheAssumption ==
    /\ None \notin Files
    /\ BytesPerChunk \in Nat \ {0} /\ NCaches \in Nat \ {0}
    /\ MaxSize \in Nat /\ MaxSize % BytesPerChunk = 0
    /\ Values \subseteq Nat /\ SmallHole \in Nat /\ UseLimit \in Nat
    /\ TotalFree \in Nat /\ Reserve \in Nat
    /\ \A w \in Writes \cup Reads : /\ w \in Nat \X (Nat \ {0})
                                    /\ w[1] + w[2] <= MaxSize
    /\ Sizes \subseteq 0 .. MaxSize
    /\ MaxRequests \in Nat

VARIABLES
    cache,          \* dev->srCache
    srLastUse,
    nand,           \* per file and chunk, the data chunk its tnode points to
    fileSize,
    changed,        \* in->dirty: the header is to be written
    nFreeChunks,
    jobs,           \* what is left of the request in service
    flushing,       \* the file whose cached chunks are being written, or None
    status, got,    \* what the request has returned so far
    failed,         \* history: a cached chunk could not be written
    requests

store == <<nand, nFreeChunks>>
vars == <<cache, srLastUse, store, fileSize, changed, jobs, flushing, status, got,
          failed, requests>>

Larger(a, b) == IF a > b THEN a ELSE b
Smaller(a, b) == IF a < b THEN a ELSE b
Bytes == Values \cup {0}
Entries == 1 .. NCaches
FileChunks == 1 .. MaxSize \div BytesPerChunk
Zeros == [k \in 1 .. BytesPerChunk |-> 0]
Hole == [bytes |-> Zeros, n |-> 0]          \* no chunk: it reads as zeros
NoEntry == 0

Unused == [object |-> None, chunk |-> 0, dirty |-> FALSE, n |-> 0, lastUse |-> 0,
           bytes |-> Zeros]

(***************************************************************************)
(* Looking at the cache.                                                   *)
(***************************************************************************)
Of(f) == {e \in Entries : cache[e].object = f}
Dirty(f) == {e \in Of(f) : cache[e].dirty}
Empty == Of(None)
First(S) == CHOOSE e \in S : \A d \in S : e <= d

\* A variant: an entry that was only read is not found.
FindDirty(f, c) == LET S == {e \in Dirty(f) : cache[e].chunk = c}
                   IN IF S = {} THEN NoEntry ELSE First(S)

\* yaffs_FindChunkCache
Find(f, c) == LET S == {e \in Of(f) : cache[e].chunk = c}
              IN IF S = {} THEN NoEntry ELSE First(S)

\* The entry yaffs_GrabChunkCache pushes out: the one longest not used.
LeastUsed == First({e \in Entries : \A d \in Entries :
                        cache[e].lastUse <= cache[d].lastUse})

\* A variant: the entry is taken although it is dirty.
NeverFlush == FALSE

\* The entry yaffs_GrabChunkCache returns, when it has nothing to flush.
MustFlush == Empty = {} /\ cache[LeastUsed].dirty
Grabbed == IF Empty # {} THEN First(Empty) ELSE LeastUsed

\* A variant: only the erased chunks that are left count.
SpaceOfReserve(n) == nFreeChunks >= 0

\* yaffs_CheckSpaceForAllocation
Space(n) == nFreeChunks > Reserve + n

\* The bytes of chunk c of file f as a reader sees them.
Seen(f, c) == IF Find(f, c) # NoEntry THEN cache[Find(f, c)].bytes
              ELSE nand[f][c].bytes

(***************************************************************************)
(* Changing it.                                                            *)
(***************************************************************************)
\* A variant: the count of the uses goes on and on.
NeverOver == FALSE

Over == srLastUse > UseLimit

\* yaffs_UseChunkCache of entry e that holds x.  When the count is reset, the
\* first entry keeps its use.
Use(e, x) ==
    LET now == IF Over THEN 1 ELSE srLastUse + 1
    IN /\ srLastUse' = now
       /\ cache' = [d \in Entries |->
                       IF d = e THEN [x EXCEPT !.lastUse = now]
                       ELSE IF Over /\ d > 1 THEN [cache[d] EXCEPT !.lastUse = 0]
                       ELSE cache[d]]

\* The cache without the entries of S.  What else they hold is not looked at
\* before they are filled again (but for the dirty flag, which still counts in
\* yaffs_GetNumberOfFreeChunks).
Without(S) == [e \in Entries |-> IF e \in S THEN Unused ELSE cache[e]]

\* Entry e once it holds chunk c of file f, read from the device.
Loaded(e, f, c) == [cache[e] EXCEPT !.object = f, !.chunk = c, !.dirty = FALSE,
                                    !.n = 0, !.bytes = nand[f][c].bytes]

Cost(f, c) == IF nand[f][c] = Hole THEN 1 ELSE 0

\* Chunk c of file f is written: the new copy takes one chunk, the one it
\* replaces becomes free.
Write(f, c, bytes, n) ==
    /\ nand' = [nand EXCEPT ![f][c] = [bytes |-> bytes, n |-> n]]
    /\ nFreeChunks' = nFreeChunks - Cost(f, c)

\* Writing with the reserve.
CanWrite == nFreeChunks > 0

(***************************************************************************)
(* Jobs.                                                                   *)
(***************************************************************************)
Job(kind, f, off, n, v) ==
    [kind |-> kind, file |-> f, off |-> off, n |-> n, v |-> v, done |-> 0,
     step |-> "chunk", was |-> fileSize[f]]
job == Head(jobs)
Serving(kind) == jobs # <<>> /\ job.kind = kind /\ flushing = None
Idle == jobs = <<>> /\ flushing = None

\* yaffs2_HandleHole: a small hole is filled with zeros, a chunk at a time.
\* A large one only gets a header.
HoleJobs(f, end) ==
    LET hole == end - fileSize[f]
        Piece(k) == Job("zeros", f, fileSize[f] + (k - 1) * BytesPerChunk,
                        Smaller(BytesPerChunk, hole - (k - 1) * BytesPerChunk), 0)
    IN IF hole > 0 /\ hole < SmallHole * BytesPerChunk /\ Space(SmallHole + 1)
       THEN [k \in 1 .. (hole + BytesPerChunk - 1) \div BytesPerChunk |-> Piece(k)]
       ELSE <<>>

\* The chunk the job is at, where in it, and how much of it.
Pos == job.off + job.done
Chunk == Pos \div BytesPerChunk + 1
From == Pos % BytesPerChunk
Length == Smaller(job.n - job.done, BytesPerChunk - From)
Whole == Length = BytesPerChunk
Stepped == [jobs EXCEPT ![1].done = @ + Length, ![1].step = "chunk"]
More == job.step # "short" /\ job.done < job.n

\* A variant: what lies behind the write in its chunk is forgotten.
OnlyWritten == From + Length

\* What is written back of the chunk: never less than was there.
ToWriteBack ==
    IF From + job.n - job.done >= BytesPerChunk THEN BytesPerChunk
    ELSE Larger(From + Length,
                Smaller(BytesPerChunk,
                        Larger(0, fileSize[job.file] - (Chunk - 1) * BytesPerChunk)))

Overlay(bytes) == [k \in 1 .. BytesPerChunk |->
                      IF k > From /\ k <= From + Length THEN job.v ELSE bytes[k]]

(***************************************************************************)
(* yaffs_FlushFilesChunkCache, one chunk an action: the dirty chunks, the  *)
(* lowest first.  If one cannot be written it is dropped and the loop ends *)
(***************************************************************************)
LowestDirty == CHOOSE e \in Dirty(flushing) :
                   \A d \in Dirty(flushing) : cache[e].chunk <= cache[d].chunk
Flushed == Without({LowestDirty})

FlushChunk ==
    /\ flushing # None /\ Dirty(flushing) # {}
    /\ LET x == cache[LowestDirty]
       IN IF CanWrite
          THEN /\ Write(flushing, x.chunk, x.bytes, x.n)
               /\ UNCHANGED <<flushing, failed>>
          ELSE flushing' = None /\ failed' = TRUE /\ UNCHANGED store
    /\ cache' = Flushed
    /\ UNCHANGED <<srLastUse, fileSize, changed, jobs, status, got, requests>>

FlushEnds ==
    /\ flushing # None /\ Dirty(flushing) = {}
    /\ flushing' = None
    /\ UNCHANGED <<cache, srLastUse, store, fileSize, changed, jobs, status, got, failed,
                   requests>>

\* What is left of the job is done when file f has been flushed.
FlushFirst(f, then) ==
    /\ flushing' = f /\ jobs' = then
    /\ UNCHANGED <<cache, srLastUse, store, fileSize, changed, status, got, failed,
                   requests>>

(***************************************************************************)
(* yaffs_ResizeDown: chunks are cut off and the last one is padded with    *)
(* zeros, using the reserve.  The cache is not looked at.                  *)
(***************************************************************************)
Pruned(f, size) ==
    [c \in FileChunks |-> IF (c - 1) * BytesPerChunk >= size THEN Hole ELSE nand[f][c]]

\* A variant: the last chunk is left as it is.
NotPadded(x, size) == x

Padded(x, size) ==
    [bytes |-> [k \in 1 .. BytesPerChunk |->
                   IF k <= size % BytesPerChunk THEN x.bytes[k] ELSE 0],
     n |-> size % BytesPerChunk]

Kept(chunks) == Cardinality({c \in FileChunks : chunks[c] # Hole})

ResizeDown(f, size) ==
    LET pruned == Pruned(f, size)
        last == size \div BytesPerChunk + 1
        left == nFreeChunks + Kept(nand[f]) - Kept(pruned)
        padded == IF size % BytesPerChunk # 0 /\ left > 0
                  THEN [pruned EXCEPT ![last] = Padded(@, size)] ELSE pruned
    IN /\ nand' = [nand EXCEPT ![f] = padded]
       /\ nFreeChunks' = left + Kept(pruned) - Kept(padded)
       /\ fileSize' = [fileSize EXCEPT ![f] = size]

(***************************************************************************)
(* yaffs_DoWriteDataToFile                                                 *)
(***************************************************************************)
Writing == Serving("write") \/ Serving("zeros")

\* The chunk is written in the cache, in entry e that now holds x.
Modify(e, x) ==
    /\ Use(e, [x EXCEPT !.dirty = TRUE, !.n = ToWriteBack, !.bytes = Overlay(@)])
    /\ jobs' = Stepped
    /\ UNCHANGED <<store, fileSize, changed, flushing, status, got, failed, requests>>

Refuse(lost) ==
    /\ jobs' = [jobs EXCEPT ![1].step = "short"]
    /\ status' = "short"
    /\ cache' = Without(lost)
    /\ UNCHANGED <<srLastUse, store, fileSize, changed, flushing, got, failed, requests>>

\* A part of a chunk that is cached.  A clean entry needs a space check.
WriteCached ==
    /\ Writing /\ More /\ ~Whole
    /\ LET e == Find(job.file, Chunk)
       IN /\ e # NoEntry
          /\ IF cache[e].dirty \/ Space(1) THEN Modify(e, cache[e]) ELSE Refuse({})

\* A part of a chunk that is not cached: an entry is found for it, after a
\* flush if there is none.
WriteUncached ==
    /\ Writing /\ More /\ ~Whole /\ Find(job.file, Chunk) = NoEntry
    /\ IF job.step = "chunk" /\ ~Space(1) THEN Refuse({})
       ELSE IF job.step = "chunk" /\ MustFlush
       THEN FlushFirst(cache[LeastUsed].object, [jobs EXCEPT ![1].step = "flushed"])
       ELSE Modify(Grabbed, Loaded(Grabbed, job.file, Chunk))

\* The entry a whole chunk was cached in, whether or not it could be written.
Overwritten == {e \in {Find(job.file, Chunk)} : e # NoEntry}

\* A whole chunk bypasses the cache.
WriteWhole ==
    /\ Writing /\ More /\ Whole
    /\ IF Space(1) /\ CanWrite
       THEN /\ Write(job.file, Chunk, Overlay(Zeros), BytesPerChunk)
            /\ cache' = Without(Overwritten)
            /\ jobs' = Stepped
            /\ UNCHANGED <<srLastUse, fileSize, changed, flushing, status, got, failed,
                           requests>>
       ELSE Refuse(Overwritten)

\* How many jobs are left, this one included, that write zeros: the first ones.
Zeroing == Cardinality({k \in DOMAIN jobs : jobs[k].kind = "zeros"})

\* The end of the loop.  Zeros that could not all be written are taken back.
WriteEnds ==
    /\ Writing /\ ~More
    /\ changed' = [changed EXCEPT ![job.file] = TRUE]
    /\ IF job.kind = "zeros" /\ job.step = "short"
       THEN /\ ResizeDown(job.file, job.was)
            /\ jobs' = SubSeq(jobs, Zeroing + 1, Len(jobs))
       ELSE /\ fileSize' = [fileSize EXCEPT ![job.file] = Larger(@, job.off + job.done)]
            /\ jobs' = Tail(jobs)
            /\ UNCHANGED store
    /\ UNCHANGED <<cache, srLastUse, flushing, status, got, failed, requests>>

(***************************************************************************)
(* yaffs_ReadDataFromFile                                                  *)
(***************************************************************************)
Return(bytes) ==
    /\ got' = got \o [k \in 1 .. Length |-> bytes[From + k]]
    /\ jobs' = Stepped
    /\ UNCHANGED <<store, fileSize, changed, flushing, status, failed, requests>>

ReadCached ==
    /\ Serving("read") /\ More
    /\ LET e == Find(job.file, Chunk)
       IN e # NoEntry /\ Use(e, cache[e]) /\ Return(cache[e].bytes)

\* The entry holds no bytes to be written back: n is 0.
ReadUncached ==
    /\ Serving("read") /\ More /\ ~Whole /\ Find(job.file, Chunk) = NoEntry
    /\ IF job.step = "chunk" /\ MustFlush
       THEN FlushFirst(cache[LeastUsed].object, [jobs EXCEPT ![1].step = "flushed"])
       ELSE LET x == Loaded(Grabbed, job.file, Chunk)
            IN Use(Grabbed, x) /\ Return(x.bytes)

ReadWhole ==
    /\ Serving("read") /\ More /\ Whole /\ Find(job.file, Chunk) = NoEntry
    /\ Return(nand[job.file][Chunk].bytes)
    /\ UNCHANGED <<cache, srLastUse>>

ReadEnds ==
    /\ Serving("read") /\ ~More
    /\ jobs' = Tail(jobs)
    /\ UNCHANGED <<cache, srLastUse, store, fileSize, changed, flushing, status, got,
                   failed, requests>>

(***************************************************************************)
(* yaffs_ResizeFile, after the file has been flushed: its entries are      *)
(* dropped and it is cut, or a hole is made.                               *)
(***************************************************************************)
Resize ==
    /\ Serving("resize")
    /\ LET f == job.file
           size == job.n
       IN /\ cache' = Without(Of(f))
          /\ IF size < fileSize[f]
             THEN /\ ResizeDown(f, size)
                  /\ changed' = [changed EXCEPT ![f] = FALSE]
                  /\ jobs' = Tail(jobs)
             ELSE /\ UNCHANGED <<store, fileSize, changed>>
                  /\ jobs' = HoleJobs(f, size) \o <<Job("extend", f, 0, size, 0)>>
                             \o Tail(jobs)
    /\ UNCHANGED <<srLastUse, flushing, status, got, failed, requests>>

\* The size is set, and the header written.
Extend ==
    /\ Serving("extend")
    /\ fileSize' = [fileSize EXCEPT ![job.file] = Larger(@, job.n)]
    /\ changed' = [changed EXCEPT ![job.file] = Dirty(job.file) # {}]
    /\ jobs' = Tail(jobs)
    /\ UNCHANGED <<cache, srLastUse, store, flushing, status, got, failed, requests>>

(***************************************************************************)
(* yaffs_FlushFile, yaffs_FlushEntireDeviceCache                           *)
(***************************************************************************)
Flush ==
    /\ Serving("flush")
    /\ FlushFirst(job.file, Tail(jobs))

\* The file of the first dirty entry is flushed, until there is none.
FlushAll ==
    /\ Serving("flushall")
    /\ LET dirty == {e \in Entries : cache[e].object # None /\ cache[e].dirty}
       IN IF dirty # {} THEN FlushFirst(cache[First(dirty)].object, jobs)
          ELSE /\ jobs' = Tail(jobs)
               /\ UNCHANGED <<cache, srLastUse, store, fileSize, changed, flushing, status,
                              got, failed, requests>>

\* A variant: the header is all there is to write.
HeaderClearsAll(f) == TRUE

\* yaffs_UpdateObjectHeader: the file stays dirty if the cache is.
HeaderClears(f) == Dirty(f) = {}

WriteHeader ==
    /\ Serving("header")
    /\ changed' = [changed EXCEPT ![job.file] = @ /\ ~HeaderClears(job.file)]
    /\ jobs' = Tail(jobs)
    /\ UNCHANGED <<cache, srLastUse, store, fileSize, flushing, status, got, failed,
                   requests>>

\* The flush is reported as done.
Synced ==
    /\ Serving("synced")
    /\ status' = "synced"
    /\ jobs' = Tail(jobs)
    /\ UNCHANGED <<cache, srLastUse, store, fileSize, changed, flushing, got, failed,
                   requests>>

(***************************************************************************)
(* The requests.                                                           *)
(***************************************************************************)
Begin(kind, list) ==
    /\ Idle /\ requests < MaxRequests /\ kind \in Requests
    /\ requests' = requests + 1
    /\ jobs' = list
    /\ status' = "ok" /\ got' = <<>>
    /\ UNCHANGED <<cache, srLastUse, store, fileSize, changed, flushing, failed>>

BeginWrite(f, w, v) ==
    Begin("write", HoleJobs(f, w[1]) \o <<Job("write", f, w[1], w[2], v)>>)

BeginRead(f, r) ==
    /\ r[1] + r[2] <= fileSize[f]
    /\ Begin("read", <<Job("read", f, r[1], r[2], 0)>>)

BeginResize(f, size) ==
    Begin("resize", <<Job("flush", f, 0, 0, 0), Job("resize", f, 0, size, 0)>>)

\* yaffs_FlushFile: nothing is done for a file that is not dirty.
BeginFlush(f, dataSync) ==
    Begin("flush",
          (IF ~changed[f] THEN <<>>
           ELSE <<Job("flush", f, 0, 0, 0)>> \o (IF dataSync THEN <<>>
                                                 ELSE <<Job("header", f, 0, 0, 0)>>))
          \o <<Job("synced", f, 0, 0, 0)>>)

BeginFlushAll(f) == Begin("sync", <<Job("flushall", f, 0, 0, 0), Job("synced", f, 0, 0, 0)>>)

\* Renaming the file or setting its attributes.
BeginHeader(f) == Begin("header", <<Job("header", f, 0, 0, 0)>>)

\* yaffs_DoGenericObjectDeletion and the truncation of what is deleted.
Remove(f) ==
    /\ Idle /\ requests < MaxRequests /\ "remove" \in Requests
    /\ requests' = requests + 1
    /\ cache' = Without(Of(f))
    /\ nand' = [nand EXCEPT ![f] = [c \in FileChunks |-> Hole]]
    /\ nFreeChunks' = nFreeChunks + Kept(nand[f])
    /\ fileSize' = [fileSize EXCEPT ![f] = 0]
    /\ changed' = [changed EXCEPT ![f] = FALSE]
    /\ status' = "ok" /\ got' = <<>>
    /\ UNCHANGED <<srLastUse, jobs, flushing, failed>>

Init ==
    /\ cache = [e \in Entries |-> Unused] /\ srLastUse = 0
    /\ nand = [f \in Files |-> [c \in FileChunks |-> Hole]]
    /\ nFreeChunks = TotalFree
    /\ fileSize = [f \in Files |-> 0] /\ changed = [f \in Files |-> FALSE]
    /\ jobs = <<>> /\ flushing = None
    /\ status = "ok" /\ got = <<>>
    /\ failed = FALSE /\ requests = 0

NextRequest ==
    \E f \in Files :
        \/ \E w \in Writes, v \in Values : BeginWrite(f, w, v)
        \/ \E r \in Reads : BeginRead(f, r)
        \/ \E size \in Sizes : BeginResize(f, size)
        \/ \E dataSync \in BOOLEAN : BeginFlush(f, dataSync)
        \/ BeginFlushAll(f)
        \/ BeginHeader(f)
        \/ Remove(f)

NextJob ==
    \/ WriteCached \/ WriteUncached \/ WriteWhole \/ WriteEnds
    \/ ReadCached \/ ReadUncached \/ ReadWhole \/ ReadEnds
    \/ Resize \/ Extend \/ Flush \/ FlushAll \/ WriteHeader \/ Synced
    \/ FlushChunk \/ FlushEnds

Next == NextRequest \/ NextJob

Spec == Init /\ [][Next]_vars

(***************************************************************************)
(* Properties.                                                             *)
(***************************************************************************)
ChunkData == [bytes : [1 .. BytesPerChunk -> Bytes], n : 0 .. BytesPerChunk]

TypeOK ==
    /\ cache \in [Entries -> [object : Files \cup {None},
                              chunk : FileChunks \cup {0}, dirty : BOOLEAN,
                              n : 0 .. BytesPerChunk, lastUse : 0 .. UseLimit + 1,
                              bytes : [1 .. BytesPerChunk -> Bytes]]]
    /\ srLastUse \in 0 .. UseLimit + 1
    /\ nand \in [Files -> [FileChunks -> ChunkData]]
    /\ fileSize \in [Files -> 0 .. MaxSize] /\ changed \in [Files -> BOOLEAN]
    /\ nFreeChunks \in 0 .. TotalFree
    /\ flushing \in Files \cup {None}
    /\ status \in {"ok", "short", "synced"}
    /\ failed \in BOOLEAN /\ requests \in 0 .. MaxRequests

\* A chunk of a file is in at most one entry: two would let a later write be
\* undone by the flush of the other copy.
OneEntryPerChunk ==
    \A f \in Files : \A d, e \in Of(f) : cache[d].chunk = cache[e].chunk => d = e

\* Bytes that were accepted into the cache always find a chunk when they are
\* flushed, whatever was written since: the reserve is larger than the cache.
CachedIsKept == ~failed

\* A cached chunk marks its file dirty, or yaffs_FlushFile would pass it by.
DirtyIsFlushed == Idle => \A f \in Files : Dirty(f) # {} => changed[f]

\* No chunk, saved or about to be, reaches past the end of its file: the scan
\* would make the file longer.  Behind the end there are only zeros: a file
\* that grows again must not show what was cut off.
NothingBehindTheEnd ==
    Idle => \A f \in Files, c \in FileChunks :
        LET start == (c - 1) * BytesPerChunk
        IN /\ nand[f][c] # Hole => start + nand[f][c].n <= fileSize[f]
           /\ \A e \in Dirty(f) : cache[e].chunk = c => start + cache[e].n <= fileSize[f]
           /\ \A k \in 1 .. BytesPerChunk : start + k > fileSize[f] => Seen(f, c)[k] = 0

\* No byte that was written lies behind the count in its chunk's tags: the scan
\* takes the size of a file whose header was not written from those counts.
CountCovers ==
    \A f \in Files, c \in FileChunks : \A k \in 1 .. BytesPerChunk :
        nand[f][c].bytes[k] # 0 => k <= nand[f][c].n

\* With the cache the files are what they would be without it.
Flat(chunks) ==
    [j \in 1 .. MaxSize |-> chunks[(j - 1) \div BytesPerChunk + 1][((j - 1) % BytesPerChunk) + 1]]
SeenBytes == [f \in Files |-> Flat([c \in FileChunks |-> Seen(f, c)])]
SavedBytes == [f \in Files |-> Flat([c \in FileChunks |-> nand[f][c].bytes])]

\* The request the jobs serve: the last of them is the one that was asked for.
\* Of a write that is refused no more is done.
Asked(j) ==
    LET sizes == j.kind \in {"resize", "extend"}
    IN [kind |-> IF sizes THEN "resize" ELSE j.kind, file |-> j.file,
        off |-> IF sizes THEN j.n ELSE j.off,
        at |-> IF sizes THEN j.n ELSE j.off + j.done,
        end |-> IF sizes THEN j.n
                ELSE IF j.step = "short" THEN j.off + j.done ELSE j.off + j.n,
        v |-> j.v, was |-> j.was]
Asking == IF jobs = <<>> THEN [kind |-> "none"] ELSE Asked(jobs[Len(jobs)])

Plain == INSTANCE BufferedFiles WITH seen <- SeenBytes, saved <- SavedBytes,
                                     len <- fileSize, request <- Asking
ImplementsFiles == Plain!Spec
=============================================================================
