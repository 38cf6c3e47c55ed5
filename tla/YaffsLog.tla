------------------------------ MODULE YaffsLog ------------------------------
(***************************************************************************)
(* The objects of a yaffs2 file system and what they leave on the NAND:    *)
(* the object layer of yaffs_guts.c, the collector's copies, and the scan  *)
(* of yaffs_yaffs2.c that rebuilds everything after power has failed.      *)
(*                                                                         *)
(* nand holds the chunks in the order they were written.  Blocks are       *)
(* allocated in the order of their sequence numbers, so chunk p is in      *)
(* block BlockOf(p), and a block that is allocated again is a new one      *)
(* here.  An erased chunk is Gone.                                         *)
(*                                                                         *)
(* The functions of the code call each other.  "calls" is the stack of     *)
(* what is still to be done, the innermost call first; each action is one  *)
(* function, or a part of it with at most one program or erase.  Power may *)
(* fail between any two.                                                   *)
(*                                                                         *)
(* Left out: directories below the root and the time stamps in directory   *)
(* headers, attributes, and the space of the device (YaffsBlocks): a write *)
(* that may not use the reserve fails when it likes, up to MaxFaults.      *)
(***************************************************************************)
EXTENDS Integers, Sequences, FiniteSets

CONSTANTS
    Ids,            \* object numbers
    Names,          \* names in the root directory
    None,           \* no object, no name
    BytesPerChunk,  \* nDataBytesPerChunk
    NChunks,        \* chunks per block
    SmallHole,      \* YAFFS_SMALL_HOLE_THRESHOLD
    CacheSize,      \* nShortOpCaches
    GcCopies,       \* the 5 chunks a leisurely collection copies
    Requests,       \* the kinds of requests made
    Writes,         \* the <<offset, length>> of the writes made
    Sizes,          \* the sizes files are set to
    GcWhenMounting, \* may the collector run before the mount has finished?
    CrashWhenMoving,\* may power fail while a file takes the name of its link?
    CopyWhenWriting,\* may the collector copy the header of a file between two
                    \* chunks of a write to it?
    MaxRequests,    \* bound: how many requests are made
    MaxCrashes,     \* bound: how often power fails
    MaxFaults       \* bound: how many writes find the device full

ASSUME LogAssumption ==
    /\ BytesPerChunk \in Nat \ {0} /\ NChunks \in Nat \ {0}
    /\ SmallHole \in Nat /\ CacheSize \in Nat /\ GcCopies \in Nat \ {0}
    /\ None \notin Ids \cup Names
    /\ Writes \subseteq Nat \X (Nat \ {0}) /\ Sizes \subseteq Nat
    /\ {GcWhenMounting, CrashWhenMoving, CopyWhenWriting} \subseteq BOOLEAN
    /\ MaxRequests \in Nat /\ MaxCrashes \in Nat /\ MaxFaults \in Nat

VARIABLES
    nand,           \* the chunks, in the order they were written
    obj,            \* yaffs_Object
    inUse,          \* the chunks whose bit is set in the chunk bitmap
    shrinkBlocks,   \* the blocks with hasShrinkHeader
    gcBlock, gcChunk, gcDirtiest, gcDisable,
    calls,          \* the functions to be done, innermost first
    req,            \* the request in service
    found,          \* history: what a mount would find now
    cutAt,          \* history: when each byte of an object was last cut off
    torn,           \* history: the files whose last write or truncation was
                    \* cut short by a power failure or by a full device
    requests, crashes, faults

device == <<nand, found, inUse, shrinkBlocks>>
gcVars == <<gcBlock, gcChunk, gcDirtiest>>
bounds == <<requests, crashes, faults>>
history == <<cutAt, torn>>
vars == <<device, obj, gcVars, gcDisable, calls, req, history, bounds>>

NoBlock == -1
Larger(a, b) == IF a > b THEN a ELSE b
Smaller(a, b) == IF a < b THEN a ELSE b
Ends == {w[1] + w[2] : w \in Writes} \cup Sizes \cup {1}
MaxSize == CHOOSE m \in Ends : \A e \in Ends : e <= m
MaxChunk == (MaxSize + BytesPerChunk - 1) \div BytesPerChunk
FileChunk == 1 .. MaxChunk
Zeros == [k \in 1 .. BytesPerChunk |-> 0]
NotCached == [bytes |-> Zeros, n |-> 0]
NoReq == [kind |-> "none"]

(***************************************************************************)
(* What is on the NAND.                                                    *)
(***************************************************************************)
Gone == [kind |-> "gone"]
Blank == [kind |-> "blank"]     \* skipped, or torn by a power failure

BlockOf(p) == (p - 1) \div NChunks
PagesOf(b) == (b * NChunks + 1) .. ((b + 1) * NChunks)
Blocks == 0 .. (Len(nand) - 1) \div NChunks
Full(b) == (b + 1) * NChunks <= Len(nand)
Erased(b) == nand[b * NChunks + 1] = Gone
InUseOf(b) == inUse \cap PagesOf(b)
Erase(n, b) == [p \in 1 .. Len(n) |-> IF BlockOf(p) = b THEN Gone ELSE n[p]]

(***************************************************************************)
(* Objects.                                                                *)
(***************************************************************************)
Parents == {"none", "root", "unlinked", "deleted", "lost"}
Free == [kind |-> "free", parent |-> "none", name |-> None, size |-> 0,
         tn |-> [c \in FileChunk |-> 0], hdr |-> 0, eq |-> None,
         dirty |-> FALSE, shadowed |-> FALSE, opened |-> FALSE,
         cache |-> [c \in FileChunk |-> NotCached]]
New(kind, name, eq) ==
    [Free EXCEPT !.kind = kind, !.parent = "root", !.name = name, !.eq = eq,
                 !.dirty = TRUE]

Live(i) == obj[i].kind # "free"
Named(n) == {i \in Ids : obj[i].parent = "root" /\ obj[i].name = n}
Cached(i) == {c \in FileChunk : obj[i].cache[c] # NotCached}
CacheFull == CacheSize <= Cardinality({ic \in Ids \X FileChunk :
                                           ic[2] \in Cached(ic[1])})
\* The hard links that are in the list of object i.
Links(i) == {h \in Ids : obj[h].kind = "link" /\ obj[h].parent = "root"
                         /\ obj[h].eq = i}

\* yaffs_ReadChunkDataFromObject: a hole reads as zeros.
ChunkBytes(n, o, c) == IF o.tn[c] = 0 THEN Zeros ELSE n[o.tn[c]].bytes
FileBytes(n, o) ==
    [j \in 1 .. o.size |->
        LET c == (j - 1) \div BytesPerChunk + 1
            k == ((j - 1) % BytesPerChunk) + 1
        IN IF o.cache[c] # NotCached THEN o.cache[c].bytes[k]
           ELSE ChunkBytes(n, o, c)[k]]

(***************************************************************************)
(* The scan.  It reads the chunks from the newest to the oldest; s is what *)
(* it has gathered: per object, whether a header was seen (valid), what    *)
(* later truncations leave of older data (shrinkSize) and how far the data *)
(* seen before any header reaches (scanned).                               *)
(***************************************************************************)
NotSeen == [obj |-> Free, valid |-> FALSE, shrinkSize |-> MaxSize + 1,
            scanned |-> 0]

\* yaffs_FindOrCreateObjectByNumber
Seen(e, kind) ==
    IF e.obj.kind = "free" THEN [e EXCEPT !.obj.kind = kind] ELSE e

\* A variant: the last copy of a chunk that is read is kept, the oldest.
ScanDataOldest(p, c, s) ==
    [s EXCEPT !.objs[c.id] = [Seen(@, "file") EXCEPT !.obj.tn[c.chunk] = p],
              !.used = @ \cup {p}]

\* A data chunk: kept unless a truncation cut it off or a newer one was seen.
ScanData(p, c, s) ==
    LET e == Seen(s.objs[c.id], "file")
        start == (c.chunk - 1) * BytesPerChunk
        kept == e.obj.kind = "file" /\ start < e.shrinkSize
        used == kept /\ e.obj.tn[c.chunk] = 0
        reach == start + c.n
        grown == IF kept /\ ~e.valid /\ e.scanned < reach
                 THEN [e EXCEPT !.scanned = reach, !.obj.size = reach] ELSE e
    IN [s EXCEPT !.objs[c.id] = IF used
                                THEN [grown EXCEPT !.obj.tn[c.chunk] = p]
                                ELSE grown,
                 !.used = IF used THEN @ \cup {p} ELSE @]

\* A variant: shadowing is not looked at.
ShadowIgnored(s, t) == s

\* yaffs_HandleShadowedObject: unless something newer of it was seen, the
\* shadowed object is to be deleted.
Shadow(s, t) ==
    IF t = None \/ s.objs[t].obj.kind # "free" THEN s
    ELSE [s EXCEPT !.objs[t] =
             [obj |-> [Free EXCEPT !.kind = "file", !.parent = "unlinked",
                                   !.shadowed = TRUE],
              valid |-> TRUE, shrinkSize |-> 0, scanned |-> 0]]

\* The first header of an object that is met, its newest.
ScanNewest(p, c, s) ==
    LET e == Seen(s.objs[c.id], c.type)
        size == IF c.type = "file" /\ e.scanned < c.size
                THEN c.size ELSE e.obj.size
    IN Shadow([s EXCEPT
        !.objs[c.id] =
            [obj |-> [e.obj EXCEPT !.kind = c.type, !.parent = c.parent,
                                   !.name = c.name, !.eq = c.eq, !.hdr = p,
                                   !.size = size],
             valid |-> TRUE,
             shrinkSize |-> IF c.type = "file"
                            THEN Smaller(e.shrinkSize, c.size)
                            ELSE e.shrinkSize,
             scanned |-> size],
        !.used = @ \cup {p},
        !.shrinks = IF c.shrink THEN @ \cup {BlockOf(p)} ELSE @], c.shadows)

\* An older header says only how far the file had been cut.
ScanOlder(p, c, s) ==
    LET e == s.objs[c.id]
        removed == c.parent \in {"deleted", "unlinked"}
        cuts == e.obj.kind = "file" /\ c.type = "file" /\ (removed \/ c.shrink)
        size == IF removed THEN 0 ELSE c.size
    IN IF ~cuts THEN s
       ELSE [s EXCEPT !.objs[c.id].shrinkSize = Smaller(@, size),
                      !.shrinks = @ \cup {BlockOf(p)}]

ScanChunk(n, p, s) ==
    LET c == n[p] IN
    CASE c.kind = "data" -> ScanData(p, c, s)
      [] c.kind = "header" /\ s.objs[c.id].valid -> ScanOlder(p, c, s)
      [] c.kind = "header" /\ ~s.objs[c.id].valid -> ScanNewest(p, c, s)
      [] OTHER -> s

\* yaffs2_ScanBackwards
Scan(n) ==
    LET after[p \in 1 .. Len(n) + 1] ==
            IF p > Len(n)
            THEN [objs |-> [i \in Ids |-> NotSeen], used |-> {}, shrinks |-> {}]
            ELSE ScanChunk(n, p, after[p + 1])
    IN after[1]

\* What the names lead to: for each name the file it means (None when there
\* is none, Ids when two objects claim it) and for each file its bytes.
Target(o, i) == IF o[i].kind = "link" THEN o[i].eq ELSE i
Dir(o) ==
    [m \in Names |->
        LET claims == {i \in Ids : o[i].parent = "root" /\ o[i].name = m}
            files == {Target(o, i) : i \in claims}
        IN IF claims = {} THEN None
           ELSE IF Cardinality(files) = 1 THEN CHOOSE f \in files : TRUE
           ELSE Ids]
Data(n, o) ==
    [i \in Ids |-> IF \E m \in Names : Dir(o)[m] = i
                   THEN FileBytes(n, o[i]) ELSE <<>>]
Found(n) ==
    LET s == Scan(n)
        o == [i \in Ids |-> s.objs[i].obj]
    IN [obj |-> o, dir |-> Dir(o), data |-> Data(n, o)]

(***************************************************************************)
(* The stack of calls.                                                     *)
(***************************************************************************)
Is(f) == calls # <<>> /\ Head(calls).fn = f
Top == Head(calls)
Return == calls' = Tail(calls)
Do(s) == calls' = s \o Tail(calls)

Call(f, i) == [fn |-> f, id |-> i]
Gc == [fn |-> "gc"]
\* yaffs_UpdateObjectHeader; "fail" is what its caller does when it fails.
Header(i, shrink, shadows, fail) ==
    <<Gc, [fn |-> "header", id |-> i, shrink |-> shrink, shadows |-> shadows,
           fail |-> fail]>>
\* yaffs_WriteChunkDataToObject
WriteChunk(i, c, bytes, n, reserve) ==
    <<Gc, [fn |-> "data", id |-> i, chunk |-> c, bytes |-> bytes, n |-> n,
           reserve |-> reserve]>>
Rename(i, parent, name, shadows, force) ==
    [fn |-> "rename", id |-> i, parent |-> parent, name |-> name,
     shadows |-> shadows, force |-> force]
DoWrite(i, off, end, v) ==
    [fn |-> "write", id |-> i, off |-> off, pos |-> off, end |-> end, v |-> v]
HandleHole(i, size) == [fn |-> "hole", id |-> i, size |-> size]
Resize(i, size) == [fn |-> "resize", id |-> i, size |-> size]
ResizeDown(i, size) ==
    <<[fn |-> "prune", id |-> i,
       chunk |-> 1 + (obj[i].size - 1) \div BytesPerChunk,
       stop |-> 1 + (size + BytesPerChunk - 1) \div BytesPerChunk],
      [fn |-> "rewrite", id |-> i, size |-> size]>>
\* yaffs_ResizeFile flushes and collects before it looks at the size.
ResizeFile(i, size) == <<Call("flush", i), Gc, Resize(i, size)>>
\* yaffs_DeleteFile for a file, yaffs_DeleteHardLink for a link.
DeleteObject(i) ==
    (IF obj[i].kind = "file" THEN ResizeFile(i, 0) ELSE <<>>)
        \o <<Call("deletion", i)>>

(***************************************************************************)
(* Chunks and blocks.                                                      *)
(***************************************************************************)
WriteNand(n) == nand' = n /\ found' = Found(n)

Forget(b) ==
    /\ gcBlock' = IF gcBlock = b THEN NoBlock ELSE gcBlock
    /\ gcDirtiest' = IF gcDirtiest = b THEN NoBlock ELSE gcDirtiest
    /\ UNCHANGED gcChunk

\* yaffs_DeleteChunk, and yaffs_BlockBecameDirty when nothing is left that
\* keeps the block.
DeleteChunk(p) ==
    LET b == BlockOf(p)
    IN /\ inUse' = inUse \ {p}
       /\ IF p # 0 /\ Full(b) /\ InUseOf(b) \ {p} = {} /\ b \notin shrinkBlocks
          THEN WriteNand(Erase(nand, b)) /\ Forget(b)
          ELSE UNCHANGED <<nand, found, gcVars>>

Drop ==
    /\ Is("drop")
    /\ DeleteChunk(Top.chunk)
    /\ shrinkBlocks' = shrinkBlocks \cup Top.mark
    /\ Return
    /\ UNCHANGED <<obj, gcDisable, req, history, bounds>>

Append1(c) == WriteNand(Append(nand, c))
NewChunk == Len(nand) + 1
DropThen(p, mark, rest) ==
    Do(<<[fn |-> "drop", chunk |-> p, mark |-> mark]>> \o rest)

\* The header that describes object i now.
HeaderOf(i, shrink, shadows) ==
    LET o == obj[i]
    IN [kind |-> "header", id |-> i, type |-> o.kind, parent |-> o.parent,
        name |-> o.name, shrink |-> shrink, shadows |-> shadows, eq |-> o.eq,
        size |-> IF o.parent \in {"deleted", "unlinked"} THEN 0 ELSE o.size]

\* yaffs_UpdateObjectHeader, after its collection.
UpdateObjectHeader ==
    /\ Is("header")
    /\ LET i == Top.id IN
       /\ Append1(HeaderOf(i, Top.shrink, Top.shadows))
       /\ inUse' = inUse \cup {NewChunk}
       /\ obj' = [obj EXCEPT ![i].hdr = NewChunk,
                             ![i].dirty = Cached(i) # {}]
       /\ DropThen(obj[i].hdr,
                   IF Top.shrink THEN {BlockOf(NewChunk)} ELSE {}, <<>>)
       /\ torn' = torn \ {i}
    /\ UNCHANGED <<shrinkBlocks, gcVars, gcDisable, req, cutAt, bounds>>

\* yaffs_WriteChunkDataToObject, after its collection.  Whoever calls it gives
\* up the cached copy of the chunk afterwards.
WriteChunkData ==
    /\ Is("data")
    /\ LET i == Top.id
           c == Top.chunk
       IN /\ Append1([kind |-> "data", id |-> i, chunk |-> c,
                      bytes |-> Top.bytes, n |-> Top.n])
          /\ inUse' = inUse \cup {NewChunk}
          /\ obj' = [obj EXCEPT ![i].tn[c] = NewChunk, ![i].cache[c] = NotCached]
          /\ DropThen(obj[i].tn[c], {}, <<>>)
    /\ UNCHANGED <<shrinkBlocks, gcVars, gcDisable, req, history, bounds>>

\* The device is full: the first header of an object, or the data a request
\* writes, may not use the reserve.
NoSpaceForHeader ==
    /\ Is("header") /\ obj[Top.id].hdr = 0 /\ faults < MaxFaults
    /\ Do(Top.fail)
    /\ faults' = faults + 1
    /\ UNCHANGED <<device, obj, gcVars, gcDisable, req, history, requests,
                   crashes>>

NoSpaceForData ==
    /\ Is("data") /\ ~Top.reserve /\ faults < MaxFaults
    /\ LET w == calls[2]
           upto == Larger(w.off, (Top.chunk - 1) * BytesPerChunk)
       IN calls' = <<[w EXCEPT !.pos = upto, !.end = upto]>>
                       \o SubSeq(calls, 3, Len(calls))
    /\ obj' = [obj EXCEPT ![Top.id].cache[Top.chunk] = NotCached]
    /\ torn' = torn \cup {Top.id}
    /\ faults' = faults + 1
    /\ UNCHANGED <<device, gcVars, gcDisable, req, cutAt, requests,
                   crashes>>

(***************************************************************************)
(* The collector, as far as it moves chunks of the log.                    *)
(***************************************************************************)
\* The blocks with discarded chunks (yaffs2_CalcOldestDirtySequence).
DirtyBlocks == {b \in Blocks : Full(b) /\ ~Erased(b)
                               /\ Cardinality(InUseOf(b)) < NChunks}

\* A variant: shrink headers do not wait for the chunks they guard.
NeverDisqualified(b) == TRUE

\* yaffs2_BlockNotDisqualifiedFromGC
NotDisqualified(b) ==
    b \in shrinkBlocks => \A d \in DirtyBlocks : d >= b

Collectable == {b \in DirtyBlocks : NotDisqualified(b)}
MayCollect == ~gcDisable /\ (req.kind = "mount" => GcWhenMounting)

\* yaffs_CheckGarbageCollection has nothing to do or can wait.
GcSkip ==
    /\ Is("gc") /\ Return
    /\ UNCHANGED <<device, obj, gcVars, gcDisable, req, history, bounds>>

\* It only notes the best candidate so far.
GcNote ==
    /\ Is("gc") /\ MayCollect /\ gcBlock = NoBlock
    /\ \E b \in Collectable \ {gcDirtiest} : gcDirtiest' = b
    /\ Return
    /\ UNCHANGED <<device, obj, gcBlock, gcChunk, gcDisable, req, history, bounds>>

\* It selects a block, or goes on with the one it holds.
GcBegin ==
    /\ Is("gc") /\ MayCollect
    /\ \E b \in IF gcBlock # NoBlock THEN {gcBlock}
                ELSE Collectable \cup ({gcDirtiest} \ {NoBlock}) :
       /\ shrinkBlocks' = shrinkBlocks \ {b}
       /\ gcChunk' = IF gcBlock = NoBlock THEN 0 ELSE gcChunk
       /\ gcDirtiest' = IF gcBlock = NoBlock THEN NoBlock ELSE gcDirtiest
       /\ IF InUseOf(b) = {}
          THEN WriteNand(Erase(nand, b)) /\ gcBlock' = NoBlock /\ Return
          ELSE /\ gcBlock' = b
               /\ Do(<<[fn |-> "collect", left |-> GcCopies]>>)
               /\ UNCHANGED <<nand, found>>
    /\ UNCHANGED <<obj, inUse, gcDisable, req, history, bounds>>

\* A header that is copied while its file is being written gives the size the
\* file had before.
MayCopy(c) ==
    \/ CopyWhenWriting \/ c.kind # "header"
    \/ ~ \E k \in DOMAIN calls : calls[k].fn = "write" /\ calls[k].id = c.id

ToCollect == {p \in InUseOf(gcBlock) : p > gcBlock * NChunks + gcChunk}

\* A variant: the copy of a header keeps its shrink mark.
CopyKept(p) == nand[p]

\* What the collector writes for chunk p: a header loses its shrink mark and
\* its shadow, and gives the size the file has now.
CopyOf(p) ==
    LET c == nand[p]
    IN IF c.kind = "data" THEN c
       ELSE [c EXCEPT !.shrink = FALSE, !.shadows = None,
                      !.size = IF c.type = "file" THEN obj[c.id].size ELSE @]

GcCopy ==
    /\ Is("collect") /\ gcBlock # NoBlock /\ Top.left > 0 /\ ToCollect # {}
    /\ LET p == CHOOSE q \in ToCollect : \A r \in ToCollect : q <= r
           c == nand[p]
       IN /\ MayCopy(c)
          /\ Append1(CopyOf(p))
          /\ inUse' = inUse \cup {NewChunk}
          /\ obj' = IF c.kind = "header"
                    THEN [obj EXCEPT ![c.id].hdr = NewChunk]
                    ELSE [obj EXCEPT ![c.id].tn[c.chunk] = NewChunk]
          /\ gcChunk' = p - gcBlock * NChunks
          /\ DropThen(p, {}, <<[Top EXCEPT !.left = @ - 1]>>)
    /\ UNCHANGED <<shrinkBlocks, gcBlock, gcDirtiest, gcDisable, req, history,
                   bounds>>

GcEnd ==
    /\ Is("collect")
    /\ gcBlock = NoBlock \/ Top.left = 0 \/ ToCollect = {}
    /\ Return
    /\ UNCHANGED <<device, obj, gcVars, gcDisable, req, history, bounds>>

(***************************************************************************)
(* Files.                                                                  *)
(***************************************************************************)
Quiet == UNCHANGED <<device, gcVars, gcDisable, req, history, bounds>>

\* yaffs_FlushFilesChunkCache: the dirty chunk with the lowest number first.
FlushFilesChunkCache ==
    /\ Is("flush")
    /\ LET i == Top.id
           c == CHOOSE d \in Cached(i) : \A e \in Cached(i) : d <= e
       IN IF Cached(i) = {} THEN Return
          ELSE calls' = WriteChunk(i, c, obj[i].cache[c].bytes, obj[i].cache[c].n, TRUE)
                            \o calls
    /\ Quiet /\ UNCHANGED obj

Overlay(old, start, n, v) ==
    [k \in 1 .. BytesPerChunk |-> IF k > start /\ k <= start + n
                                  THEN v ELSE old[k]]

\* yaffs_DoWriteDataToFile, one chunk at a time: whole chunks and, without a
\* cache, parts of one go to the NAND, other parts to the cache.
DoWriteData ==
    /\ Is("write") /\ Top.pos < Top.end
    /\ LET i == Top.id
           o == obj[i]
           c == Top.pos \div BytesPerChunk + 1
           start == Top.pos % BytesPerChunk
           n == Smaller(Top.end - Top.pos, BytesPerChunk - start)
           held == Smaller(Larger(o.size - (c - 1) * BytesPerChunk, 0),
                           BytesPerChunk)
           old == IF c \in Cached(i) THEN o.cache[c].bytes
                  ELSE ChunkBytes(nand, o, c)
           new == Overlay(old, start, n, Top.v)
           back == Larger(held, start + n)
           rest == <<[Top EXCEPT !.pos = @ + n]>>
       IN IF n = BytesPerChunk \/ CacheSize = 0
          THEN /\ Do(WriteChunk(i, c, new, back, FALSE) \o rest)
               /\ UNCHANGED obj
          ELSE IF c \in Cached(i) \/ ~CacheFull
          THEN /\ obj' = [obj EXCEPT ![i].cache[c] = [bytes |-> new, n |-> back]]
               /\ Do(rest)
          ELSE \E j \in {k \in Ids : Cached(k) # {}} :   \* yaffs_GrabChunkCache
                  calls' = <<Call("flush", j)>> \o calls /\ UNCHANGED obj
    /\ Quiet

\* A variant: what was written is added to the size.
DoWriteDataAdds ==
    /\ Is("write") /\ Top.pos = Top.end
    /\ obj' = [obj EXCEPT ![Top.id].size = @ + Top.end, ![Top.id].dirty = TRUE]
    /\ Return
    /\ Quiet

DoWriteDataEnds ==
    /\ Is("write") /\ Top.pos = Top.end
    /\ obj' = [obj EXCEPT ![Top.id].size = Larger(@, Top.end),
                          ![Top.id].dirty = TRUE]
    /\ Return
    /\ Quiet

\* A variant: a large hole leaves no mark on the NAND.
HoleUnmarked(i, fill) == <<>>

\* What marks the start of a hole: zeros if it is small and there is space, or
\* else a shrink header with the size the file has so far.
HoleMark(i, fill) ==
    IF fill # <<>> THEN fill
    ELSE IF obj[i].parent \in {"unlinked", "deleted"} THEN <<>>
    ELSE Header(i, TRUE, None, <<>>)

\* yaffs2_HandleHole
HandleTheHole ==
    /\ Is("hole")
    /\ LET i == Top.id
           old == obj[i].size
           increase == Top.size - old
           zeros == <<DoWrite(i, old, Top.size, 0),
                      [fn |-> "filled", id |-> i, size |-> Top.size, old |-> old]>>
       IN IF increase <= 0 THEN Return
          ELSE \/ Do(HoleMark(i, <<>>))
               \/ increase < SmallHole * BytesPerChunk /\ Do(HoleMark(i, zeros))
    /\ Quiet /\ UNCHANGED obj

\* The zeros did not all fit: what was added is taken back.
HoleFilled ==
    /\ Is("filled")
    /\ IF obj[Top.id].size >= Top.size THEN Return /\ UNCHANGED obj
       ELSE /\ obj' = [obj EXCEPT ![Top.id].size = Top.old]
            /\ Do(ResizeDown(Top.id, Top.old) \o HoleMark(Top.id, <<>>))
    /\ Quiet

\* yaffs_ResizeFile
ResizeTheFile ==
    /\ Is("resize")
    /\ LET i == Top.id
           done == [fn |-> "resized", id |-> i, size |-> Top.size]
       IN CASE Top.size = obj[i].size -> Return
            [] Top.size > obj[i].size -> Do(<<HandleHole(i, Top.size), done>>)
            [] OTHER -> Do(Append(ResizeDown(i, Top.size), done))
    /\ Quiet /\ UNCHANGED obj

\* A variant: the tnode keeps what was pruned.
PruneKeepsTnode ==
    /\ Is("prune") /\ Top.chunk >= Top.stop
    /\ DeleteChunk(obj[Top.id].tn[Top.chunk])
    /\ Do(<<[Top EXCEPT !.chunk = @ - 1]>>)
    /\ UNCHANGED <<shrinkBlocks, obj, gcDisable, req, history, bounds>>

\* yaffs_PruneResizedChunks, one chunk at a time, the last one first.
PruneChunk ==
    /\ Is("prune") /\ Top.chunk >= Top.stop
    /\ LET i == Top.id
           c == Top.chunk
       IN /\ DeleteChunk(obj[i].tn[c])
          /\ obj' = [obj EXCEPT ![i].tn[c] = 0]
          /\ Do(<<[Top EXCEPT !.chunk = c - 1]>>)
    /\ UNCHANGED <<shrinkBlocks, gcDisable, req, history, bounds>>

PruneEnds ==
    /\ Is("prune") /\ Top.chunk < Top.stop /\ Return
    /\ Quiet /\ UNCHANGED obj

\* The rest of yaffs_ResizeDown: the last chunk is written again, cut to size.
RewriteLastChunk ==
    /\ Is("rewrite")
    /\ LET i == Top.id
           n == Top.size % BytesPerChunk
           c == 1 + Top.size \div BytesPerChunk
           old == ChunkBytes(nand, obj[i], c)
       IN IF n = 0 THEN Return
          ELSE Do(WriteChunk(i, c, Overlay(old, n, BytesPerChunk, 0), n, TRUE))
    /\ Quiet /\ UNCHANGED obj

\* The end of yaffs_ResizeFile: a header with the new size.
Resized ==
    /\ Is("resized")
    /\ obj' = [obj EXCEPT ![Top.id].size = Top.size]
    /\ IF obj[Top.id].parent = "root" /\ ~obj[Top.id].shadowed
       THEN Do(Header(Top.id, FALSE, None, <<>>)) ELSE Return
    /\ Quiet

(***************************************************************************)
(* Names, links and deletion.                                              *)
(***************************************************************************)
\* yaffs_ChangeObjectName.  A deletion is marked as a shrink.  A name that is
\* taken is refused to a file that would get the name of a link; the caller
\* then leaves the link alone.
ChangeObjectName ==
    /\ Is("rename")
    /\ LET i == Top.id
       IN IF Top.parent = "root" /\ Named(Top.name) \ {i} # {}
             /\ Top.shadows = None /\ ~Top.force
          THEN calls' = SubSeq(calls, 3, Len(calls)) /\ UNCHANGED obj
          ELSE /\ obj' = [obj EXCEPT ![i].parent = Top.parent,
                                     ![i].name = Top.name, ![i].dirty = TRUE]
               /\ Do(Header(i, Top.parent = "deleted", Top.shadows, <<>>))
    /\ Quiet

\* yaffs_DoGenericObjectDeletion: the record that it is deleted, then the end.
GenericDeletion ==
    /\ Is("deletion")
    /\ LET i == Top.id IN
       /\ obj' = [obj EXCEPT ![i].cache = Free.cache]
       /\ Do((IF obj[i].parent = "deleted" THEN <<>>
              ELSE <<Rename(i, "deleted", None, None, FALSE)>>) \o <<Call("free", i)>>)
    /\ Quiet

FreeObject ==
    /\ Is("free")
    /\ DeleteChunk(obj[Top.id].hdr)
    /\ obj' = [obj EXCEPT ![Top.id] = Free]
    /\ Return
    /\ UNCHANGED <<shrinkBlocks, gcDisable, req, history, bounds>>

\* yaffs_UnlinkWorker
Unlink ==
    /\ Is("unlink")
    /\ LET i == Top.id IN
       IF obj[i].kind = "link" THEN Do(<<Call("deletion", i)>>) /\ UNCHANGED obj
       ELSE IF Links(i) # {}
       THEN \E h \in Links(i) :     \* the file takes the name of a link
            /\ obj' = [obj EXCEPT ![h].parent = "unlinked"]
            /\ Do(<<Rename(i, "root", obj[h].name, None, FALSE), Call("deletion", h)>>)
       ELSE IF obj[i].opened
       THEN Do(<<Rename(i, "unlinked", None, None, FALSE)>>) /\ UNCHANGED obj
       ELSE Do(DeleteObject(i)) /\ UNCHANGED obj
    /\ Quiet

\* In yaffs_RenameObject: the target of a rename, once the shadow header is
\* written, is unlinked; then the collector may run again.
UnlinkShadowed ==
    /\ Is("shadowed")
    /\ obj' = [obj EXCEPT ![Top.id].shadowed = TRUE]
    /\ Do(<<Call("unlink", Top.id)>>)
    /\ Quiet

EnableGc ==
    /\ Is("enablegc") /\ gcDisable' = FALSE /\ Return
    /\ UNCHANGED <<device, obj, gcVars, req, history, bounds>>

(***************************************************************************)
(* Power failure and mount.                                                *)
(***************************************************************************)
RoundedUp(n) == ((n + NChunks - 1) \div NChunks) * NChunks
\* yaffs_SkipRestOfBlock, at the end of the scan.
Padded(n) == n \o [k \in 1 .. RoundedUp(Len(n)) - Len(n) |-> Blank]
\* The block the scan takes for the one being allocated from.
AllocatingBlock(n) ==
    LET written == {b \in 0 .. (Len(n) \div NChunks) - 1 :
                        n[b * NChunks + 1] # Gone}
    IN {b \in written : /\ \A c \in written : c <= b
                        /\ n[(b + 1) * NChunks] = Blank}
\* The blocks the scan erases, the newest first.
Useless(n, s) ==
    {b \in 0 .. (Len(n) \div NChunks) - 1 :
        /\ n[b * NChunks + 1] # Gone
        /\ \A p \in PagesOf(b) : p \notin s.used
        /\ b \notin s.shrinks
        /\ b \notin AllocatingBlock(n)}

EraseCalls(S) == [k \in 1 .. Cardinality(S) |->
    [fn |-> "erase",
     block |-> CHOOSE b \in S : Cardinality({c \in S : c > b}) = k - 1]]

InService == CASE req.kind \in {"write", "truncate"} -> {req.id}
               [] req.kind = "unlink" -> {found.dir[req.name]} \cap Ids
               [] OTHER -> {}
Moving == req.kind \in {"unlink", "rename"} /\ req.linked

Crash ==
    /\ crashes < MaxCrashes
    /\ CrashWhenMoving \/ ~Moving
    /\ crashes' = crashes + 1
    /\ LET n == Padded(nand)
           s == Scan(n)
       IN /\ WriteNand(n)
          /\ obj' = [i \in Ids |-> s.objs[i].obj]
          /\ inUse' = s.used
          /\ shrinkBlocks' = s.shrinks
          /\ calls' = EraseCalls(Useless(n, s)) \o <<[fn |-> "strip"]>>
    /\ gcBlock' = NoBlock /\ gcChunk' = 0 /\ gcDirtiest' = NoBlock
    /\ gcDisable' = FALSE
    /\ req' = [kind |-> "mount"]
    /\ torn' = torn \cup InService
    /\ UNCHANGED <<cutAt, requests, faults>>

\* The scan erases a block it found nothing in.
ScanErases ==
    /\ Is("erase")
    /\ WriteNand(Erase(nand, Top.block))
    /\ Return
    /\ UNCHANGED <<inUse, shrinkBlocks, obj, gcVars, gcDisable, req, history, bounds>>

\* yaffs_StripDeletedObjects: the unlinked objects, then the deleted ones.
StripDeletedObjects ==
    /\ Is("strip")
    /\ LET unlinked == {i \in Ids : obj[i].parent = "unlinked"}
           deleted == {i \in Ids : obj[i].parent = "deleted"}
       IN \/ \E i \in IF unlinked # {} THEN unlinked ELSE deleted :
                calls' = DeleteObject(i) \o calls
          \/ unlinked \cup deleted = {} /\ Do(<<[fn |-> "hanging"]>>)
    /\ Quiet /\ UNCHANGED obj

\* yaffs_FixHangingObjects: what has no parent goes to lost+found.
FixHangingObjects ==
    /\ Is("hanging")
    /\ obj' = [i \in Ids |-> IF Live(i) /\ obj[i].parent = "none"
                             THEN [obj[i] EXCEPT !.parent = "lost"] ELSE obj[i]]
    /\ Return
    /\ Quiet

(***************************************************************************)
(* Requests.                                                               *)
(***************************************************************************)
Begin(r, todo) ==
    /\ calls = <<>> /\ req = NoReq /\ r.kind \in Requests
    /\ requests < MaxRequests
    /\ requests' = requests + 1
    /\ req' = r
    /\ calls' = todo
    /\ UNCHANGED <<device, gcVars, torn, crashes, faults>>

Files == {i \in Ids : obj[i].kind = "file"
                      /\ (obj[i].parent = "root" \/ obj[i].opened)}
Entries == {i \in Ids : obj[i].parent = "root"}
Stamp == requests + 1       \* what a request writes; its number

\* yaffs_MknodObject.  Nothing an earlier owner of the number wrote may show.
Create(n, i) ==
    /\ Named(n) = {} /\ ~Live(i)
    /\ Begin([kind |-> "create", name |-> n, id |-> i],
             Header(i, FALSE, None, DeleteObject(i)))
    /\ obj' = [obj EXCEPT ![i] = New("file", n, None)]
    /\ cutAt' = [cutAt EXCEPT ![i] = [j \in 1 .. MaxSize |-> Stamp]]
    /\ UNCHANGED gcDisable

\* yaffs_Link
Link(n, i, h) ==
    /\ Named(n) = {} /\ ~Live(h) /\ i # h
    /\ obj[i].kind = "file" /\ obj[i].parent = "root"
    /\ Begin([kind |-> "link", name |-> n, id |-> i],
             Header(h, FALSE, None, <<Call("deletion", h)>>))
    /\ obj' = [obj EXCEPT ![h] = New("link", n, i)]
    /\ UNCHANGED <<cutAt, gcDisable>>

\* yaffs_WriteDataToFile
Write(i, w) ==
    /\ i \in Files
    /\ Begin([kind |-> "write", id |-> i, off |-> w[1], end |-> w[1] + w[2],
              v |-> Stamp, was |-> obj[i].size],
             <<HandleHole(i, w[1]), DoWrite(i, w[1], w[1] + w[2], Stamp)>>)
    /\ UNCHANGED <<obj, cutAt, gcDisable>>

\* yaffs_ResizeFile, for setattr
Truncate(i, size) ==
    /\ i \in Files /\ obj[i].size # size
    /\ Begin([kind |-> "truncate", id |-> i, size |-> size, was |-> obj[i].size],
             ResizeFile(i, size))
    /\ UNCHANGED <<obj, cutAt, gcDisable>>

\* yaffs_FlushFile
Flush(i) ==
    /\ i \in Files /\ obj[i].dirty
    /\ Begin([kind |-> "flush"],
             <<Call("flush", i)>> \o Header(i, FALSE, None, <<>>))
    /\ UNCHANGED <<obj, cutAt, gcDisable>>

\* yaffs_SetAttributes: a header, whatever is in the cache.
SetAttributes(i) ==
    /\ i \in Files
    /\ Begin([kind |-> "setattr"], Header(i, FALSE, None, <<>>))
    /\ UNCHANGED <<obj, cutAt, gcDisable>>

\* yaffs_Unlink
UnlinkName(i) ==
    /\ i \in Entries
    /\ Begin([kind |-> "unlink", name |-> obj[i].name, was |-> obj[i].size,
              linked |-> Links(i) # {}], <<Call("unlink", i)>>)
    /\ UNCHANGED <<obj, cutAt, gcDisable>>

\* yaffs_RenameObject: the target is shadowed first, without collections.
RenameName(i, n) ==
    /\ i \in Entries /\ obj[i].name # n
    /\ \A t \in Named(n) : Target(obj, t) # Target(obj, i)
    /\ LET plain == <<Rename(i, "root", n, None, TRUE)>>
           over(t) == <<Rename(i, "root", n, t, FALSE), Call("shadowed", t),
                        [fn |-> "enablegc"]>>
           r == [kind |-> "rename", from |-> obj[i].name, to |-> n,
              linked |-> \E t \in Named(n) : Links(t) # {}]
       IN IF Named(n) = {} THEN Begin(r, plain) /\ UNCHANGED gcDisable
          ELSE \E t \in Named(n) : Begin(r, over(t) \o plain)
                                   /\ gcDisable' = TRUE
    /\ UNCHANGED <<obj, cutAt>>

\* An inode comes to hold the object, or is given up (yaffs_evict_inode).
Open(i) ==
    /\ i \in Files /\ ~obj[i].opened
    /\ Begin([kind |-> "open"], <<>>)
    /\ obj' = [obj EXCEPT ![i].opened = TRUE]
    /\ UNCHANGED <<cutAt, gcDisable>>

Close(i) ==
    /\ Live(i) /\ obj[i].opened
    /\ Begin([kind |-> "close"],
             IF obj[i].parent = "unlinked" THEN DeleteObject(i) ELSE <<>>)
    /\ obj' = [obj EXCEPT ![i].opened = FALSE]
    /\ UNCHANGED <<cutAt, gcDisable>>

\* yaffs_BackgroundGarbageCollect
BackgroundGc ==
    /\ DirtyBlocks # {}
    /\ Begin([kind |-> "gc"], <<Gc>>)
    /\ UNCHANGED <<obj, cutAt, gcDisable>>

\* A request is answered; a truncation is now binding.
Answer ==
    /\ calls = <<>> /\ req # NoReq
    /\ req' = NoReq
    /\ cutAt' = IF req.kind # "truncate" THEN cutAt
                ELSE [cutAt EXCEPT ![req.id] = [j \in 1 .. MaxSize |->
                         IF j > req.size THEN requests ELSE @[j]]]
    /\ UNCHANGED <<device, obj, gcVars, gcDisable, calls, torn, bounds>>

(***************************************************************************)
(* The specification.                                                      *)
(***************************************************************************)
Init ==
    /\ nand = <<>> /\ found = Found(nand) /\ inUse = {} /\ shrinkBlocks = {}
    /\ obj = [i \in Ids |-> Free]
    /\ gcBlock = NoBlock /\ gcChunk = 0 /\ gcDirtiest = NoBlock
    /\ gcDisable = FALSE
    /\ calls = <<>> /\ req = NoReq
    /\ cutAt = [i \in Ids |-> [j \in 1 .. MaxSize |-> 0]]
    /\ torn = {}
    /\ requests = 0 /\ crashes = 0 /\ faults = 0

Request ==
    \/ \E n \in Names, i \in Ids : Create(n, i) \/ RenameName(i, n)
    \/ \E n \in Names, i, h \in Ids : Link(n, i, h)
    \/ \E i \in Ids, w \in Writes : Write(i, w)
    \/ \E i \in Ids, size \in Sizes : Truncate(i, size)
    \/ \E i \in Ids : Flush(i) \/ SetAttributes(i) \/ UnlinkName(i)
                      \/ Open(i) \/ Close(i)
    \/ BackgroundGc

Nand ==
    \/ UpdateObjectHeader \/ WriteChunkData \/ Drop
    \/ NoSpaceForHeader \/ NoSpaceForData
    \/ GcSkip \/ GcNote \/ GcBegin \/ GcCopy \/ GcEnd

FileLayer ==
    \/ FlushFilesChunkCache \/ DoWriteData \/ DoWriteDataEnds
    \/ HandleTheHole \/ HoleFilled
    \/ ResizeTheFile \/ PruneChunk \/ PruneEnds \/ RewriteLastChunk \/ Resized

NameLayer ==
    \/ ChangeObjectName \/ GenericDeletion \/ FreeObject
    \/ Unlink \/ UnlinkShadowed \/ EnableGc

Mount == ScanErases \/ StripDeletedObjects \/ FixHangingObjects

Next == Request \/ Answer \/ Nand \/ FileLayer \/ NameLayer \/ Mount \/ Crash

Spec == Init /\ [][Next]_vars

(***************************************************************************)
(* Properties.                                                             *)
(***************************************************************************)
\* The NAND implements the abstract file store: at every moment, between any
\* two programs or erases, a mount would find the names and contents of one
\* of its states, and each step changes them as the request in service may.
\* That covers yaffs2_ScanBackwards, the order of the steps of every
\* operation, the collector's copies and the repairs made by the mount.
Store == INSTANCE FileStore WITH
    op <- IF req.kind = "mount" THEN NoReq ELSE req,
    dir <- found.dir,
    torn <- torn,
    data <- found.data
ImplementsStore == Store!Spec

\* What was answered is durable: whenever no request is in service, a mount
\* would find the names the objects in memory show, and the contents of those
\* with nothing in the cache.  Only zeros at the end may be missing, and only
\* of a file that has not been flushed or whose last change was cut short.
DurableWhenIdle ==
    calls = <<>> =>
        /\ found.dir = Dir(obj)
        /\ \A i \in Ids : Cached(i) = {} =>
              LET now == Data(nand, obj)[i]
                  then == found.data[i]
              IN /\ Len(then) <= Len(now)
                 /\ Len(then) = Len(now) \/ obj[i].dirty \/ i \in torn
                 /\ \A j \in DOMAIN now : now[j] = Store!Byte(then, j)

\* What a mount would find in a file was written after the file was created
\* and after it was last cut below that byte: data that was truncated away, or
\* left by the object that had the number before, does not come back.
NoStaleBytes ==
    \A i \in Ids : \A j \in DOMAIN found.data[i] :
        found.data[i][j] = 0 \/ found.data[i][j] > cutAt[i][j]

\* yaffs_VerifyObject and yaffs_VerifyFile: every chunk an object points to is
\* on the NAND with the tags of that object, and the bitmap holds just those
\* (and, in a copy or a deletion, the chunk that is about to go).
ChunksVerify ==
    LET named == {obj[i].hdr : i \in Ids} \cup
                 {obj[i].tn[c] : i \in Ids, c \in FileChunk}
        leaving == {calls[k].chunk : k \in
                       {m \in DOMAIN calls : calls[m].fn = "drop"}}
    IN /\ named \ {0} \subseteq inUse
       /\ inUse \subseteq named \cup leaving
       /\ \A i \in Ids : obj[i].hdr # 0 =>
             nand[obj[i].hdr].kind = "header" /\ nand[obj[i].hdr].id = i
       /\ \A i \in Ids, c \in FileChunk : obj[i].tn[c] # 0 =>
             LET t == nand[obj[i].tn[c]]
             IN t.kind = "data" /\ t.id = i /\ t.chunk = c

\* yaffs_FixHangingObjects never finds anything: a mount finds a header for
\* every object it finds data of, and a file for every link.
NothingHangs ==
    LET o == found.obj
    IN \A i \in Ids :
          /\ o[i].kind # "free" => o[i].parent # "none"
          /\ o[i].kind = "link" /\ o[i].parent = "root" =>
                o[o[i].eq].kind = "file" /\ o[o[i].eq].parent = "root"

\* "We don't want a dup" (yaffs_MknodObject): when no request is in service, no
\* two objects have the same name.  It is what the shadowing in
\* yaffs_RenameObject keeps up over a power failure.
NamesUnique ==
    calls = <<>> => \A n \in Names : Cardinality(Named(n)) <= 1

TypeOK ==
    /\ \A p \in DOMAIN nand : nand[p].kind \in {"data", "header", "gone", "blank"}
    /\ inUse \subseteq DOMAIN nand
    /\ shrinkBlocks \subseteq Blocks
    /\ {gcBlock, gcDirtiest} \subseteq Blocks \cup {NoBlock}
    /\ gcChunk \in 0 .. NChunks /\ gcDisable \in BOOLEAN
    /\ \A i \in Ids : /\ obj[i].parent \in Parents
                      /\ obj[i].kind \in {"free", "file", "link"}
                      /\ obj[i].size \in 0 .. MaxSize
                      /\ obj[i].hdr \in 0 .. Len(nand)
    /\ requests \in 0 .. MaxRequests /\ crashes \in 0 .. MaxCrashes
    /\ faults \in 0 .. MaxFaults
=============================================================================
