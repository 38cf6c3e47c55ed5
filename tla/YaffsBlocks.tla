---------------------------- MODULE YaffsBlocks ----------------------------
(***************************************************************************)
(* The block and chunk manager of yaffs_guts.c and the oldest-dirty        *)
(* tracking of yaffs_yaffs2.c: which NAND blocks are erased, being         *)
(* allocated from, full, being collected or retired, which of their chunks *)
(* are in use, and the counters kept beside them.                          *)
(*                                                                         *)
(* Everything here runs under the gross lock, so one request is in service *)
(* at a time; pc says which function it is in.  A step programs or erases  *)
(* at most one place of the NAND.                                          *)
(*                                                                         *)
(* What is abstracted: the search cursor gcBlockFinder and the             *)
(* gcSkip/gcNotDone/threshold counters that say when a leisurely           *)
(* collection bothers and with which block, and the object that owns a     *)
(* chunk.                                                                  *)
(***************************************************************************)
EXTENDS Integers, FiniteSets, Sequences

CONSTANTS
    StartBlock,         \* internalStartBlock
    EndBlock,           \* internalEndBlock
    NChunks,            \* param.nChunksPerBlock
    NReserved,          \* param.nReservedBlocks
    CheckpointBlocks,   \* what yaffs2_CalcCheckpointBlocksRequired may return
    IsYaffs2,           \* param.isYaffs2
    AlwaysCheckErased,  \* param.alwaysCheckErased
    WrAttempts,         \* yaffs_wr_attempts
    LeisurelyCopies,    \* the 5 chunks one leisurely collection step may copy
    MaxStrikes,         \* the 3 strikes after which a block is retired
    MayCollect,         \* {TRUE}, or BOOLEAN when gcDisable or gcControl
                        \* may keep the collector off for a write
    NShortOpCaches,     \* param.nShortOpCaches
    LiveAtMount,        \* the pages in use of each written block the scan found
    MaxRequests,        \* bound: how many requests are made
    MaxPads,            \* bound: how many cuts fall in a hole
    MaxFaults           \* bound: how many NAND operations may fail

ASSUME GeometryAssumption ==    \* the geometry check of yaffs_GutsInitialise
    /\ StartBlock \in Nat \ {0} /\ EndBlock \in Nat
    /\ NChunks \in Nat /\ NChunks >= 2
    /\ NReserved \in Nat /\ NReserved >= 2
    /\ EndBlock > StartBlock + NReserved + 2
\* pagesInUse and softDeletions are signed 10 bit fields; nothing in the code
\* checks that a block's count fits.
ASSUME CountersFit == NChunks <= 511
ASSUME ParameterAssumption ==
    /\ CheckpointBlocks \subseteq Nat
    /\ IsYaffs2 \in BOOLEAN /\ AlwaysCheckErased \in BOOLEAN
    /\ WrAttempts \in Nat /\ LeisurelyCopies \in Nat \ {0} /\ MaxStrikes \in Nat
    /\ MayCollect \subseteq BOOLEAN /\ NShortOpCaches \in Nat
    /\ LiveAtMount \in Seq((SUBSET (0 .. NChunks - 1)) \ {{}})
    /\ Len(LiveAtMount) <= EndBlock - StartBlock + 1
    /\ MaxRequests \in Nat /\ MaxPads \in Nat /\ MaxFaults \in Nat

VARIABLES
    blockState,         \* yaffs_BlockInfo.blockState
    chunkBits,          \* the pages whose bit is set in the chunk bitmap
    pagesInUse, softDeletions, blockSequence, hasShrinkHeader,
    needsRetiring, gcPrioritise, chunkErrorStrikes, skipErasedCheck,
    nErasedBlocks, nFreeChunks,
    allocationBlock, allocationPage, allocationBlockFinder, sequenceNumber,
    oldestDirty,        \* oldestDirtySequence and oldestDirtyBlock
    gcBlock, gcChunk, gcDirtiest,
    programmed,         \* NAND: how often each page was programmed since erase
    held,               \* the pages some object's hdrChunk or tnode points to
    softDeleted,        \* the pages of files that are soft deleted
    promised,           \* the dirty entries of the short operations cache
    padded,             \* history: how many cuts have fallen in a hole
    pc,                 \* the function the request in service is in
    req,                \* that request
    gcRun,              \* the locals of yaffs_GarbageCollectBlock
    newChunk, attempts, \* the locals of yaffs_WriteNewChunkWithTagsToNAND
    faults,             \* how many NAND operations have failed
    requests            \* how many requests were made

healthVars == <<needsRetiring, gcPrioritise, chunkErrorStrikes, skipErasedCheck>>
useVars == <<chunkBits, pagesInUse, softDeletions>>
countVars == <<nErasedBlocks, nFreeChunks>>
allocVars == <<allocationBlock, allocationPage, allocationBlockFinder,
               sequenceNumber>>
gcVars == <<gcBlock, gcChunk, gcDirtiest>>
fileVars == <<held, softDeleted, promised, padded>>
writeVars == <<newChunk, attempts>>
vars == <<blockState, useVars, blockSequence, hasShrinkHeader, healthVars,
          countVars, allocVars, oldestDirty, gcVars, programmed, fileVars,
          pc, req, gcRun, writeVars, faults, requests>>

Block == StartBlock .. EndBlock
None == 0               \* "no block", -1 in allocationBlock
Page == 0 .. NChunks - 1
Chunk == Block \X Page
NoChunk == <<None, 0>>
InUseStates == {"ALLOCATING", "FULL", "COLLECTING"}
CountedStates == InUseStates \cup {"EMPTY"}
BlockStates == CountedStates \cup {"DEAD"}
NoDirty == [seq |-> 0, block |-> None]
NoRequest == [write |-> FALSE, reserve |-> FALSE, shrink |-> FALSE,
              prev |-> NoChunk]
NoGcRun == [block |-> None, tries |-> 0, copies |-> 0, ok |-> TRUE]

WriteEnds == newChunk' = NoChunk /\ attempts' = 0
Held == {c \in Chunk : c[2] \in held[c[1]]}
SoftDeleted == {c \in Chunk : c[2] \in softDeleted[c[1]]}

\* The chunks yaffs_CountFreeChunks counts.
FreeChunk == {c \in Chunk : /\ blockState[c[1]] \in CountedStates
                            /\ c[2] \notin chunkBits[c[1]] \/ c \in SoftDeleted}

ChunksUsed(b) == pagesInUse[b] - softDeletions[b]

(***************************************************************************)
(* Oldest dirty sequence number.                                           *)
(***************************************************************************)
\* The full blocks with discarded chunks.
DirtyFull == {b \in Block : blockState[b] = "FULL" /\ ChunksUsed(b) < NChunks}

\* The oldest blocks of S; sequence numbers being unique, there is one.
Oldest(S) == {b \in S : \A c \in S : blockSequence[b] <= blockSequence[c]}
Dirty(b) == [seq |-> blockSequence[b], block |-> b]

\* yaffs2_FindOldestDirtySequence: computed only when it is not known.  The
\* one value it may leave.
FoundOldestDirty ==
    IF ~IsYaffs2 \/ oldestDirty.seq # 0 \/ DirtyFull = {} THEN {oldestDirty}
    ELSE {Dirty(b) : b \in Oldest(DirtyFull)}

\* A variant: discarding a chunk of an older block is not noticed.
NeverUpdatedOldestDirty(b) == oldestDirty

\* yaffs2_UpdateOldestDirtySequence: block b loses a chunk.
UpdatedOldestDirty(b) ==
    IF IsYaffs2 /\ oldestDirty.seq # 0 /\ oldestDirty.seq > blockSequence[b]
    THEN Dirty(b) ELSE oldestDirty

\* yaffs2_ClearOldestDirtySequence: block b is erased or retired.
ClearedOldestDirty(d, b) ==
    IF IsYaffs2 /\ d.seq = blockSequence[b] THEN NoDirty ELSE d

\* yaffs2_BlockNotDisqualifiedFromGC
NotDisqualified(b) ==
    \/ ~IsYaffs2
    \/ ~hasShrinkHeader[b]
    \/ \E d \in FoundOldestDirty : blockSequence[b] <= d.seq

(***************************************************************************)
(* Emptying and erasing blocks.                                            *)
(***************************************************************************)
Fault == faults < MaxFaults /\ faults' = faults + 1

\* A variant: a retired block goes on counting as free space.
KeptFree(e, erased) == e.free

\* A block that could not be erased is lost.
FreeLeft(e, erased) == IF erased THEN e.free ELSE e.free - NChunks

\* A variant: what was remembered of a block outlives its data.
StillRemembered(x, b) == x

\* gcBlock or gcDirtiest, when block b is emptied.
Remembered(x, b) == IF x = b THEN None ELSE x

\* What block b and the counters look like when it is about to be emptied.
Entry(b) == [bits |-> chunkBits[b], used |-> pagesInUse[b],
             soft |-> softDeletions[b], free |-> nFreeChunks,
             dirty |-> oldestDirty, dirtiest |-> gcDirtiest]

\* yaffs_BlockBecameDirty of block b, with yaffs_RetireBlock when b is to be
\* retired or the erasure fails.  e is the entry state.
BlockBecameDirty(b, e, erased) ==
    /\ IF needsRetiring[b] THEN ~erased /\ UNCHANGED faults
       ELSE IF erased THEN UNCHANGED faults ELSE Fault
    /\ oldestDirty' = ClearedOldestDirty(e.dirty, b)
    /\ gcBlock' = Remembered(gcBlock, b)
    /\ gcDirtiest' = Remembered(e.dirtiest, b)
    /\ gcPrioritise' = [gcPrioritise EXCEPT ![b] = FALSE]
    /\ hasShrinkHeader' = [hasShrinkHeader EXCEPT ![b] = FALSE]
    /\ blockState' = [blockState EXCEPT ![b] = IF erased THEN "EMPTY" ELSE "DEAD"]
    /\ chunkBits' = [chunkBits EXCEPT ![b] = IF erased THEN {} ELSE e.bits]
    /\ pagesInUse' = [pagesInUse EXCEPT ![b] = IF erased THEN 0 ELSE e.used]
    /\ softDeletions' = [softDeletions EXCEPT ![b] = IF erased THEN 0 ELSE e.soft]
    /\ nFreeChunks' = FreeLeft(e, erased)
    /\ IF erased
       THEN /\ nErasedBlocks' = nErasedBlocks + 1
            /\ blockSequence' = [blockSequence EXCEPT ![b] = 0]
            /\ skipErasedCheck' = [skipErasedCheck EXCEPT ![b] = TRUE]
            /\ programmed' = [programmed EXCEPT ![b] = [p \in Page |-> 0]]
            /\ UNCHANGED needsRetiring
       ELSE /\ needsRetiring' = [needsRetiring EXCEPT ![b] = FALSE]
            /\ UNCHANGED <<nErasedBlocks, blockSequence, skipErasedCheck,
                           programmed>>
    /\ UNCHANGED chunkErrorStrikes

\* A variant: the block being allocated from is erased when it is empty.
EvenAllocating(b, used) == used = 0 /\ ~hasShrinkHeader[b]

\* Whether the block may be erased, now that it has so many pages in use.
WhollyDirty(b, used) ==
    used = 0 /\ ~hasShrinkHeader[b] /\ blockState[b] # "ALLOCATING"

\* yaffs_DeleteChunk of page p of block b.  The entry state e differs from
\* Entry(b) when the caller has just adjusted the soft deletions.
DeleteChunk(b, p, e, erased) ==
    LET after == [e EXCEPT !.bits = @ \ {p}, !.used = @ - 1, !.free = @ + 1,
                           !.dirty = UpdatedOldestDirty(b)]
    IN  /\ blockState[b] \in InUseStates
        /\ IF WhollyDirty(b, after.used)
           THEN BlockBecameDirty(b, after, erased)
           ELSE /\ erased
                /\ chunkBits' = [chunkBits EXCEPT ![b] = after.bits]
                /\ pagesInUse' = [pagesInUse EXCEPT ![b] = after.used]
                /\ softDeletions' = [softDeletions EXCEPT ![b] = after.soft]
                /\ nFreeChunks' = after.free
                /\ oldestDirty' = after.dirty
                /\ UNCHANGED <<blockState, blockSequence, hasShrinkHeader,
                               healthVars, nErasedBlocks, gcBlock, gcDirtiest,
                               programmed, faults>>

(***************************************************************************)
(* Requests: what the object layer asks for while no request is in service *)
(***************************************************************************)
\* Bound: so many requests are made.
Asked == requests < MaxRequests /\ requests' = requests + 1

\* yaffs_WriteChunkDataToObject and yaffs_UpdateObjectHeader up to their call
\* of yaffs_CheckGarbageCollection, which returns at once when gcDisable is
\* set (yaffs_RenameObject) or gcControl says so: collect is FALSE.
StartWrite(collect) ==
    /\ pc = "idle" /\ Asked
    /\ pc' = IF collect THEN "gcCheck" ELSE "lookup"
    /\ req' = [NoRequest EXCEPT !.write = TRUE]
    /\ UNCHANGED <<blockState, useVars, blockSequence, hasShrinkHeader,
                   healthVars, countVars, allocVars, oldestDirty, gcVars,
                   programmed, fileVars, gcRun, writeVars, faults>>

\* yaffs_BackgroundGarbageCollect, and the call in yaffs_ResizeFile.
StartBackgroundGc ==
    /\ pc = "idle" /\ Asked
    /\ pc' = "gcCheck"
    /\ UNCHANGED <<blockState, useVars, blockSequence, hasShrinkHeader,
                   healthVars, countVars, allocVars, oldestDirty, gcVars,
                   programmed, fileVars, req, gcRun, writeVars, faults>>

\* yaffs_CheckSpaceForAllocation(dev, 1)
SpaceFor(blocks) == nFreeChunks > (NReserved + blocks) * NChunks + 1

\* yaffs_DoWriteDataToFile puts part of a chunk in the short operations cache:
\* the space is checked now, the chunk is written later and from the reserve.
CacheWrite ==
    /\ pc = "idle" /\ promised < NShortOpCaches
    /\ \E blocks \in CheckpointBlocks : SpaceFor(blocks)
    /\ promised' = promised + 1
    /\ UNCHANGED <<blockState, useVars, blockSequence, hasShrinkHeader,
                   healthVars, countVars, allocVars, oldestDirty, gcVars,
                   programmed, held, softDeleted, padded, pc, req, gcRun, writeVars,
                   faults, requests>>

\* A data chunk or header the object layer drops: yaffs_PruneResizedChunks,
\* yaffs_DoGenericObjectDeletion.
Delete(b, p, erased) ==
    /\ pc = "idle" /\ Asked /\ p \in held[b]
    /\ held' = [held EXCEPT ![b] = @ \ {p}]
    /\ DeleteChunk(b, p, Entry(b), erased)
    /\ UNCHANGED <<allocVars, gcChunk, softDeleted, promised, padded, pc, req, gcRun,
                   writeVars>>

\* yaffs_SoftDeleteChunk: only files of yaffs1 are soft deleted, those of
\* yaffs2 are truncated first.
SoftDelete(b, p) ==
    /\ pc = "idle" /\ Asked /\ ~IsYaffs2 /\ p \in held[b]
    /\ held' = [held EXCEPT ![b] = @ \ {p}]
    /\ softDeleted' = [softDeleted EXCEPT ![b] = @ \cup {p}]
    /\ softDeletions' = [softDeletions EXCEPT ![b] = @ + 1]
    /\ nFreeChunks' = nFreeChunks + 1
    /\ oldestDirty' = UpdatedOldestDirty(b)
    /\ UNCHANGED <<blockState, chunkBits, pagesInUse, blockSequence,
                   hasShrinkHeader, healthVars, nErasedBlocks, allocVars, gcVars,
                   programmed, promised, padded, pc, req, gcRun, writeVars, faults>>

\* yaffs_HandleChunkError, of a block with a bad chunk.
ChunkError(b, retire) ==
    LET strikes == chunkErrorStrikes[b] + IF gcPrioritise[b] THEN 0 ELSE 1
    IN  /\ gcPrioritise' = [gcPrioritise EXCEPT ![b] = TRUE]
        /\ chunkErrorStrikes' = [chunkErrorStrikes EXCEPT ![b] = strikes % 8]
        /\ needsRetiring' = [needsRetiring EXCEPT ![b] =
               @ \/ retire \/ (~gcPrioritise[b] /\ strikes > MaxStrikes)]

\* A read of the file system finds an error ECC cannot correct; yaffs1's
\* yaffs_HandleReadDataError condemns the block at once.
ReadError(b) ==
    /\ pc \in {"idle", "gcLoop"} /\ blockState[b] \in InUseStates
    /\ Fault
    /\ ChunkError(b, ~IsYaffs2)
    /\ UNCHANGED <<blockState, useVars, blockSequence, hasShrinkHeader,
                   skipErasedCheck, countVars, allocVars, oldestDirty, gcVars,
                   programmed, fileVars, pc, req, gcRun, writeVars, requests>>

(***************************************************************************)
(* yaffs_CheckGarbageCollection.                                           *)
(***************************************************************************)

\* A variant: the comparison is the wrong way round.
LowInverted(blocks) == NReserved + blocks + 1 < nErasedBlocks

\* There are so few erased blocks that the collector gets aggressive.
Low(blocks) == nErasedBlocks < NReserved + blocks + 1

\* Who yaffs_FindBlockForGarbageCollection and yaffs2_FindRefreshBlock may
\* pick.  How few pages in use are few enough is left open.
Collectable(b) == b \in DirtyFull /\ NotDisqualified(b)
Refreshable(b) == IsYaffs2 /\ b \in Oldest({c \in Block : blockState[c] = "FULL"})
Selectable(b, aggressive) ==
    \/ b = gcDirtiest
    \/ Collectable(b)
    \/ IsYaffs2 /\ \E d \in FoundOldestDirty : b = d.block
    \/ ~aggressive /\ Refreshable(b)
    \/ /\ ~aggressive
       /\ \E c \in Block : gcPrioritise[c]
       /\ \/ blockState[b] = "FULL" /\ gcPrioritise[b] /\ NotDisqualified(b)
          \/ b = oldestDirty.block

LeaveGc == /\ pc' = IF req.write THEN "lookup" ELSE "idle"
           /\ gcRun' = NoGcRun

\* There is no need to collect now.
GcSkip ==
    /\ pc = "gcCheck"
    /\ \E blocks \in CheckpointBlocks : ~Low(blocks)
    /\ LeaveGc
    /\ UNCHANGED <<blockState, useVars, blockSequence, hasShrinkHeader,
                   healthVars, countVars, allocVars, oldestDirty, gcVars,
                   programmed, fileVars, req, writeVars, faults, requests>>

\* No block is selected; a candidate may be remembered in gcDirtiest.
GcNothing(aggressive, candidate) ==
    /\ pc = "gcCheck" /\ gcBlock = None
    /\ \E blocks \in CheckpointBlocks : aggressive = Low(blocks)
    /\ candidate \in {None, gcDirtiest} \cup {c \in Block : Collectable(c)}
    /\ aggressive => gcDirtiest = None /\ \A b \in Block : ~Collectable(b)
    /\ gcDirtiest' = candidate
    /\ gcChunk' = 0
    /\ oldestDirty' \in {oldestDirty} \cup FoundOldestDirty
    /\ LeaveGc
    /\ UNCHANGED <<blockState, useVars, blockSequence, hasShrinkHeader,
                   healthVars, countVars, allocVars, gcBlock, programmed,
                   fileVars, req, writeVars, faults, requests>>

\* A variant: the page to go on from is not reset with the block.
StalePage == gcChunk

\* Where the collection of a block goes on.
FirstPage == IF gcBlock = None THEN 0 ELSE gcChunk

\* A block is selected, or the collection of gcBlock goes on:
\* yaffs_GarbageCollectBlock up to its loop.
GcBegin(b, aggressive, erased) ==
    LET found == IF gcBlock = None THEN FoundOldestDirty ELSE {}
        candidates == IF gcBlock # None THEN {gcDirtiest}
                      ELSE IF ~aggressive /\ Refreshable(b) THEN {gcDirtiest, None}
                      ELSE {None}
    IN  /\ pc = "gcCheck"
        /\ \E blocks \in CheckpointBlocks : aggressive = Low(blocks)
        /\ IF gcBlock = None THEN Selectable(b, aggressive) ELSE b = gcBlock
        /\ gcChunk' = FirstPage
        /\ gcRun' = [block |-> b, tries |-> gcRun.tries + 1, ok |-> TRUE,
                     copies |-> IF aggressive THEN NChunks ELSE LeisurelyCopies]
        /\ pc' = "gcLoop"
        /\ \E dirty \in {oldestDirty} \cup found,
              dirtiest \in candidates :
             IF chunkBits[b] = {}
             THEN /\ BlockBecameDirty(b, [Entry(b) EXCEPT !.dirty = dirty,
                                                          !.dirtiest = dirtiest],
                                      erased)
             ELSE /\ erased
                  /\ blockState' = [blockState EXCEPT ![b] =
                         IF @ = "FULL" THEN "COLLECTING" ELSE @]
                  /\ hasShrinkHeader' = [hasShrinkHeader EXCEPT ![b] = FALSE]
                  /\ gcBlock' = b /\ gcDirtiest' = dirtiest
                  /\ oldestDirty' = dirty
                  /\ UNCHANGED <<useVars, blockSequence, healthVars, countVars,
                                 programmed, faults>>
        /\ UNCHANGED <<allocVars, fileVars, req, writeVars, requests>>

\* The loop of yaffs_GarbageCollectBlock.
GcPages == {p \in chunkBits[gcRun.block] : p >= gcChunk}
GcMore == /\ gcRun.ok /\ gcRun.copies > 0 /\ GcPages # {}
          /\ blockState[gcRun.block] = "COLLECTING"
GcNext(p) == GcMore /\ p \in GcPages /\ \A q \in GcPages : p <= q

\* A variant: the chunk is counted as free twice.
FreedTwice(b) == [Entry(b) EXCEPT !.soft = @ - 1]

\* Free chunks already include the soft deleted one.
NoLongerSoft(b) == [Entry(b) EXCEPT !.soft = @ - 1, !.free = @ - 1]

\* A chunk of a soft deleted file is thrown away.
GcDrop(p, erased) ==
    LET b == gcRun.block
    IN  /\ pc = "gcLoop" /\ GcNext(p) /\ p \in softDeleted[b]
        /\ DeleteChunk(b, p, NoLongerSoft(b), erased)
        /\ softDeleted' = [softDeleted EXCEPT ![b] = @ \ {p}]
        /\ gcChunk' = p + 1
        /\ gcRun' = [gcRun EXCEPT !.copies = @ - 1]
        /\ UNCHANGED <<allocVars, held, promised, padded, pc, req, writeVars, requests>>

\* A header or a chunk of a live file is copied, to a reserved chunk if need
\* be.
GcCopy(p) ==
    /\ pc = "gcLoop" /\ GcNext(p) /\ p \notin softDeleted[gcRun.block]
    /\ gcChunk' = p
    /\ gcRun' = [gcRun EXCEPT !.copies = @ - 1]
    /\ pc' = "alloc"
    /\ UNCHANGED <<blockState, useVars, blockSequence, hasShrinkHeader,
                   healthVars, countVars, allocVars, oldestDirty, gcBlock,
                   gcDirtiest, programmed, fileVars, req, writeVars, faults,
                   requests>>

\* The copy is in place: the old chunk goes.
GcDropCopied(erased) ==
    /\ pc = "gcDrop"
    /\ DeleteChunk(gcRun.block, gcChunk, Entry(gcRun.block), erased)
    /\ gcChunk' = gcChunk + 1
    /\ pc' = "gcLoop"
    /\ UNCHANGED <<allocVars, fileVars, req, gcRun, writeVars, requests>>

\* A variant: the tries are not counted.
UncountedTry == NoGcRun

\* The next try of this call.
NextTry == [NoGcRun EXCEPT !.tries = gcRun.tries]

\* The loop ends: an unfinished block is FULL again, a finished one makes room
\* for the next; yaffs_CheckGarbageCollection tries twice at most.
GcEnd ==
    LET unfinished == blockState[gcRun.block] = "COLLECTING"
    IN  /\ pc = "gcLoop" /\ ~GcMore
        /\ blockState' = IF unfinished
                         THEN [blockState EXCEPT ![gcRun.block] = "FULL"]
                         ELSE blockState
        /\ gcBlock' = IF unfinished THEN gcBlock ELSE None
        /\ gcChunk' = IF ~unfinished THEN 0
                      ELSE IF gcRun.ok /\ gcRun.copies > 0 THEN NChunks ELSE gcChunk
        /\ IF nErasedBlocks < NReserved /\ unfinished /\ gcRun.tries < 2
           THEN pc' = "gcCheck" /\ gcRun' = NextTry
           ELSE LeaveGc
        /\ UNCHANGED <<useVars, blockSequence, hasShrinkHeader, healthVars,
                       countVars, allocVars, oldestDirty, gcDirtiest, programmed,
                       fileVars, req, writeVars, faults, requests>>

(***************************************************************************)
(* yaffs_WriteNewChunkWithTagsToNAND, for the request or for a copy.       *)
(***************************************************************************)
Copying == gcRun.block # None

\* Whether this write may use the last free chunks.
MayUseReserve == Copying \/ req.reserve

\* yaffs_ResizeDown pads the last chunk of a file that is cut in a hole.
PadsHole(prev) == prev = NoChunk /\ padded < MaxPads /\ padded' = padded + 1

\* The chunk to be replaced is looked up after the collection: hdrChunk or
\* yaffs_FindChunkInFile.  A header may use the reserve when it replaces one, a
\* cached chunk and the last chunk of a file that is cut may always, and only
\* headers shrink.
Lookup(prev, reserve, shrink) ==
    /\ pc = "lookup"
    /\ prev \in Held \cup {NoChunk}
    /\ shrink => (reserve <=> prev # NoChunk)
    /\ \/ (reserve => prev # NoChunk) /\ UNCHANGED <<promised, padded>>
       \/ /\ reserve /\ ~shrink /\ promised > 0 /\ promised' = promised - 1
          /\ UNCHANGED padded
       \/ reserve /\ ~shrink /\ PadsHole(prev) /\ UNCHANGED promised
    /\ req' = [req EXCEPT !.prev = prev, !.reserve = reserve, !.shrink = shrink]
    /\ pc' = "alloc"
    /\ UNCHANGED <<blockState, useVars, blockSequence, hasShrinkHeader,
                   healthVars, countVars, allocVars, oldestDirty, gcVars,
                   programmed, held, softDeleted, gcRun, writeVars, faults,
                   requests>>

\* A variant: the old chunk is deleted although the copy was not written.
GiveUpAndDrop == /\ WriteEnds
                 /\ IF Copying
                    THEN pc' = "gcDrop" /\ UNCHANGED <<req, gcChunk, gcRun>>
                    ELSE /\ pc' = "idle" /\ req' = NoRequest
                         /\ UNCHANGED <<gcChunk, gcRun>>

\* The write is given up: the copy's loop ends, or the request does.
GiveUp == /\ WriteEnds
          /\ IF Copying
             THEN /\ pc' = "gcLoop" /\ gcChunk' = gcChunk + 1
                  /\ gcRun' = [gcRun EXCEPT !.ok = FALSE]
                  /\ UNCHANGED req
             ELSE /\ pc' = "idle" /\ req' = NoRequest
                  /\ UNCHANGED <<gcChunk, gcRun>>

\* How far the cursor has to go round to get to block b.
Distance(b) == IF b > allocationBlockFinder THEN b - allocationBlockFinder
               ELSE b + (EndBlock - StartBlock + 1) - allocationBlockFinder

\* yaffs_FindBlockForAllocation, when there is no allocation block; b is the
\* block allocated from.
TakeBlock(b) ==
    IF allocationBlock # None
    THEN b = allocationBlock /\ UNCHANGED <<nErasedBlocks, sequenceNumber,
                                            allocationBlockFinder, blockSequence>>
    ELSE /\ nErasedBlocks >= 1 /\ blockState[b] = "EMPTY"
         /\ \A c \in Block : blockState[c] = "EMPTY" => Distance(b) <= Distance(c)
         /\ allocationBlockFinder' = b
         /\ sequenceNumber' = sequenceNumber + 1
         /\ blockSequence' = [blockSequence EXCEPT ![b] = sequenceNumber']
         /\ nErasedBlocks' = nErasedBlocks - 1

\* A variant: off by one.
PageAfterLast(page) == page + 1 > NChunks

\* The block is full once this page is allocated.
LastPage(page) == page + 1 >= NChunks

\* yaffs_AllocateChunk: the next page of b.
AllocateChunk(b) ==
    LET page == IF allocationBlock = None THEN 0 ELSE allocationPage
    IN  /\ pc = "alloc"
        /\ MayUseReserve \/ \E blocks \in CheckpointBlocks : SpaceFor(blocks)
        /\ TakeBlock(b)
        /\ blockState' = [blockState EXCEPT ![b] = IF LastPage(page) THEN "FULL"
                                                   ELSE "ALLOCATING"]
        /\ allocationBlock' = IF LastPage(page) THEN None ELSE b
        /\ allocationPage' = page + 1
        /\ chunkBits' = [chunkBits EXCEPT ![b] = @ \cup {page}]
        /\ pagesInUse' = [pagesInUse EXCEPT ![b] = @ + 1]
        /\ nFreeChunks' = nFreeChunks - 1
        /\ newChunk' = <<b, page>>
        /\ attempts' = attempts + 1
        /\ pc' = "program"
        /\ UNCHANGED <<softDeletions, hasShrinkHeader, healthVars, oldestDirty,
                       gcVars, programmed, fileVars, req, gcRun, faults,
                       requests>>

\* yaffs_AllocateChunk finds no space: it has taken a block all the same.
NoSpace(b) ==
    /\ pc = "alloc"
    /\ ~MayUseReserve /\ \E blocks \in CheckpointBlocks : ~SpaceFor(blocks)
    /\ TakeBlock(b)
    /\ blockState' = [blockState EXCEPT ![b] = "ALLOCATING"]
    /\ allocationBlock' = b
    /\ allocationPage' = IF allocationBlock = None THEN 0 ELSE allocationPage
    /\ GiveUp
    /\ UNCHANGED <<useVars, hasShrinkHeader, healthVars, nFreeChunks,
                   oldestDirty, gcBlock, gcDirtiest, programmed, fileVars, faults,
                   requests>>

\* "yaffs tragedy: no more erased blocks"
NoErasedBlock ==
    /\ pc = "alloc" /\ allocationBlock = None /\ nErasedBlocks < 1
    /\ allocationPage' = 0
    /\ GiveUp
    /\ UNCHANGED <<blockState, useVars, blockSequence, hasShrinkHeader,
                   healthVars, countVars, allocationBlock, allocationBlockFinder,
                   sequenceNumber, oldestDirty, gcBlock, gcDirtiest, programmed,
                   fileVars, faults, requests>>

\* The erased check is made on the first page written to a block.
Checked(b) == AlwaysCheckErased \/ ~skipErasedCheck[b]
Programmed(b, p) == [programmed EXCEPT ![b][p] = @ + 1]

\* The chunk is written, and verified if it was checked.
ProgramOk(b, p) ==
    /\ pc = "program" /\ newChunk = <<b, p>>
    /\ skipErasedCheck' = [skipErasedCheck EXCEPT ![b] = TRUE]
    /\ programmed' = Programmed(b, p)
    /\ pc' = "commit"
    /\ UNCHANGED <<blockState, useVars, blockSequence, hasShrinkHeader,
                   needsRetiring, gcPrioritise, chunkErrorStrikes, countVars,
                   allocVars, oldestDirty, gcVars, fileVars, req, gcRun,
                   writeVars, faults, requests>>

\* The chunk turns out not to be erased.
NotErased(b, p) ==
    /\ pc = "program" /\ newChunk = <<b, p>>
    /\ Checked(b) /\ Fault
    /\ skipErasedCheck' = [skipErasedCheck EXCEPT ![b] = FALSE]
    /\ pc' = "discard"
    /\ UNCHANGED <<blockState, useVars, blockSequence, hasShrinkHeader,
                   needsRetiring, gcPrioritise, chunkErrorStrikes, countVars,
                   allocVars, oldestDirty, gcVars, programmed, fileVars, req,
                   gcRun, writeVars, requests>>

\* The write fails, or what was written does not verify:
\* yaffs_HandleWriteChunkError condemns the block if it was known to be erased.
ProgramFails(b, p) ==
    /\ pc = "program" /\ newChunk = <<b, p>>
    /\ Fault
    /\ ChunkError(b, Checked(b))
    /\ skipErasedCheck' = [skipErasedCheck EXCEPT ![b] = ~Checked(b)]
    /\ programmed' = Programmed(b, p)
    /\ pc' = "discard"
    /\ UNCHANGED <<blockState, useVars, blockSequence, hasShrinkHeader,
                   countVars, allocVars, oldestDirty, gcVars, fileVars, req,
                   gcRun, writeVars, requests>>

\* The chunk not written is deleted ...
Discard(b, p, erased) ==
    /\ pc = "discard" /\ newChunk = <<b, p>>
    /\ DeleteChunk(b, p, Entry(b), erased)
    /\ pc' = "skip"
    /\ UNCHANGED <<allocVars, gcChunk, fileVars, req, gcRun, writeVars,
                   requests>>

\* ... and yaffs_SkipRestOfBlock gives up the block it is in; then another
\* attempt, or none.
SkipRestOfBlock ==
    /\ pc = "skip"
    /\ IF allocationBlock # None /\ blockState[allocationBlock] = "ALLOCATING"
       THEN /\ blockState' = [blockState EXCEPT ![allocationBlock] = "FULL"]
            /\ allocationBlock' = None
       ELSE UNCHANGED <<blockState, allocationBlock>>
    /\ IF WrAttempts = 0 \/ attempts <= WrAttempts
       THEN /\ pc' = "alloc" /\ newChunk' = NoChunk
            /\ UNCHANGED <<attempts, gcChunk, gcRun, req>>
       ELSE GiveUp
    /\ UNCHANGED <<useVars, blockSequence, hasShrinkHeader, healthVars,
                   countVars, allocationPage, allocationBlockFinder,
                   sequenceNumber, oldestDirty, gcBlock, gcDirtiest, programmed, fileVars, faults,
                   requests>>

\* A variant: the object goes on pointing to the old chunk, too.
AddedOnly(b, p, old) == held' = [held EXCEPT ![b] = @ \cup {p}]

\* The object's hdrChunk or tnode points to the new chunk from now on.
Replace(b, p, old) ==
    LET added == [held EXCEPT ![b] = @ \cup {p}]
    IN  held' = [added EXCEPT ![old[1]] = @ \ {old[2]}]

Finished == pc' = "idle" /\ req' = NoRequest /\ WriteEnds

Commit(b, p) ==
    /\ pc = "commit" /\ newChunk = <<b, p>>
    /\ IF Copying
       THEN /\ Replace(b, p, <<gcRun.block, gcChunk>>)
            /\ pc' = "gcDrop" /\ WriteEnds /\ UNCHANGED req
       ELSE IF req.prev # NoChunk
       THEN /\ Replace(b, p, req.prev)
            /\ pc' = "deletePrev" /\ UNCHANGED <<req, writeVars>>
       ELSE /\ held' = [held EXCEPT ![b] = @ \cup {p}]
            /\ IF req.shrink THEN pc' = "markShrink" /\ UNCHANGED <<req, writeVars>>
               ELSE Finished
    /\ UNCHANGED <<blockState, useVars, blockSequence, hasShrinkHeader,
                   healthVars, countVars, allocVars, oldestDirty, gcVars,
                   programmed, softDeleted, promised, padded, gcRun, faults, requests>>

\* The chunk that was replaced is deleted.
DeletePrev(b, p, erased) ==
    /\ pc = "deletePrev" /\ req.prev = <<b, p>>
    /\ DeleteChunk(b, p, Entry(b), erased)
    /\ IF req.shrink THEN pc' = "markShrink" /\ UNCHANGED <<req, writeVars>>
       ELSE Finished
    /\ UNCHANGED <<allocVars, gcChunk, fileVars, gcRun, requests>>

\* The block of a shrink header is marked.
MarkShrink(b, p) ==
    /\ pc = "markShrink" /\ newChunk = <<b, p>>
    /\ hasShrinkHeader' = [hasShrinkHeader EXCEPT ![b] = TRUE]
    /\ Finished
    /\ UNCHANGED <<blockState, useVars, blockSequence, healthVars, countVars,
                   allocVars, oldestDirty, gcVars, programmed, fileVars, gcRun,
                   faults, requests>>

(***************************************************************************)
(* The specification.                                                      *)
(***************************************************************************)

\* yaffs_InitialiseBlocks and a scan that found the first blocks written, in
\* that order, LiveAtMount in use, and the others erased.
Rank(b) == b - StartBlock + 1
Written(b) == Rank(b) \in DOMAIN LiveAtMount
Init ==
    /\ blockState = [b \in Block |-> IF Written(b) THEN "FULL" ELSE "EMPTY"]
    /\ chunkBits = [b \in Block |-> IF Written(b) THEN LiveAtMount[Rank(b)] ELSE {}]
    /\ pagesInUse = [b \in Block |-> Cardinality(chunkBits[b])]
    /\ softDeletions = [b \in Block |-> 0]
    /\ blockSequence = [b \in Block |-> IF Written(b) THEN Rank(b) ELSE 0]
    /\ hasShrinkHeader = [b \in Block |-> FALSE]
    /\ needsRetiring = [b \in Block |-> FALSE]
    /\ gcPrioritise = [b \in Block |-> FALSE]
    /\ chunkErrorStrikes = [b \in Block |-> 0]
    /\ skipErasedCheck = [b \in Block |-> FALSE]
    /\ held = chunkBits /\ softDeleted = [b \in Block |-> {}]
    /\ nErasedBlocks = Cardinality({b \in Block : blockState[b] = "EMPTY"})
    /\ nFreeChunks = Cardinality(FreeChunk)
    /\ allocationBlock = None /\ allocationPage = 0
    /\ allocationBlockFinder = 0 /\ sequenceNumber = Len(LiveAtMount)
    /\ oldestDirty = NoDirty
    /\ gcBlock = None /\ gcChunk = 0 /\ gcDirtiest = None
    /\ programmed = [b \in Block |-> [p \in Page |-> IF Written(b) THEN 1 ELSE 0]]
    /\ pc = "idle" /\ req = NoRequest /\ gcRun = NoGcRun
    /\ newChunk = NoChunk /\ attempts = 0 /\ promised = 0 /\ padded = 0
    /\ faults = 0 /\ requests = 0

Request ==
    \/ \E collect \in MayCollect : StartWrite(collect)
    \/ StartBackgroundGc
    \/ CacheWrite
    \/ \E b \in Block, p \in Page, erased \in BOOLEAN : Delete(b, p, erased)
    \/ \E b \in Block, p \in Page : SoftDelete(b, p)
    \/ \E b \in Block : ReadError(b)

Collect ==
    \/ GcSkip
    \/ \E aggressive \in BOOLEAN, c \in Block \cup {None} : GcNothing(aggressive, c)
    \/ \E b \in Block, aggressive, erased \in BOOLEAN : GcBegin(b, aggressive, erased)
    \/ \E p \in Page, erased \in BOOLEAN : GcDrop(p, erased)
    \/ \E p \in Page : GcCopy(p)
    \/ \E erased \in BOOLEAN : GcDropCopied(erased)
    \/ GcEnd

Write ==
    \/ \E prev \in Chunk \cup {NoChunk}, reserve, shrink \in BOOLEAN :
           Lookup(prev, reserve, shrink)
    \/ \E b \in Block : AllocateChunk(b)
    \/ \E b \in Block : NoSpace(b)
    \/ NoErasedBlock
    \/ \E b \in Block, p \in Page : ProgramOk(b, p)
    \/ \E b \in Block, p \in Page : NotErased(b, p)
    \/ \E b \in Block, p \in Page : ProgramFails(b, p)
    \/ \E b \in Block, p \in Page, erased \in BOOLEAN : Discard(b, p, erased)
    \/ SkipRestOfBlock
    \/ \E b \in Block, p \in Page : Commit(b, p)
    \/ \E b \in Block, p \in Page, erased \in BOOLEAN : DeletePrev(b, p, erased)
    \/ \E b \in Block, p \in Page : MarkShrink(b, p)

Service == Collect \/ Write
Next == Request \/ Service

Spec == Init /\ [][Next]_vars
\* A request in service is run to its end by the thread that holds the lock.
FairSpec == Spec /\ WF_vars(Service)

(***************************************************************************)
(* Properties.                                                             *)
(***************************************************************************)

\* Every variable has its type; the counters are bounded by CountersAgree.
TypeOK ==
    /\ blockState \in [Block -> BlockStates]
    /\ chunkBits \in [Block -> SUBSET Page]
    /\ pagesInUse \in [Block -> Int]
    /\ softDeletions \in [Block -> Int]
    /\ blockSequence \in [Block -> Nat]
    /\ hasShrinkHeader \in [Block -> BOOLEAN]
    /\ needsRetiring \in [Block -> BOOLEAN]
    /\ gcPrioritise \in [Block -> BOOLEAN]
    /\ chunkErrorStrikes \in [Block -> 0 .. 7]
    /\ skipErasedCheck \in [Block -> BOOLEAN]
    /\ nErasedBlocks \in Int /\ nFreeChunks \in Int
    /\ allocationBlock \in Block \cup {None}
    /\ allocationPage \in 0 .. NChunks
    /\ allocationBlockFinder \in Block \cup {0}
    /\ sequenceNumber \in Nat
    /\ oldestDirty \in [seq : Nat, block : Block \cup {None}]
    /\ gcBlock \in Block \cup {None}
    /\ gcChunk \in 0 .. NChunks
    /\ gcDirtiest \in Block \cup {None}
    /\ programmed \in [Block -> [Page -> Nat]]
    /\ held \in [Block -> SUBSET Page]
    /\ softDeleted \in [Block -> SUBSET Page]
    /\ promised \in 0 .. NShortOpCaches /\ padded \in 0 .. MaxPads
    /\ pc \in {"idle", "gcCheck", "gcLoop", "gcDrop", "lookup", "alloc",
               "program", "discard", "skip", "commit", "deletePrev", "markShrink"}
    /\ req \in [write : BOOLEAN, reserve : BOOLEAN, shrink : BOOLEAN,
                prev : Chunk \cup {NoChunk}]
    /\ gcRun \in [block : Block \cup {None}, tries : Nat, copies : Nat, ok : BOOLEAN]
    /\ newChunk \in Chunk \cup {NoChunk}
    /\ attempts \in Nat
    /\ faults \in 0 .. MaxFaults
    /\ requests \in 0 .. MaxRequests

\* The chunks in transit: allocated and not yet referred to, or replaced and
\* not yet deleted.
Pending ==
    CASE pc \in {"program", "discard", "commit"} -> {newChunk}
      [] pc = "deletePrev" -> {req.prev}
      [] pc = "gcDrop" -> {<<gcRun.block, gcChunk>>}
      [] OTHER -> {}

\* The chunk bitmap holds exactly the chunks some object needs, those of soft
\* deleted files and the ones in transit: no chunk leaks and none is lost,
\* whatever step fails and whenever the collector runs in between.
BitmapAccounted ==
    \A c \in Chunk : c[2] \in chunkBits[c[1]]
                        <=> c \in Held \cup SoftDeleted \cup Pending

\* The counters kept beside the bitmap agree with it (what yaffs_VerifyBlock,
\* yaffs_VerifyBlocks and yaffs_VerifyFreeChunks recompute).
CountersAgree ==
    /\ \A b \in Block : /\ pagesInUse[b] = Cardinality(chunkBits[b])
                        /\ softDeletions[b] = Cardinality(softDeleted[b])
    /\ nErasedBlocks = Cardinality({b \in Block : blockState[b] = "EMPTY"})
    /\ nFreeChunks = Cardinality(FreeChunk)

\* A chunk an object needs is in a block that keeps its data, written exactly
\* once since the block was erased; no page is ever written twice, nor before
\* an earlier page of its block is used up.
DataSafe ==
    /\ \A c \in Held \cup SoftDeleted : /\ blockState[c[1]] \in InUseStates
                                        /\ programmed[c[1]][c[2]] = 1
    /\ \A b \in Block, p \in Page :
           /\ programmed[b][p] <= 1
           /\ b = allocationBlock /\ p >= allocationPage => programmed[b][p] = 0
           /\ blockState[b] = "EMPTY" => programmed[b][p] = 0

\* Only the allocation block is ALLOCATING and only the block collected in
\* this call is COLLECTING (what yaffs_VerifyBlocks checks).
StatesUnique ==
    \A b \in Block :
        /\ blockState[b] = "ALLOCATING" <=> b = allocationBlock
        /\ blockState[b] = "COLLECTING" => b = gcRun.block /\ b = gcBlock

\* What is selected for collection, or remembered as a candidate, is a full
\* block, although both are remembered over any number of requests.
CandidatesFull ==
    /\ gcRun.block = None /\ gcBlock # None => blockState[gcBlock] = "FULL"
    /\ gcDirtiest # None => blockState[gcDirtiest] \in {"FULL", "COLLECTING"}
    /\ oldestDirty.block # None => blockState[oldestDirty.block] \in
                                       {"FULL", "COLLECTING"}

\* While the oldest dirty sequence number is tracked no full block with
\* discarded chunks is older: a block with a shrink header may only be
\* collected when that number says so.
OldestDirtyIsOldest ==
    oldestDirty.seq # 0 =>
        /\ oldestDirty.block \in Block
        /\ blockSequence[oldestDirty.block] = oldestDirty.seq
        /\ \A b \in DirtyFull : oldestDirty.seq <= blockSequence[b]

\* Between requests the block being collected still has a chunk for the
\* collector to move: every chunk behind gcChunk has gone, so the collection
\* will end.
CollectionAdvances ==
    pc = "idle" /\ gcBlock # None => \E p \in chunkBits[gcBlock] : p >= gcChunk

\* A write that may use the reserve finds an erased chunk: the copies of the
\* collector, headers that replace one, and cached chunks, whose space was
\* only checked when they were put in the cache.
ReserveSuffices ==
    pc = "alloc" /\ MayUseReserve => allocationBlock # None \/ nErasedBlocks >= 1

\* A block with a shrink header is not collected while an older full block has
\* discarded chunks.
ShrinkBlocksWait ==
    [][\A b \in Block :
          gcRun.block = None /\ gcRun'.block = b /\ hasShrinkHeader[b] =>
              \A c \in DirtyFull : blockSequence[c] >= blockSequence[b]]_vars

\* A request, once taken up, is done with.
EveryRequestEnds == pc # "idle" ~> pc = "idle"
=============================================================================
