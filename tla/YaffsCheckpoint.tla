--------------------------- MODULE YaffsCheckpoint ---------------------------
(***************************************************************************)
(* The checkpoint: the state of the device, written to blocks of its own   *)
(* when the file system is synced (yaffs_CheckpointSave), read instead of  *)
(* a scan when it is mounted, and erased before anything else changes on   *)
(* the NAND (yaffs_yaffs2.c), as a stream of pages (yaffs_checkptrw.c).    *)
(*                                                                         *)
(* "work" is what is still to be done under the gross lock; each action    *)
(* programs a page or erases a block at most, and power may fail between   *)
(* any two.  The objects are Keys, each with one chunk: what is in the     *)
(* chunks and how the scan orders them is YaffsLog's matter.               *)
(*                                                                         *)
(* No collector runs here: gcControl says so (yaffs_gc_control is 0), or   *)
(* no block is worth collecting.  What a collection does to the counters   *)
(* and blocks is YaffsBlocks' matter.                                      *)
(*                                                                         *)
(* The stream is StreamPages long: the first page holds the counters of    *)
(* the device, the second the blocks and the chunk bits, the last one the  *)
(* objects, the tail marker and the sum.  The sum is taken to tell any two *)
(* streams apart.                                                          *)
(***************************************************************************)
EXTENDS Integers, Sequences, FiniteSets

CONSTANTS
    NBlocks,        \* internalStartBlock = 1 .. internalEndBlock = NBlocks
    NChunks,        \* nChunksPerBlock
    Keys,           \* the objects
    StreamPages,    \* the pages of a checkpoint, at least 3
    MaxCheckpointBlocks, \* checkpointMaxBlocks
    Reserved,       \* nReservedBlocks
    CheckpointBlocks, \* nCheckpointBlocksRequired
    FullSaves,      \* may a save that follows a mount find too few blocks?
    BadKeepsData,   \* may a block that could not be erased still be read?
    MaxRequests,    \* bound: how many writes, saves and unmounts are asked for
    MaxCrashes,     \* bound: how often power fails
    MaxFaults       \* bound: how many programs and erasures fail

ASSUME CheckpointAssumption ==
    /\ NBlocks \in Nat \ {0} /\ NChunks \in Nat \ {0}
    /\ StreamPages \in Nat /\ StreamPages >= 3
    /\ MaxCheckpointBlocks \in Nat /\ Reserved \in Nat
    /\ CheckpointBlocks \in Nat
    /\ FullSaves \in BOOLEAN /\ BadKeepsData \in BOOLEAN
    /\ MaxRequests \in Nat /\ MaxCrashes \in Nat /\ MaxFaults \in Nat

VARIABLES
    flash,          \* per block and page, what is on the NAND
    bad,            \* the blocks marked bad on the NAND
    dev,            \* yaffs_Device
    ck,             \* the checkpoint stream of yaffs_Device
    mounted,
    work,           \* what is left to be done, the first thing first
    clock,          \* orders the data pages, as block sequence numbers do
    requests, crashes, faults

bounds == <<requests, crashes, faults>>
vars == <<flash, bad, dev, ck, mounted, work, clock, bounds>>

Blocks == 1 .. NBlocks
Pages == 1 .. NChunks
NoBlock == -1

Erased == [kind |-> "erased"]
Torn == [kind |-> "torn"]
Data(k, t) == [kind |-> "data", key |-> k, time |-> t]
ErasedBlock == [p \in Pages |-> Erased]
TornBlock == [p \in Pages |-> Torn]

States == {"empty", "allocating", "full", "checkpoint", "dead"}
InState(d, s) == {b \in Blocks : d.state[b] = s}
Lowest(S) == IF S = {} THEN NoBlock ELSE CHOOSE b \in S : \A c \in S : b <= c
PagesOf(used, b) == {x \in used : x[1] = b}

\* yaffs_CountFreeChunks
FreeChunks(d) ==
    LET live == InState(d, "allocating") \cup InState(d, "full")
    IN NChunks * Cardinality(InState(d, "empty") \cup live)
       - Cardinality({x \in d.used : x[1] \in live})

(***************************************************************************)
(* What a scan finds: the newest page of each key.                         *)
(***************************************************************************)
Programmed(f, b) == {p \in Pages : f[b][p] # Erased}
DataPages(f) == {x \in Blocks \X Pages : f[x[1]][x[2]].kind = "data"}
Time(f, x) == f[x[1]][x[2]].time
Live(f) == {x \in DataPages(f) :
               \A y \in DataPages(f) :
                   f[y[1]][y[2]].key = f[x[1]][x[2]].key => Time(f, y) <= Time(f, x)}
Newest(f) == {x[1] : x \in {y \in DataPages(f) :
                              \A z \in DataPages(f) : Time(f, z) <= Time(f, y)}}

\* The first page of a checkpoint block is what its tags are read from.
IsCheckpoint(f, b) == f[b][1].kind = "ck"

ScannedState(f, b) ==
    IF b \in bad THEN "dead"
    ELSE IF IsCheckpoint(f, b) THEN "checkpoint"
    ELSE IF Programmed(f, b) = {} THEN "empty"
    ELSE IF b \in Newest(f) /\ Cardinality(Programmed(f, b)) < NChunks THEN "allocating"
    ELSE "full"

\* yaffs2_ScanBackwards.  A block without data that is not erased is full of
\* dirty chunks; it is erased when the scan is done with it.
Scanned(f) ==
    LET d == [state |-> [b \in Blocks |-> ScannedState(f, b)],
              used |-> Live(f)]
        at == Lowest(InState(d, "allocating"))
    IN [state |-> d.state, used |-> d.used,
        nErasedBlocks |-> Cardinality(InState(d, "empty")),
        nFreeChunks |-> FreeChunks(d),
        allocationBlock |-> at,
        allocationPage |-> IF at = NoBlock THEN 0 ELSE Cardinality(Programmed(f, at)),
        blocksInCheckpoint |-> Cardinality(InState(d, "checkpoint")),
        isCheckpointed |-> FALSE]

(***************************************************************************)
(* Reading the stream.                                                     *)
(***************************************************************************)
\* yaffs2_CheckpointFindNextCheckpointBlock: the first checkpoint block from
\* the place the tags of the last one point to.
FindFrom(f, from) == Lowest({b \in Blocks : b >= from /\ IsCheckpoint(f, b)})

\* The blocks of the stream in the order they are read, at most as many as are
\* looked for.
Found(f) ==
    LET at[n \in 1 .. StreamPages] ==
            IF n > MaxCheckpointBlocks THEN NoBlock
            ELSE IF n = 1 THEN FindFrom(f, 1)
            ELSE IF at[n - 1] = NoBlock THEN NoBlock
            ELSE FindFrom(f, f[at[n - 1]][1].next)
    IN at

\* Page i of the stream, or what there is in its place.
BlockOf(i) == (i - 1) \div NChunks + 1
PageOf(i) == ((i - 1) % NChunks) + 1
StreamPage(f, i) ==
    LET b == Found(f)[BlockOf(i)]
    IN IF b = NoBlock THEN Erased ELSE f[b][PageOf(i)]
IsPage(f, i) == StreamPage(f, i).kind = "ck" /\ StreamPage(f, i).n = i

Stream == 1 .. StreamPages
Contents(f) == [i \in 1 .. StreamPages - 1 |-> StreamPage(f, i).holds]

\* yaffs2_GetCheckpointSum, yaffs2_ReadCheckpointSum
SumAgrees(f) == StreamPage(f, StreamPages).holds.sum = Contents(f)

\* yaffs2_ReadCheckpointData
Restorable(f) == (\A i \in Stream : IsPage(f, i)) /\ SumAgrees(f)

\* A variant: the blocks a checkpoint was read from are left as they were saved.
StayEmpty(state, list) == [b \in Blocks |-> state[b]]

\* yaffs2_CheckpointClose after reading: the blocks the stream was read from
\* were saved as empty ones.
ListedAreCheckpoint(state, list) ==
    [b \in Blocks |-> IF b \in list /\ state[b] = "empty" THEN "checkpoint" ELSE state[b]]

\* The device after yaffs2_CheckpointRestore and yaffs2_CheckpointClose.
Restored(f) ==
    LET device == StreamPage(f, 1).holds
        blocks == StreamPage(f, 2).holds
        objects == StreamPage(f, StreamPages).holds
        list == {Found(f)[BlockOf(i)] : i \in Stream}
        n == Cardinality(list)
    IN [state |-> ListedAreCheckpoint(blocks.state, list),
        used |-> objects.used,
        nErasedBlocks |-> device.nErasedBlocks - n,
        nFreeChunks |-> device.nFreeChunks - n * NChunks,
        allocationBlock |-> device.allocationBlock,
        allocationPage |-> device.allocationPage,
        blocksInCheckpoint |-> n,
        isCheckpointed |-> TRUE]

\* Where the stream is left by reading it: checkpointByteOffset (only whether
\* it is 0), checkpointCurrentBlock and checkpointCurrentChunk.
LeftByReading(f) ==
    LET wrong == Lowest({i \in Stream : ~IsPage(f, i)})
        end == IF wrong = NoBlock THEN StreamPages ELSE wrong
        b == Found(f)[BlockOf(end)]
    IN [forWriting |-> FALSE, buffer |-> FALSE,
        offset |-> wrong = NoBlock \/ b = NoBlock,
        currentBlock |-> IF PageOf(end) = NChunks THEN NoBlock ELSE b,
        currentChunk |-> IF b = NoBlock THEN 0 ELSE PageOf(end),
        nextBlock |-> IF b = NoBlock THEN NoBlock ELSE b + 1,
        page |-> end, sum |-> <<>>]

(***************************************************************************)
(* What is left to be done.                                                *)
(***************************************************************************)
Task(what, x) == [what |-> what, x |-> x]
Invalidate == Task("invalidate", 0)
Doing(what) == work # <<>> /\ Head(work).what = what
Then(list) == work' = list \o Tail(work)
Done == work' = Tail(work)
Idle == mounted /\ work = <<>>
Fault == faults < MaxFaults

\* A variant: a checkpoint that was read is thought to go away by itself.
OnlyIfWritten == dev.isCheckpointed /\ ck.forWriting

\* yaffs2_InvalidateCheckpoint
IsStale == dev.isCheckpointed \/ dev.blocksInCheckpoint > 0

InvalidateCheckpoint ==
    /\ Doing("invalidate")
    /\ dev' = [dev EXCEPT !.isCheckpointed = IF IsStale THEN FALSE ELSE @]
    /\ Then(IF IsStale THEN <<Task("erasecheckpoint", 0)>> ELSE <<>>)
    /\ UNCHANGED <<flash, bad, ck, mounted, clock, bounds>>

\* A block that could not be erased.
EraseFails(b) ==
    /\ Fault /\ faults' = faults + 1
    /\ bad' = bad \cup {b}
    /\ flash' \in {[flash EXCEPT ![b] = x] :
                      x \in IF BadKeepsData THEN {TornBlock, flash[b]} ELSE {TornBlock}}

Erase(b) == flash' = [flash EXCEPT ![b] = ErasedBlock] /\ UNCHANGED <<bad, faults>>

\* yaffs2_CheckpointErase, one block an action.
EraseCheckpoint ==
    /\ Doing("erasecheckpoint")
    /\ LET b == Lowest(InState(dev, "checkpoint"))
       IN IF b = NoBlock
          THEN /\ dev' = [dev EXCEPT !.blocksInCheckpoint = 0]
               /\ Done /\ UNCHANGED <<flash, bad, faults>>
          ELSE /\ \/ /\ Erase(b)
                     /\ dev' = [dev EXCEPT !.state[b] = "empty", !.nErasedBlocks = @ + 1,
                                           !.nFreeChunks = @ + NChunks]
                  \/ EraseFails(b) /\ dev' = [dev EXCEPT !.state[b] = "dead"]
               /\ UNCHANGED work
    /\ UNCHANGED <<ck, mounted, clock, requests, crashes>>

(***************************************************************************)
(* Changing what is on the NAND.                                           *)
(***************************************************************************)
\* yaffs_BlockBecameDirty
BecameDirty ==
    /\ Doing("dirty")
    /\ Then(<<Invalidate, Task("erase", Head(work).x)>>)
    /\ UNCHANGED <<flash, bad, dev, ck, mounted, clock, bounds>>

EraseBlock ==
    /\ Doing("erase")
    /\ LET b == Head(work).x
       IN \/ /\ Erase(b)
             /\ dev' = [dev EXCEPT !.state[b] = "empty", !.nErasedBlocks = @ + 1]
          \/ /\ EraseFails(b)
             /\ dev' = [dev EXCEPT !.state[b] = "dead", !.nFreeChunks = @ - NChunks]
    /\ Done
    /\ UNCHANGED <<ck, mounted, clock, requests, crashes>>

\* The block a chunk is allocated from; any erased block may be the next.
AllocationBlocks ==
    IF dev.allocationBlock # NoBlock THEN {dev.allocationBlock} ELSE InState(dev, "empty")

\* yaffs2_CalcCheckpointBlocksRequired: the blocks the next checkpoint needs
\* beside those it has.
BlocksRequired ==
    IF CheckpointBlocks > dev.blocksInCheckpoint
    THEN CheckpointBlocks - dev.blocksInCheckpoint ELSE 0

\* yaffs_CheckSpaceForAllocation, and a block to allocate from.
WriteSpace ==
    /\ dev.nFreeChunks > (Reserved + BlocksRequired) * NChunks + 1
    /\ AllocationBlocks # {}

NoSpace ==
    /\ Doing("write") /\ ~WriteSpace
    /\ Done
    /\ UNCHANGED <<flash, bad, dev, ck, mounted, clock, bounds>>

\* The newest chunk of key k is written, and the older one deleted; a block
\* that has lost its last chunk is erased.
Write ==
    /\ Doing("write") /\ WriteSpace
    /\ \E b \in AllocationBlocks :
       LET k == Head(work).x
           p == IF dev.allocationBlock = NoBlock THEN 1 ELSE dev.allocationPage + 1
           old == {x \in dev.used : flash[x[1]][x[2]].key = k}
           used == (dev.used \ old) \cup {<<b, p>>}
           emptied == {x[1] : x \in {y \in old : y[1] # b /\ PagesOf(used, y[1]) = {}}}
       IN /\ flash' = [flash EXCEPT ![b][p] = Data(k, clock + 1)]
          /\ clock' = clock + 1
          /\ dev' = [dev EXCEPT
                !.used = used,
                !.state[b] = IF p = NChunks THEN "full" ELSE "allocating",
                !.nErasedBlocks = IF p = 1 THEN @ - 1 ELSE @,
                !.nFreeChunks = @ - 1 + Cardinality(old),
                !.allocationBlock = IF p = NChunks THEN NoBlock ELSE b,
                !.allocationPage = IF p = NChunks THEN 0 ELSE p]
          /\ Then(IF emptied = {} THEN <<>> ELSE <<Task("dirty", Lowest(emptied))>>)
    /\ UNCHANGED <<bad, ck, mounted, bounds>>

(***************************************************************************)
(* Saving.                                                                 *)
(***************************************************************************)
\* yaffs2_CheckpointSpaceOk
SpaceOk == dev.nErasedBlocks > Reserved

\* yaffs2_CheckpointOpen for writing.  When there is no space it returns before
\* it has reset anything but the direction.
Open ==
    /\ Doing("open")
    /\ IF SpaceOk
       THEN /\ ck' = [forWriting |-> TRUE, buffer |-> TRUE, offset |-> FALSE,
                      currentBlock |-> NoBlock, currentChunk |-> 0, nextBlock |-> 1,
                      page |-> 0, sum |-> <<>>]
            /\ Then(<<Task("erasecheckpoint", 0), Task("page", 0)>>)
       ELSE /\ ck' = [ck EXCEPT !.forWriting = TRUE]
            /\ Then(IF ck.offset THEN <<Task("flush", 0), Task("close", FALSE)>>
                    ELSE <<Task("close", FALSE)>>)
    /\ UNCHANGED <<flash, bad, dev, mounted, clock, bounds>>

\* yaffs2_CheckpointFindNextErasedBlock
NextErased == IF ck.nextBlock # NoBlock /\ SpaceOk
              THEN Lowest({b \in InState(dev, "empty") : b >= ck.nextBlock}) ELSE NoBlock

\* yaffs2_DeviceToCheckpointDevice, yaffs2_WriteCheckpointDevice
SavedCounters == [nErasedBlocks |-> dev.nErasedBlocks, nFreeChunks |-> dev.nFreeChunks,
                  allocationBlock |-> dev.allocationBlock,
                  allocationPage |-> dev.allocationPage]
SavedBlocks == [state |-> dev.state, used |-> dev.used]

\* yaffs2_ObjectToCheckpointObject, yaffs2_CheckpointTnodeWorker: which chunk
\* each object is in.
SavedObjects == [used |-> dev.used]

\* What page i of the stream holds (yaffs2_WriteCheckpointData).
Holds(i) ==
    IF i = 1 THEN SavedCounters
    ELSE IF i = 2 THEN SavedBlocks
    ELSE IF i < StreamPages THEN SavedObjects
    ELSE [used |-> dev.used, sum |-> ck.sum]

\* yaffs2_CheckpointFlushBuffer in block b, whose page p is programmed; a
\* program that fails is not noticed.
Flush(b, p, next, page) ==
    /\ \/ /\ flash' = [flash EXCEPT ![b][p] = page]
          /\ UNCHANGED faults
       \/ /\ Fault /\ faults' = faults + 1
          /\ flash' = [flash EXCEPT ![b][p] = Torn]
    /\ dev' = IF p = 1 THEN [dev EXCEPT !.state[b] = "checkpoint",
                                        !.blocksInCheckpoint = @ + 1] ELSE dev
    /\ UNCHANGED <<bad, mounted, clock, requests, crashes>>

\* A variant: the tags point to the block itself.
PointsToItself(next) == next - 1

\* The hint in the tags: where to look for the block after this one.
Hint(next) == next

WritePage ==
    /\ Doing("page")
    /\ LET fresh == ck.currentBlock = NoBlock
           b == IF fresh THEN NextErased ELSE ck.currentBlock
           p == IF fresh THEN 1 ELSE ck.currentChunk + 1
           next == IF fresh THEN b + 1 ELSE ck.nextBlock
           i == ck.page + 1
       IN IF b = NoBlock
          THEN /\ ck' = [ck EXCEPT !.nextBlock = NoBlock, !.offset = TRUE]
               /\ Then(<<Task("close", FALSE)>>)
               /\ UNCHANGED <<flash, bad, dev, mounted, clock, bounds>>
          ELSE /\ Flush(b, p, next, [kind |-> "ck", n |-> i, next |-> Hint(next),
                                     holds |-> Holds(i)])
               /\ ck' = [ck EXCEPT !.page = i, !.sum = Append(@, Holds(i)),
                                   !.nextBlock = next,
                                   !.currentBlock = IF p = NChunks THEN NoBlock ELSE b,
                                   !.currentChunk = p % NChunks]
               /\ Then(IF i = StreamPages THEN <<Task("close", TRUE)>>
                       ELSE <<Task("page", 0)>>)

\* A variant: the blocks of the checkpoint are still counted as erased.
StillErased(d) == [d EXCEPT !.nFreeChunks = @ - d.blocksInCheckpoint * NChunks]

Closed(d) == [d EXCEPT !.nFreeChunks = @ - d.blocksInCheckpoint * NChunks,
                       !.nErasedBlocks = @ - d.blocksInCheckpoint]

Close ==
    /\ Doing("close")
    /\ dev' = [Closed(dev) EXCEPT !.isCheckpointed = Head(work).x]
    /\ ck' = [ck EXCEPT !.buffer = FALSE]
    /\ Done
    /\ UNCHANGED <<flash, bad, mounted, clock, bounds>>

\* yaffs2_CheckpointClose flushes what it takes for a part of a page: the
\* offset where an earlier stream stopped, of which there is no buffer any
\* more.  The program without data ends in a BUG().
FlushLeft ==
    /\ Doing("flush")
    /\ IF ck.currentBlock = NoBlock THEN Done ELSE work' = <<Task("bug", 0)>>
    /\ UNCHANGED <<flash, bad, dev, ck, mounted, clock, bounds>>

(***************************************************************************)
(* Requests, unmounting, mounting and losing power.                        *)
(***************************************************************************)
\* yaffs_CheckpointSave
SaveTasks == IF dev.isCheckpointed THEN <<>> ELSE <<Invalidate, Task("open", 0)>>

\* There may be too few blocks when the last stream was left in a block.
SaveAllowed ==
    \/ FullSaves \/ ~ck.offset \/ ck.currentBlock = NoBlock
    \/ dev.nErasedBlocks + dev.blocksInCheckpoint > Reserved + MaxFaults - faults

Ask(list) ==
    /\ Idle /\ requests < MaxRequests
    /\ requests' = requests + 1
    /\ work' = list
    /\ UNCHANGED <<flash, bad, dev, ck, mounted, clock, crashes, faults>>

BeginWrite(k) == Ask(<<Invalidate, Task("write", k)>>)
BeginSave == SaveAllowed /\ Ask(SaveTasks)
BeginUnmount == SaveAllowed /\ Ask(SaveTasks \o <<Task("unmount", 0)>>)

NoDevice == [state |-> [b \in Blocks |-> "empty"], used |-> {}, nErasedBlocks |-> 0,
             nFreeChunks |-> 0, allocationBlock |-> NoBlock, allocationPage |-> 0,
             blocksInCheckpoint |-> 0, isCheckpointed |-> FALSE]
NoStream == [forWriting |-> FALSE, buffer |-> FALSE, offset |-> FALSE,
             currentBlock |-> NoBlock, currentChunk |-> 0, nextBlock |-> NoBlock,
             page |-> 0, sum |-> <<>>]
Forget == mounted' = FALSE /\ work' = <<>> /\ dev' = NoDevice /\ ck' = NoStream

Unmount ==
    /\ Doing("unmount") /\ Forget
    /\ UNCHANGED <<flash, bad, clock, bounds>>

\* yaffs_SkipRestOfBlock
RestSkipped ==
    IF dev.allocationBlock = NoBlock THEN dev
    ELSE [dev EXCEPT !.state[dev.allocationBlock] = "full",
                     !.allocationBlock = NoBlock, !.allocationPage = 0]

\* The end of yaffs2_ScanBackwards: blocks without a live chunk are erased, and
\* the block that was being allocated from is given up.
CleanUp ==
    /\ Doing("cleanup")
    /\ LET b == Lowest({c \in InState(dev, "full") : PagesOf(dev.used, c) = {}})
       IN IF b = NoBlock THEN Done /\ dev' = RestSkipped
          ELSE Then(<<Task("dirty", b), Task("cleanup", 0)>>) /\ UNCHANGED dev
    /\ UNCHANGED <<flash, bad, ck, mounted, clock, bounds>>

\* yaffs_GutsInitialise: what an aborted save has left is erased.
Mount ==
    /\ ~mounted
    /\ mounted' = TRUE
    /\ ck' = LeftByReading(flash)
    /\ IF Restorable(flash) THEN dev' = Restored(flash) /\ work' = <<>>
       ELSE /\ dev' = Scanned(flash)
            /\ work' = <<Task("cleanup", 0), Invalidate>>
    /\ UNCHANGED <<flash, bad, clock, bounds>>

\* What power failing can leave of the program or erase that is going on.
TornPage(b, p) == [flash EXCEPT ![b][p] = Torn]
Interrupted ==
    {flash} \cup
    (IF Doing("erase") THEN {[flash EXCEPT ![Head(work).x] = TornBlock]}
     ELSE IF Doing("erasecheckpoint") /\ InState(dev, "checkpoint") # {}
     THEN {[flash EXCEPT ![Lowest(InState(dev, "checkpoint"))] = TornBlock]}
     ELSE IF Doing("write") /\ WriteSpace
     THEN {TornPage(b, IF dev.allocationBlock = NoBlock THEN 1 ELSE dev.allocationPage + 1) :
              b \in AllocationBlocks}
     ELSE IF Doing("page") /\ ck.currentBlock # NoBlock
     THEN {TornPage(ck.currentBlock, ck.currentChunk + 1)}
     ELSE IF Doing("page") /\ NextErased # NoBlock THEN {TornPage(NextErased, 1)}
     ELSE {})

Crash ==
    /\ mounted /\ crashes < MaxCrashes
    /\ crashes' = crashes + 1
    /\ flash' \in Interrupted
    /\ Forget
    /\ UNCHANGED <<bad, clock, requests, faults>>

Init ==
    /\ flash = [b \in Blocks |-> ErasedBlock] /\ bad = {}
    /\ dev = NoDevice /\ ck = NoStream /\ mounted = FALSE /\ work = <<>>
    /\ clock = 0 /\ requests = 0 /\ crashes = 0 /\ faults = 0

Step ==
    \/ InvalidateCheckpoint \/ EraseCheckpoint \/ BecameDirty \/ EraseBlock
    \/ Write \/ NoSpace \/ Open \/ WritePage \/ FlushLeft \/ Close \/ Unmount \/ CleanUp
    \/ Mount

Next ==
    \/ (\E k \in Keys : BeginWrite(k)) \/ BeginSave \/ BeginUnmount
    \/ Step \/ Crash

Spec == Init /\ [][Next]_vars

(***************************************************************************)
(* Properties.                                                             *)
(***************************************************************************)
TypeOK ==
    /\ \A b \in Blocks, p \in Pages : flash[b][p].kind \in {"erased", "torn", "data", "ck"}
    /\ bad \subseteq Blocks /\ mounted \in BOOLEAN
    /\ dev.state \in [Blocks -> States] /\ dev.used \subseteq Blocks \X Pages
    /\ dev.nErasedBlocks \in 0 .. NBlocks /\ dev.nFreeChunks \in 0 .. NBlocks * NChunks
    /\ dev.allocationBlock \in Blocks \cup {NoBlock} /\ dev.allocationPage \in 0 .. NChunks
    /\ dev.blocksInCheckpoint \in 0 .. NBlocks /\ dev.isCheckpointed \in BOOLEAN
    /\ ck.currentBlock \in Blocks \cup {NoBlock} /\ ck.page \in 0 .. StreamPages
    /\ requests \in 0 .. MaxRequests /\ crashes \in 0 .. MaxCrashes
    /\ faults \in 0 .. MaxFaults

\* Whenever power fails, a checkpoint that could be restored says what a scan
\* of the NAND would find: the same live chunks, no block erased that is not,
\* and the next chunk to allocate an erased one.
CheckpointIsTrue ==
    Restorable(flash) =>
        LET d == Restored(flash)
        IN /\ d.used = Live(flash) /\ StreamPage(flash, 2).holds.used = d.used
           /\ \A b \in InState(d, "empty") : Programmed(flash, b) = {}
           /\ \A x \in DataPages(flash) : d.state[x[1]] \in {"allocating", "full"}
           /\ d.allocationBlock # NoBlock =>
                  \A p \in Pages : p > d.allocationPage => flash[d.allocationBlock][p] = Erased

\* The counters the space checks rely on agree with the blocks and the chunk
\* bits, after any sequence of saves, mounts and failures.
CountersAgree ==
    Idle => /\ dev.nErasedBlocks = Cardinality(InState(dev, "empty"))
            /\ dev.blocksInCheckpoint = Cardinality(InState(dev, "checkpoint"))
            /\ dev.nFreeChunks = FreeChunks(dev)

\* While the device says it is checkpointed, and nothing has failed, the next
\* mount need not scan.
SavedIsRestorable == dev.isCheckpointed /\ faults = 0 => Restorable(flash)

\* An erased block is erased: nothing that is allocated from the NAND or from
\* the list of the restored device was written before.
ErasedIsErased == mounted => \A b \in InState(dev, "empty") : Programmed(flash, b) = {}

\* "For yaffs2 writing there must be both data and tags."
WritesHaveData == ~Doing("bug")
=============================================================================
