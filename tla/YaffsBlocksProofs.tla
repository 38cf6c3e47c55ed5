------------------------- MODULE YaffsBlocksProofs -------------------------
(***************************************************************************)
(* Theorems about YaffsBlocks: its types, which block is in which state,   *)
(* and what the collector remembers from one call to the next.  They hold  *)
(* for every geometry the mount accepts whose counts fit their fields, any *)
(* number of faults and requests and whatever the device held at mount.    *)
(*                                                                         *)
(* Argument.  None of the invariants is inductive by itself.  IndInv adds  *)
(* what pc says about the collection in progress (Control, Collecting),    *)
(* and that the allocation block has the highest sequence number of all    *)
(* blocks in use (Sequences): that is why yaffs2_UpdateOldestDirtySequence *)
(* never remembers the block that is being allocated from.                 *)
(***************************************************************************)
EXTENDS YaffsBlocks, TLAPS, FiniteSetTheorems

\* Where the collection in progress, and the allocation, have got to.
Control ==
    /\ pc \in {"gcLoop", "gcDrop"} => gcRun.block \in Block
    /\ pc \in {"idle", "gcCheck", "lookup", "deletePrev", "markShrink"} =>
           gcRun.block = None
    /\ gcRun.block # None => pc = "gcLoop" \/ gcChunk \in Page
    /\ allocationBlock # None => allocationPage < NChunks

\* During a collection gcBlock is the block collected, until it is erased.
Collecting ==
    gcRun.block # None /\ gcBlock # None =>
        gcBlock = gcRun.block /\ blockState[gcBlock] = "COLLECTING"

\* The sequence numbers of the blocks in use; the allocation block's is the
\* highest.
Sequences ==
    /\ \A b \in Block : blockState[b] \in InUseStates =>
           blockSequence[b] >= 1 /\ blockSequence[b] <= sequenceNumber
    /\ allocationBlock # None => blockSequence[allocationBlock] = sequenceNumber

\* The blocks that are neither erased, allocated from nor lost.
Closed == {"FULL", "COLLECTING"}

\* d may be remembered as the oldest dirty block, as far as the blocks of S go.
OldestOf(d, S) ==
    /\ d.seq = 0 => d.block = None
    /\ d.seq # 0 => /\ IsYaffs2 /\ d.block \in Block
                    /\ blockState[d.block] \in Closed
                    /\ blockSequence[d.block] = d.seq
    /\ \A b \in S : /\ blockState[b] \in Closed /\ ChunksUsed(b) < NChunks
                    /\ d.seq # 0
                    => d.seq <= blockSequence[b]

\* What is known of sequence numbers.
Tracking == Sequences /\ OldestOf(oldestDirty, Block)

\* What is known of the states of blocks.
Struct == StatesUnique /\ CandidatesFull /\ Collecting /\ Tracking

\* The inductive invariant.
IndInv == TypeOK /\ Control /\ Struct

\* What the geometry check gives every proof.
LEMMA Basics == /\ None \notin Block /\ None = 0
                /\ NChunks \in Nat /\ NChunks >= 2
                /\ Block \subseteq Nat
                /\ Page \subseteq Nat
BY GeometryAssumption DEF Block, None, Page

\* The bounds are natural numbers.
LEMMA Bounds == /\ NShortOpCaches \in Nat /\ MaxRequests \in Nat /\ MaxFaults \in Nat
                /\ LeisurelyCopies \in Nat /\ MaxPads \in Nat
BY ParameterAssumption

\* Erasing or retiring a block keeps the types of what it writes.
LEMMA BlockBecameDirtyType ==
    ASSUME TypeOK, NEW b \in Block, NEW e, NEW erased \in BOOLEAN,
           e.bits \in SUBSET Page, e.used \in Int, e.soft \in Int, e.free \in Int,
           e.dirty \in [seq : Nat, block : Block \cup {None}],
           e.dirtiest \in Block \cup {None},
           BlockBecameDirty(b, e, erased)
    PROVE  /\ blockState' \in [Block -> BlockStates]
           /\ chunkBits' \in [Block -> SUBSET Page]
           /\ pagesInUse' \in [Block -> Int]
           /\ softDeletions' \in [Block -> Int]
           /\ blockSequence' \in [Block -> Nat]
           /\ hasShrinkHeader' \in [Block -> BOOLEAN]
           /\ needsRetiring' \in [Block -> BOOLEAN]
           /\ gcPrioritise' \in [Block -> BOOLEAN]
           /\ chunkErrorStrikes' \in [Block -> 0 .. 7]
           /\ skipErasedCheck' \in [Block -> BOOLEAN]
           /\ nErasedBlocks' \in Int /\ nFreeChunks' \in Int
           /\ oldestDirty' \in [seq : Nat, block : Block \cup {None}]
           /\ gcBlock' \in Block \cup {None}
           /\ gcDirtiest' \in Block \cup {None}
           /\ programmed' \in [Block -> [Page -> Nat]]
           /\ faults' \in 0 .. MaxFaults
<1> USE DEF TypeOK, BlockBecameDirty
<1>1. /\ blockState' \in [Block -> BlockStates]
      /\ chunkBits' \in [Block -> SUBSET Page]
  BY DEF BlockStates, CountedStates, InUseStates
<1>2. /\ pagesInUse' \in [Block -> Int]
      /\ softDeletions' \in [Block -> Int]
  OBVIOUS
<1>3. /\ blockSequence' \in [Block -> Nat]
      /\ nErasedBlocks' \in Int /\ nFreeChunks' \in Int
  BY Basics DEF FreeLeft
<1>4. /\ hasShrinkHeader' \in [Block -> BOOLEAN]
      /\ needsRetiring' \in [Block -> BOOLEAN]
  OBVIOUS
<1>5. /\ gcPrioritise' \in [Block -> BOOLEAN]
      /\ chunkErrorStrikes' \in [Block -> 0 .. 7]
      /\ skipErasedCheck' \in [Block -> BOOLEAN]
  OBVIOUS
<1>6. oldestDirty' \in [seq : Nat, block : Block \cup {None}]
  BY DEF ClearedOldestDirty, NoDirty
<1>7. /\ gcBlock' \in Block \cup {None}
      /\ gcDirtiest' \in Block \cup {None}
  BY DEF Remembered
<1>8. programmed' \in [Block -> [Page -> Nat]]
  <2>1. \/ programmed' = programmed
        \/ programmed' = [programmed EXCEPT ![b] = [p \in Page |-> 0]]
    OBVIOUS
  <2>2. [p \in Page |-> 0] \in [Page -> Nat]
    OBVIOUS
  <2> QED BY ONLY TypeOK, <2>1, <2>2 DEF TypeOK
<1>9. faults' \in 0 .. MaxFaults
  <2>1. faults' = faults \/ Fault
    OBVIOUS
  <2> QED BY ONLY TypeOK, <2>1, Bounds DEF TypeOK, Fault
<1> QED BY <1>1, <1>2, <1>3, <1>4, <1>5, <1>6, <1>7, <1>8, <1>9

\* So does deleting a chunk, which may empty its block.
LEMMA DeleteChunkType ==
    ASSUME TypeOK, NEW b \in Block, NEW p \in Page, NEW e, NEW erased \in BOOLEAN,
           e = Entry(b) \/ e = NoLongerSoft(b),
           DeleteChunk(b, p, e, erased)
    PROVE  /\ blockState' \in [Block -> BlockStates]
           /\ chunkBits' \in [Block -> SUBSET Page]
           /\ pagesInUse' \in [Block -> Int]
           /\ softDeletions' \in [Block -> Int]
           /\ blockSequence' \in [Block -> Nat]
           /\ hasShrinkHeader' \in [Block -> BOOLEAN]
           /\ needsRetiring' \in [Block -> BOOLEAN]
           /\ gcPrioritise' \in [Block -> BOOLEAN]
           /\ chunkErrorStrikes' \in [Block -> 0 .. 7]
           /\ skipErasedCheck' \in [Block -> BOOLEAN]
           /\ nErasedBlocks' \in Int /\ nFreeChunks' \in Int
           /\ oldestDirty' \in [seq : Nat, block : Block \cup {None}]
           /\ gcBlock' \in Block \cup {None}
           /\ gcDirtiest' \in Block \cup {None}
           /\ programmed' \in [Block -> [Page -> Nat]]
           /\ faults' \in 0 .. MaxFaults
<1> DEFINE after == [e EXCEPT !.bits = @ \ {p}, !.used = @ - 1, !.free = @ + 1,
                              !.dirty = UpdatedOldestDirty(b)]
<1>1. UpdatedOldestDirty(b) \in [seq : Nat, block : Block \cup {None}]
  BY DEF TypeOK, UpdatedOldestDirty, Dirty
<1>2. /\ Entry(b).bits \in SUBSET Page /\ Entry(b).used \in Int
      /\ Entry(b).soft \in Int /\ Entry(b).free \in Int
      /\ Entry(b).dirtiest \in Block \cup {None}
  BY DEF TypeOK, Entry
<1>3. /\ after.bits \in SUBSET Page /\ after.used \in Int
      /\ after.soft \in Int /\ after.free \in Int
      /\ after.dirty = UpdatedOldestDirty(b)
      /\ after.dirtiest \in Block \cup {None}
  <2>1. CASE e = Entry(b)
    BY <1>2, <2>1 DEF Entry
  <2>2. CASE e = NoLongerSoft(b)
    BY <1>2, <2>2 DEF Entry, NoLongerSoft
  <2> QED BY <2>1, <2>2
<1>4. CASE WhollyDirty(b, after.used)
  <2>1. BlockBecameDirty(b, after, erased)
    BY <1>4 DEF DeleteChunk
  <2> HIDE DEF after
  <2> QED BY <1>1, <1>3, <2>1, BlockBecameDirtyType
<1>5. CASE ~WhollyDirty(b, after.used)
  <2> USE <1>5 DEF DeleteChunk
  <2>1. /\ chunkBits' = [chunkBits EXCEPT ![b] = after.bits]
        /\ pagesInUse' = [pagesInUse EXCEPT ![b] = after.used]
        /\ softDeletions' = [softDeletions EXCEPT ![b] = after.soft]
        /\ nFreeChunks' = after.free
        /\ oldestDirty' = after.dirty
        /\ UNCHANGED <<blockState, blockSequence, hasShrinkHeader,
                       healthVars, nErasedBlocks, gcBlock, gcDirtiest,
                       programmed, faults>>
    OBVIOUS
  <2> HIDE DEF after, DeleteChunk
  <2> QED BY <1>1, <1>3, <2>1 DEF TypeOK, healthVars
<1> QED BY <1>4, <1>5

\* A fault is counted up to the bound.
LEMMA FaultType ==
    ASSUME TypeOK, Fault
    PROVE  faults' \in 0 .. MaxFaults
BY Bounds DEF TypeOK, Fault

\* A strike against a block keeps the types of its health fields.
LEMMA ChunkErrorType ==
    ASSUME TypeOK, NEW b \in Block, NEW retire \in BOOLEAN, ChunkError(b, retire)
    PROVE  /\ gcPrioritise' \in [Block -> BOOLEAN]
           /\ chunkErrorStrikes' \in [Block -> 0 .. 7]
           /\ needsRetiring' \in [Block -> BOOLEAN]
<1> DEFINE strikes == chunkErrorStrikes[b] + IF gcPrioritise[b] THEN 0 ELSE 1
<1>1. strikes % 8 \in 0 .. 7
  <2>1. chunkErrorStrikes[b] \in 0 .. 7
    BY DEF TypeOK
  <2>2. strikes \in Int
    BY ONLY <2>1
  <2> HIDE DEF strikes
  <2> QED BY ONLY <2>2
<1>2. /\ gcPrioritise' = [gcPrioritise EXCEPT ![b] = TRUE]
      /\ chunkErrorStrikes' = [chunkErrorStrikes EXCEPT ![b] = strikes % 8]
  BY DEF ChunkError
<1>3. \E retired \in BOOLEAN : needsRetiring' = [needsRetiring EXCEPT ![b] = retired]
  BY DEF ChunkError
<1> HIDE DEF strikes
<1> QED BY <1>1, <1>2, <1>3 DEF TypeOK

\* Whether a page is checked is a Boolean.
LEMMA CheckedType ==
    ASSUME TypeOK, NEW b \in Block
    PROVE  Checked(b) \in BOOLEAN /\ IsYaffs2 \in BOOLEAN
BY ParameterAssumption DEF TypeOK, Checked

\* Programming a page keeps the type of programmed.
LEMMA ProgrammedType ==
    ASSUME TypeOK, NEW b \in Block, NEW p \in Page
    PROVE  Programmed(b, p) \in [Block -> [Page -> Nat]]
BY DEF TypeOK, Programmed

\* No request is a request.
LEMMA NoRequestType ==
    NoRequest \in [write : BOOLEAN, reserve : BOOLEAN, shrink : BOOLEAN,
                   prev : Chunk \cup {NoChunk}]
BY DEF NoRequest

\* Leaving yaffs_CheckGarbageCollection clears its locals.
LEMMA LeaveGcType ==
    ASSUME LeaveGc
    PROVE  /\ pc' \in {"lookup", "idle"}
           /\ gcRun' = NoGcRun
           /\ NoGcRun \in [block : Block \cup {None}, tries : Nat, copies : Nat,
                           ok : BOOLEAN]
BY DEF LeaveGc, NoGcRun

\* Giving up a write keeps the types of what it resets.
LEMMA GiveUpType ==
    ASSUME TypeOK, Control, pc \in {"alloc", "skip"}, GiveUp
    PROVE  /\ newChunk' \in Chunk \cup {NoChunk} /\ attempts' \in Nat
           /\ pc' \in {"gcLoop", "idle"}
           /\ gcChunk' \in 0 .. NChunks
           /\ gcRun' \in [block : Block \cup {None}, tries : Nat, copies : Nat,
                          ok : BOOLEAN]
           /\ req' \in [write : BOOLEAN, reserve : BOOLEAN, shrink : BOOLEAN,
                        prev : Chunk \cup {NoChunk}]
<1>1. CASE Copying
  <2>1. gcChunk \in 0 .. NChunks - 1 /\ gcChunk' = gcChunk + 1
    BY <1>1 DEF Control, GiveUp, Copying, Page
  <2>2. gcChunk' \in 0 .. NChunks
    BY <2>1, Basics
  <2> QED BY <1>1, <2>2 DEF TypeOK, GiveUp, WriteEnds
<1>2. CASE ~Copying
  BY <1>2, NoRequestType DEF TypeOK, GiveUp, WriteEnds
<1> QED BY <1>1, <1>2

\* Giving up a copy goes back to the loop of the collector.
LEMMA GiveUpControl ==
    ASSUME TypeOK, Control, pc \in {"alloc", "skip"}, GiveUp
    PROVE  /\ gcRun'.block = gcRun.block
           /\ pc' = IF gcRun.block # None THEN "gcLoop" ELSE "idle"
           /\ gcRun.block # None => gcRun.block \in Block
BY DEF TypeOK, Control, GiveUp, Copying

\* Taking an erased block keeps the types of what it writes.
LEMMA TakeBlockType ==
    ASSUME TypeOK, NEW b \in Block, TakeBlock(b)
    PROVE  /\ nErasedBlocks' \in Int /\ sequenceNumber' \in Nat
           /\ allocationBlockFinder' \in Block \cup {0}
           /\ blockSequence' \in [Block -> Nat]
<1>1. CASE allocationBlock # None
  BY <1>1 DEF TypeOK, TakeBlock
<1>2. CASE allocationBlock = None
  <2>1. /\ nErasedBlocks' = nErasedBlocks - 1
        /\ sequenceNumber' = sequenceNumber + 1
        /\ allocationBlockFinder' = b
        /\ blockSequence' = [blockSequence EXCEPT ![b] = sequenceNumber']
    BY <1>2 DEF TakeBlock
  <2> QED BY <2>1 DEF TypeOK
<1> QED BY <1>1, <1>2

\* Allocating a chunk keeps the types: the page is inside the block.
LEMMA AllocateChunkType ==
    ASSUME TypeOK, Control, NEW b \in Block, AllocateChunk(b)
    PROVE  TypeOK'
<1> DEFINE page == IF allocationBlock = None THEN 0 ELSE allocationPage
<1>1. page \in Page /\ page + 1 \in 0 .. NChunks
  BY Basics DEF TypeOK, Control, Page
<1>2. blockState' \in [Block -> BlockStates]
  BY DEF TypeOK, AllocateChunk, BlockStates, CountedStates, InUseStates
<1>3. chunkBits' \in [Block -> SUBSET Page] /\ newChunk' \in Chunk
  BY <1>1 DEF TypeOK, AllocateChunk, Chunk
<1> QED
  BY <1>1, <1>2, <1>3, TakeBlockType
  DEF TypeOK, AllocateChunk, healthVars, gcVars, fileVars

\* What yaffs2_FindOldestDirtySequence may find has its type.
LEMMA FoundOldestDirtyType ==
    ASSUME TypeOK
    PROVE  FoundOldestDirty \subseteq [seq : Nat, block : Block \cup {None}]
BY DEF TypeOK, FoundOldestDirty, Oldest, DirtyFull, Dirty

\* Beginning a collection keeps the types.
LEMMA GcBeginType ==
    ASSUME TypeOK, NEW b \in Block, NEW aggressive \in BOOLEAN,
           NEW erased \in BOOLEAN, GcBegin(b, aggressive, erased)
    PROVE  TypeOK'
<1> USE DEF useVars, healthVars, countVars, allocVars, fileVars, writeVars
<1>1. /\ gcRun' \in [block : Block \cup {None}, tries : Nat, copies : Nat,
                     ok : BOOLEAN]
      /\ gcChunk' \in 0 .. NChunks
      /\ pc' = "gcLoop"
  BY Basics, Bounds DEF TypeOK, GcBegin, FirstPage
<1>2. PICK dirty \in [seq : Nat, block : Block \cup {None}],
           dirtiest \in Block \cup {None} :
        IF chunkBits[b] = {}
        THEN BlockBecameDirty(b, [Entry(b) EXCEPT !.dirty = dirty,
                                                  !.dirtiest = dirtiest], erased)
        ELSE /\ blockState' = [blockState EXCEPT ![b] =
                    IF @ = "FULL" THEN "COLLECTING" ELSE @]
             /\ hasShrinkHeader' = [hasShrinkHeader EXCEPT ![b] = FALSE]
             /\ gcBlock' = b /\ gcDirtiest' = dirtiest
             /\ oldestDirty' = dirty
             /\ UNCHANGED <<useVars, blockSequence, healthVars, countVars,
                            programmed, faults>>
  BY FoundOldestDirtyType DEF TypeOK, GcBegin
<1> DEFINE e == [Entry(b) EXCEPT !.dirty = dirty, !.dirtiest = dirtiest]
<1>3. /\ e.bits \in SUBSET Page /\ e.used \in Int /\ e.soft \in Int
      /\ e.free \in Int /\ e.dirty = dirty /\ e.dirtiest = dirtiest
  BY DEF TypeOK, Entry
<1>4. UNCHANGED <<allocVars, fileVars, req, writeVars, requests>>
  BY DEF GcBegin
<1>5. CASE chunkBits[b] = {}
  <2>1. BlockBecameDirty(b, e, erased)
    BY <1>2, <1>5
  <2> HIDE DEF e
  <2>2. /\ held' \in [Block -> SUBSET Page] /\ softDeleted' \in [Block -> SUBSET Page]
        /\ promised' \in 0 .. NShortOpCaches /\ padded' \in 0 .. MaxPads
    BY <1>4 DEF TypeOK
  <2>3. /\ blockState' \in [Block -> BlockStates]
        /\ chunkBits' \in [Block -> SUBSET Page]
        /\ pagesInUse' \in [Block -> Int]
        /\ softDeletions' \in [Block -> Int]
        /\ blockSequence' \in [Block -> Nat]
        /\ hasShrinkHeader' \in [Block -> BOOLEAN]
        /\ needsRetiring' \in [Block -> BOOLEAN]
        /\ gcPrioritise' \in [Block -> BOOLEAN]
        /\ chunkErrorStrikes' \in [Block -> 0 .. 7]
        /\ skipErasedCheck' \in [Block -> BOOLEAN]
        /\ nErasedBlocks' \in Int /\ nFreeChunks' \in Int
        /\ oldestDirty' \in [seq : Nat, block : Block \cup {None}]
        /\ gcBlock' \in Block \cup {None}
        /\ gcDirtiest' \in Block \cup {None}
        /\ programmed' \in [Block -> [Page -> Nat]]
        /\ faults' \in 0 .. MaxFaults
    BY <1>3, <2>1, BlockBecameDirtyType
  <2> QED BY <1>1, <1>4, <2>2, <2>3 DEF TypeOK
<1>6. CASE chunkBits[b] # {}
  <2>1. blockState' \in [Block -> BlockStates]
    <3>1. blockState' = [blockState EXCEPT ![b] = IF @ = "FULL" THEN "COLLECTING" ELSE @]
      BY <1>2, <1>6
    <3>2. blockState \in [Block -> BlockStates]
      BY DEF TypeOK
    <3> QED BY <3>1, <3>2 DEF BlockStates, CountedStates, InUseStates
  <2>2. /\ hasShrinkHeader' \in [Block -> BOOLEAN]
        /\ gcBlock' \in Block \cup {None} /\ gcDirtiest' \in Block \cup {None}
        /\ oldestDirty' \in [seq : Nat, block : Block \cup {None}]
        /\ UNCHANGED <<useVars, blockSequence, healthVars, countVars, programmed, faults>>
    BY <1>2, <1>6 DEF TypeOK
  <2> QED BY <1>1, <1>4, <2>1, <2>2 DEF TypeOK
<1> QED BY <1>5, <1>6

(***************************************************************************)
(* Every step preserves the types and what Control says.                   *)
(***************************************************************************)
\* Requests keep the types.
LEMMA RequestType ==
    ASSUME TypeOK, Control, Request
    PROVE  TypeOK'
<1> USE DEF healthVars, useVars, countVars, allocVars, gcVars, fileVars, writeVars
<1>1. ASSUME NEW collect \in MayCollect, StartWrite(collect)
      PROVE  TypeOK'
  <2>1. req' \in [write : BOOLEAN, reserve : BOOLEAN, shrink : BOOLEAN,
                  prev : Chunk \cup {NoChunk}]
    BY <1>1 DEF StartWrite, NoRequest
  <2>2. requests' \in 0 .. MaxRequests
    BY <1>1, Bounds DEF TypeOK, StartWrite, Asked
  <2> QED BY <1>1, <2>1, <2>2 DEF TypeOK, StartWrite
<1>2. CASE StartBackgroundGc
  <2>1. requests' \in 0 .. MaxRequests
    BY <1>2, Bounds DEF TypeOK, StartBackgroundGc, Asked
  <2> QED BY <1>2, <2>1 DEF TypeOK, StartBackgroundGc
<1>3. CASE CacheWrite
  BY <1>3, Bounds DEF TypeOK, CacheWrite
<1>4. ASSUME NEW b \in Block, NEW p \in Page, NEW erased \in BOOLEAN,
             Delete(b, p, erased)
      PROVE  TypeOK'
  <2>1. DeleteChunk(b, p, Entry(b), erased)
    BY <1>4 DEF Delete
  <2> QED BY <1>4, <2>1, DeleteChunkType, Bounds DEF TypeOK, Delete, Asked
<1>5. ASSUME NEW b \in Block, NEW p \in Page, SoftDelete(b, p)
      PROVE  TypeOK'
  <2>1. oldestDirty' \in [seq : Nat, block : Block \cup {None}]
    BY <1>5 DEF TypeOK, SoftDelete, UpdatedOldestDirty, Dirty
  <2>2. requests' \in 0 .. MaxRequests
    BY <1>5, Bounds DEF TypeOK, SoftDelete, Asked
  <2> QED BY <1>5, <2>1, <2>2 DEF TypeOK, SoftDelete
<1>6. ASSUME NEW b \in Block, ReadError(b)
      PROVE  TypeOK'
  <2>1. /\ gcPrioritise' \in [Block -> BOOLEAN]
        /\ chunkErrorStrikes' \in [Block -> 0 .. 7]
        /\ needsRetiring' \in [Block -> BOOLEAN]
    BY <1>6, ChunkErrorType DEF ReadError
  <2>2. faults' \in 0 .. MaxFaults
    BY <1>6, FaultType DEF ReadError
  <2> QED BY <1>6, <2>1, <2>2 DEF TypeOK, ReadError
<1> QED BY <1>1, <1>2, <1>3, <1>4, <1>5, <1>6 DEF Request

\* The steps of the collector keep the types.
LEMMA CollectType ==
    ASSUME TypeOK, Control, Collect
    PROVE  TypeOK'
<1> USE DEF healthVars, useVars, countVars, allocVars, gcVars, fileVars, writeVars
<1>1. CASE GcSkip
  BY <1>1, LeaveGcType DEF TypeOK, GcSkip
<1>2. ASSUME NEW aggressive \in BOOLEAN, NEW c \in Block \cup {None},
             GcNothing(aggressive, c)
      PROVE  TypeOK'
  <2>1. oldestDirty' \in [seq : Nat, block : Block \cup {None}]
    BY <1>2, FoundOldestDirtyType DEF TypeOK, GcNothing
  <2> QED BY <1>2, <2>1, LeaveGcType, Basics DEF TypeOK, GcNothing
<1>3. ASSUME NEW b \in Block, NEW aggressive \in BOOLEAN, NEW erased \in BOOLEAN,
             GcBegin(b, aggressive, erased)
      PROVE  TypeOK'
  BY <1>3, GcBeginType
<1>4. ASSUME NEW p \in Page, NEW erased \in BOOLEAN, GcDrop(p, erased)
      PROVE  TypeOK'
  <2>1. /\ gcRun.block \in Block
        /\ DeleteChunk(gcRun.block, p, NoLongerSoft(gcRun.block), erased)
    BY <1>4 DEF GcDrop, Control
  <2>2. gcRun' \in [block : Block \cup {None}, tries : Nat, copies : Nat, ok : BOOLEAN]
    <3>1. gcRun' = [gcRun EXCEPT !.copies = @ - 1] /\ gcRun.copies > 0
      BY <1>4 DEF GcDrop, GcNext, GcMore
    <3>2. gcRun \in [block : Block \cup {None}, tries : Nat, copies : Nat,
                    ok : BOOLEAN]
      BY DEF TypeOK
    <3> QED BY <3>1, <3>2
  <2>3. softDeleted' \in [Block -> SUBSET Page]
    BY <1>4, <2>1 DEF TypeOK, GcDrop
  <2>4. gcChunk' \in 0 .. NChunks
    BY <1>4, Basics DEF GcDrop, Page
  <2>5. promised' \in 0 .. NShortOpCaches /\ padded' \in 0 .. MaxPads
    BY <1>4 DEF TypeOK, GcDrop
  <2>6. /\ blockState' \in [Block -> BlockStates]
        /\ chunkBits' \in [Block -> SUBSET Page]
        /\ pagesInUse' \in [Block -> Int]
        /\ softDeletions' \in [Block -> Int]
        /\ blockSequence' \in [Block -> Nat]
        /\ hasShrinkHeader' \in [Block -> BOOLEAN]
        /\ needsRetiring' \in [Block -> BOOLEAN]
        /\ gcPrioritise' \in [Block -> BOOLEAN]
        /\ chunkErrorStrikes' \in [Block -> 0 .. 7]
        /\ skipErasedCheck' \in [Block -> BOOLEAN]
        /\ nErasedBlocks' \in Int /\ nFreeChunks' \in Int
        /\ oldestDirty' \in [seq : Nat, block : Block \cup {None}]
        /\ gcBlock' \in Block \cup {None}
        /\ gcDirtiest' \in Block \cup {None}
        /\ programmed' \in [Block -> [Page -> Nat]]
        /\ faults' \in 0 .. MaxFaults
    BY <2>1, DeleteChunkType
  <2> QED BY <1>4, <2>2, <2>3, <2>4, <2>5, <2>6 DEF TypeOK, GcDrop
<1>5. ASSUME NEW p \in Page, GcCopy(p)
      PROVE  TypeOK'
  <2>1. gcRun' = [gcRun EXCEPT !.copies = @ - 1] /\ gcRun.copies > 0
    BY <1>5 DEF GcCopy, GcNext, GcMore
  <2>2. gcChunk' \in 0 .. NChunks
    BY <1>5, Basics DEF GcCopy, Page
  <2>3. gcRun' \in [block : Block \cup {None}, tries : Nat, copies : Nat,
                   ok : BOOLEAN]
    <3>1. gcRun.copies - 1 \in Nat
      BY <2>1 DEF TypeOK
    <3> QED BY <2>1, <3>1 DEF TypeOK
  <2> QED BY <1>5, <2>2, <2>3 DEF TypeOK, GcCopy
<1>6. ASSUME NEW erased \in BOOLEAN, GcDropCopied(erased)
      PROVE  TypeOK'
  <2>1. /\ gcRun.block \in Block /\ gcChunk \in Page
        /\ DeleteChunk(gcRun.block, gcChunk, Entry(gcRun.block), erased)
    BY <1>6, Basics DEF GcDropCopied, Control
  <2>2. gcChunk' \in 0 .. NChunks
    BY <1>6, <2>1, Basics DEF GcDropCopied, Page
  <2> QED BY <1>6, <2>1, <2>2, DeleteChunkType DEF TypeOK, GcDropCopied
<1>7. CASE GcEnd
  <2>1. \/ pc' = "gcCheck" /\ gcRun' = NextTry
        \/ LeaveGc
    BY <1>7 DEF GcEnd
  <2>2. NextTry \in [block : Block \cup {None}, tries : Nat, copies : Nat,
                     ok : BOOLEAN]
    BY DEF TypeOK, NextTry, NoGcRun
  <2>3. /\ pc' \in {"gcCheck", "lookup", "idle"}
        /\ gcRun' \in [block : Block \cup {None}, tries : Nat, copies : Nat,
                       ok : BOOLEAN]
    BY <2>1, <2>2, LeaveGcType
  <2>4. blockState' \in [Block -> BlockStates]
    BY <1>7 DEF TypeOK, GcEnd, BlockStates, CountedStates, InUseStates
  <2>5. gcChunk' \in 0 .. NChunks /\ gcBlock' \in Block \cup {None}
    BY <1>7, Basics DEF TypeOK, GcEnd
  <2> QED BY <1>7, <2>3, <2>4, <2>5 DEF TypeOK, GcEnd
<1> QED BY <1>1, <1>2, <1>3, <1>4, <1>5, <1>6, <1>7 DEF Collect

\* The steps of a write keep the types.
LEMMA WriteType ==
    ASSUME TypeOK, Control, Write
    PROVE  TypeOK'
<1> USE DEF healthVars, useVars, countVars, allocVars, gcVars, fileVars, writeVars
<1>1. ASSUME NEW prev \in Chunk \cup {NoChunk}, NEW reserve \in BOOLEAN,
             NEW shrink \in BOOLEAN, Lookup(prev, reserve, shrink)
      PROVE  TypeOK'
  <2>1. /\ promised' = promised \/ (promised > 0 /\ promised' = promised - 1)
        /\ padded' = padded \/ (padded < MaxPads /\ padded' = padded + 1)
    BY <1>1 DEF Lookup, PadsHole
  <2>2. promised' \in 0 .. NShortOpCaches /\ padded' \in 0 .. MaxPads
    BY <2>1, Bounds DEF TypeOK
  <2>3. req' \in [write : BOOLEAN, reserve : BOOLEAN, shrink : BOOLEAN,
                  prev : Chunk \cup {NoChunk}]
    BY <1>1 DEF TypeOK, Lookup
  <2> QED BY <1>1, <2>2, <2>3 DEF TypeOK, Lookup
<1>2. ASSUME NEW b \in Block, AllocateChunk(b)
      PROVE  TypeOK'
  BY <1>2, AllocateChunkType DEF TypeOK, AllocateChunk
<1>3. ASSUME NEW b \in Block, NoSpace(b)
      PROVE  TypeOK'
  <2>1. blockState' \in [Block -> BlockStates]
    BY <1>3 DEF TypeOK, NoSpace, BlockStates, CountedStates, InUseStates
  <2>2. allocationPage' \in 0 .. NChunks
    BY <1>3, Basics DEF TypeOK, NoSpace
  <2> QED BY <1>3, <2>1, <2>2, GiveUpType, TakeBlockType DEF TypeOK, NoSpace
<1>4. CASE NoErasedBlock
  BY <1>4, GiveUpType, Basics DEF TypeOK, NoErasedBlock
<1>5. ASSUME NEW b \in Block, NEW p \in Page, ProgramOk(b, p)
      PROVE  TypeOK'
  BY <1>5, ProgrammedType DEF TypeOK, ProgramOk
<1>6. ASSUME NEW b \in Block, NEW p \in Page, NotErased(b, p)
      PROVE  TypeOK'
  BY <1>6, FaultType DEF TypeOK, NotErased
<1>7. ASSUME NEW b \in Block, NEW p \in Page, ProgramFails(b, p)
      PROVE  TypeOK'
  BY <1>7, ProgrammedType, ChunkErrorType, FaultType, CheckedType
     DEF TypeOK, ProgramFails
<1>8. ASSUME NEW b \in Block, NEW p \in Page, NEW erased \in BOOLEAN,
             Discard(b, p, erased)
      PROVE  TypeOK'
  <2>1. DeleteChunk(b, p, Entry(b), erased)
    BY <1>8 DEF Discard
  <2> QED BY <1>8, <2>1, DeleteChunkType DEF TypeOK, Discard
<1>9. CASE SkipRestOfBlock
  <2>1. /\ blockState' \in [Block -> BlockStates]
        /\ allocationBlock' \in Block \cup {None}
    BY <1>9 DEF TypeOK, SkipRestOfBlock, BlockStates, CountedStates, InUseStates
  <2>2. CASE GiveUp
    BY <1>9, <2>1, <2>2, GiveUpType DEF TypeOK, SkipRestOfBlock
  <2>3. CASE ~GiveUp
    BY <1>9, <2>1, <2>3 DEF TypeOK, SkipRestOfBlock
  <2> QED BY <2>2, <2>3
<1>10. ASSUME NEW b \in Block, NEW p \in Page, Commit(b, p)
       PROVE  TypeOK'
  <2>1. held' \in [Block -> SUBSET Page]
    <3>1. \/ \E old : Replace(b, p, old)
          \/ held' = [held EXCEPT ![b] = @ \cup {p}]
      BY <1>10 DEF Commit
    <3>2. ASSUME NEW old, Replace(b, p, old)
          PROVE  held' \in [Block -> SUBSET Page]
      <4> DEFINE added == [held EXCEPT ![b] = @ \cup {p}]
      <4>1. held' = [added EXCEPT ![old[1]] = @ \ {old[2]}]
        BY <3>2 DEF Replace
      <4>2. added \in [Block -> SUBSET Page]
        BY DEF TypeOK
      <4> HIDE DEF added
      <4> QED BY ONLY <4>1, <4>2
    <3>3. CASE held' = [held EXCEPT ![b] = @ \cup {p}]
      BY <3>3 DEF TypeOK
    <3> QED BY <3>1, <3>2, <3>3
  <2>2. /\ pc' \in {"gcDrop", "deletePrev", "markShrink", "idle"}
        /\ req' \in [write : BOOLEAN, reserve : BOOLEAN, shrink : BOOLEAN,
                     prev : Chunk \cup {NoChunk}]
        /\ newChunk' \in Chunk \cup {NoChunk} /\ attempts' \in Nat
    <3>1. /\ pc' \in {"gcDrop", "deletePrev", "markShrink", "idle"}
          /\ req' \in {req, NoRequest}
          /\ newChunk' \in {newChunk, NoChunk} /\ attempts' \in {attempts, 0}
      BY <1>10 DEF Commit, Finished, WriteEnds
    <3> QED BY <3>1, NoRequestType DEF TypeOK
  <2>3. UNCHANGED <<blockState, useVars, blockSequence, hasShrinkHeader,
                    healthVars, countVars, allocVars, oldestDirty, gcVars,
                    programmed, softDeleted, promised, padded, gcRun, faults, requests>>
    BY <1>10 DEF Commit
  <2> QED BY <2>1, <2>2, <2>3 DEF TypeOK
<1>11. ASSUME NEW b \in Block, NEW p \in Page, NEW erased \in BOOLEAN,
              DeletePrev(b, p, erased)
       PROVE  TypeOK'
  <2>1. DeleteChunk(b, p, Entry(b), erased)
    BY <1>11 DEF DeletePrev
  <2>2. /\ pc' \in {"markShrink", "idle"}
        /\ newChunk' \in Chunk \cup {NoChunk} /\ attempts' \in Nat
        /\ req' \in [write : BOOLEAN, reserve : BOOLEAN, shrink : BOOLEAN,
                     prev : Chunk \cup {NoChunk}]
    BY <1>11, NoRequestType DEF TypeOK, DeletePrev, Finished, WriteEnds
  <2> QED BY <1>11, <2>1, <2>2, DeleteChunkType DEF TypeOK, DeletePrev
<1>12. ASSUME NEW b \in Block, NEW p \in Page, MarkShrink(b, p)
       PROVE  TypeOK'
  BY <1>12, NoRequestType DEF TypeOK, MarkShrink, Finished, WriteEnds
<1> QED BY <1>1, <1>2, <1>3, <1>4, <1>5, <1>6, <1>7, <1>8, <1>9, <1>10, <1>11,
           <1>12 DEF Write

\* Every step keeps the types.
LEMMA TypeStep ==
    ASSUME TypeOK, Control, Next
    PROVE  TypeOK'
BY RequestType, CollectType, WriteType DEF Next, Service

\* Every step keeps Control.
LEMMA ControlStep ==
    ASSUME TypeOK, Control, Next
    PROVE  Control'
<1> USE DEF Control, useVars, countVars, allocVars, gcVars, fileVars, writeVars
<1>1. CASE Request
  BY <1>1, Basics DEF Request, StartWrite, StartBackgroundGc, CacheWrite, Delete, SoftDelete, ReadError
<1>2. CASE GcSkip
  BY <1>2, LeaveGcType DEF GcSkip, NoGcRun
<1>3. ASSUME NEW aggressive \in BOOLEAN, NEW c \in Block \cup {None},
             GcNothing(aggressive, c)
      PROVE  Control'
  BY <1>3, LeaveGcType DEF GcNothing, NoGcRun
<1>4. ASSUME NEW b \in Block, NEW aggressive \in BOOLEAN, NEW erased \in BOOLEAN,
             GcBegin(b, aggressive, erased)
      PROVE  Control'
  BY <1>4, Basics DEF GcBegin
<1>5. ASSUME NEW p \in Page, NEW erased \in BOOLEAN, GcDrop(p, erased)
      PROVE  Control'
  BY <1>5 DEF GcDrop, TypeOK
<1>6. ASSUME NEW p \in Page, GcCopy(p)
      PROVE  Control'
  BY <1>6 DEF GcCopy, TypeOK
<1>7. ASSUME NEW erased \in BOOLEAN, GcDropCopied(erased)
      PROVE  Control'
  BY <1>7 DEF GcDropCopied
<1>8. CASE GcEnd
  <2>1. /\ gcRun'.block = None /\ pc' \in {"gcCheck", "lookup", "idle"}
        /\ UNCHANGED allocVars
    BY <1>8, LeaveGcType DEF GcEnd, NextTry, NoGcRun
  <2> QED BY <2>1
<1>9. ASSUME NEW prev \in Chunk \cup {NoChunk}, NEW reserve \in BOOLEAN,
             NEW shrink \in BOOLEAN, Lookup(prev, reserve, shrink)
      PROVE  Control'
  BY <1>9 DEF Lookup
<1>10. ASSUME NEW b \in Block, AllocateChunk(b)
       PROVE  Control'
  BY <1>10, Basics DEF AllocateChunk, LastPage, TypeOK
<1>11. ASSUME NEW b \in Block, NoSpace(b)
       PROVE  Control'
  BY <1>11, Basics, GiveUpControl DEF NoSpace
<1>12. CASE NoErasedBlock
  BY <1>12, GiveUpControl DEF NoErasedBlock
<1>13. ASSUME NEW b \in Block, NEW p \in Page,
              ProgramOk(b, p) \/ NotErased(b, p) \/ ProgramFails(b, p)
       PROVE  Control'
  BY <1>13 DEF ProgramOk, NotErased, ProgramFails
<1>14. ASSUME NEW b \in Block, NEW p \in Page, NEW erased \in BOOLEAN,
              Discard(b, p, erased)
       PROVE  Control'
  BY <1>14 DEF Discard
<1>15. CASE SkipRestOfBlock
  <2>1. /\ allocationPage' = allocationPage
        /\ allocationBlock' \in {allocationBlock, None}
    BY <1>15 DEF SkipRestOfBlock
  <2>2. CASE GiveUp
    BY <1>15, <2>1, <2>2, GiveUpControl DEF SkipRestOfBlock
  <2>3. CASE ~GiveUp
    BY <1>15, <2>1, <2>3 DEF SkipRestOfBlock
  <2> QED BY <2>2, <2>3
<1>16. ASSUME NEW b \in Block, NEW p \in Page, Commit(b, p)
       PROVE  Control'
  BY <1>16, Basics DEF Commit, Copying, Finished, TypeOK
<1>17. ASSUME NEW b \in Block, NEW p \in Page, NEW erased \in BOOLEAN,
              DeletePrev(b, p, erased)
       PROVE  Control'
  BY <1>17 DEF DeletePrev, Finished
<1>18. ASSUME NEW b \in Block, NEW p \in Page, MarkShrink(b, p)
       PROVE  Control'
  BY <1>18 DEF MarkShrink, Finished
<1> QED BY <1>1, <1>2, <1>3, <1>4, <1>5, <1>6, <1>7, <1>8, <1>9, <1>10, <1>11,
           <1>12, <1>13, <1>14, <1>15, <1>16, <1>17, <1>18
        DEF Next, Service, Collect, Write

(***************************************************************************)
(* Every step preserves what is known of the states of the blocks.         *)
(***************************************************************************)
\* A step that leaves the states of blocks and the memory of the collector
\* alone keeps Struct.
LEMMA StructFrame ==
    ASSUME TypeOK, Struct, gcRun'.block = gcRun.block,
           UNCHANGED <<blockState, pagesInUse, softDeletions, blockSequence,
                       allocationBlock, sequenceNumber, oldestDirty, gcBlock,
                       gcDirtiest>>
    PROVE  Struct'
BY DEF Struct, StatesUnique, CandidatesFull, Collecting, Tracking, Sequences, OldestOf, ChunksUsed

\* yaffs2_UpdateOldestDirtySequence remembers a closed block, and the oldest.
LEMMA UpdatedOldestDirtyStruct ==
    ASSUME TypeOK, Struct, NEW b \in Block, blockState[b] \in InUseStates
    PROVE  LET d == UpdatedOldestDirty(b) IN
           /\ OldestOf(d, Block)
           /\ blockState[b] \in Closed /\ d.seq # 0 => d.seq <= blockSequence[b]
<1> DEFINE Older == IsYaffs2 /\ oldestDirty.seq # 0 /\ oldestDirty.seq > blockSequence[b]
<1>1. CASE ~Older
  <2>1. UpdatedOldestDirty(b) = oldestDirty
    BY <1>1 DEF UpdatedOldestDirty
  <2>2. oldestDirty.seq # 0 => oldestDirty.seq <= blockSequence[b]
    BY <1>1 DEF TypeOK, Struct, Tracking, OldestOf
  <2> QED BY <2>1, <2>2 DEF Struct, Tracking
<1>2. CASE Older
  <2>1. UpdatedOldestDirty(b) = Dirty(b)
    BY <1>2 DEF UpdatedOldestDirty
  <2>2. oldestDirty.seq <= sequenceNumber
    BY <1>2 DEF TypeOK, Struct, Tracking, Sequences, OldestOf, InUseStates, Closed
  <2>3. blockState[b] \in Closed /\ blockSequence[b] >= 1
    BY <1>2, <2>2, Basics
       DEF TypeOK, Struct, Tracking, Sequences, StatesUnique, InUseStates, Closed
  <2>4. \A c \in Block : blockState[c] \in Closed /\ ChunksUsed(c) < NChunks =>
            blockSequence[b] <= blockSequence[c]
    BY <1>2 DEF TypeOK, Struct, Tracking, OldestOf
  <2> QED BY <1>2, <2>1, <2>3, <2>4 DEF Dirty, TypeOK, OldestOf
<1> QED BY <1>1, <1>2

\* Emptying a closed block keeps Struct: whatever was remembered of it is
\* forgotten with it.
LEMMA BlockBecameDirtyStruct ==
    ASSUME TypeOK, Struct, NEW b \in Block, blockState[b] \in Closed,
           NEW e, NEW erased \in BOOLEAN,
           e.dirty \in [seq : Nat, block : Block \cup {None}],
           OldestOf(e.dirty, Block \ {b}),
           e.dirtiest \in {gcDirtiest, None},
           BlockBecameDirty(b, e, erased),
           UNCHANGED <<allocationBlock, sequenceNumber>>,
           \/ gcRun'.block = gcRun.block
           \/ gcRun.block = None /\ gcRun'.block = b /\ gcBlock \in {None, b}
    PROVE  Struct'
<1> DEFINE d == e.dirty
<1>1. /\ blockState' = [blockState EXCEPT ![b] = IF erased THEN "EMPTY" ELSE "DEAD"]
      /\ gcBlock' = Remembered(gcBlock, b)
      /\ gcDirtiest' = Remembered(e.dirtiest, b)
      /\ blockSequence' = [blockSequence EXCEPT ![b] = IF erased THEN 0 ELSE @]
      /\ oldestDirty' = ClearedOldestDirty(d, b)
      /\ \A c \in Block \ {b} : ChunksUsed(c)' = ChunksUsed(c)
  BY DEF BlockBecameDirty, TypeOK, ChunksUsed
<1>2. StatesUnique'
  BY <1>1, Basics DEF Struct, StatesUnique, TypeOK, Remembered, Closed
<1>3. Sequences'
  BY <1>1, Basics DEF Struct, Tracking, Sequences, StatesUnique, TypeOK, InUseStates, Closed
<1>4. OldestOf(oldestDirty, Block)'
  <2>1. CASE oldestDirty' = NoDirty
    BY <2>1 DEF OldestOf, NoDirty
  <2>2. CASE oldestDirty' # NoDirty
    <3>1. oldestDirty' = d /\ ~(IsYaffs2 /\ d.seq = blockSequence[b])
      BY <1>1, <2>2 DEF ClearedOldestDirty
    <3>2. d.seq # 0 => d.block # b
      BY <3>1 DEF OldestOf
    <3> HIDE DEF d
    <3>3. \A c \in Block : blockState'[c] \in Closed => c # b
      BY <1>1 DEF TypeOK, Closed
    <3> QED BY <1>1, <3>1, <3>2, <3>3 DEF OldestOf, TypeOK, d
  <2> QED BY <2>1, <2>2
<1>5. CandidatesFull'
  <2>1. oldestDirty'.block # None => blockState'[oldestDirty'.block] \in Closed
    BY <1>4, Basics DEF OldestOf
  <2> QED BY <1>1, <2>1, Basics DEF Struct, CandidatesFull, TypeOK, Remembered, Closed
<1>6. Collecting'
  BY <1>1, Basics DEF Struct, Collecting, TypeOK, Remembered
<1> QED BY <1>2, <1>3, <1>4, <1>5, <1>6 DEF Struct, Tracking

\* Deleting a chunk keeps Struct.
LEMMA DeleteChunkStruct ==
    ASSUME TypeOK, Struct, NEW b \in Block, NEW p \in Page, NEW e,
           NEW erased \in BOOLEAN,
           e = Entry(b) \/ e = NoLongerSoft(b),
           DeleteChunk(b, p, e, erased),
           UNCHANGED <<allocationBlock, sequenceNumber>>,
           gcRun'.block = gcRun.block
    PROVE  Struct'
<1> DEFINE after == [e EXCEPT !.bits = @ \ {p}, !.used = @ - 1, !.free = @ + 1,
                              !.dirty = UpdatedOldestDirty(b)]
           d == UpdatedOldestDirty(b)
<1>1. /\ after.dirty = d /\ after.dirtiest = gcDirtiest
      /\ d \in [seq : Nat, block : Block \cup {None}]
  <2>1. after.dirty = d /\ after.dirtiest = gcDirtiest
    <3>1. CASE e = Entry(b)
      BY <3>1 DEF Entry
    <3>2. CASE e = NoLongerSoft(b)
      BY <3>2 DEF Entry, NoLongerSoft
    <3> QED BY <3>1, <3>2
  <2>2. d \in [seq : Nat, block : Block \cup {None}]
    BY DEF TypeOK, UpdatedOldestDirty, Dirty
  <2> QED BY <2>1, <2>2
<1>2. /\ blockState[b] \in InUseStates
      /\ OldestOf(d, Block)
      /\ blockState[b] \in Closed /\ d.seq # 0 => d.seq <= blockSequence[b]
  BY UpdatedOldestDirtyStruct DEF DeleteChunk
<1>3. CASE WhollyDirty(b, after.used)
  <2>1. BlockBecameDirty(b, after, erased) /\ blockState[b] \in Closed
    BY <1>2, <1>3 DEF DeleteChunk, WhollyDirty, InUseStates, Closed
  <2>2. OldestOf(d, Block \ {b})
    BY <1>2 DEF OldestOf
  <2> HIDE DEF after, d
  <2> QED BY <1>1, <2>1, <2>2, BlockBecameDirtyStruct
<1>4. CASE ~WhollyDirty(b, after.used)
  <2>1. /\ pagesInUse' = [pagesInUse EXCEPT ![b] = after.used]
        /\ softDeletions' = [softDeletions EXCEPT ![b] = after.soft]
        /\ oldestDirty' = d
        /\ UNCHANGED <<blockState, blockSequence, gcBlock, gcDirtiest>>
    BY <1>1, <1>4 DEF DeleteChunk
  <2> HIDE DEF after, d
  <2>2. StatesUnique' /\ Sequences' /\ Collecting'
    BY <2>1 DEF Struct, StatesUnique, Tracking, Sequences, Collecting
  <2>3. \A c \in Block \ {b} : ChunksUsed(c)' = ChunksUsed(c)
    BY <2>1 DEF ChunksUsed, TypeOK
  <2>4. OldestOf(oldestDirty, Block)'
    BY <1>2, <2>1, <2>3 DEF OldestOf
  <2>5. CandidatesFull'
    BY <2>1, <2>4, Basics DEF Struct, CandidatesFull, OldestOf, Closed
  <2> QED BY <2>2, <2>4, <2>5 DEF Struct, Tracking
<1> QED BY <1>3, <1>4

\* What yaffs2_FindOldestDirtySequence finds between collections may be
\* remembered.
LEMMA FoundStruct ==
    ASSUME TypeOK, Struct, gcRun.block = None,
           NEW d, d \in {oldestDirty} \cup FoundOldestDirty
    PROVE  OldestOf(d, Block)
<1>1. CASE d = oldestDirty
  BY <1>1 DEF Struct, Tracking
<1>2. CASE d # oldestDirty
  <2>1. PICK b \in Oldest(DirtyFull) : IsYaffs2 /\ d = Dirty(b)
    BY <1>2 DEF FoundOldestDirty
  <2>2. /\ b \in Block /\ blockState[b] = "FULL"
        /\ \A c \in DirtyFull : blockSequence[b] <= blockSequence[c]
    BY <2>1 DEF Oldest, DirtyFull
  <2>3. blockSequence[b] >= 1
    BY <2>2 DEF Struct, Tracking, Sequences, InUseStates
  <2>4. \A c \in Block : blockState[c] \in Closed => blockState[c] = "FULL"
    BY Basics DEF Struct, StatesUnique, Closed
  <2>5. d.seq = blockSequence[b] /\ d.block = b
    BY <2>1 DEF Dirty
  <2> QED BY <2>1, <2>2, <2>3, <2>4, <2>5 DEF OldestOf, DirtyFull, Closed, TypeOK
<1> QED BY <1>1, <1>2

\* Selecting no block keeps Struct.
LEMMA GcNothingStruct ==
    ASSUME TypeOK, Control, Struct, NEW aggressive \in BOOLEAN,
           NEW c \in Block \cup {None}, GcNothing(aggressive, c)
    PROVE  Struct'
<1> USE DEF useVars, allocVars
<1>1. /\ gcRun.block = None /\ gcRun'.block = None
      /\ UNCHANGED <<blockState, pagesInUse, softDeletions, blockSequence,
                     allocationBlock, sequenceNumber, gcBlock>>
      /\ gcDirtiest' = c /\ c \in {None, gcDirtiest} \cup {f \in Block : Collectable(f)}
      /\ oldestDirty' \in {oldestDirty} \cup FoundOldestDirty
  BY LeaveGcType DEF GcNothing, Control, NoGcRun
<1>2. OldestOf(oldestDirty, Block)'
  BY <1>1, FoundStruct DEF OldestOf, ChunksUsed
<1>3. StatesUnique' /\ Sequences' /\ Collecting'
  BY <1>1 DEF Struct, StatesUnique, Tracking, Sequences, Collecting
<1>4. gcDirtiest' # None => blockState[gcDirtiest'] \in Closed
  BY <1>1 DEF Struct, CandidatesFull, Collectable, DirtyFull, Closed
<1>5. CandidatesFull'
  BY <1>1, <1>2, <1>4, Basics DEF Struct, CandidatesFull, OldestOf, Closed
<1> QED BY <1>2, <1>3, <1>5 DEF Struct, Tracking

\* What the collector selects is a full block.
LEMMA SelectedFull ==
    ASSUME TypeOK, Control, Struct, pc = "gcCheck", NEW b \in Block,
           NEW aggressive \in BOOLEAN,
           IF gcBlock = None THEN Selectable(b, aggressive) ELSE b = gcBlock
    PROVE  gcRun.block = None /\ blockState[b] = "FULL"
<1>1. gcRun.block = None
  BY DEF Control
<1>2. \A c \in Block : blockState[c] \in Closed => blockState[c] = "FULL"
  BY <1>1, Basics DEF Struct, StatesUnique, Closed
<1>3. CASE gcBlock # None
  BY <1>1, <1>3 DEF Struct, CandidatesFull
<1>4. CASE gcBlock = None
  <2>1. CASE b = gcDirtiest
    BY <1>1, <1>2, <2>1, Basics DEF Struct, CandidatesFull, Closed
  <2>2. CASE Collectable(b)
    BY <1>1, <2>2 DEF Collectable, DirtyFull
  <2>3. ASSUME NEW d \in FoundOldestDirty, b = d.block
        PROVE  blockState[b] = "FULL"
    BY <1>1, <1>2, <2>3, FoundStruct, Basics DEF OldestOf
  <2>4. CASE Refreshable(b)
    BY <1>1, <2>4 DEF Refreshable, Oldest
  <2>5. CASE b = oldestDirty.block
    BY <1>1, <1>2, <2>5, Basics DEF Struct, CandidatesFull, Closed
  <2> QED BY <1>1, <1>4, <2>1, <2>2, <2>3, <2>4, <2>5 DEF Selectable
<1> QED BY <1>1, <1>3, <1>4

\* Beginning, or resuming, a collection keeps Struct.
LEMMA GcBeginStruct ==
    ASSUME TypeOK, Control, Struct, NEW b \in Block, NEW aggressive \in BOOLEAN,
           NEW erased \in BOOLEAN, GcBegin(b, aggressive, erased)
    PROVE  Struct'
<1> USE DEF useVars, healthVars, countVars, allocVars
<1>1. gcRun.block = None /\ blockState[b] = "FULL" /\ gcRun'.block = b
  BY SelectedFull DEF GcBegin
<1>2. gcBlock \in {None, b} /\ UNCHANGED <<allocationBlock, sequenceNumber>>
  BY DEF GcBegin
<1>3. PICK dirty \in {oldestDirty} \cup FoundOldestDirty,
           dirtiest \in {gcDirtiest, None} :
        IF chunkBits[b] = {}
        THEN BlockBecameDirty(b, [Entry(b) EXCEPT !.dirty = dirty,
                                                  !.dirtiest = dirtiest], erased)
        ELSE /\ blockState' = [blockState EXCEPT ![b] =
                    IF @ = "FULL" THEN "COLLECTING" ELSE @]
             /\ hasShrinkHeader' = [hasShrinkHeader EXCEPT ![b] = FALSE]
             /\ gcBlock' = b /\ gcDirtiest' = dirtiest
             /\ oldestDirty' = dirty
             /\ UNCHANGED <<useVars, blockSequence, healthVars, countVars,
                            programmed, faults>>
  BY DEF GcBegin
<1>4. OldestOf(dirty, Block) /\ dirty \in [seq : Nat, block : Block \cup {None}]
  BY <1>1, FoundStruct, FoundOldestDirtyType DEF TypeOK
<1> DEFINE e == [Entry(b) EXCEPT !.dirty = dirty, !.dirtiest = dirtiest]
<1>5. CASE chunkBits[b] = {}
  <2>1. BlockBecameDirty(b, e, erased) /\ blockState[b] \in Closed
    BY <1>1, <1>3, <1>5 DEF Closed
  <2>2. e.dirty = dirty /\ e.dirtiest = dirtiest
    BY DEF Entry
  <2>3. OldestOf(dirty, Block \ {b})
    BY <1>4 DEF OldestOf
  <2> HIDE DEF e
  <2> QED BY <1>1, <1>2, <1>4, <2>1, <2>2, <2>3, BlockBecameDirtyStruct
<1>6. CASE chunkBits[b] # {}
  <2>1. /\ blockState' = [blockState EXCEPT ![b] = "COLLECTING"]
        /\ gcBlock' = b /\ gcDirtiest' = dirtiest /\ oldestDirty' = dirty
        /\ UNCHANGED <<pagesInUse, softDeletions, blockSequence>>
    BY <1>1, <1>3, <1>6
  <2>2. StatesUnique'
    BY <1>1, <1>2, <2>1, Basics DEF TypeOK, Struct, StatesUnique
  <2>3. Sequences'
    BY <1>1, <1>2, <2>1 DEF TypeOK, Struct, Tracking, Sequences, InUseStates
  <2>4. \A c \in Block : blockState'[c] \in Closed <=> blockState[c] \in Closed
    BY <1>1, <2>1 DEF TypeOK, Closed
  <2>5. OldestOf(oldestDirty, Block)'
    BY <1>4, <2>1, <2>4 DEF OldestOf, ChunksUsed
  <2>6. CandidatesFull'
    BY <1>1, <2>1, <2>4, <2>5, Basics
       DEF TypeOK, Struct, CandidatesFull, OldestOf, Closed
  <2>7. Collecting'
    BY <1>1, <2>1 DEF TypeOK, Collecting
  <2> QED BY <2>2, <2>3, <2>5, <2>6, <2>7 DEF Struct, Tracking
<1> QED BY <1>5, <1>6

\* Ending a collection, complete or not, keeps Struct.
LEMMA GcEndStruct ==
    ASSUME TypeOK, Control, Struct, GcEnd
    PROVE  Struct'
<1> USE DEF useVars, allocVars
<1> DEFINE unfinished == blockState[gcRun.block] = "COLLECTING"
<1>1. gcRun.block \in Block /\ gcRun'.block = None
  BY LeaveGcType DEF GcEnd, Control, NextTry, NoGcRun
<1>2. /\ blockState' = IF unfinished THEN [blockState EXCEPT ![gcRun.block] = "FULL"]
                       ELSE blockState
      /\ gcBlock' = IF unfinished THEN gcBlock ELSE None
      /\ UNCHANGED <<pagesInUse, softDeletions, blockSequence, allocationBlock,
                     sequenceNumber, oldestDirty, gcDirtiest>>
  BY DEF GcEnd
<1> HIDE DEF unfinished
<1>3. unfinished => gcBlock = gcRun.block
  BY <1>1 DEF Struct, StatesUnique, unfinished
<1>4. ~unfinished => \A b \in Block : blockState[b] # "COLLECTING"
  BY <1>1 DEF Struct, StatesUnique, unfinished
<1>5. StatesUnique'
  BY <1>1, <1>2, <1>3, <1>4 DEF TypeOK, Struct, StatesUnique, unfinished
<1>6. \A c \in Block : /\ blockState'[c] \in Closed <=> blockState[c] \in Closed
                       /\ blockState'[c] \in InUseStates <=>
                              blockState[c] \in InUseStates
  BY <1>1, <1>2 DEF TypeOK, unfinished, Closed, InUseStates
<1>7. Sequences'
  BY <1>2, <1>6 DEF Struct, Tracking, Sequences
<1>8. OldestOf(oldestDirty, Block)'
  BY <1>2, <1>6 DEF Struct, Tracking, OldestOf, ChunksUsed
<1>9. CandidatesFull'
  <2>1. gcBlock' # None => blockState'[gcBlock'] = "FULL"
    BY <1>1, <1>2, <1>3 DEF TypeOK
  <2> QED BY <1>2, <1>6, <1>8, <2>1, Basics
          DEF TypeOK, Struct, CandidatesFull, OldestOf, Closed
<1>10. Collecting'
  BY <1>1 DEF Collecting
<1> QED BY <1>5, <1>7, <1>8, <1>9, <1>10 DEF Struct, Tracking

\* Allocation from block b, the last page of it or not.
LEMMA TakeBlockStruct ==
    ASSUME TypeOK, Struct, NEW b \in Block, TakeBlock(b), NEW last \in BOOLEAN,
           blockState' = [blockState EXCEPT ![b] = IF last THEN "FULL"
                                                   ELSE "ALLOCATING"],
           allocationBlock' = IF last THEN None ELSE b,
           \A c \in Block \ {b} : ChunksUsed(c)' = ChunksUsed(c),
           UNCHANGED <<oldestDirty, gcBlock, gcDirtiest>>,
           gcRun'.block = gcRun.block
    PROVE  Struct'
<1>1. /\ blockState[b] \in {"ALLOCATING", "EMPTY"}
      /\ \A c \in Block \ {b} : blockState[c] # "ALLOCATING"
  BY Basics DEF TypeOK, Struct, StatesUnique, TakeBlock
<1>2. /\ blockSequence'[b] = sequenceNumber'
      /\ sequenceNumber' >= 1 /\ sequenceNumber' >= sequenceNumber
      /\ \A c \in Block \ {b} : blockSequence'[c] = blockSequence[c]
  <2>1. CASE allocationBlock # None
    BY <2>1 DEF TypeOK, Struct, StatesUnique, Tracking, Sequences, TakeBlock, InUseStates
  <2>2. CASE allocationBlock = None
    BY <2>2 DEF TypeOK, TakeBlock
  <2> QED BY <2>1, <2>2
<1>3. /\ \A c \in Block \ {b} : blockState'[c] = blockState[c]
      /\ blockState'[b] = IF last THEN "FULL" ELSE "ALLOCATING"
  BY DEF TypeOK
<1>4. StatesUnique'
  BY <1>1, <1>3, Basics DEF Struct, StatesUnique
<1>5. Sequences'
  <2>1. sequenceNumber \in Nat /\ sequenceNumber' \in Nat /\ blockSequence \in [Block -> Nat]
    BY TakeBlockType DEF TypeOK
  <2>2. allocationBlock' # None => allocationBlock' = b
    OBVIOUS
  <2>3. \A c \in Block : blockState'[c] \in InUseStates =>
            blockSequence'[c] >= 1 /\ blockSequence'[c] <= sequenceNumber'
    BY <1>2, <1>3, <2>1 DEF Struct, Tracking, Sequences
  <2> QED BY <1>2, <2>2, <2>3 DEF Sequences
<1>6. OldestOf(oldestDirty, Block)'
  <2>1. CASE oldestDirty.seq = 0
    BY <2>1 DEF Struct, Tracking, OldestOf
  <2>2. CASE oldestDirty.seq # 0
    <3>1. /\ IsYaffs2 /\ oldestDirty.block \in Block \ {b}
          /\ blockState[oldestDirty.block] \in Closed
          /\ blockSequence[oldestDirty.block] = oldestDirty.seq
      BY <1>1, <2>2 DEF Struct, Tracking, OldestOf, Closed
    <3>2. oldestDirty.seq <= sequenceNumber'
      <4>1. /\ sequenceNumber \in Nat /\ sequenceNumber' \in Nat
            /\ oldestDirty.seq \in Nat
        BY TakeBlockType DEF TypeOK
      <4>2. oldestDirty.seq <= sequenceNumber
        BY <3>1 DEF Struct, Tracking, Sequences, Closed, InUseStates
      <4> QED BY <1>2, <4>1, <4>2
    <3>3. \A c \in Block \ {b} : blockState[c] \in Closed /\ ChunksUsed(c) < NChunks
                                 => oldestDirty.seq <= blockSequence[c]
      BY <2>2 DEF Struct, Tracking, OldestOf
    <3> QED BY <1>2, <1>3, <2>2, <3>1, <3>2, <3>3 DEF OldestOf
  <2> QED BY <2>1, <2>2
<1>7. CandidatesFull'
  BY <1>1, <1>3, <1>6, Basics DEF TypeOK, Struct, CandidatesFull, OldestOf, Closed
<1>8. Collecting'
  BY <1>1, <1>3, Basics DEF TypeOK, Struct, Collecting
<1> QED BY <1>4, <1>5, <1>6, <1>7, <1>8 DEF Struct, Tracking

\* Closing the allocation block after a failed write keeps Struct.
LEMMA SkipRestOfBlockStruct ==
    ASSUME TypeOK, Control, Struct, SkipRestOfBlock
    PROVE  Struct'
<1> USE DEF useVars, allocVars
<1>1. gcRun'.block = gcRun.block
  BY GiveUpControl DEF SkipRestOfBlock
<1>2. UNCHANGED <<pagesInUse, softDeletions, blockSequence, nErasedBlocks,
                  allocationBlockFinder, sequenceNumber, oldestDirty, gcBlock,
                  gcDirtiest>>
  BY DEF SkipRestOfBlock, countVars
<1>3. CASE allocationBlock # None
  <2>1. allocationBlock \in Block /\ blockState[allocationBlock] = "ALLOCATING"
    BY <1>3 DEF TypeOK, Struct, StatesUnique
  <2>2. /\ blockState' = [blockState EXCEPT ![allocationBlock] = "FULL"]
        /\ allocationBlock' = None
    BY <1>3, <2>1 DEF SkipRestOfBlock
  <2>3. TakeBlock(allocationBlock)
    BY <1>2, <1>3 DEF TakeBlock
  <2>4. \A c \in Block : ChunksUsed(c)' = ChunksUsed(c)
    BY <1>2 DEF ChunksUsed
  <2> QED BY <1>1, <1>2, <2>1, <2>2, <2>3, <2>4, TakeBlockStruct
<1>4. CASE allocationBlock = None
  <2>1. UNCHANGED <<blockState, allocationBlock>>
    BY <1>4 DEF SkipRestOfBlock
  <2> QED BY <1>1, <1>2, <2>1, StructFrame
<1> QED BY <1>3, <1>4

\* Allocating a chunk, or finding no space for one, keeps Struct.
LEMMA AllocateStruct ==
    ASSUME TypeOK, Control, Struct, NEW b \in Block, AllocateChunk(b) \/ NoSpace(b)
    PROVE  Struct'
<1> USE DEF useVars, allocVars, gcVars
<1>1. CASE AllocateChunk(b)
  <2> DEFINE page == IF allocationBlock = None THEN 0 ELSE allocationPage
  <2>1. /\ TakeBlock(b)
        /\ blockState' = [blockState EXCEPT ![b] = IF LastPage(page) THEN "FULL"
                                                   ELSE "ALLOCATING"]
        /\ allocationBlock' = IF LastPage(page) THEN None ELSE b
        /\ UNCHANGED <<oldestDirty, gcBlock, gcDirtiest>>
        /\ gcRun' = gcRun
    BY <1>1 DEF AllocateChunk
  <2>2. \A c \in Block \ {b} : ChunksUsed(c)' = ChunksUsed(c)
    BY <1>1 DEF AllocateChunk, ChunksUsed, TypeOK
  <2>3. LastPage(page) \in BOOLEAN
    BY DEF LastPage
  <2> HIDE DEF page
  <2> QED BY <2>1, <2>2, <2>3, TakeBlockStruct
<1>2. CASE NoSpace(b)
  <2>1. /\ TakeBlock(b)
        /\ blockState' = [blockState EXCEPT ![b] = "ALLOCATING"]
        /\ allocationBlock' = b
        /\ UNCHANGED <<oldestDirty, gcBlock, gcDirtiest>>
        /\ gcRun'.block = gcRun.block
    BY <1>2, GiveUpControl DEF NoSpace
  <2>2. \A c \in Block \ {b} : ChunksUsed(c)' = ChunksUsed(c)
    BY <1>2 DEF NoSpace, ChunksUsed
  <2> QED BY <2>1, <2>2, TakeBlockStruct
<1> QED BY <1>1, <1>2

\* Soft deletion keeps Struct; it happens on yaffs1 only.
LEMMA SoftDeleteStruct ==
    ASSUME TypeOK, Struct, NEW b \in Block, NEW p \in Page, SoftDelete(b, p)
    PROVE  Struct'
<1> USE DEF allocVars, gcVars
<1>1. /\ UNCHANGED <<blockState, blockSequence, allocationBlock, sequenceNumber,
                     gcBlock, gcDirtiest, gcRun>>
      /\ oldestDirty' = oldestDirty /\ ~IsYaffs2
  BY DEF SoftDelete, UpdatedOldestDirty
<1>2. StatesUnique' /\ Sequences' /\ CandidatesFull' /\ Collecting'
  BY <1>1 DEF Struct, StatesUnique, Tracking, Sequences, CandidatesFull, Collecting
<1>3. OldestOf(oldestDirty, Block)'
  BY <1>1 DEF Struct, Tracking, OldestOf
<1> QED BY <1>2, <1>3 DEF Struct, Tracking

\* Every step keeps Struct.
LEMMA StructStep ==
    ASSUME TypeOK, Control, Struct, Next
    PROVE  Struct'
<1> USE DEF useVars, countVars, allocVars, gcVars
<1>1. CASE \/ \E collect \in MayCollect : StartWrite(collect)
           \/ StartBackgroundGc
           \/ CacheWrite
           \/ \E b \in Block : ReadError(b)
  BY <1>1, StructFrame DEF StartWrite, StartBackgroundGc, CacheWrite, ReadError
<1>2. CASE \/ GcSkip
           \/ \E p \in Page : GcCopy(p)
  BY <1>2, StructFrame, LeaveGcType DEF GcSkip, GcCopy, Control, NoGcRun, TypeOK
<1>3. CASE \/ \E prev \in Chunk \cup {NoChunk}, reserve, shrink \in BOOLEAN :
                  Lookup(prev, reserve, shrink)
           \/ \E b \in Block, p \in Page : \/ ProgramOk(b, p) \/ NotErased(b, p)
                                           \/ ProgramFails(b, p)
                                           \/ Commit(b, p) \/ MarkShrink(b, p)
  BY <1>3, StructFrame
     DEF Lookup, ProgramOk, NotErased, ProgramFails, Commit, MarkShrink
<1>4. CASE NoErasedBlock
  BY <1>4, StructFrame, GiveUpControl DEF NoErasedBlock
<1>5. ASSUME NEW b \in Block, NEW p \in Page, NEW erased \in BOOLEAN,
             Delete(b, p, erased) \/ Discard(b, p, erased) \/ DeletePrev(b, p, erased)
      PROVE  Struct'
  <2>1. /\ DeleteChunk(b, p, Entry(b), erased)
        /\ UNCHANGED <<allocationBlock, sequenceNumber, gcRun>>
    BY <1>5 DEF Delete, Discard, DeletePrev
  <2> QED BY <2>1, DeleteChunkStruct
<1>6. ASSUME NEW p \in Page, NEW erased \in BOOLEAN, GcDrop(p, erased)
      PROVE  Struct'
  <2>1. /\ DeleteChunk(gcRun.block, p, NoLongerSoft(gcRun.block), erased)
        /\ UNCHANGED <<allocationBlock, sequenceNumber>>
        /\ gcRun.block \in Block /\ gcRun'.block = gcRun.block
    BY <1>6 DEF GcDrop, Control, TypeOK
  <2> QED BY <2>1, DeleteChunkStruct
<1>7. ASSUME NEW erased \in BOOLEAN, GcDropCopied(erased)
      PROVE  Struct'
  <2>1. /\ DeleteChunk(gcRun.block, gcChunk, Entry(gcRun.block), erased)
        /\ UNCHANGED <<allocationBlock, sequenceNumber, gcRun>>
        /\ gcRun.block \in Block /\ gcChunk \in Page
    BY <1>7, Basics DEF GcDropCopied, Control
  <2> QED BY <2>1, DeleteChunkStruct
<1> QED
  BY <1>1, <1>2, <1>3, <1>4, <1>5, <1>6, <1>7, SoftDeleteStruct, GcNothingStruct,
     GcBeginStruct, GcEndStruct, AllocateStruct, SkipRestOfBlockStruct
  DEF Next, Request, Service, Collect, Write

\* The blocks found at mount have pages in use and a rank.
LEMMA MountFacts ==
    /\ Len(LiveAtMount) \in Nat
    /\ \A b \in Block : Written(b) => /\ Rank(b) \in 1 .. Len(LiveAtMount)
                                      /\ LiveAtMount[Rank(b)] \in SUBSET Page
<1>1. LiveAtMount \in Seq((SUBSET Page) \ {{}})
  BY ParameterAssumption DEF Page
<1>2. Len(LiveAtMount) \in Nat /\ DOMAIN LiveAtMount = 1 .. Len(LiveAtMount)
  BY <1>1
<1>3. \A i \in 1 .. Len(LiveAtMount) : LiveAtMount[i] \in SUBSET Page
  BY <1>1
<1> QED BY <1>2, <1>3 DEF Written

\* Sets of pages, blocks and chunks are finite.
LEMMA FiniteData ==
    /\ IsFiniteSet(Page) /\ IsFiniteSet(Block) /\ IsFiniteSet(Chunk)
    /\ \A S : S \subseteq Page => IsFiniteSet(S) /\ Cardinality(S) \in Nat
    /\ \A S : S \subseteq Block => IsFiniteSet(S) /\ Cardinality(S) \in Nat
    /\ \A S : S \subseteq Chunk => IsFiniteSet(S) /\ Cardinality(S) \in Nat
<1>1. IsFiniteSet(Page) /\ IsFiniteSet(Block)
  BY GeometryAssumption, FS_Interval DEF Page, Block
<1>2. IsFiniteSet(Chunk)
  BY <1>1, FS_Product DEF Chunk
<1>3. ASSUME NEW T, IsFiniteSet(T), NEW S, S \subseteq T
      PROVE  IsFiniteSet(S) /\ Cardinality(S) \in Nat
  BY <1>3, FS_Subset, FS_CardinalityType
<1> QED BY <1>1, <1>2, <1>3

\* The state after mount has its types.
LEMMA InitType == Init => TypeOK
<1> SUFFICES ASSUME Init PROVE TypeOK
  OBVIOUS
<1> USE DEF Init
<1>1. blockState \in [Block -> BlockStates]
  BY ONLY Init DEF Init, BlockStates, CountedStates, InUseStates
<1>2. chunkBits \in [Block -> SUBSET Page]
  BY MountFacts
<1>3. pagesInUse \in [Block -> Int]
  BY <1>2, FiniteData
<1>4. blockSequence \in [Block -> Nat]
  BY MountFacts
<1>5. nErasedBlocks \in Int
  <2> DEFINE S == {b \in Block : blockState[b] = "EMPTY"}
  <2>1. S \subseteq Block
    OBVIOUS
  <2>2. nErasedBlocks = Cardinality(S)
    OBVIOUS
  <2> HIDE DEF S, Init
  <2> QED BY <2>1, <2>2, FiniteData
<1>6. nFreeChunks \in Int
  <2>1. FreeChunk \subseteq Chunk
    BY DEF FreeChunk
  <2>2. nFreeChunks = Cardinality(FreeChunk)
    OBVIOUS
  <2> HIDE DEF Init
  <2> QED BY <2>1, <2>2, FiniteData
<1>7. /\ softDeletions \in [Block -> Int]
      /\ hasShrinkHeader \in [Block -> BOOLEAN]
      /\ needsRetiring \in [Block -> BOOLEAN]
      /\ gcPrioritise \in [Block -> BOOLEAN]
      /\ chunkErrorStrikes \in [Block -> 0 .. 7]
      /\ skipErasedCheck \in [Block -> BOOLEAN]
      /\ held \in [Block -> SUBSET Page]
      /\ softDeleted \in [Block -> SUBSET Page]
  BY <1>2
<1>8. programmed \in [Block -> [Page -> Nat]]
  OBVIOUS
<1>9. /\ allocationPage \in 0 .. NChunks /\ gcChunk \in 0 .. NChunks
      /\ promised \in 0 .. NShortOpCaches /\ padded \in 0 .. MaxPads
      /\ faults \in 0 .. MaxFaults
      /\ requests \in 0 .. MaxRequests
  BY Basics, Bounds
<1>10. /\ oldestDirty \in [seq : Nat, block : Block \cup {None}]
       /\ gcRun \in [block : Block \cup {None}, tries : Nat, copies : Nat, ok : BOOLEAN]
       /\ req \in [write : BOOLEAN, reserve : BOOLEAN, shrink : BOOLEAN,
                   prev : Chunk \cup {NoChunk}]
  BY NoRequestType DEF NoDirty, NoGcRun
<1>11. /\ allocationBlock \in Block \cup {None}
       /\ allocationBlockFinder \in Block \cup {0}
       /\ sequenceNumber \in Nat
       /\ gcBlock \in Block \cup {None}
       /\ gcDirtiest \in Block \cup {None}
       /\ pc = "idle"
       /\ newChunk \in Chunk \cup {NoChunk}
       /\ attempts \in Nat
  BY MountFacts
<1> QED BY <1>1, <1>2, <1>3, <1>4, <1>5, <1>6, <1>7, <1>8, <1>9, <1>10, <1>11
        DEF TypeOK

\* The state after mount satisfies the rest of the inductive invariant.
LEMMA InitStruct == Init => Control /\ Struct
<1> SUFFICES ASSUME Init PROVE Control /\ Struct
  OBVIOUS
<1>1. Control
  BY DEF Init, Control, NoGcRun
<1>2. \A b \in Block : blockState[b] \in {"FULL", "EMPTY"} /\ b # None
  BY Basics DEF Init
<1>3. StatesUnique /\ CandidatesFull /\ Collecting
  BY <1>2 DEF Init, StatesUnique, CandidatesFull, Collecting, NoDirty, NoGcRun
<1>4. Sequences
  BY MountFacts DEF Init, Sequences, InUseStates
<1>5. OldestOf(oldestDirty, Block)
  BY DEF Init, OldestOf, NoDirty
<1> QED BY <1>1, <1>3, <1>4, <1>5 DEF Struct, Tracking

\* The inductive invariant holds in every reachable state of the block manager.
THEOREM Inductive == Spec => []IndInv
<1>1. Init => IndInv
  BY InitType, InitStruct DEF IndInv
<1>2. IndInv /\ [Next]_vars => IndInv'
  <2> SUFFICES ASSUME IndInv, [Next]_vars PROVE IndInv'
    OBVIOUS
  <2>1. CASE Next
    BY <2>1, TypeStep, ControlStep, StructStep DEF IndInv
  <2>2. CASE UNCHANGED vars
    <3> USE <2>2 DEF vars, healthVars, useVars, countVars, allocVars, gcVars,
                     fileVars, writeVars
    <3>1. TypeOK'
      BY DEF IndInv, TypeOK
    <3>2. Control'
      BY DEF IndInv, Control
    <3>3. Struct'
      BY StructFrame DEF IndInv
    <3> QED BY <3>1, <3>2, <3>3 DEF IndInv
  <2> QED BY <2>1, <2>2
<1> QED BY <1>1, <1>2, PTL DEF Spec

\* Type correctness: no index, page or block number of the block manager ever
\* leaves its range, in any of the functions modelled in YaffsBlocks.
THEOREM TypeCorrect == Spec => []TypeOK
<1>1. IndInv => TypeOK
  BY DEF IndInv
<1> QED BY <1>1, Inductive, PTL

\* At any time one block at most is allocated from, the one allocationBlock
\* names, and the only block in state COLLECTING is the one the collector is
\* at work on (what yaffs_VerifyBlocks checks).
THEOREM BlockStatesUnique == Spec => []StatesUnique
<1>1. IndInv => StatesUnique
  BY DEF IndInv, Struct
<1> QED BY <1>1, Inductive, PTL

\* A block the collector remembers over requests (gcBlock, gcDirtiest,
\* oldestDirtyBlock) is a full one whenever a collection begins: it is never
\* an erased, lost or half-allocated block.
THEOREM CandidatesAreFull == Spec => []CandidatesFull
<1>1. IndInv => CandidatesFull
  BY DEF IndInv, Struct
<1> QED BY <1>1, Inductive, PTL

\* The oldest dirty sequence number yaffs2_UpdateOldestDirtySequence and
\* yaffs2_ClearOldestDirtySequence keep up is the lowest of all full blocks
\* with discarded chunks, whenever it is known.
THEOREM OldestDirtyTracked == Spec => []OldestDirtyIsOldest
<1>1. IndInv => OldestDirtyIsOldest
  BY DEF IndInv, Struct, Tracking, OldestOf, OldestDirtyIsOldest, DirtyFull, Closed
<1> QED BY <1>1, Inductive, PTL
=============================================================================
