---------------------- MODULE YaffsBlocksCounterProofs ----------------------
(***************************************************************************)
(* Theorems about YaffsBlocks: the counters kept beside the bitmap agree   *)
(* with it at every step.                                                  *)
(*                                                                         *)
(* Argument.  The counts of one block are part of Data.  The totals of the *)
(* device are followed as sets: every step adds blocks to ErasedBlock and  *)
(* chunks to FreeChunk, or takes them away, as many as it counts.          *)
(***************************************************************************)
EXTENDS YaffsBlocksDataProofs

ErasedBlock == {b \in Block : blockState[b] = "EMPTY"}

\* The counters of the device.
Totals == /\ nErasedBlocks = Cardinality(ErasedBlock)
          /\ nFreeChunks = Cardinality(FreeChunk)

\* The pages of block b as chunks.
PagesOf(b) == {b} \X Page

\* The totals stay right when neither the erased blocks nor the free chunks
\* change.
LEMMA TotalsFrame ==
    ASSUME Totals, UNCHANGED countVars,
           UNCHANGED <<blockState, chunkBits, softDeleted>>
    PROVE  Totals'
BY DEF Totals, ErasedBlock, FreeChunk, CountedStates, InUseStates, countVars,
       SoftDeleted

\* A block has NChunks pages.
LEMMA PagesCount ==
    ASSUME NEW b \in Block
    PROVE  IsFiniteSet(PagesOf(b)) /\ Cardinality(PagesOf(b)) = NChunks
<1>1. IsFiniteSet(Page) /\ Cardinality(Page) = NChunks
  <2>1. Cardinality(0 .. NChunks - 1) = NChunks - 1 - 0 + 1
    BY Basics, FS_Interval
  <2> QED BY <2>1, Basics, FiniteData DEF Page
<1>2. IsFiniteSet({b}) /\ Cardinality({b}) = 1
  BY FS_Singleton
<1>3. /\ IsFiniteSet(PagesOf(b))
      /\ Cardinality(PagesOf(b)) = Cardinality({b}) * Cardinality(Page)
  BY <1>1, <1>2, FS_Product DEF PagesOf
<1> QED BY <1>1, <1>2, <1>3, Basics

\* Emptying a block: F are the free chunks when it is about to be emptied, all
\* of its pages among them.
LEMMA EmptiedTotals ==
    ASSUME TypeOK, Totals, NEW b \in Block, NEW e, NEW erased \in BOOLEAN,
           BlockBecameDirty(b, e, erased),
           blockState[b] \in InUseStates,
           NEW F, F \subseteq Chunk, e.free = Cardinality(F),
           F = FreeChunk \cup PagesOf(b),
           softDeleted'[b] = {},
           \A c \in Block \ {b} : softDeleted'[c] = softDeleted[c]
    PROVE  Totals'
<1>1. /\ blockState' = [blockState EXCEPT ![b] = IF erased THEN "EMPTY" ELSE "DEAD"]
      /\ chunkBits' = [chunkBits EXCEPT ![b] = IF erased THEN {} ELSE e.bits]
      /\ nFreeChunks' = FreeLeft(e, erased)
      /\ nErasedBlocks' = IF erased THEN nErasedBlocks + 1 ELSE nErasedBlocks
  BY DEF BlockBecameDirty
<1>2. b \notin ErasedBlock /\ ErasedBlock \subseteq Block
  BY DEF ErasedBlock, InUseStates
<1>3. ErasedBlock' = IF erased THEN ErasedBlock \cup {b} ELSE ErasedBlock
  BY <1>1, <1>2 DEF ErasedBlock, TypeOK
<1>4. nErasedBlocks' = Cardinality(ErasedBlock')
  BY <1>1, <1>2, <1>3, FiniteData, FS_AddElement DEF Totals
<1>5. \A c \in Block \ {b}, p \in Page : <<c, p>> \in FreeChunk' <=> <<c, p>> \in FreeChunk
  BY <1>1 DEF FreeChunk, SoftDeleted, TypeOK, Chunk
<1>6. \A p \in Page : <<b, p>> \in FreeChunk' <=> erased
  BY <1>1 DEF FreeChunk, SoftDeleted, TypeOK, Chunk, CountedStates, InUseStates
<1>7. FreeChunk \subseteq Chunk /\ FreeChunk' \subseteq Chunk
  BY DEF FreeChunk
<1>8. CASE erased
  <2>1. FreeChunk' = F
    BY <1>5, <1>6, <1>7, <1>8 DEF Chunk, PagesOf
  <2> QED BY <1>1, <1>4, <1>8, <2>1 DEF Totals, FreeLeft
<1>9. CASE ~erased
  <2>1. FreeChunk' = F \ PagesOf(b)
    BY <1>5, <1>6, <1>7, <1>9 DEF Chunk, PagesOf
  <2>2. PagesOf(b) \subseteq F /\ IsFiniteSet(F)
    BY FiniteData
  <2>3. Cardinality(F \ PagesOf(b)) = Cardinality(F) - Cardinality(F \cap PagesOf(b))
    BY <2>2, FS_Difference
  <2>4. F \cap PagesOf(b) = PagesOf(b)
    BY <2>2
  <2>5. Cardinality(FreeChunk') = Cardinality(F) - NChunks
    BY <2>1, <2>3, <2>4, PagesCount
  <2> QED BY <1>1, <1>4, <1>9, <2>5 DEF Totals, FreeLeft
<1> QED BY <1>8, <1>9
\* Deleting a chunk, one of a soft deleted file or another.
LEMMA DeleteTotals ==
    ASSUME TypeOK, Data, Totals, NEW b \in Block, NEW p \in chunkBits[b], NEW e,
           NEW erased \in BOOLEAN,
           DeleteChunk(b, p, e, erased),
           \/ e = Entry(b) /\ p \notin softDeleted[b]
           \/ e = NoLongerSoft(b) /\ p \in softDeleted[b],
           softDeleted'[b] = softDeleted[b] \ {p},
           \A c \in Block \ {b} : softDeleted'[c] = softDeleted[c]
    PROVE  Totals'
<1> DEFINE after == [e EXCEPT !.bits = @ \ {p}, !.used = @ - 1, !.free = @ + 1,
                              !.dirty = UpdatedOldestDirty(b)]
           F == FreeChunk \cup {<<b, p>>}
<1>1. /\ p \in Page /\ chunkBits[b] \subseteq Page /\ blockState[b] \in InUseStates
      /\ softDeleted[b] \subseteq chunkBits[b]
      /\ pagesInUse[b] = Cardinality(chunkBits[b])
  BY DEF TypeOK, Data, Bits, Counts, DeleteChunk
<1>2. FreeChunk \subseteq Chunk /\ F \subseteq Chunk /\ IsFiniteSet(FreeChunk)
  BY <1>1, FiniteData DEF FreeChunk, Chunk
<1>3. <<b, p>> \in FreeChunk <=> p \in softDeleted[b]
  BY <1>1 DEF FreeChunk, Chunk, SoftDeleted, CountedStates
<1>4. after.bits = chunkBits[b] \ {p} /\ after.used = pagesInUse[b] - 1
      /\ after.free = Cardinality(F)
  <2>1. CASE e = Entry(b) /\ p \notin softDeleted[b]
    <3>1. Cardinality(F) = nFreeChunks + 1
      BY <1>2, <1>3, <2>1, FS_AddElement DEF Totals
    <3>2. /\ after.bits = chunkBits[b] \ {p} /\ after.used = pagesInUse[b] - 1
          /\ after.free = nFreeChunks + 1
      BY <2>1 DEF Entry
    <3> QED BY <3>1, <3>2
  <2>2. CASE e = NoLongerSoft(b) /\ p \in softDeleted[b]
    <3>1. Cardinality(F) = nFreeChunks
      BY <1>2, <1>3, <2>2, FS_AddElement DEF Totals
    <3>2. /\ after.bits = chunkBits[b] \ {p} /\ after.used = pagesInUse[b] - 1
          /\ after.free = nFreeChunks - 1 + 1
      BY <2>2 DEF Entry, NoLongerSoft
    <3> QED BY <3>1, <3>2 DEF TypeOK
  <2> QED BY <2>1, <2>2
<1>5. CASE WhollyDirty(b, after.used)
  <2>1. BlockBecameDirty(b, after, erased) /\ after.used = 0
    BY <1>5 DEF DeleteChunk, WhollyDirty
  <2>2. chunkBits[b] \ {p} = {}
    <3>1. pagesInUse[b] - 1 = 0
      BY <1>4, <2>1
    <3>2. Cardinality(chunkBits[b]) - 1 = 0 <=> chunkBits[b] \ {p} = {}
      BY <1>1, CardRemove, Zenon
    <3> QED BY <1>1, <3>1, <3>2
  <2>3. F = FreeChunk \cup PagesOf(b)
    <3>1. \A q \in Page : q # p => <<b, q>> \in FreeChunk
      BY <1>1, <2>2 DEF FreeChunk, Chunk, CountedStates
    <3> QED BY <1>1, <3>1 DEF PagesOf
  <2>4. softDeleted'[b] = {}
    BY <1>1, <2>2
  <2> HIDE DEF after, F
  <2> QED BY <1>1, <1>2, <1>4, <2>1, <2>3, <2>4, EmptiedTotals
<1>6. CASE ~WhollyDirty(b, after.used)
  <2>1. /\ chunkBits' = [chunkBits EXCEPT ![b] = after.bits]
        /\ nFreeChunks' = after.free
        /\ UNCHANGED <<blockState, nErasedBlocks>>
    BY <1>6 DEF DeleteChunk
  <2> HIDE DEF after
  <2>2. FreeChunk' = F
    <3>1. FreeChunk' \subseteq Chunk
      BY DEF FreeChunk
    <3>2. \A c \in Block, q \in Page : <<c, q>> \in FreeChunk' <=> <<c, q>> \in F
      BY <1>1, <1>4, <2>1 DEF FreeChunk, Chunk, SoftDeleted, TypeOK, CountedStates
    <3> QED BY <1>2, <3>1, <3>2 DEF Chunk
  <2> QED BY <1>4, <2>1, <2>2 DEF Totals, ErasedBlock
<1> QED BY <1>5, <1>6

\* What the requests do to the totals.
LEMMA RequestTotals ==
    ASSUME TypeOK, Control, Data, Totals, Request
    PROVE  Totals'
<1>1. CASE \/ \E collect \in MayCollect : StartWrite(collect)
           \/ StartBackgroundGc
           \/ CacheWrite
           \/ \E b \in Block : ReadError(b)
  BY <1>1, TotalsFrame DEF StartWrite, StartBackgroundGc, CacheWrite, ReadError,
                           useVars, fileVars
<1>2. ASSUME NEW b \in Block, NEW p \in Page, NEW erased \in BOOLEAN,
             Delete(b, p, erased)
      PROVE  Totals'
  <2>1. DeleteChunk(b, p, Entry(b), erased) /\ softDeleted' = softDeleted /\ p \in held[b]
    BY <1>2 DEF Delete
  <2>2. p \in chunkBits[b] /\ p \notin softDeleted[b]
    BY <2>1 DEF Data, Bits
  <2> QED BY <2>1, <2>2, DeleteTotals
<1>3. ASSUME NEW b \in Block, NEW p \in Page, SoftDelete(b, p)
      PROVE  Totals'
  <2>1. /\ softDeleted' = [softDeleted EXCEPT ![b] = @ \cup {p}]
        /\ nFreeChunks' = nFreeChunks + 1
        /\ UNCHANGED <<blockState, chunkBits, nErasedBlocks>> /\ p \in held[b]
    BY <1>3 DEF SoftDelete
  <2>2. /\ p \in chunkBits[b] /\ p \notin softDeleted[b]
        /\ blockState[b] \notin {"EMPTY", "DEAD"}
    BY <2>1 DEF Data, Bits, Media
  <2>3. <<b, p>> \notin FreeChunk
    BY <2>2 DEF FreeChunk, SoftDeleted
  <2>4. FreeChunk' = FreeChunk \cup {<<b, p>>}
    <3>1. FreeChunk \subseteq Chunk /\ FreeChunk' \subseteq Chunk
      BY DEF FreeChunk
    <3>2. \A c \in Block, q \in Page :
              <<c, q>> \in FreeChunk' <=> <<c, q>> \in FreeChunk \cup {<<b, p>>}
      BY <2>1, <2>2 DEF FreeChunk, Chunk, SoftDeleted, TypeOK, CountedStates,
                        BlockStates
    <3> QED BY <3>1, <3>2 DEF Chunk
  <2>5. Cardinality(FreeChunk') = Cardinality(FreeChunk) + 1
    <3>1. IsFiniteSet(FreeChunk)
      BY FiniteData DEF FreeChunk
    <3> QED BY <2>3, <2>4, <3>1, FS_AddElement
  <2> QED BY <2>1, <2>5 DEF Totals, ErasedBlock
<1> QED BY <1>1, <1>2, <1>3 DEF Request

\* What the collector does to the totals.
LEMMA CollectTotals ==
    ASSUME TypeOK, Control, Struct, Data, Totals, Collect
    PROVE  Totals'
<1>1. CASE \/ GcSkip
           \/ \E aggressive \in BOOLEAN, c \in Block \cup {None} : GcNothing(aggressive, c)
           \/ \E p \in Page : GcCopy(p)
  BY <1>1, TotalsFrame DEF GcSkip, GcNothing, GcCopy, useVars, fileVars
<1>2. ASSUME NEW b \in Block, NEW aggressive \in BOOLEAN, NEW erased \in BOOLEAN,
             GcBegin(b, aggressive, erased)
      PROVE  Totals'
  <2>1. blockState[b] = "FULL" /\ softDeleted' = softDeleted
    BY <1>2, SelectedFull DEF GcBegin, fileVars
  <2>2. CASE chunkBits[b] = {}
    <3>1. PICK dirty, dirtiest :
              BlockBecameDirty(b, [Entry(b) EXCEPT !.dirty = dirty,
                                                   !.dirtiest = dirtiest], erased)
      BY <1>2, <2>2 DEF GcBegin
    <3> DEFINE e == [Entry(b) EXCEPT !.dirty = dirty, !.dirtiest = dirtiest]
    <3>2. e.free = Cardinality(FreeChunk)
      BY DEF Entry, Totals
    <3>3. FreeChunk = FreeChunk \cup PagesOf(b) /\ FreeChunk \subseteq Chunk
      BY <2>1, <2>2 DEF FreeChunk, PagesOf, Chunk, CountedStates, InUseStates
    <3>4. softDeleted'[b] = {}
      BY <2>1, <2>2 DEF TypeOK, Data, Bits
    <3> HIDE DEF e
    <3> QED BY <2>1, <3>1, <3>2, <3>3, <3>4, EmptiedTotals DEF InUseStates, e
  <2>3. CASE chunkBits[b] # {}
    <3>1. /\ blockState' = [blockState EXCEPT ![b] = "COLLECTING"]
          /\ UNCHANGED <<chunkBits, nErasedBlocks, nFreeChunks>>
      BY <1>2, <2>1, <2>3 DEF GcBegin, useVars, countVars
    <3>2. ErasedBlock' = ErasedBlock /\ FreeChunk' = FreeChunk
      BY <2>1, <3>1 DEF ErasedBlock, FreeChunk, SoftDeleted, TypeOK, CountedStates,
                        InUseStates, Chunk
    <3> QED BY <3>1, <3>2 DEF Totals
  <2> QED BY <2>2, <2>3
<1>3. ASSUME NEW p \in Page, NEW erased \in BOOLEAN, GcDrop(p, erased)
      PROVE  Totals'
  <2> DEFINE b == gcRun.block
  <2>1. /\ b \in Block /\ p \in chunkBits[b] /\ p \in softDeleted[b]
        /\ DeleteChunk(b, p, NoLongerSoft(b), erased)
        /\ softDeleted' = [softDeleted EXCEPT ![b] = @ \ {p}]
    BY <1>3 DEF Control, GcDrop, GcNext, GcPages
  <2> HIDE DEF b
  <2>2. /\ softDeleted'[b] = softDeleted[b] \ {p}
        /\ \A c \in Block \ {b} : softDeleted'[c] = softDeleted[c]
    BY <2>1 DEF TypeOK
  <2> QED BY <2>1, <2>2, DeleteTotals
<1>4. ASSUME NEW erased \in BOOLEAN, GcDropCopied(erased)
      PROVE  Totals'
  <2> DEFINE b == gcRun.block
             p == gcChunk
  <2>1. /\ b \in Block /\ p \in Page /\ softDeleted' = softDeleted
        /\ DeleteChunk(b, p, Entry(b), erased) /\ Pending = {<<b, p>>}
    BY <1>4, Basics DEF Control, GcDropCopied, fileVars, Pending
  <2>2. p \in chunkBits[b] /\ p \notin softDeleted[b]
    BY <2>1 DEF Data, Bits
  <2> HIDE DEF b, p
  <2> QED BY <2>1, <2>2, DeleteTotals
<1>5. CASE GcEnd
  <2>1. /\ UNCHANGED <<chunkBits, softDeleted, nErasedBlocks, nFreeChunks>>
        /\ \/ blockState' = blockState
           \/ /\ blockState[gcRun.block] = "COLLECTING"
              /\ blockState' = [blockState EXCEPT ![gcRun.block] = "FULL"]
    BY <1>5 DEF GcEnd, useVars, countVars, fileVars
  <2>2. ErasedBlock' = ErasedBlock /\ FreeChunk' = FreeChunk
    BY <2>1 DEF ErasedBlock, FreeChunk, SoftDeleted, TypeOK, CountedStates,
                InUseStates, Chunk
  <2> QED BY <2>1, <2>2 DEF Totals
<1> QED BY <1>1, <1>2, <1>3, <1>4, <1>5 DEF Collect

\* What taking a block to allocate from does to the erased blocks.
LEMMA TakeBlockTotals ==
    ASSUME TypeOK, TypeOK', Struct, Totals, NEW b \in Block, TakeBlock(b),
           NEW s \in {"ALLOCATING", "FULL"},
           blockState' = [blockState EXCEPT ![b] = s]
    PROVE  /\ nErasedBlocks' = Cardinality(ErasedBlock')
           /\ blockState[b] \in {"EMPTY", "ALLOCATING"}
<1>1. CASE allocationBlock # None
  <2>1. blockState[b] = "ALLOCATING" /\ nErasedBlocks' = nErasedBlocks
    BY <1>1 DEF TakeBlock, Struct, StatesUnique
  <2>2. ErasedBlock' = ErasedBlock
    BY <2>1 DEF ErasedBlock, TypeOK
  <2> QED BY <2>1, <2>2 DEF Totals
<1>2. CASE allocationBlock = None
  <2>1. blockState[b] = "EMPTY" /\ nErasedBlocks' = nErasedBlocks - 1
    BY <1>2 DEF TakeBlock
  <2>2. b \in ErasedBlock /\ ErasedBlock' = ErasedBlock \ {b} /\ ErasedBlock \subseteq Block
    BY <2>1 DEF ErasedBlock, TypeOK
  <2>3. Cardinality(ErasedBlock \ {b}) = Cardinality(ErasedBlock) - 1
    BY <2>2, FiniteData, FS_RemoveElement
  <2> QED BY <2>1, <2>2, <2>3 DEF Totals
<1> QED BY <1>1, <1>2

\* What writing a chunk does to the totals.
LEMMA WriteTotals ==
    ASSUME TypeOK, TypeOK', Control, Struct, Data, Totals, Write
    PROVE  Totals'
<1>1. CASE \/ \E prev \in Chunk \cup {NoChunk}, reserve, shrink \in BOOLEAN :
                  Lookup(prev, reserve, shrink)
           \/ NoErasedBlock
           \/ \E b \in Block, p \in Page : \/ ProgramOk(b, p) \/ NotErased(b, p)
                                           \/ ProgramFails(b, p) \/ Commit(b, p)
                                           \/ MarkShrink(b, p)
  BY <1>1, TotalsFrame
     DEF Lookup, NoErasedBlock, ProgramOk, NotErased, ProgramFails, Commit, MarkShrink,
         useVars, fileVars
<1>2. ASSUME NEW b \in Block, AllocateChunk(b)
      PROVE  Totals'
  <2> DEFINE page == IF allocationBlock = None THEN 0 ELSE allocationPage
  <2>1. PICK s \in {"ALLOCATING", "FULL"} :
            /\ TakeBlock(b) /\ blockState' = [blockState EXCEPT ![b] = s]
            /\ chunkBits' = [chunkBits EXCEPT ![b] = @ \cup {page}]
            /\ nFreeChunks' = nFreeChunks - 1 /\ softDeleted' = softDeleted
    BY <1>2 DEF AllocateChunk, fileVars
  <2>2. page \in Page /\ page \notin chunkBits[b]
    <3>1. page \in Page /\ page >= page
      BY Basics DEF TypeOK, Control, Page
    <3> QED BY <2>1, <3>1, TakeBlockData
  <2> HIDE DEF page
  <2>3. /\ nErasedBlocks' = Cardinality(ErasedBlock')
        /\ blockState[b] \in {"EMPTY", "ALLOCATING"}
    BY <2>1, TakeBlockTotals
  <2>4. <<b, page>> \in FreeChunk /\ FreeChunk' = FreeChunk \ {<<b, page>>}
    <3>1. FreeChunk \subseteq Chunk /\ FreeChunk' \subseteq Chunk
      BY DEF FreeChunk
    <3>2. <<b, page>> \in FreeChunk /\ page \notin softDeleted[b]
      BY <2>2, <2>3 DEF FreeChunk, Chunk, CountedStates, InUseStates, Data, Bits
    <3>3. \A c \in Block, q \in Page :
              <<c, q>> \in FreeChunk' <=> <<c, q>> \in FreeChunk /\ <<c, q>> # <<b, page>>
      BY <2>1, <2>3, <3>2 DEF FreeChunk, Chunk, SoftDeleted, TypeOK, CountedStates,
                              InUseStates
    <3> QED BY <3>1, <3>2, <3>3 DEF Chunk
  <2>5. Cardinality(FreeChunk') = Cardinality(FreeChunk) - 1
    <3>1. IsFiniteSet(FreeChunk)
      BY FiniteData DEF FreeChunk
    <3> QED BY <2>4, <3>1, FS_RemoveElement
  <2> QED BY <2>1, <2>3, <2>5 DEF Totals
<1>3. ASSUME NEW b \in Block, NoSpace(b)
      PROVE  Totals'
  <2>1. /\ TakeBlock(b) /\ blockState' = [blockState EXCEPT ![b] = "ALLOCATING"]
        /\ UNCHANGED <<chunkBits, nFreeChunks, softDeleted>>
    BY <1>3 DEF NoSpace, useVars, fileVars
  <2>2. /\ nErasedBlocks' = Cardinality(ErasedBlock')
        /\ blockState[b] \in {"EMPTY", "ALLOCATING"}
    BY <2>1, TakeBlockTotals
  <2>3. FreeChunk' = FreeChunk
    BY <2>1, <2>2 DEF FreeChunk, SoftDeleted, TypeOK, CountedStates, InUseStates, Chunk
  <2> QED BY <2>1, <2>2, <2>3 DEF Totals
<1>4. ASSUME NEW b \in Block, NEW p \in Page, NEW erased \in BOOLEAN,
             Discard(b, p, erased) \/ DeletePrev(b, p, erased)
      PROVE  Totals'
  <2>1. /\ DeleteChunk(b, p, Entry(b), erased) /\ softDeleted' = softDeleted
        /\ Pending = {<<b, p>>}
    BY <1>4 DEF Discard, DeletePrev, Pending, fileVars
  <2>2. p \in chunkBits[b] /\ p \notin softDeleted[b]
    BY <2>1 DEF Data, Bits
  <2> QED BY <2>1, <2>2, DeleteTotals
<1>5. CASE SkipRestOfBlock
  <2>1. /\ UNCHANGED <<chunkBits, softDeleted, nErasedBlocks, nFreeChunks>>
        /\ \/ blockState' = blockState
           \/ /\ blockState[allocationBlock] = "ALLOCATING"
              /\ blockState' = [blockState EXCEPT ![allocationBlock] = "FULL"]
    BY <1>5 DEF SkipRestOfBlock, useVars, countVars, fileVars
  <2>2. ErasedBlock' = ErasedBlock /\ FreeChunk' = FreeChunk
    BY <2>1 DEF ErasedBlock, FreeChunk, SoftDeleted, TypeOK, CountedStates,
                InUseStates, Chunk
  <2> QED BY <2>1, <2>2 DEF Totals
<1> QED BY <1>1, <1>2, <1>3, <1>4, <1>5 DEF Write

\* The counters kept beside the bitmap always agree with it: the pages in use
\* and the soft deletions of each block, the erased blocks and the free chunks.
THEOREM CountersAreRight == Spec => []CountersAgree
<1>1. Init => Totals
  BY DEF Init, Totals, ErasedBlock
<1>2. IndInv /\ IndInv' /\ Data /\ Totals /\ [Next]_vars => Totals'
  <2> SUFFICES ASSUME IndInv, IndInv', Data, Totals, [Next]_vars
               PROVE  Totals'
    OBVIOUS
  <2>1. CASE Next
    BY <2>1, RequestTotals, CollectTotals, WriteTotals DEF IndInv, Next, Service
  <2>2. CASE UNCHANGED vars
    BY <2>2, TotalsFrame DEF vars, useVars, fileVars
  <2> QED BY <2>1, <2>2
<1>3. Data /\ Totals => CountersAgree
  BY DEF Data, Counts, Totals, ErasedBlock, CountersAgree
<1> QED BY <1>1, <1>2, <1>3, DataInductive, PTL DEF Spec
=============================================================================
