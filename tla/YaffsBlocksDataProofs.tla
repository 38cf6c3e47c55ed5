----------------------- MODULE YaffsBlocksDataProofs -----------------------
(***************************************************************************)
(* Theorems about YaffsBlocks: no chunk is lost or leaked, and the NAND    *)
(* holds what an object needs.                                             *)
(*                                                                         *)
(* Argument.  BitmapAccounted and DataSafe are not inductive.  Data adds   *)
(* that the two reasons for a set bit exclude each other (Bits), that the  *)
(* counts of a block are the sizes of its sets, so a block that counts     *)
(* down to zero holds nothing (Counts), that a page not yet allocated was  *)
(* never programmed (Media), and that the chunk to be replaced is still    *)
(* held, however many attempts its replacement takes (Replaced).           *)
(***************************************************************************)
EXTENDS YaffsBlocksProofs

\* Every chunk whose bit is set is held, soft deleted or in transit, and only
\* one of these.
Bits ==
    \A b \in Block, p \in Page :
        /\ p \in chunkBits[b] <=> \/ p \in held[b] \/ p \in softDeleted[b]
                                  \/ <<b, p>> \in Pending
        /\ ~(p \in held[b] /\ p \in softDeleted[b])
        /\ <<b, p>> \in Pending => p \notin held[b] /\ p \notin softDeleted[b]

\* The counts kept in the block information.
Counts ==
    \A b \in Block : /\ pagesInUse[b] = Cardinality(chunkBits[b])
                     /\ softDeletions[b] = Cardinality(softDeleted[b])

\* What the NAND holds.
Media ==
    \A b \in Block, p \in Page :
        /\ programmed[b][p] \in {0, 1}
        /\ b = allocationBlock /\ p >= allocationPage =>
               p \notin chunkBits[b] /\ programmed[b][p] = 0
        /\ blockState[b] = "EMPTY" => programmed[b][p] = 0
        /\ blockState[b] \in {"EMPTY", "DEAD"} => p \notin chunkBits[b]
        /\ p \in held[b] \/ p \in softDeleted[b] => programmed[b][p] = 1
        /\ newChunk = <<b, p>> => /\ pc = "program" => programmed[b][p] = 0
                                  /\ pc = "commit" => programmed[b][p] = 1

\* While a chunk is being written the chunk it is to replace is still held.
Replaced ==
    pc \in {"alloc", "program", "discard", "skip", "commit"} =>
        IF gcRun.block # None THEN gcChunk \in held[gcRun.block]
        ELSE req.prev = NoChunk \/ req.prev \in Held

Data == Bits /\ Counts /\ Media /\ Replaced

\* Block b has been emptied: erased, or lost.
Emptied(b) ==
    /\ chunkBits' = [chunkBits EXCEPT ![b] = {}]
    /\ pagesInUse' = [pagesInUse EXCEPT ![b] = 0]
    /\ softDeletions' = [softDeletions EXCEPT ![b] = 0]
    /\ \/ /\ blockState' = [blockState EXCEPT ![b] = "EMPTY"]
          /\ programmed' = [programmed EXCEPT ![b] = [p \in Page |-> 0]]
       \/ /\ blockState' = [blockState EXCEPT ![b] = "DEAD"]
          /\ programmed' = programmed

\* A block with nothing in it is emptied, whether the erasure works or not.
LEMMA EmptiedEffect ==
    ASSUME TypeOK, NEW b \in Block, NEW e, NEW erased \in BOOLEAN,
           e.bits = {}, e.used = 0, e.soft = 0,
           BlockBecameDirty(b, e, erased)
    PROVE  Emptied(b)
BY DEF BlockBecameDirty, Emptied

\* Counting down: a count reaches zero with the last page.
LEMMA CardRemove ==
    ASSUME NEW S, S \subseteq Page, NEW p \in S
    PROVE  /\ Cardinality(S \ {p}) = Cardinality(S) - 1
           /\ Cardinality(S \ {p}) \in Nat
           /\ Cardinality(S) - 1 = 0 <=> S \ {p} = {}
<1>1. IsFiniteSet(S) /\ IsFiniteSet(S \ {p})
  BY FiniteData
<1>2. Cardinality(S \ {p}) = Cardinality(S) - 1
  BY <1>1, FS_RemoveElement
<1>3. Cardinality(S \ {p}) = 0 <=> S \ {p} = {}
  BY <1>1, FS_EmptySet
<1> QED BY <1>1, <1>2, <1>3, FS_CardinalityType

\* Counting up.
LEMMA CardAdd ==
    ASSUME NEW S, S \subseteq Page, NEW p \in Page, p \notin S
    PROVE  Cardinality(S \cup {p}) = Cardinality(S) + 1
BY FiniteData, FS_AddElement

\* What yaffs_DeleteChunk does to the bitmap, the counts and the NAND: a block
\* it erases held no other chunk.
LEMMA DeleteEffect ==
    ASSUME TypeOK, Data, NEW b \in Block, NEW p \in chunkBits[b], NEW e,
           NEW erased \in BOOLEAN,
           DeleteChunk(b, p, e, erased),
           \/ e = Entry(b) /\ p \notin softDeleted[b]
           \/ e = NoLongerSoft(b) /\ p \in softDeleted[b]
    PROVE  /\ p \in Page
           /\ chunkBits' = [chunkBits EXCEPT ![b] = @ \ {p}]
           /\ pagesInUse' = [pagesInUse EXCEPT ![b] = @ - 1]
           /\ softDeletions' = [softDeletions EXCEPT ![b] =
                  Cardinality(softDeleted[b] \ {p})]
           /\ \/ UNCHANGED <<blockState, programmed>>
              \/ Emptied(b) /\ blockState[b] \in Closed
<1> DEFINE after == [e EXCEPT !.bits = @ \ {p}, !.used = @ - 1, !.free = @ + 1,
                              !.dirty = UpdatedOldestDirty(b)]
           left == chunkBits[b] \ {p}
           softLeft == softDeleted[b] \ {p}
<1>1. /\ p \in Page /\ chunkBits[b] \subseteq Page
      /\ softDeleted[b] \subseteq chunkBits[b]
      /\ pagesInUse[b] = Cardinality(chunkBits[b])
      /\ softDeletions[b] = Cardinality(softDeleted[b])
  BY DEF TypeOK, Data, Bits, Counts
<1>2. /\ Cardinality(left) = pagesInUse[b] - 1
      /\ pagesInUse[b] - 1 = 0 <=> left = {}
  <2>1. /\ Cardinality(left) = Cardinality(chunkBits[b]) - 1
        /\ Cardinality(chunkBits[b]) - 1 = 0 <=> left = {}
    BY <1>1, CardRemove, Zenon
  <2> HIDE DEF left
  <2> QED BY <1>1, <2>1
<1>3. after.bits = left /\ after.used = pagesInUse[b] - 1
      /\ after.soft = Cardinality(softLeft)
  <2>1. CASE e = Entry(b) /\ p \notin softDeleted[b]
    <3>1. softLeft = softDeleted[b]
      BY <2>1
    <3>2. after.bits = left /\ after.used = pagesInUse[b] - 1
          /\ after.soft = softDeletions[b]
      BY <2>1 DEF Entry
    <3> QED BY <1>1, <3>1, <3>2
  <2>2. CASE e = NoLongerSoft(b) /\ p \in softDeleted[b]
    <3>1. Cardinality(softLeft) = softDeletions[b] - 1
      BY <1>1, <2>2, CardRemove
    <3>2. after.bits = left /\ after.used = pagesInUse[b] - 1
          /\ after.soft = softDeletions[b] - 1
      BY <2>2 DEF Entry, NoLongerSoft
    <3> QED BY <3>1, <3>2
  <2> QED BY <2>1, <2>2
<1>4. CASE WhollyDirty(b, after.used)
  <2>1. /\ BlockBecameDirty(b, after, erased) /\ blockState[b] \in Closed
        /\ after.used = 0
    BY <1>4 DEF DeleteChunk, WhollyDirty, InUseStates, Closed
  <2>2. left = {} /\ softLeft = {}
    BY <1>1, <1>2, <1>3, <2>1
  <2>3. Cardinality(softLeft) = 0
    BY <2>2, FS_EmptySet
  <2>4. after.bits = {} /\ after.soft = 0
    BY <1>3, <2>2, <2>3
  <2>5. Emptied(b)
    <3> HIDE DEF after, left, softLeft
    <3> QED BY <2>1, <2>4, EmptiedEffect
  <2>6. /\ chunkBits' = [chunkBits EXCEPT ![b] = left]
        /\ pagesInUse' = [pagesInUse EXCEPT ![b] = @ - 1]
        /\ softDeletions' = [softDeletions EXCEPT ![b] = Cardinality(softLeft)]
    <3> HIDE DEF after, left, softLeft
    <3> QED BY <1>2, <2>2, <2>3, <2>5 DEF Emptied, TypeOK
  <2> QED BY <1>1, <2>1, <2>5, <2>6
<1>5. CASE ~WhollyDirty(b, after.used)
  <2>1. /\ chunkBits' = [chunkBits EXCEPT ![b] = after.bits]
        /\ pagesInUse' = [pagesInUse EXCEPT ![b] = after.used]
        /\ softDeletions' = [softDeletions EXCEPT ![b] = after.soft]
        /\ UNCHANGED <<blockState, programmed>>
    BY <1>5 DEF DeleteChunk
  <2> HIDE DEF after
  <2> QED BY <1>1, <1>3, <2>1 DEF TypeOK
<1> QED BY <1>4, <1>5

\* No object refers to the deleted chunk any more.
Forgotten(b, p) ==
    /\ held'[b] = held[b] \ {p} /\ softDeleted'[b] = softDeleted[b] \ {p}
    /\ \A c \in Block \ {b} : held'[c] = held[c] /\ softDeleted'[c] = softDeleted[c]
    /\ Pending' = Pending \ {<<b, p>>}
    /\ pc' \notin {"program", "commit"}
    /\ UNCHANGED <<allocationBlock, allocationPage>>

\* Deleting a chunk no object refers to any more keeps Data.
LEMMA DeleteData ==
    ASSUME TypeOK, TypeOK', Data, NEW b \in Block, NEW p \in chunkBits[b], NEW e,
           NEW erased \in BOOLEAN,
           DeleteChunk(b, p, e, erased),
           \/ e = Entry(b) /\ p \notin softDeleted[b]
           \/ e = NoLongerSoft(b) /\ p \in softDeleted[b],
           Forgotten(b, p)
    PROVE  Bits' /\ Counts' /\ Media'
<1> USE DEF Forgotten
<1>1. /\ p \in Page
      /\ chunkBits' = [chunkBits EXCEPT ![b] = @ \ {p}]
      /\ pagesInUse' = [pagesInUse EXCEPT ![b] = @ - 1]
      /\ softDeletions' = [softDeletions EXCEPT ![b] = Cardinality(softDeleted[b] \ {p})]
      /\ \/ UNCHANGED <<blockState, programmed>>
         \/ Emptied(b) /\ blockState[b] \in Closed
  BY DeleteEffect
<1>2. /\ chunkBits'[b] = chunkBits[b] \ {p}
      /\ \A c \in Block \ {b} : chunkBits'[c] = chunkBits[c]
  BY <1>1 DEF TypeOK
<1>3. Bits'
  <2> SUFFICES ASSUME NEW c \in Block, NEW q \in Page
               PROVE  /\ q \in chunkBits'[c] <=>
                             \/ q \in held'[c] \/ q \in softDeleted'[c]
                             \/ <<c, q>> \in Pending'
                      /\ ~(q \in held'[c] /\ q \in softDeleted'[c])
                      /\ <<c, q>> \in Pending' =>
                             q \notin held'[c] /\ q \notin softDeleted'[c]
    BY DEF Bits
  <2>1. CASE c # b
    BY <1>2, <2>1 DEF Data, Bits
  <2>2. CASE c = b
    BY <1>2, <2>2 DEF Data, Bits
  <2> QED BY <2>1, <2>2
<1>4. Counts'
  <2>1. Cardinality(chunkBits[b] \ {p}) = Cardinality(chunkBits[b]) - 1
    BY CardRemove DEF TypeOK
  <2>2. /\ pagesInUse'[b] = pagesInUse[b] - 1
        /\ softDeletions'[b] = Cardinality(softDeleted[b] \ {p})
        /\ \A c \in Block \ {b} : /\ pagesInUse'[c] = pagesInUse[c]
                                 /\ softDeletions'[c] = softDeletions[c]
    BY <1>1 DEF TypeOK
  <2>3. Cardinality(chunkBits'[b]) = Cardinality(chunkBits[b]) - 1
    BY <1>2, <2>1, Zenon
  <2>4. Cardinality(softDeleted'[b]) = Cardinality(softDeleted[b] \ {p})
    OBVIOUS
  <2>5. \A c \in Block \ {b} : /\ pagesInUse'[c] = Cardinality(chunkBits'[c])
                             /\ softDeletions'[c] = Cardinality(softDeleted'[c])
    BY <1>2, <2>2 DEF Data, Counts
  <2>6. /\ pagesInUse'[b] = Cardinality(chunkBits'[b])
        /\ softDeletions'[b] = Cardinality(softDeleted'[b])
    BY <2>2, <2>3, <2>4 DEF Data, Counts
  <2> QED BY <2>5, <2>6 DEF Counts
<1>5. Media'
  <2>1. \A c \in Block, q \in Page : q \in held'[c] \/ q \in softDeleted'[c] =>
            /\ q \in chunkBits'[c]
            /\ programmed[c][q] = 1
    BY <1>2, <1>3 DEF Data, Media, Bits
  <2>2. CASE UNCHANGED <<blockState, programmed>>
    BY <1>2, <2>1, <2>2 DEF Data, Media
  <2>3. CASE Emptied(b)
    <3>1. chunkBits'[b] = {}
      BY <2>3 DEF Emptied, TypeOK
    <3>2. \A c \in Block \ {b} : blockState'[c] = blockState[c]
                                 /\ programmed'[c] = programmed[c]
      BY <2>3 DEF Emptied, TypeOK
    <3>3. \/ programmed'[b] = programmed[b] /\ blockState'[b] = "DEAD"
          \/ \A q \in Page : programmed'[b][q] = 0
      BY <2>3 DEF Emptied, TypeOK
    <3>4. ASSUME NEW c \in Block \ {b}, NEW q \in Page
          PROVE  /\ programmed'[c][q] \in {0, 1}
                 /\ c = allocationBlock /\ q >= allocationPage =>
                        q \notin chunkBits'[c] /\ programmed'[c][q] = 0
                 /\ blockState'[c] = "EMPTY" => programmed'[c][q] = 0
                 /\ blockState'[c] \in {"EMPTY", "DEAD"} => q \notin chunkBits'[c]
      BY <1>2, <3>2 DEF Data, Media
    <3>5. ASSUME NEW q \in Page
          PROVE  /\ programmed'[b][q] \in {0, 1} /\ q \notin chunkBits'[b]
                 /\ b = allocationBlock /\ q >= allocationPage =>
                        programmed'[b][q] = 0
                 /\ blockState'[b] = "EMPTY" => programmed'[b][q] = 0
      BY <3>1, <3>3 DEF Data, Media
    <3>6. \A c \in Block, q \in Page : q \in held'[c] \/ q \in softDeleted'[c] =>
              c # b /\ programmed'[c][q] = 1
      BY <2>1, <3>1, <3>2
    <3> QED BY <3>4, <3>5, <3>6 DEF Media
  <2> QED BY <1>1, <2>2, <2>3
<1> QED BY <1>3, <1>4, <1>5

\* Data does not depend on anything else.
LEMMA DataFrame ==
    ASSUME TypeOK, Data,
           UNCHANGED <<chunkBits, pagesInUse, softDeletions, programmed, held,
                       softDeleted>>,
           \A b \in Block : blockState'[b] \in {"EMPTY", "DEAD"} =>
                                blockState'[b] = blockState[b],
           allocationBlock' = None \/ UNCHANGED <<allocationBlock, allocationPage>>,
           Pending' = Pending,
           pc' \notin {"program", "commit"}
    PROVE  Bits' /\ Counts' /\ Media'
<1>1. Bits' /\ Counts'
  BY DEF Data, Bits, Counts
<1>2. Media'
  BY Basics DEF Data, Media
<1> QED BY <1>1, <1>2

\* A chunk is being written in place of another.
Moving == {"alloc", "program", "discard", "skip", "commit"}

\* The chunk to be replaced stays held until its replacement is.
LEMMA ReplacedStep ==
    ASSUME TypeOK, Control, Data, Next
    PROVE  Replaced'
<1> USE DEF fileVars, gcVars, writeVars, Moving
<1>1. CASE Request
  <2>1. pc' \notin Moving
    BY <1>1 DEF Request, StartWrite, StartBackgroundGc, CacheWrite, Delete, SoftDelete,
                ReadError
  <2> QED BY <2>1 DEF Replaced
<1>2. ASSUME NEW p \in Page, GcCopy(p)
      PROVE  Replaced'
  <2>1. /\ gcRun.block \in Block /\ gcRun'.block = gcRun.block /\ pc = "gcLoop"
        /\ p \in chunkBits[gcRun.block] /\ p \notin softDeleted[gcRun.block]
        /\ gcChunk' = p /\ held' = held
    BY <1>2 DEF TypeOK, Control, GcCopy, GcNext, GcPages
  <2>2. p \in held[gcRun.block]
    BY <2>1 DEF Data, Bits, Pending
  <2> QED BY <2>1, <2>2, Basics DEF Replaced
<1>3. CASE Collect /\ ~\E p \in Page : GcCopy(p)
  <2>1. pc' \notin Moving
    BY <1>3, LeaveGcType
       DEF Collect, GcSkip, GcNothing, GcBegin, GcDrop, GcDropCopied, GcEnd
  <2> QED BY <2>1 DEF Replaced
<1>4. ASSUME NEW prev \in Chunk \cup {NoChunk}, NEW reserve \in BOOLEAN,
             NEW shrink \in BOOLEAN, Lookup(prev, reserve, shrink)
      PROVE  Replaced'
  <2>1. /\ gcRun'.block = None /\ held' = held
        /\ req'.prev = prev /\ prev \in Held \cup {NoChunk}
    BY <1>4 DEF TypeOK, Control, Lookup
  <2> QED BY <2>1 DEF Replaced, Held
<1>5. CASE \E b \in Block, p \in Page :
               \/ Commit(b, p) \/ MarkShrink(b, p)
               \/ \E erased \in BOOLEAN : DeletePrev(b, p, erased)
  <2>1. pc' \notin Moving
    BY <1>5 DEF Commit, MarkShrink, DeletePrev, Finished
  <2> QED BY <2>1 DEF Replaced
<1>6. CASE \/ \E b \in Block : NoSpace(b)
           \/ NoErasedBlock
           \/ SkipRestOfBlock /\ GiveUp
  <2>1. pc' \notin Moving
    BY <1>6, GiveUpControl DEF NoSpace, NoErasedBlock, SkipRestOfBlock
  <2> QED BY <2>1 DEF Replaced
<1>7. CASE \/ \E b \in Block : AllocateChunk(b)
           \/ \E b \in Block, p \in Page :
                  \/ ProgramOk(b, p) \/ NotErased(b, p) \/ ProgramFails(b, p)
                  \/ \E erased \in BOOLEAN : Discard(b, p, erased)
           \/ SkipRestOfBlock /\ ~GiveUp
  <2>1. pc \in Moving /\ UNCHANGED <<gcRun, gcChunk, held, req>>
    BY <1>7 DEF AllocateChunk, ProgramOk, NotErased, ProgramFails, Discard,
                SkipRestOfBlock
  <2> QED BY <2>1 DEF Data, Replaced, Held
<1> QED BY <1>1, <1>2, <1>3, <1>4, <1>5, <1>6, <1>7 DEF Next, Service, Collect, Write

\* The requests keep Data.
LEMMA RequestData ==
    ASSUME TypeOK, TypeOK', Control, Struct, Data, Request
    PROVE  Bits' /\ Counts' /\ Media'
<1> USE DEF useVars, allocVars, fileVars, writeVars
<1>1. CASE \/ \E collect \in MayCollect : StartWrite(collect)
           \/ StartBackgroundGc
           \/ CacheWrite
           \/ \E b \in Block : ReadError(b)
  <2>1. /\ UNCHANGED <<blockState, chunkBits, pagesInUse, softDeletions, programmed,
                      held, softDeleted, allocationBlock, allocationPage>>
        /\ pc \in {"idle", "gcLoop"} /\ pc' \in {"idle", "gcLoop", "gcCheck", "lookup"}
    BY <1>1 DEF StartWrite, StartBackgroundGc, CacheWrite, ReadError
  <2>2. Pending' = Pending
    BY <2>1 DEF Pending
  <2> QED BY <2>1, <2>2, DataFrame
<1>2. ASSUME NEW b \in Block, NEW p \in Page, NEW erased \in BOOLEAN,
             Delete(b, p, erased)
      PROVE  Bits' /\ Counts' /\ Media'
  <2>1. /\ DeleteChunk(b, p, Entry(b), erased)
        /\ held' = [held EXCEPT ![b] = @ \ {p}] /\ softDeleted' = softDeleted
        /\ UNCHANGED <<allocationBlock, allocationPage>>
        /\ pc = "idle" /\ pc' = "idle" /\ p \in held[b]
    BY <1>2 DEF Delete
  <2>2. p \in chunkBits[b] /\ p \notin softDeleted[b] /\ Pending = {} /\ Pending' = {}
    BY <2>1 DEF Data, Bits, Pending
  <2>3. Forgotten(b, p)
    BY <2>1, <2>2 DEF TypeOK, Forgotten
  <2> QED BY <2>1, <2>2, <2>3, DeleteData
<1>3. ASSUME NEW b \in Block, NEW p \in Page, SoftDelete(b, p)
      PROVE  Bits' /\ Counts' /\ Media'
  <2>1. /\ held' = [held EXCEPT ![b] = @ \ {p}]
        /\ softDeleted' = [softDeleted EXCEPT ![b] = @ \cup {p}]
        /\ softDeletions' = [softDeletions EXCEPT ![b] = @ + 1]
        /\ UNCHANGED <<blockState, chunkBits, pagesInUse, programmed,
                       allocationBlock, allocationPage, newChunk>>
        /\ pc = "idle" /\ pc' = "idle" /\ p \in held[b]
    BY <1>3 DEF SoftDelete
  <2>2. p \notin softDeleted[b] /\ Pending = {} /\ Pending' = {}
    BY <2>1 DEF Data, Bits, Pending
  <2>3. Bits'
    BY <2>1, <2>2 DEF TypeOK, Data, Bits
  <2>4. Counts'
    <3>1. Cardinality(softDeleted[b] \cup {p}) = Cardinality(softDeleted[b]) + 1
      BY <2>2, CardAdd DEF TypeOK
    <3>2. /\ softDeletions'[b] = softDeletions[b] + 1
          /\ softDeleted'[b] = softDeleted[b] \cup {p}
          /\ \A c \in Block \ {b} : /\ softDeletions'[c] = softDeletions[c]
                                    /\ softDeleted'[c] = softDeleted[c]
      BY <2>1 DEF TypeOK
    <3>3. softDeletions'[b] = Cardinality(softDeleted'[b])
      BY <3>1, <3>2 DEF Data, Counts
    <3>4. \A c \in Block \ {b} : softDeletions'[c] = Cardinality(softDeleted'[c])
      BY <3>2 DEF Data, Counts
    <3>5. \A c \in Block : pagesInUse'[c] = Cardinality(chunkBits'[c])
      BY <2>1 DEF Data, Counts
    <3> QED BY <3>3, <3>4, <3>5 DEF Counts
  <2>5. Media'
    <3>1. \A c \in Block, q \in Page : q \in held'[c] \/ q \in softDeleted'[c] =>
              q \in held[c] \/ q \in softDeleted[c]
      BY <2>1 DEF TypeOK
    <3> QED BY <2>1, <3>1 DEF Data, Media
  <2> QED BY <2>3, <2>4, <2>5
<1> QED BY <1>1, <1>2, <1>3 DEF Request

\* A block collected with nothing left in it is emptied.
LEMMA EmptiedData ==
    ASSUME TypeOK, Data, NEW b \in Block, Emptied(b), chunkBits[b] = {},
           UNCHANGED <<held, softDeleted, allocationBlock, allocationPage>>,
           Pending' = Pending, pc' \notin {"program", "commit"}
    PROVE  Bits' /\ Counts' /\ Media'
<1>1. held[b] = {} /\ softDeleted[b] = {}
  BY DEF TypeOK, Data, Bits
<1>2. chunkBits' = chunkBits
  BY DEF Emptied, TypeOK
<1>3. Bits'
  BY <1>2 DEF Data, Bits
<1>4. Counts'
  <2>1. /\ pagesInUse'[b] = 0 /\ softDeletions'[b] = 0
        /\ \A c \in Block \ {b} : /\ pagesInUse'[c] = pagesInUse[c]
                                  /\ softDeletions'[c] = softDeletions[c]
    BY DEF Emptied, TypeOK
  <2>2. Cardinality(chunkBits'[b]) = 0 /\ Cardinality(softDeleted'[b]) = 0
    BY <1>1, <1>2, FS_EmptySet
  <2>3. \A c \in Block \ {b} : /\ pagesInUse'[c] = Cardinality(chunkBits'[c])
                               /\ softDeletions'[c] = Cardinality(softDeleted'[c])
    BY <1>2, <2>1 DEF Data, Counts
  <2> QED BY <2>1, <2>2, <2>3 DEF Counts
<1>5. Media'
  <2>1. \A c \in Block \ {b} : blockState'[c] = blockState[c]
                               /\ programmed'[c] = programmed[c]
    BY DEF Emptied, TypeOK
  <2>2. \/ programmed'[b] = programmed[b] /\ blockState'[b] = "DEAD"
        \/ \A q \in Page : programmed'[b][q] = 0
    BY DEF Emptied, TypeOK
  <2>3. ASSUME NEW c \in Block \ {b}, NEW q \in Page
        PROVE  /\ programmed'[c][q] \in {0, 1}
               /\ c = allocationBlock /\ q >= allocationPage =>
                      q \notin chunkBits'[c] /\ programmed'[c][q] = 0
               /\ blockState'[c] = "EMPTY" => programmed'[c][q] = 0
               /\ blockState'[c] \in {"EMPTY", "DEAD"} => q \notin chunkBits'[c]
               /\ q \in held'[c] \/ q \in softDeleted'[c] => programmed'[c][q] = 1
    BY <1>2, <2>1 DEF Data, Media
  <2>4. ASSUME NEW q \in Page
        PROVE  /\ programmed'[b][q] \in {0, 1} /\ q \notin chunkBits'[b]
               /\ b = allocationBlock /\ q >= allocationPage =>
                      programmed'[b][q] = 0
               /\ blockState'[b] = "EMPTY" => programmed'[b][q] = 0
               /\ q \notin held'[b] /\ q \notin softDeleted'[b]
    BY <1>1, <1>2, <2>2 DEF Data, Media
  <2> QED BY <2>3, <2>4 DEF Media
<1> QED BY <1>3, <1>4, <1>5

\* The collector keeps Data, soft deleted chunks and failed copies included.
LEMMA CollectData ==
    ASSUME TypeOK, TypeOK', Control, Struct, Data, Collect
    PROVE  Bits' /\ Counts' /\ Media'
<1> USE DEF useVars, countVars, allocVars, fileVars, writeVars
<1>1. CASE \/ GcSkip
           \/ \E aggressive \in BOOLEAN, c \in Block \cup {None} : GcNothing(aggressive, c)
  <2>1. /\ UNCHANGED <<blockState, chunkBits, pagesInUse, softDeletions, programmed,
                      held, softDeleted, allocationBlock, allocationPage>>
        /\ pc = "gcCheck" /\ pc' \in {"lookup", "idle"}
    BY <1>1, LeaveGcType DEF GcSkip, GcNothing
  <2>2. Pending' = Pending
    BY <2>1 DEF Pending
  <2> QED BY <2>1, <2>2, DataFrame
<1>2. ASSUME NEW b \in Block, NEW aggressive \in BOOLEAN, NEW erased \in BOOLEAN,
             GcBegin(b, aggressive, erased)
      PROVE  Bits' /\ Counts' /\ Media'
  <2>1. /\ pc = "gcCheck" /\ pc' = "gcLoop"
        /\ UNCHANGED <<held, softDeleted, allocationBlock, allocationPage>>
    BY <1>2 DEF GcBegin
  <2>2. Pending' = Pending
    BY <2>1 DEF Pending
  <2>3. CASE chunkBits[b] = {}
    <3>1. PICK dirty, dirtiest :
              BlockBecameDirty(b, [Entry(b) EXCEPT !.dirty = dirty,
                                                   !.dirtiest = dirtiest], erased)
      BY <1>2, <2>3 DEF GcBegin
    <3> DEFINE e == [Entry(b) EXCEPT !.dirty = dirty, !.dirtiest = dirtiest]
    <3>2. softDeleted[b] = {}
      BY <2>3 DEF TypeOK, Data, Bits
    <3>3. pagesInUse[b] = 0 /\ softDeletions[b] = 0
      BY <2>3, <3>2, FS_EmptySet DEF Data, Counts
    <3>4. e.bits = {} /\ e.used = 0 /\ e.soft = 0
      BY <2>3, <3>3 DEF Entry
    <3>5. Emptied(b)
      <4> HIDE DEF e
      <4> QED BY <3>1, <3>4, EmptiedEffect DEF e
    <3> QED BY <2>1, <2>2, <2>3, <3>5, EmptiedData
  <2>4. CASE chunkBits[b] # {}
    <3>1. /\ blockState' = [blockState EXCEPT ![b] =
                 IF @ = "FULL" THEN "COLLECTING" ELSE @]
          /\ UNCHANGED <<chunkBits, pagesInUse, softDeletions, programmed>>
      BY <1>2, <2>4 DEF GcBegin
    <3>2. \A c \in Block : blockState'[c] \in {"EMPTY", "DEAD"} =>
                               blockState'[c] = blockState[c]
      BY <3>1 DEF TypeOK
    <3> QED BY <2>1, <2>2, <3>1, <3>2, DataFrame
  <2> QED BY <2>3, <2>4
<1>3. ASSUME NEW p \in Page, NEW erased \in BOOLEAN, GcDrop(p, erased)
      PROVE  Bits' /\ Counts' /\ Media'
  <2> DEFINE b == gcRun.block
  <2>1. /\ b \in Block /\ p \in chunkBits[b] /\ p \in softDeleted[b]
        /\ DeleteChunk(b, p, NoLongerSoft(b), erased)
        /\ held' = held /\ softDeleted' = [softDeleted EXCEPT ![b] = @ \ {p}]
        /\ UNCHANGED <<allocationBlock, allocationPage>>
        /\ pc = "gcLoop" /\ pc' = "gcLoop"
    BY <1>3 DEF Control, GcDrop, GcNext, GcPages
  <2>2. p \notin held[b] /\ Pending = {} /\ Pending' = {}
    BY <2>1 DEF Data, Bits, Pending
  <2> HIDE DEF b
  <2>3. Forgotten(b, p)
    BY <2>1, <2>2 DEF TypeOK, Forgotten
  <2> QED BY <2>1, <2>2, <2>3, DeleteData
<1>4. ASSUME NEW p \in Page, GcCopy(p)
      PROVE  Bits' /\ Counts' /\ Media'
  <2>1. /\ UNCHANGED <<blockState, chunkBits, pagesInUse, softDeletions, programmed,
                      held, softDeleted, allocationBlock, allocationPage>>
        /\ pc = "gcLoop" /\ pc' = "alloc"
    BY <1>4 DEF GcCopy
  <2>2. Pending' = Pending
    BY <2>1 DEF Pending
  <2> QED BY <2>1, <2>2, DataFrame
<1>5. ASSUME NEW erased \in BOOLEAN, GcDropCopied(erased)
      PROVE  Bits' /\ Counts' /\ Media'
  <2> DEFINE b == gcRun.block
             p == gcChunk
  <2>1. /\ b \in Block /\ p \in Page
        /\ DeleteChunk(b, p, Entry(b), erased)
        /\ UNCHANGED <<held, softDeleted, allocationBlock, allocationPage>>
        /\ pc = "gcDrop" /\ pc' = "gcLoop"
    BY <1>5, Basics DEF Control, GcDropCopied
  <2>2. Pending = {<<b, p>>} /\ Pending' = {}
    BY <2>1 DEF Pending
  <2>3. p \in chunkBits[b] /\ p \notin held[b] /\ p \notin softDeleted[b]
    BY <2>1, <2>2 DEF Data, Bits
  <2> HIDE DEF b, p
  <2>4. Forgotten(b, p)
    BY <2>1, <2>2, <2>3 DEF TypeOK, Forgotten
  <2> QED BY <2>1, <2>3, <2>4, DeleteData
<1>6. CASE GcEnd
  <2>1. /\ UNCHANGED <<chunkBits, pagesInUse, softDeletions, programmed,
                      held, softDeleted, allocationBlock, allocationPage>>
        /\ pc = "gcLoop" /\ pc' \in {"gcCheck", "lookup", "idle"}
        /\ blockState' \in {blockState, [blockState EXCEPT ![gcRun.block] = "FULL"]}
    BY <1>6, LeaveGcType DEF GcEnd
  <2>2. Pending' = Pending
    BY <2>1 DEF Pending
  <2>3. \A c \in Block : blockState'[c] \in {"EMPTY", "DEAD"} =>
                               blockState'[c] = blockState[c]
    BY <2>1 DEF TypeOK
  <2> QED BY <2>1, <2>2, <2>3, DataFrame
<1> QED BY <1>1, <1>2, <1>3, <1>4, <1>5, <1>6 DEF Collect

\* Programming the new chunk, successfully or not.
LEMMA ProgramData ==
    ASSUME TypeOK, Data, NEW b \in Block, NEW p \in Page,
           pc = "program", newChunk = <<b, p>>, newChunk' = newChunk,
           programmed' = Programmed(b, p),
           \/ pc' = "commit"
           \/ pc' = "discard",
           UNCHANGED <<blockState, chunkBits, pagesInUse, softDeletions, held,
                       softDeleted, allocationBlock, allocationPage>>
    PROVE  Bits' /\ Counts' /\ Media'
<1>1. Pending = {<<b, p>>} /\ Pending' = {<<b, p>>}
  BY DEF Pending
<1>2. Bits' /\ Counts'
  BY <1>1 DEF Data, Bits, Counts
<1>3. /\ p \in chunkBits[b] /\ p \notin held[b] /\ p \notin softDeleted[b]
      /\ programmed[b][p] = 0
  BY <1>1 DEF Data, Bits, Media
<1>4. /\ programmed'[b][p] = 1
      /\ \A c \in Block, q \in Page : <<c, q>> # <<b, p>> =>
             programmed'[c][q] = programmed[c][q]
  BY <1>3 DEF TypeOK, Programmed
<1>5. Media'
  <2>1. ASSUME NEW c \in Block, NEW q \in Page, <<c, q>> # <<b, p>>
        PROVE  /\ programmed'[c][q] \in {0, 1}
               /\ c = allocationBlock /\ q >= allocationPage =>
                      q \notin chunkBits[c] /\ programmed'[c][q] = 0
               /\ blockState[c] = "EMPTY" => programmed'[c][q] = 0
               /\ blockState[c] \in {"EMPTY", "DEAD"} => q \notin chunkBits[c]
               /\ q \in held[c] \/ q \in softDeleted[c] => programmed'[c][q] = 1
    BY <1>4, <2>1 DEF Data, Media
  <2>2. /\ ~(b = allocationBlock /\ p >= allocationPage)
        /\ blockState[b] \notin {"EMPTY", "DEAD"}
    BY <1>3 DEF Data, Media
  <2> QED BY <1>3, <1>4, <2>1, <2>2 DEF Media
<1> QED BY <1>2, <1>5

\* No page from the next one on was used since the block was erased.
LEMMA TakeBlockData ==
    ASSUME TypeOK, Struct, Data, NEW b \in Block, TakeBlock(b)
    PROVE  LET page == IF allocationBlock = None THEN 0 ELSE allocationPage IN
           /\ \A q \in Page : q >= page => q \notin chunkBits[b] /\ programmed[b][q] = 0
           /\ \A c \in Block \ {b} : c # allocationBlock
<1>1. CASE allocationBlock = None
  <2>1. blockState[b] = "EMPTY"
    BY <1>1 DEF TakeBlock
  <2> QED BY <1>1, <2>1, Basics DEF Data, Media
<1>2. CASE allocationBlock # None
  BY <1>2 DEF TakeBlock, Data, Media
<1> QED BY <1>1, <1>2

\* yaffs_AllocateChunk keeps Data.
LEMMA AllocateData ==
    ASSUME TypeOK, TypeOK', Control, Struct, Data, NEW b \in Block, AllocateChunk(b)
    PROVE  Bits' /\ Counts' /\ Media'
<1> DEFINE page == IF allocationBlock = None THEN 0 ELSE allocationPage
<1>1. page \in Page
  BY Basics DEF TypeOK, Control, Page
<1>2. /\ \A q \in Page : q >= page => q \notin chunkBits[b] /\ programmed[b][q] = 0
      /\ \A c \in Block \ {b} : c # allocationBlock
  BY TakeBlockData DEF AllocateChunk
<1>3. /\ allocationBlock' \in {None, b} /\ allocationPage' = page + 1
      /\ chunkBits' = [chunkBits EXCEPT ![b] = @ \cup {page}]
      /\ pagesInUse' = [pagesInUse EXCEPT ![b] = @ + 1]
      /\ newChunk' = <<b, page>> /\ pc = "alloc" /\ pc' = "program"
      /\ UNCHANGED <<softDeletions, programmed, held, softDeleted>>
      /\ \/ blockState' = [blockState EXCEPT ![b] = "FULL"]
         \/ blockState' = [blockState EXCEPT ![b] = "ALLOCATING"]
  BY DEF AllocateChunk, fileVars
<1> HIDE DEF page
<1>4. Pending = {} /\ Pending' = {<<b, page>>}
  BY <1>3 DEF Pending
<1>5. /\ page \notin chunkBits[b] /\ programmed[b][page] = 0
      /\ page \notin held[b] /\ page \notin softDeleted[b]
  <2>1. page >= page
    BY <1>1, Basics DEF Page
  <2>2. page \notin chunkBits[b] /\ programmed[b][page] = 0
    BY <1>1, <1>2, <2>1
  <2> QED BY <1>1, <2>2 DEF Data, Bits
<1>6. /\ chunkBits'[b] = chunkBits[b] \cup {page}
      /\ \A c \in Block \ {b} : chunkBits'[c] = chunkBits[c]
  BY <1>3 DEF TypeOK
<1>7. Bits'
  <2>1. ASSUME NEW c \in Block, NEW q \in Page
        PROVE  <<c, q>> \in Pending' <=> c = b /\ q = page
    BY <1>4
  <2> QED BY <1>3, <1>4, <1>5, <1>6, <2>1 DEF Data, Bits
<1>8. Counts'
  <2>1. Cardinality(chunkBits[b] \cup {page}) = Cardinality(chunkBits[b]) + 1
    BY <1>1, <1>5, CardAdd DEF TypeOK
  <2>2. /\ pagesInUse'[b] = pagesInUse[b] + 1
        /\ \A c \in Block \ {b} : pagesInUse'[c] = pagesInUse[c]
    BY <1>3 DEF TypeOK
  <2>3. pagesInUse'[b] = Cardinality(chunkBits'[b])
    BY <1>6, <2>1, <2>2 DEF Data, Counts
  <2>4. \A c \in Block \ {b} : pagesInUse'[c] = Cardinality(chunkBits'[c])
    BY <1>6, <2>2 DEF Data, Counts
  <2>5. \A c \in Block : softDeletions'[c] = Cardinality(softDeleted'[c])
    BY <1>3 DEF Data, Counts
  <2> QED BY <2>3, <2>4, <2>5 DEF Counts
<1>9. Media'
  <2>1. /\ \A c \in Block \ {b} : blockState'[c] = blockState[c] /\ c # allocationBlock'
        /\ blockState'[b] \notin {"EMPTY", "DEAD"}
    BY <1>3, Basics DEF TypeOK
  <2>2. ASSUME NEW c \in Block \ {b}, NEW q \in Page
        PROVE  /\ programmed[c][q] \in {0, 1}
               /\ blockState'[c] = "EMPTY" => programmed[c][q] = 0
               /\ blockState'[c] \in {"EMPTY", "DEAD"} => q \notin chunkBits'[c]
               /\ q \in held[c] \/ q \in softDeleted[c] => programmed[c][q] = 1
    BY <1>6, <2>1 DEF Data, Media
  <2>3. ASSUME NEW q \in Page
        PROVE  /\ programmed[b][q] \in {0, 1}
               /\ q >= page + 1 => q \notin chunkBits'[b] /\ programmed[b][q] = 0
               /\ q \in held[b] \/ q \in softDeleted[b] => programmed[b][q] = 1
    BY <1>1, <1>2, <1>6, Basics DEF Data, Media
  <2> QED BY <1>3, <1>5, <2>1, <2>2, <2>3 DEF Media
<1> QED BY <1>7, <1>8, <1>9

\* yaffs_AllocateChunk keeps Data when it finds no space.
LEMMA NoSpaceData ==
    ASSUME TypeOK, TypeOK', Control, Struct, Data, NEW b \in Block, NoSpace(b)
    PROVE  Bits' /\ Counts' /\ Media'
<1> DEFINE page == IF allocationBlock = None THEN 0 ELSE allocationPage
<1>1. /\ \A q \in Page : q >= page => q \notin chunkBits[b] /\ programmed[b][q] = 0
  BY TakeBlockData DEF NoSpace
<1>2. /\ allocationBlock' = b /\ allocationPage' = page
      /\ UNCHANGED <<chunkBits, pagesInUse, softDeletions, programmed, held,
                     softDeleted>>
      /\ blockState' = [blockState EXCEPT ![b] = "ALLOCATING"]
      /\ pc = "alloc" /\ pc' \in {"gcLoop", "idle"}
  BY GiveUpControl DEF NoSpace, useVars, fileVars
<1> HIDE DEF page
<1>3. Pending = {} /\ Pending' = {}
  BY <1>2 DEF Pending
<1>4. Bits' /\ Counts'
  BY <1>2, <1>3 DEF Data, Bits, Counts
<1>5. \A c \in Block : blockState'[c] \in {"EMPTY", "DEAD"} => blockState'[c] = blockState[c]
  BY <1>2 DEF TypeOK
<1>6. Media'
  BY <1>1, <1>2, <1>5 DEF Data, Media
<1> QED BY <1>4, <1>6

\* The new chunk takes the place of the old one.
LEMMA CommitData ==
    ASSUME TypeOK, TypeOK', Control, Struct, Data, NEW b \in Block, NEW p \in Page,
           Commit(b, p)
    PROVE  Bits' /\ Counts' /\ Media'
<1>1. /\ pc = "commit" /\ newChunk = <<b, p>>
      /\ UNCHANGED <<blockState, chunkBits, pagesInUse, softDeletions, programmed,
                     softDeleted, allocationBlock, allocationPage, gcRun, gcChunk>>
  BY DEF Commit, useVars, allocVars, gcVars
<1>2. /\ Pending = {<<b, p>>}
      /\ p \in chunkBits[b] /\ p \notin held[b] /\ p \notin softDeleted[b]
      /\ programmed[b][p] = 1
  BY <1>1 DEF Pending, Data, Bits, Media
<1>3. CASE Copying \/ req.prev # NoChunk
  <2>1. PICK ob \in Block, op \in Page :
            /\ op \in held[ob] /\ Replace(b, p, <<ob, op>>)
            /\ Pending' = {<<ob, op>>}
            /\ pc' \in {"gcDrop", "deletePrev"}
    <3>1. CASE Copying
      <4>1. /\ gcRun.block \in Block /\ gcChunk \in Page
            /\ gcChunk \in held[gcRun.block]
        BY <1>1, <3>1 DEF TypeOK, Control, Copying, Data, Replaced
      <4>2. Replace(b, p, <<gcRun.block, gcChunk>>) /\ pc' = "gcDrop"
        BY <3>1 DEF Commit
      <4>3. Pending' = {<<gcRun.block, gcChunk>>}
        BY <1>1, <4>2 DEF Pending
      <4> QED BY <4>1, <4>2, <4>3
    <3>2. CASE ~Copying
      <4>1. /\ req.prev \in Held /\ Replace(b, p, req.prev)
            /\ pc' = "deletePrev" /\ req' = req
        BY <1>1, <1>3, <3>2 DEF Commit, Copying, Data, Replaced
      <4>2. Pending' = {req.prev}
        BY <4>1 DEF Pending
      <4> QED BY <4>1, <4>2 DEF Held, Chunk
    <3> QED BY <3>1, <3>2
  <2> DEFINE added == [held EXCEPT ![b] = @ \cup {p}]
  <2>2. held' = [added EXCEPT ![ob] = @ \ {op}]
    BY <2>1 DEF Replace
  <2>3. \A c \in Block, q \in Page :
            q \in held'[c] <=> /\ q \in held[c] \/ <<c, q>> = <<b, p>>
                               /\ <<c, q>> # <<ob, op>>
    <3>1. added \in [Block -> SUBSET Page]
      BY DEF TypeOK
    <3>2. \A c \in Block, q \in Page : q \in added[c] <=>
                                           q \in held[c] \/ <<c, q>> = <<b, p>>
      BY DEF TypeOK
    <3> HIDE DEF added
    <3> QED BY <2>2, <3>1, <3>2
  <2>4. Bits'
    BY <1>1, <1>2, <2>1, <2>3 DEF Data, Bits
  <2>5. Counts'
    BY <1>1 DEF Data, Counts
  <2>6. Media'
    BY <1>1, <1>2, <2>1, <2>3 DEF Data, Media
  <2> QED BY <2>4, <2>5, <2>6
<1>4. CASE ~Copying /\ req.prev = NoChunk
  <2>1. /\ held' = [held EXCEPT ![b] = @ \cup {p}]
        /\ pc' \in {"markShrink", "idle"}
    BY <1>4 DEF Commit, Finished
  <2>2. Pending' = {}
    BY <2>1 DEF Pending
  <2>3. \A c \in Block, q \in Page :
            q \in held'[c] <=> q \in held[c] \/ <<c, q>> = <<b, p>>
    BY <2>1 DEF TypeOK
  <2>4. Bits'
    BY <1>1, <1>2, <2>2, <2>3 DEF Data, Bits
  <2>5. Counts'
    BY <1>1 DEF Data, Counts
  <2>6. Media'
    BY <1>1, <1>2, <2>1, <2>3 DEF Data, Media
  <2> QED BY <2>4, <2>5, <2>6
<1> QED BY <1>3, <1>4
\* Writing a chunk keeps Data, whatever fails.
LEMMA WriteData ==
    ASSUME TypeOK, TypeOK', Control, Struct, Data, Write
    PROVE  Bits' /\ Counts' /\ Media'
<1> USE DEF useVars, countVars, allocVars, fileVars, writeVars, Finished
<1>1. CASE \/ \E prev \in Chunk \cup {NoChunk}, reserve, shrink \in BOOLEAN :
                  Lookup(prev, reserve, shrink)
           \/ NoErasedBlock
           \/ SkipRestOfBlock
           \/ \E b \in Block, p \in Page : MarkShrink(b, p)
  <2>1. /\ UNCHANGED <<chunkBits, pagesInUse, softDeletions, programmed, held,
                       softDeleted>>
        /\ pc \in {"lookup", "alloc", "skip", "markShrink"}
        /\ pc' \in {"alloc", "gcLoop", "idle"}
    BY <1>1, GiveUpControl DEF Lookup, NoErasedBlock, SkipRestOfBlock, MarkShrink
  <2>2. allocationBlock' = None \/ UNCHANGED <<allocationBlock, allocationPage>>
    BY <1>1 DEF Lookup, NoErasedBlock, SkipRestOfBlock, MarkShrink
  <2>3. \A c \in Block : blockState'[c] \in {"EMPTY", "DEAD"} =>
                             blockState'[c] = blockState[c]
    BY <1>1 DEF TypeOK, Lookup, NoErasedBlock, SkipRestOfBlock, MarkShrink
  <2>4. Pending' = Pending
    BY <2>1 DEF Pending
  <2> QED BY <2>1, <2>2, <2>3, <2>4, DataFrame
<1>2. ASSUME NEW b \in Block, NEW p \in Page, NotErased(b, p)
      PROVE  Bits' /\ Counts' /\ Media'
  <2>1. /\ UNCHANGED <<blockState, chunkBits, pagesInUse, softDeletions, programmed,
                       held, softDeleted, allocationBlock, allocationPage, newChunk>>
        /\ pc = "program" /\ pc' = "discard"
    BY <1>2 DEF NotErased
  <2>2. Pending' = Pending
    BY <2>1 DEF Pending
  <2> QED BY <2>1, <2>2, DataFrame
<1>3. ASSUME NEW b \in Block, NEW p \in Page, ProgramOk(b, p) \/ ProgramFails(b, p)
      PROVE  Bits' /\ Counts' /\ Media'
  <2>1. /\ UNCHANGED <<blockState, chunkBits, pagesInUse, softDeletions, held,
                       softDeleted, allocationBlock, allocationPage, newChunk>>
        /\ pc = "program" /\ newChunk = <<b, p>> /\ programmed' = Programmed(b, p)
        /\ pc' = "commit" \/ pc' = "discard"
    BY <1>3 DEF ProgramOk, ProgramFails
  <2> QED BY <2>1, ProgramData
<1>4. ASSUME NEW b \in Block, NEW p \in Page, NEW erased \in BOOLEAN,
             Discard(b, p, erased)
      PROVE  Bits' /\ Counts' /\ Media'
  <2>1. /\ DeleteChunk(b, p, Entry(b), erased)
        /\ UNCHANGED <<held, softDeleted, allocationBlock, allocationPage>>
        /\ pc = "discard" /\ pc' = "skip" /\ newChunk = <<b, p>>
    BY <1>4 DEF Discard
  <2>2. Pending = {<<b, p>>} /\ Pending' = {}
    BY <2>1 DEF Pending
  <2>3. p \in chunkBits[b] /\ p \notin held[b] /\ p \notin softDeleted[b]
    BY <2>1, <2>2 DEF Data, Bits
  <2>4. Forgotten(b, p)
    BY <2>1, <2>2, <2>3 DEF TypeOK, Forgotten
  <2> QED BY <2>1, <2>3, <2>4, DeleteData
<1>5. ASSUME NEW b \in Block, NEW p \in Page, NEW erased \in BOOLEAN,
             DeletePrev(b, p, erased)
      PROVE  Bits' /\ Counts' /\ Media'
  <2>1. /\ DeleteChunk(b, p, Entry(b), erased)
        /\ UNCHANGED <<held, softDeleted, allocationBlock, allocationPage>>
        /\ pc = "deletePrev" /\ pc' \in {"markShrink", "idle"} /\ req.prev = <<b, p>>
    BY <1>5 DEF DeletePrev
  <2>2. Pending = {<<b, p>>} /\ Pending' = {}
    BY <2>1 DEF Pending
  <2>3. p \in chunkBits[b] /\ p \notin held[b] /\ p \notin softDeleted[b]
    BY <2>1, <2>2 DEF Data, Bits
  <2>4. Forgotten(b, p)
    BY <2>1, <2>2, <2>3 DEF TypeOK, Forgotten
  <2> QED BY <2>1, <2>3, <2>4, DeleteData
<1> QED BY <1>1, <1>2, <1>3, <1>4, <1>5, AllocateData, NoSpaceData, CommitData DEF Write

\* Every step keeps Data.
LEMMA DataStep ==
    ASSUME IndInv, IndInv', Data, [Next]_vars
    PROVE  Data'
<1> USE DEF IndInv
<1>1. CASE Next
  <2>1. Bits' /\ Counts' /\ Media'
    BY <1>1, RequestData, CollectData, WriteData DEF Next, Service
  <2> QED BY <1>1, <2>1, ReplacedStep DEF Data
<1>2. CASE UNCHANGED vars
  <2>1. UNCHANGED <<blockState, chunkBits, pagesInUse, softDeletions, programmed,
                    held, softDeleted, allocationBlock, allocationPage, newChunk,
                    pc, req, gcRun, gcChunk>>
    BY <1>2 DEF vars, useVars, fileVars, allocVars, gcVars, writeVars
  <2>2. Pending' = Pending /\ Held' = Held
    BY <2>1 DEF Pending, Held
  <2> QED BY <2>1, <2>2 DEF Data, Bits, Counts, Media, Replaced
<1> QED BY <1>1, <1>2

\* Data holds after mount.
LEMMA InitData ==
    ASSUME Init
    PROVE  Data
<1>1. TypeOK
  BY InitType
<1>2. Pending = {}
  BY DEF Init, Pending
<1>3. /\ blockState = [b \in Block |-> IF Written(b) THEN "FULL" ELSE "EMPTY"]
      /\ chunkBits = [b \in Block |-> IF Written(b) THEN LiveAtMount[Rank(b)] ELSE {}]
      /\ pagesInUse = [b \in Block |-> Cardinality(chunkBits[b])]
      /\ softDeletions = [b \in Block |-> 0]
      /\ held = chunkBits /\ softDeleted = [b \in Block |-> {}]
      /\ programmed = [b \in Block |-> [p \in Page |-> IF Written(b) THEN 1 ELSE 0]]
      /\ pc = "idle" /\ allocationBlock = None
  BY DEF Init
<1>4. Bits
  BY <1>2, <1>3 DEF Bits
<1>5. Counts
  BY <1>3, FS_EmptySet DEF Counts
<1>6. Media
  BY <1>3, Basics DEF Media
<1>7. Replaced
  BY <1>3 DEF Replaced
<1> QED BY <1>4, <1>5, <1>6, <1>7 DEF Data

\* Data holds in every reachable state.
THEOREM DataInductive == Spec => [](IndInv /\ Data)
<1>1. Init => Data
  BY InitData
<1>2. IndInv /\ IndInv' /\ Data /\ [Next]_vars => Data'
  BY DataStep
<1> QED BY <1>1, <1>2, Inductive, PTL DEF Spec

\* The chunk bitmap of the device holds exactly the chunks
\* that objects need, those of soft deleted files and the ones in transit.
THEOREM ChunksAccountedFor == Spec => []BitmapAccounted
<1>1. Data => BitmapAccounted
  BY DEF Data, Bits, BitmapAccounted, Chunk, Held, SoftDeleted
<1> QED BY <1>1, DataInductive, PTL

\* Needed chunks are in blocks that keep their data, written once; no page is
\* programmed twice between erasures (yaffs_DeleteChunk, yaffs_BlockBecameDirty,
\* yaffs_AllocateChunk).
THEOREM DataIsSafe == Spec => []DataSafe
<1>1. IndInv /\ Data => DataSafe
  <2> SUFFICES ASSUME IndInv, Data
               PROVE  DataSafe
    OBVIOUS
  <2>1. ASSUME NEW b \in Block, NEW p \in Page, p \in held[b] \/ p \in softDeleted[b]
        PROVE  blockState[b] \in InUseStates /\ programmed[b][p] = 1
    <3>1. p \in chunkBits[b]
      BY <2>1 DEF Data, Bits
    <3>2. blockState[b] \in BlockStates /\ blockState[b] \notin {"EMPTY", "DEAD"}
      BY <3>1 DEF IndInv, TypeOK, Data, Media
    <3> QED BY <2>1, <3>2 DEF Data, Media, BlockStates, CountedStates
  <2>2. ASSUME NEW b \in Block, NEW p \in Page
        PROVE  /\ programmed[b][p] <= 1
               /\ b = allocationBlock /\ p >= allocationPage => programmed[b][p] = 0
               /\ blockState[b] = "EMPTY" => programmed[b][p] = 0
    BY DEF Data, Media
  <2> QED BY <2>1, <2>2 DEF DataSafe, Held, SoftDeleted, Chunk
<1> QED BY <1>1, DataInductive, PTL

=============================================================================
