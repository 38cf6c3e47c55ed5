------------------------------- MODULE Yaffs1 -------------------------------
(***************************************************************************)
(* A yaffs1 device (param.isYaffs2 = 0).  Its pages have no sequence       *)
(* numbers: a chunk that is replaced is marked as deleted by programming   *)
(* its tags again, and of two copies that a loss of power has left the     *)
(* forward scan (yaffs_yaffs1.c) tells the newer one by a serial number of *)
(* two bits.  The tags are eight bytes with an error code of their own     *)
(* (yaffs_mtdif1.c, yaffs_packedtags1.c, yaffs_tagscompat.c).              *)
(*                                                                         *)
(* A key is a chunk of an object, <<object, chunk>>; chunk 0 is its        *)
(* header.  What a page says is the number of the write it came from.      *)
(* Which block is collected is left open; YaffsBlocks has that, the        *)
(* failing programs and the soft deletions.                                *)
(***************************************************************************)
EXTENDS Integers, Sequences, FiniteSets

CONSTANTS
    NBlocks, NChunks,
    Reserved,       \* nReservedBlocks
    Keys,           \* the chunks that are written
    MaxCopies,      \* how many chunks one call of the collector copies
    FlippedBits,    \* the bits of the tags that may flip
    None,
    MaxWrites, MaxCrashes, MaxFlips, MaxFaults      \* bounds

Blocks == 1 .. NBlocks
Pages == Blocks \X (0 .. NChunks - 1)
Objects == {key[1] : key \in Keys}
IsHeader(key) == key[2] = 0

ASSUME Yaffs1Assumption ==
    /\ NBlocks \in Nat \ {0} /\ NChunks \in Nat \ {0} /\ MaxCopies \in 1 .. NChunks
    /\ Reserved \in Nat /\ None \notin Pages
    /\ Keys \subseteq (Nat \ {0}) \X Nat /\ FlippedBits \subseteq 1 .. 64
    /\ {MaxWrites, MaxCrashes, MaxFlips, MaxFaults} \subseteq Nat

(***************************************************************************)
(* Tags, as the set of their bits that are 1; the byte count is left out.  *)
(***************************************************************************)
HasBit(n, i) == (n \div 2^i) % 2 = 1
SymmetricDifference(A, B) == (A \ B) \cup (B \ A)
Toggled(bits, i) == SymmetricDifference(bits, {i})

\* A number in a field of bits, and back.
Field(n, first, width) == {first + i : i \in {j \in 0 .. width - 1 : HasBit(n, j)}}
Value(bits, first, width) ==
    LET upTo[i \in 0 .. width] ==
            IF i = 0 THEN 0 ELSE upTo[i - 1] + (IF first + i - 1 \in bits THEN 2^(i - 1) ELSE 0)
    IN upTo[width]

Ecc == 51 .. 62
NotDeleted == 63

\* yaffs_PackTags1
Packed(key, s) ==
    Field(key[2], 1, 20) \cup Field(s, 21, 2) \cup Field(key[1], 33, 18) \cup {NotDeleted}

\* yaffs_CalcTagsECC: the exclusive or of the places of the bits that are 1.
CalcTagsECC(bits) ==
    {51 + i : i \in {j \in 0 .. 6 : Cardinality({bit \in bits \ Ecc : HasBit(bit, j)}) % 2 = 1}}

\* yaffs_UnpackTags1
Unpacked(bits) ==
    [result |-> "read", key |-> <<Value(bits, 33, 18), Value(bits, 1, 20)>>, serial |-> Value(bits, 21, 2)]

Unfixed == [result |-> "unfixed", key |-> None, serial |-> 0]

\* The bit the difference of the two codes names is turned back.
Turned(bits, ecc) == Toggled(bits, ecc)

\* yaffs_CheckECCOnTags
Checked(bits) ==
    LET ecc == Value(SymmetricDifference(bits \cap Ecc, CalcTagsECC(bits)), 51, 12)
    IN IF ecc = 0 THEN Unpacked(bits)
       ELSE IF ecc <= 64 THEN Unpacked(Turned(bits, ecc))
       ELSE Unfixed

\* What is read of tags when one of their bits has flipped, or none (0).
Reread(key, s, flip) ==
    LET packed == Packed(key, s)
        stored == packed \cup CalcTagsECC(packed)
    IN Checked(IF flip = 0 THEN stored ELSE Toggled(stored, flip))

TagsRead ==
    [key \in Keys |-> [s \in 0 .. 3 |-> [flip \in FlippedBits \cup {0} |-> Reread(key, s, flip)]]]

\* Tags are read as they were packed when no bit of them has flipped, or any one
\* that is not a bit of their error code.
TagsMended ==
    \A key \in Keys, s \in 0 .. 3, flip \in (0 .. 64) \ Ecc :
        Reread(key, s, flip) = [result |-> "read", key |-> key, serial |-> s]

\* It is so for every key whose numbers fit into their fields.
ASSUME TagsAssumption == TagsMended

VARIABLES
    nand,           \* the pages
    bad,            \* the blocks that are marked as bad
    mode,           \* "up", "scan" or "down"
    state,          \* states of the blocks
    used,           \* chunkBits
    map,            \* tnodes and hdrChunk: the page of every key
    serial,         \* in->serial of the objects
    free,           \* nFreeChunks
    alloc,          \* the page to program next: allocationBlock and allocationPage
    finder,         \* allocationBlockFinder
    gc, left,       \* gcBlock, and how many copies are left to this call
    todo,           \* the chunks to delete and blocks to erase before anything else
    pos,            \* the page that is scanned
    saved,          \* the last write of every key that was answered
    writes, crashes, flips, faults

device == <<nand, bad>>
ram == <<mode, state, used, map, serial, free, alloc, finder, gc, left, todo, pos>>
bounds == <<crashes, flips, faults>>
vars == <<device, ram, saved, writes, bounds>>

Erased == [state |-> "erased", key |-> None, serial |-> 0, data |-> 0, flip |-> 0, deleted |-> FALSE]
Torn == [Erased EXCEPT !.state = "torn"]
Written(key, s, data) ==
    [state |-> "written", key |-> key, serial |-> s, data |-> data, flip |-> 0, deleted |-> FALSE]

At(page) == nand[page[1]][page[2]]
Put(page, p) == nand' = [nand EXCEPT ![page[1]][page[2]] = p]

\* nandmtd1_ReadChunkWithTagsFromNAND
Read(page) ==
    LET p == At(page)
    IN CASE p.state = "erased" -> [Unfixed EXCEPT !.result = "erased"]
         [] p.state = "torn" -> Unfixed
         [] p.state = "written" ->
                LET tags == TagsRead[p.key][p.serial][p.flip]
                IN IF p.deleted /\ tags.result = "read" THEN [tags EXCEPT !.result = "deleted"] ELSE tags

UsedIn(b) == {page \in used : page[1] = b}
Empty == {b \in Blocks : state[b] = "EMPTY"}
Idle == mode = "up" /\ todo = <<>> /\ \A b \in Blocks : state[b] # "COLLECTING"

(***************************************************************************)
(* Writing a chunk.                                                        *)
(***************************************************************************)
\* yaffs_FindBlockForAllocation: the first empty block after the last one.
Ahead(b) == (b - finder - 1) % NBlocks
NextEmpty == {b \in Empty : \A other \in Empty : Ahead(b) <= Ahead(other)}

\* yaffs_AllocateChunk
NextPages == IF alloc # None THEN {alloc} ELSE {<<b, 0>> : b \in NextEmpty}

\* yaffs_CheckSpaceForAllocation
Space == free > Reserved * NChunks + 1

\* yaffs_WriteNewChunkWithTagsToNAND on page: the allocation moves on.
Allocated(page) ==
    LET last == page[2] = NChunks - 1
    IN [state |-> [state EXCEPT ![page[1]] = IF last THEN "FULL" ELSE "ALLOCATING"],
        finder |-> page[1],
        alloc |-> IF last THEN None ELSE <<page[1], page[2] + 1>>]

\* yaffs_FindChunkInFile and yaffs_TagsMatch
Found(key) ==
    /\ map[key] # None
    /\ Read(map[key]).result = "read" /\ Read(map[key]).key = key

\* The serial number of the next copy.
NextSerial(key) ==
    IF IsHeader(key) THEN (serial[key[1]] + 1) % 4
    ELSE IF Found(key) THEN (Read(map[key]).serial + 1) % 4
    ELSE 1

DeleteOf(page) == [op |-> "delete", page |-> page]
EraseOf(b) == [op |-> "erase", page |-> <<b, 0>>]

\* yaffs_WriteChunkDataToObject, yaffs_UpdateObjectHeader: the old copy is
\* deleted after the new one is programmed.
Write(key) ==
    /\ Idle /\ writes < MaxWrites /\ Space
    /\ \E page \in NextPages :
        /\ Put(page, Written(key, NextSerial(key), writes + 1))
        /\ state' = Allocated(page).state
        /\ alloc' = Allocated(page).alloc /\ finder' = Allocated(page).finder
        /\ used' = used \cup {page} /\ free' = free - 1
        /\ map' = [map EXCEPT ![key] = page]
    /\ serial' = IF IsHeader(key) THEN [serial EXCEPT ![key[1]] = NextSerial(key)] ELSE serial
    /\ todo' = IF map[key] # None /\ (IsHeader(key) \/ Found(key)) THEN <<DeleteOf(map[key])>> ELSE <<>>
    /\ writes' = writes + 1 /\ saved' = [saved EXCEPT ![key] = writes + 1]
    /\ UNCHANGED <<bad, mode, gc, left, pos, bounds>>

\* Is a deletion in block b programmed?
Marks(b) == state[b] # "COLLECTING"

\* yaffs_DeleteChunk: without a chunk left the block is erased.
DeleteChunk ==
    /\ todo # <<>> /\ Head(todo).op = "delete"
    /\ LET page == Head(todo).page
           b == page[1]
           dirty == UsedIn(b) = {page} /\ state[b] \notin {"ALLOCATING", "NEEDS_SCANNING"}
       IN /\ IF Marks(b) THEN Put(page, [At(page) EXCEPT !.deleted = TRUE]) ELSE UNCHANGED nand
          /\ todo' = (IF dirty THEN <<EraseOf(b)>> ELSE <<>>) \o Tail(todo)
          /\ used' = used \ {page} /\ free' = free + 1
    /\ UNCHANGED <<bad, mode, state, map, serial, alloc, finder, gc, left, pos, saved, writes, bounds>>

\* yaffs_BlockBecameDirty
Erase ==
    /\ todo # <<>> /\ Head(todo).op = "erase"
    /\ LET b == Head(todo).page[1]
       IN /\ nand' = [nand EXCEPT ![b] = [c \in 0 .. NChunks - 1 |-> Erased]]
          /\ state' = [state EXCEPT ![b] = "EMPTY"]
          /\ gc' = IF gc = b THEN 0 ELSE gc
          /\ todo' = Tail(todo)
    /\ UNCHANGED <<bad, mode, used, map, serial, free, alloc, finder, left, pos, saved, writes, bounds>>

\* yaffs_BlockBecameDirty and yaffs_RetireBlock: the erase fails, or reads of
\* the block have needed corrections.
Retire ==
    /\ todo # <<>> /\ Head(todo).op = "erase"
    /\ LET b == Head(todo).page[1]
           corrected == \E c \in 0 .. NChunks - 1 : nand[b][c].flip # 0
       IN /\ \/ corrected /\ UNCHANGED faults
             \/ faults < MaxFaults /\ faults' = faults + 1
          /\ bad' = bad \cup {b}
          /\ state' = [state EXCEPT ![b] = "DEAD"]
          /\ gc' = IF gc = b THEN 0 ELSE gc
          /\ free' = free - NChunks
          /\ todo' = Tail(todo)
    /\ UNCHANGED <<nand, mode, used, map, serial, alloc, finder, left, pos, saved, writes, crashes, flips>>

(***************************************************************************)
(* Collecting a block.                                                     *)
(***************************************************************************)
\* yaffs_CheckGarbageCollection: the block that was begun, or one with room.
Candidates == IF gc # 0 THEN {gc} ELSE {b \in Blocks : Cardinality(UsedIn(b)) < NChunks}

Collect ==
    /\ Idle
    /\ \E b \in Candidates :
        /\ state[b] = "FULL"
        /\ state' = [state EXCEPT ![b] = "COLLECTING"] /\ gc' = b
        /\ todo' = IF UsedIn(b) = {} THEN <<EraseOf(b)>> ELSE <<>>
    /\ left' = MaxCopies
    /\ UNCHANGED <<device, mode, used, map, serial, free, alloc, finder, pos, saved, writes, bounds>>

\* yaffs_GarbageCollectBlock: the next chunk is copied and deleted, which is
\* not programmed.  The call ends with its copies, and the block is FULL again.
Copy ==
    /\ mode = "up" /\ todo = <<>> /\ gc # 0 /\ state[gc] = "COLLECTING" /\ left > 0
    /\ \E old \in UsedIn(gc), page \in NextPages :
        LET tags == Read(old)
            key == tags.key
            next == (tags.serial + 1) % 4
            rest == UsedIn(gc) \ {old}
            call == Allocated(page)
        IN /\ \A o \in UsedIn(gc) : old[2] <= o[2]
           /\ tags.result = "read" /\ key \in Keys
           /\ Put(page, Written(key, next, At(old).data))
           /\ used' = (used \ {old}) \cup {page}
           /\ map' = [map EXCEPT ![key] = page]
           /\ serial' = IF IsHeader(key) THEN [serial EXCEPT ![key[1]] = next] ELSE serial
           /\ alloc' = call.alloc /\ finder' = call.finder
           /\ state' = IF left = 1 /\ rest # {} THEN [call.state EXCEPT ![gc] = "FULL"] ELSE call.state
           /\ todo' = IF rest = {} THEN <<EraseOf(gc)>> ELSE <<>>
    /\ left' = left - 1
    /\ UNCHANGED <<bad, mode, free, gc, pos, saved, writes, bounds>>

(***************************************************************************)
(* Losing power, and mounting.                                             *)
(***************************************************************************)
NothingKnown ==
    /\ used' = {} /\ map' = [key \in Keys |-> None] /\ serial' = [o \in Objects |-> 0]
    /\ alloc' = None /\ finder' = 0 /\ gc' = 0 /\ left' = 0 /\ todo' = <<>>

\* A page that is being programmed may be left unreadable.
Crash ==
    /\ mode # "down" /\ crashes < MaxCrashes
    /\ \/ UNCHANGED nand
       \/ /\ mode = "up" /\ todo = <<>>
          /\ \E page \in NextPages : Put(page, Torn)
    /\ NothingKnown
    /\ mode' = "down" /\ state' = [b \in Blocks |-> "UNKNOWN"] /\ free' = 0 /\ pos' = <<0, 0>>
    /\ crashes' = crashes + 1
    /\ UNCHANGED <<bad, saved, writes, flips, faults>>

\* A bit of the tags of a page flips.
FlipBit ==
    /\ flips < MaxFlips
    /\ \E page \in Pages, i \in FlippedBits :
        /\ At(page).state = "written" /\ At(page).flip = 0
        /\ Put(page, [At(page) EXCEPT !.flip = i])
    /\ flips' = flips + 1
    /\ UNCHANGED <<bad, ram, saved, writes, crashes, faults>>

\* nandmtd1_QueryNANDBlock
Queried(b) ==
    IF b \in bad THEN "DEAD"
    ELSE IF Read(<<b, 0>>).result = "erased" THEN "EMPTY"
    ELSE "NEEDS_SCANNING"

\* yaffs1_Scan, the first loop
BeginScan ==
    /\ mode = "down" /\ mode' = "scan"
    /\ state' = [b \in Blocks |-> Queried(b)]
    /\ free' = NChunks * Cardinality({b \in Blocks : Queried(b) = "EMPTY"})
    /\ pos' = <<1, 0>>
    /\ UNCHANGED <<device, used, map, serial, alloc, finder, gc, left, todo, saved, writes, bounds>>

\* A variant: the newer of two copies is not told.
OlderWins(existing, new) == existing = (new + 1) % 4

\* Is the copy that is scanned the newer one?
NewerWins(existing, new) == (existing + 1) % 4 = new

\* yaffs_PutChunkIntoFile, and the same for a header: one of two copies is
\* deleted.
Resolved(key, s) ==
    LET old == map[key]
        existing == IF IsHeader(key) THEN serial[key[1]] ELSE Read(old).serial
        lost == old # None /\ ~IsHeader(key) /\ ~Found(key)
        keeps == old = None \/ lost \/ NewerWins(existing, s)
    IN [keeps |-> keeps,
        deletes |-> IF ~keeps THEN <<DeleteOf(pos)>>
                    ELSE IF old = None \/ lost THEN <<>> ELSE <<DeleteOf(old)>>]

InScan == mode = "scan" /\ todo = <<>> /\ pos[1] \in Blocks
Scanning == InScan /\ pos[2] < NChunks /\ state[pos[1]] = "NEEDS_SCANNING"
Onward == pos' = <<pos[1], pos[2] + 1>>

\* A deleted chunk, or one that cannot be read
ScanDeleted ==
    /\ Scanning /\ Read(pos).result \in {"unfixed", "deleted"}
    /\ free' = free + 1 /\ Onward
    /\ UNCHANGED <<device, mode, state, used, map, serial, alloc, finder, gc, left, todo, saved, writes, bounds>>

\* A variant: the block counts as if nothing of it were allocated.
WholeBlock(c) == NChunks

\* The chunks of a block from chunk c on
Rest(c) == NChunks - c

\* The rest of the block was not allocated: it is taken as full.
ScanErased ==
    /\ Scanning /\ Read(pos).result = "erased"
    /\ free' = free + Rest(pos[2])
    /\ state' = [state EXCEPT ![pos[1]] = IF pos[2] = 0 THEN "EMPTY" ELSE "FULL"]
    /\ finder' = IF pos[2] = 0 THEN finder ELSE pos[1]
    /\ Onward
    /\ UNCHANGED <<device, mode, used, map, serial, alloc, gc, left, todo, saved, writes, bounds>>

ScanChunk ==
    /\ Scanning /\ Read(pos).result = "read" /\ Read(pos).key \in Keys
    /\ LET tags == Read(pos)
           r == Resolved(tags.key, tags.serial)
       IN /\ map' = IF r.keeps THEN [map EXCEPT ![tags.key] = pos] ELSE map
          /\ serial' = IF r.keeps /\ IsHeader(tags.key) THEN [serial EXCEPT ![tags.key[1]] = tags.serial]
                       ELSE serial
          /\ todo' = r.deletes
    /\ used' = used \cup {pos} /\ Onward
    /\ UNCHANGED <<device, mode, state, free, alloc, finder, gc, left, saved, writes, bounds>>

\* The end of a block: without a chunk in use it is erased.
ScanBlockDone ==
    /\ InScan /\ ~Scanning
    /\ LET b == pos[1]
           done == IF state[b] = "NEEDS_SCANNING" THEN "FULL" ELSE state[b]
       IN /\ state' = [state EXCEPT ![b] = done]
          /\ todo' = IF done = "FULL" /\ UsedIn(b) = {} THEN <<EraseOf(b)>> ELSE <<>>
    /\ pos' = <<pos[1] + 1, 0>>
    /\ UNCHANGED <<device, mode, used, map, serial, free, alloc, finder, gc, left, saved, writes, bounds>>

EndScan ==
    /\ mode = "scan" /\ todo = <<>> /\ pos[1] > NBlocks
    /\ mode' = "up" /\ pos' = <<0, 0>>
    /\ UNCHANGED <<device, state, used, map, serial, free, alloc, finder, gc, left, todo, saved, writes, bounds>>

(***************************************************************************)
(* The system.                                                             *)
(***************************************************************************)
Init ==
    /\ nand = [b \in Blocks |-> [c \in 0 .. NChunks - 1 |-> Erased]] /\ bad = {}
    /\ mode = "up" /\ state = [b \in Blocks |-> "EMPTY"] /\ used = {}
    /\ map = [key \in Keys |-> None] /\ serial = [o \in Objects |-> 0]
    /\ free = NBlocks * NChunks /\ alloc = None /\ finder = 0 /\ gc = 0 /\ left = 0 /\ todo = <<>> /\ pos = <<0, 0>>
    /\ saved = [key \in Keys |-> 0] /\ writes = 0 /\ crashes = 0 /\ flips = 0 /\ faults = 0

Next ==
    \/ \E key \in Keys : Write(key)
    \/ DeleteChunk \/ Erase \/ Retire \/ Collect \/ Copy
    \/ Crash \/ FlipBit
    \/ BeginScan \/ ScanDeleted \/ ScanErased \/ ScanChunk \/ ScanBlockDone \/ EndScan

Spec == Init /\ [][Next]_vars

(***************************************************************************)
(* Properties.                                                             *)
(***************************************************************************)
\* The types; and when the device is up, the free chunks are those of the
\* blocks in use that hold nothing, and what is erased is erased on the device.
TypeOK ==
    /\ mode \in {"up", "scan", "down"} /\ bad \subseteq Blocks /\ used \subseteq Pages
    /\ map \in [Keys -> Pages \cup {None}] /\ alloc \in Pages \cup {None} /\ finder \in 0 .. NBlocks
    /\ gc \in 0 .. NBlocks /\ left \in 0 .. MaxCopies /\ writes \in 0 .. MaxWrites
    /\ saved \in [Keys -> 0 .. writes] /\ free \in 0 .. NBlocks * NChunks
    /\ mode = "up" =>
           /\ free = NChunks * Cardinality({b \in Blocks : state[b] # "DEAD"}) - Cardinality(used)
           /\ \A b \in Empty, c \in 0 .. NChunks - 1 : nand[b][c] = Erased

\* A key has what was written last, before and after a loss of power: of two
\* copies the scan keeps the newer one ("YAFFS1: Get both sets of tags and
\* compare serial numbers").
NothingReverts ==
    mode = "up" => \A key \in Keys :
        saved[key] = IF map[key] = None THEN 0 ELSE At(map[key]).data
=============================================================================
