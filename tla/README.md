# A TLA+ model of YAFFS

YAFFS is a file system for raw NAND flash: a log of chunks, each carrying tags
that say which object it belongs to.  This directory holds TLA+ modules of the
parts of the code where the order of steps matters, the TLC configurations that
check them on small devices, and proofs, checked by TLAPS, that hold for every
device.  File names below are those of `src/`.

## Inventory

| Component | State | Operations | What makes it hard |
|---|---|---|---|
| Block and chunk manager (`yaffs_guts.c`, `yaffs_nand.c`) | block info, chunk bitmap, `nErasedBlocks`, `nFreeChunks`, the allocation cursor | allocate, write with retries, delete, erase, retire | every NAND operation may fail half way through a function that has already changed counters; a deletion may erase the block another function works in |
| Garbage collector (`yaffs_guts.c`, `yaffs_yaffs2.c`) | `gcBlock`, `gcChunk`, `gcDirtiest`, `oldestDirtySequence`, cleanup list | select a block, move its live chunks in several steps, skip, give up | runs before every write and in the background, allocates while it frees, remembers candidates over any number of requests |
| Object layer (`yaffs_guts.c`) | objects, tnodes, directories, headers | create, write, truncate, rename, unlink, delete | each is several NAND writes; what is on the medium between two of them must mean something |
| yaffs2 scan (`yaffs_yaffs2.c`, `yaffs_qsort.c`) | all RAM state, rebuilt | read blocks from newest to oldest, then repair | must find the state before or after each interrupted operation |
| yaffs1 scan (`yaffs_yaffs1.c`) | the same | read the pages of all blocks in order | two copies of a chunk are told apart by a two bit number |
| Short operations cache (`yaffs_guts.c`) | `srCache` | find, grab, use, flush, invalidate | flushes may fail after the writer was told of success |
| Checkpoint (`yaffs_checkptrw.c`, `yaffs_yaffs2.c`) | a chain of blocks | save, restore, invalidate | must never be believed once anything has changed |
| VFS glue (`yaffs_vfs_glue.c`) | the gross lock, search contexts, the background thread | system calls, readdir, sync, eviction, background collection | the lock is given up in the middle of readdir; space is checked and used in different critical sections |
| Tags, packing, ECC (`yaffs_tagscompat.c`, `yaffs_packedtags*.c`, `yaffs_ecc.c`, `yaffs_mtdif*.c`) | none | pure conversions and MTD calls | bit widths, one bit errors |
| Attribute store (`yaffs_nameval.c`) | records in a header | get, set, delete, list | a record that fits exactly |
| Allocators, sort, bitmap, verify, encryption | free lists; none | | little that a test would not reach |

Components call each other under one gross lock.  The object layer asks the
block manager for a new chunk (`yaffs_WriteNewChunkWithTagsToNAND`), which first
lets the collector run; the collector in turn writes copies through the same
function and updates the objects that own them.  Deletions go through
`yaffs_DeleteChunk`, which erases a block as soon as nothing is left in it and
thereby changes what the collector was doing.  The scan replaces all of this
state at mount; the checkpoint replaces the scan.  What makes each component
correct:

- block manager: a chunk is marked in use exactly when something needs it; a
  needed chunk is never erased; no page is programmed twice; the counters agree
  with the bitmap; writes end;
- collector: it moves every live chunk, uses no more than the reserve, ends, and
  does not erase a shrink header while older chunks depend on it;
- object layer and scan: after a crash between any two NAND operations the mount
  finds every completed operation and at most one interrupted one, whole or not
  at all;
- cache: a read sees the last write; what was accepted is written or reported;
- checkpoint: what is restored is what the scan would find;
- VFS glue: an entry that stays in a directory is listed exactly once; an object
  in use is not freed.

## Modules

| Module | Models |
|---|---|
| `YaffsBlocks` | block manager and collector of `yaffs_guts.c`, under NAND faults |
| `YaffsLog`, `FileStore` | the object layer and the yaffs2 scan, one NAND operation a step, under power failures; the file system they implement |
| `YaffsCache`, `BufferedFiles` | the short operations cache; the files it implements |
| `YaffsCheckpoint` | saving, restoring and invalidating the checkpoint |
| `YaffsVfs` | threads, inodes, directories, the background thread and the gross lock |
| `Yaffs1` | tags, deletion marks, serial numbers and the forward scan of a yaffs1 device |

`MC*` modules give TLC small instances.  Each module takes what the others show
for granted and leaves it out: `YaffsLog` has blocks only by write order, since
`YaffsBlocks` shows that needed chunks are not erased; `YaffsCache` counts free
chunks only, since where they come from is `YaffsBlocks`; `YaffsCheckpoint` gives
each object one chunk, since what chunks mean is `YaffsLog`; `YaffsVfs` has
objects without contents.

Definitions commented as "A variant" are not part of the specifications.  Each is
a plausible mistake; replacing the definition it stands beside by it makes a
property of the runs fail, which shows that the property depends on the code.

### YaffsBlocks

`YaffsBlocks` models the block manager, the collector and the oldest-dirty
tracking in one module, since they share all their state.  `pc` says which
function the thread that holds the gross lock is in; a step does at most one
NAND program or erase.  Between requests `pc = "idle"`.

| State in the module | In the code |
|---|---|
| `blockState`, `pagesInUse`, `softDeletions`, `blockSequence`, `hasShrinkHeader`, `needsRetiring`, `gcPrioritise`, `chunkErrorStrikes`, `skipErasedCheck` | `yaffs_BlockInfo` |
| `chunkBits` | the chunk bitmap |
| `nErasedBlocks`, `nFreeChunks`, `allocationBlock`, `allocationPage`, `allocationBlockFinder`, `sequenceNumber`, `oldestDirty`, `gcBlock`, `gcChunk`, `gcDirtiest` | `yaffs_Device` |
| `gcRun` | the locals of `yaffs_CheckGarbageCollection` and `yaffs_GarbageCollectBlock` |
| `newChunk`, `attempts` | the locals of `yaffs_WriteNewChunkWithTagsToNAND` |
| `req` | the locals of the function that writes: `prevChunkId`, `useReserve`, `isShrink` |
| `held`, `softDeleted` | the chunks that `hdrChunk` and the tnodes of live and soft deleted objects point to |
| `promised` | dirty entries of the short operations cache |
| `programmed` | the medium: how often each page was programmed since its block was erased |

| Action | In the code |
|---|---|
| `StartWrite`, `Lookup`, `Commit`, `DeletePrev`, `MarkShrink` | `yaffs_WriteChunkDataToObject`, `yaffs_UpdateObjectHeader` |
| `CacheWrite` | the space check of `yaffs_DoWriteDataToFile` |
| `Delete`, `SoftDelete` | `yaffs_PruneResizedChunks`, `yaffs_DoGenericObjectDeletion`; `yaffs_SoftDeleteChunk` |
| `ReadError` | a read with an uncorrectable error, and `yaffs_HandleChunkError` |
| `StartBackgroundGc`, `GcSkip`, `GcNothing`, `GcBegin` | `yaffs_BackgroundGarbageCollect`, `yaffs_CheckGarbageCollection`, `yaffs_FindBlockForGarbageCollection`, `yaffs2_FindRefreshBlock` |
| `GcDrop`, `GcCopy`, `GcDropCopied`, `GcEnd` | the loop of `yaffs_GarbageCollectBlock` and what follows it |
| `AllocateChunk`, `NoSpace`, `NoErasedBlock` | `yaffs_AllocateChunk`, `yaffs_FindBlockForAllocation` |
| `ProgramOk`, `NotErased`, `ProgramFails`, `Discard`, `SkipRestOfBlock` | `yaffs_WriteNewChunkWithTagsToNAND` and its error handling |

`DeleteChunk`, `BlockBecameDirty` and `ChunkError` are operators the actions use,
as the functions are in the code.  Whether an erasure works is a parameter
(`erased`) of every action that may erase.

Left open: when a leisurely collection bothers (`gcSkip`, `gcNotDone`, the
thresholds on pages in use) and which of the eligible blocks its rotating cursor
meets; the model allows every eligible block.  How many blocks a checkpoint
would need is any member of `CheckpointBlocks`, chosen anew each time.

`MCYaffsBlocks` gives TLC the contents of small devices.  The proof modules are
`YaffsBlocksProofs`, `YaffsBlocksDataProofs` and `YaffsBlocksCounterProofs`.

### YaffsLog and FileStore

`nand` is the sequence of chunks in the order they were written; since blocks are
allocated in the order of their sequence numbers, a chunk's place in it gives its
block, and a block that is erased and allocated again is a new one further on.
`obj` holds the objects (parent, name, size, tnodes, header chunk, cached
chunks), `inUse` the bitmap, `shrinkBlocks` the blocks with `hasShrinkHeader`.
`calls` is the stack of functions that are not finished, the innermost first; an
action does one function, or a part of one with at most one program or erase, so
`Crash` can come between any two.

| Action | In the code |
|---|---|
| requests (`Create`, `Link`, `WriteFile`, ...) | the entry points that the VFS calls |
| `UpdateObjectHeader`, `WriteChunkData`, `Drop` | `yaffs_UpdateObjectHeader`, `yaffs_WriteChunkDataToObject`, `yaffs_DeleteChunk` |
| `DoWriteData`, `HandleTheHole`, `ResizeTheFile`, `PruneChunk`, `RewriteLastChunk`, ... | `yaffs_DoWriteDataToFile`, `yaffs2_HandleHole`, `yaffs_ResizeFile`, `yaffs_PruneResizedChunks`, `yaffs_ResizeDown` |
| `ChangeObjectName`, `GenericDeletion`, `Unlink`, `UnlinkShadowed` | `yaffs_ChangeObjectName`, `yaffs_DoGenericObjectDeletion`, `yaffs_UnlinkWorker`, `yaffs_RenameObject` |
| `GcBegin`, `GcCopy`, `GcEnd`, ... | `yaffs_GarbageCollectBlock` on live chunks, deletion markers and shrink headers |
| `Crash`, `ScanErases`, `StripDeletedObjects`, `FixHangingObjects` | a loss of power and what the mount does: `yaffs2_ScanBackwards` and its repairs |

The scan is an operator, `found`, evaluated after every step: what a mount would
find if power failed now.  `ImplementsStore` says that `found`, with the request in
service, is a behaviour of `FileStore`, in which a name appears, vanishes or moves
at once, a write changes nothing but the bytes it was asked to, and a truncation
nothing but the bytes it cuts off.  Every step of the log is so shown to be a
step of the file system or none.

### YaffsCache and BufferedFiles

A request is a list of jobs (`jobs`); a job works chunk by chunk, and may have to
flush a file first (`flushing`).  `cache` is `dev->srCache`, `nand` the data chunks
the tnodes point to, `changed` is `in->dirty`.  Actions: `WriteCached`,
`WriteUncached`, `WriteWhole`, `WriteEnds` (`yaffs_DoWriteDataToFile`), `ReadCached`,
`ReadUncached`, `ReadWhole` (`yaffs_ReadDataFromFile`), `FlushChunk`
(`yaffs_FlushFilesChunkCache`), `Resize`, `Extend`, `WriteHeader`, `Remove`.
`BufferedFiles` is what a reader may rely on: one array of bytes per file, saved
in part, all of it when a flush says so, and one `request` at a time, which says
what is asked for and how far it has got.  A byte that is seen changes only when the
write in progress gets to it, and then becomes what was written (`Put`); when the
resize in progress cuts it off (`Cut`); when its file is removed; or when the write
in progress is refused, which may lose what was not saved of the chunk it is at
(`Refuse`).  That is the only loss it allows: a flush, of any file and at any time,
changes nothing that is seen (`Save`).  A read returns the bytes asked for, in order
(`Get`).  A write behind the end that first has to fill a hole may give up half way;
the file is then as long as it was, and what is taken back were zeros (`TakeBack`).
In the refinement mapping the request is the last of the jobs (`Asking`): those
before it fill its holes.
`YaffsCacheProofs` holds the proofs.

### YaffsCheckpoint

`flash` holds the pages of every block, `dev` what `yaffs_Device` has in memory,
`ck` the stream, `work` what is still to be done under the gross lock.  Each
action programs one page or erases one block: `Open`, `WritePage`, `FlushLeft`,
`Close` (`yaffs_checkptrw.c`), `InvalidateCheckpoint`, `EraseCheckpoint`, `Write`,
`BecameDirty`, `EraseBlock`, `Mount` (restoring, or scanning when nothing valid is
found), `CleanUp` (what the scan erases when it is done).  `Restorable` follows the
chain of blocks as reading does, marker and sum included.  How many blocks the next
checkpoint needs (`nCheckpointBlocksRequired`, kept free by `WriteSpace`) is the
constant `CheckpointBlocks`; the code computes it from the objects there are.  No
collector runs in this module.

### YaffsVfs

Threads have a program counter; a section under the gross lock is one action, and
between two sections of a thread the others run.  `obj` and `kids` are the objects
and the lists of the directories, `ino` the inodes in the cache, `mutex` the
mutexes the kernel takes, `rd` a directory that is being read with its search
context, `sb` the dirty flag and the checkpoint, `bg` the background thread.
Object numbers are used again, with a generation that tells an object from its
successor.  What the kernel does is modelled from how the code uses it and is
marked external in the map (`Begin...`, `Put`, `Reclaim`, `Evicted`, ...).

A call may fail: there may be no number or no chunk for a new object (`Mknod`,
`Link`), and the header of an object that is unlinked or renamed may not be
written.  `yaffs_ChangeObjectName` has then moved the object all the same, and
`yaffs_unlink` or `yaffs_rename` tells the caller that it failed and leaves the link
count of the inode (`Unlink`, `Rename`, whose answers come from `Unlinked` and
`Renamed` as in the code).  An object that has lost its last name in this way is not
deleted by the last `iput`, and stays in the unlinked directory until the next mount.
The properties allow exactly this, which needs two pieces of history that no action
reads: `off` counts, for an inode, the failures since its link count was last taken
from the object, and `lost` marks an object whose move was not written.

Simplified: every call looks its name up through `yaffs_lookup` (the kernel may have
the entry in its cache of names, which it keeps in step under the same mutexes).  The
mount is one of yaffs2: with yaffs1 an object that is deleted may first be kept, out
of every directory, until its soft deleted chunks are gone; here it is freed at once
(`Deleted`).

### Yaffs1

`nand` holds pages with tags that `Packed`, `CalcTagsECC` and `Checked` encode and
decode bit by bit; one bit may have flipped.  Writing takes the next serial
number (`NextSerial`), the old copy is marked as deleted unless its block is being
collected (`Marks`), and after `Crash` the scan goes from page to page
(`ScanChunk`, `ScanDeleted`, `ScanErased`, `ScanBlockDone`), telling two copies apart
by serial number (`NewerWins`).  Allocation follows the block finder of the code;
which block is collected is left open.

## What the runs check

| Run | Device | Checks |
|---|---|---|
| `blocks_faults` | 6 blocks of 2 pages, 5 written at mount, 2 requests, 1 fault anywhere | types, the bitmap, the counters, the safety of data, the uniqueness of states, and that every request ends |
| `blocks_reserve` | the same with 6 live pages, so that just enough is free to cache a write; 3 requests, no fault, 2 cached writes, 1 cut in a hole, the collector before every write | the reserve suffices; what is remembered stays valid |
| `blocks_yaffs1` | yaffs1, 3 blocks written, 4 requests | soft deletion against the counters and the bitmap; a collection done in steps always has something left to move |
| `blocks_shrink` (violated) | 2 blocks written, 6 requests | see the findings |
| `blocks_wedge` (violated) | as `blocks_faults` | see the findings |
| `log_crash` | 3 object numbers, 2 names, 2 bytes a chunk, 2 chunks a block, 4 requests, 1 power failure, 1 write that finds no space | `ImplementsStore`; what was answered is durable; nothing truncated and nothing of an earlier object with the number comes back; tnodes, tags and bitmap agree; nothing hangs; names are unique |
| `cache_files` | 2 files of 3 chunks of 2 bytes, 2 entries, 5 free chunks with 2 reserved, 4 requests | `ImplementsFiles`: bytes change only as the request in progress says; one entry per chunk; what is cached is never dropped for want of space; a dirty entry marks its file; nothing behind the end of a file |
| `checkpoint_save` | 5 blocks of 2 pages, streams of 3 pages, 5 requests, 1 power failure, 1 fault | a checkpoint that could be restored says what a scan would find; the counters agree; erased blocks are erased; a saved device is restorable |
| `checkpoint_full` (violated) | 5 blocks of 4 pages, 2 reserved and 2 for the checkpoint, 11 requests | see the findings |
| `vfs` | 2 threads, 2 directories, 2 names, 3 object numbers, 2 requests at a time | inodes and objects match, also where an unlink or a rename cannot write its header; what is freed is not used, what is not used is freed; readdir lists what stays; a sync saves what was written before; every call ends |
| `yaffs1_scan` | 4 blocks of 3 pages, a header and 2 chunks, 4 writes, 1 power failure, 1 flipped bit, 1 failed erase | the counters; that nothing that was written reverts; for its keys, the assumption that any bit of the tags outside their error code is put right (`TagsMended`) |
| `yaffs1_passive` (violated) | 3 chunks, 6 writes, collections of one copy | see the findings |

Bounds.  For `YaffsBlocks`, `MaxRequests` and `MaxFaults` bound what is asked and what fails; they
cap nothing else, and a request runs to its end.  Six blocks are the fewest the
mount accepts with two reserved blocks; two pages to a block are enough for a
block to be partly used, for a collection to stop in the middle and for the last
page to differ from the first.  The written blocks at mount are chosen so that
the erased blocks are below the reserve, which makes the collector run at once,
aggressively, and so that some blocks have one live page (before or behind the
collector's cursor).  `MaxStrikes = 0` lets one fault after another reach
retirement within the bound.  A run may stop when its requests are used up, so
deadlock is not checked; that a request does not get stuck is the liveness
property of `blocks_faults`.

The other runs are bounded by requests, power failures and faults in the same
way.  In `log_crash` two bytes a chunk and two chunks a block are enough for a
write to go over the end of one chunk into the next and cover a part of each,
for a hole to be small or large, and for a block to hold a shrink header beside
live data; four requests reach, for example, create, write, truncate, extend with
a collection and a power failure in between.
In `cache_files` a write of five bytes goes through a partial, a whole and another
partial chunk, two entries for two files have to be pushed out, and five free
chunks run out.  `UseLimit = 3` makes the use counter wrap.  In `vfs` two threads
with one request each, after files have been opened, meet in every pair of calls;
`Room = 1` makes readdir return after every entry.  In `yaffs1_scan` three bits
stand for the fields a scan relies on: chunk, serial and object number; all of the
others are covered by `TagsMended`.

Excluded, by constants that can be changed:

- `log_crash`, `CrashWhenMoving = FALSE`: power does not fail while a file whose
  last name goes takes over the name of a hard link (`yaffs_UnlinkWorker`), or
  while a name is moved over a file with hard links.  Several headers are written
  there and nothing ties them together: with TRUE TLC finds two objects with one
  name (`NamesUnique`).
- `log_crash`, `GcWhenMounting = FALSE`: the collector does not run while the mount
  deletes what it strips.  `yaffs_RenameObject` says "Note we must disable gc
  otherwise it can mess up the shadowing", and nothing disables it in the mount:
  with TRUE TLC violates `NamesUnique`.
- `log_crash`, `CopyWhenWriting = FALSE`: between two chunks of one write the
  collector does not copy the header of the file that is being written.  The file
  gets its new size when all chunks are written, so the copy carries the old one
  ("Update file size"), and the scan takes the chunks before it for "invalidated
  by a resize, or a past file deletion" and drops them.  With TRUE TLC violates
  `DurableWhenIdle`: until the next header is written, a power failure loses the
  first chunks of a write while later ones survive.  After such a mount the lost
  chunks may come back, when a collection copies the header once more and power
  fails again (`ImplementsStore`).
- `log_crash`, `CacheSize = 0`: with a cache, a file that is cut and then extended
  over a small hole gets its new size on the NAND while the zeros of the hole are
  still in the cache (`yaffs2_HandleHole`), and after a power failure the bytes that
  were cut off are back.  With `CacheSize = 1` TLC violates `NoStaleBytes`.
- `checkpoint_save`, `BadKeepsData = FALSE`: a checkpoint block whose erasure fails is
  only marked bad, and `yaffs2_CheckpointFindNextCheckpointBlock` does not look at
  that mark.  If the block can still be read, a stale checkpoint is restored.
- `checkpoint_save`, `FullSaves = FALSE`: see `checkpoint_full`.
- `vfs`, `QuietDirs = TRUE`: while a directory is read nothing is renamed, no file
  takes over the name of its hard link, and no unlink fails.  `yaffs_rename`, and an
  `yaffs_unlink` that fails, do not change `i_version`, on which readdir relies to
  begin again ("If the directory has changed since the open or last call to readdir,
  rewind"), and the takeover changes a directory whose mutex nobody holds: entries
  are then missed (`EntriesListed`).
- `vfs`, `QuietHoles = TRUE`: a file is not extended over a hole when nothing else has
  been written.  `yaffs_setattr` writes zeros into the cache without marking the
  superblock dirty, so a sync does not save them (`SyncSaves`).
- `yaffs1_scan`: flips of the stored error code.  The difference of the two codes is
  then a power of two and is taken for the place of a wrong bit, so
  `yaffs_CheckECCOnTags` "corrects" the chunk or object number (bits 51 to 56), or
  gives up on tags that are right (58 to 62).

Fairness.  `YaffsBlocks!FairSpec` assumes `WF_vars(Service)`: the thread that holds
the gross lock goes on.  No fairness is assumed of requests, faults or of which
alternative is taken.  The code takes no other lock there and waits for nothing.
`YaffsVfs!Spec` assumes `WF_vars(Go)`: as long as some thread can go on with a call,
or the background thread can exit, one of them does.  That is weaker than what
the queues of the kernel's semaphores give.  Requests are bounded, so it is
enough: a call that does not end is one whose thread waits for something that
nobody will do.  The other specifications state no fairness, and their properties
are safety properties.

## Findings

- `blocks_shrink`: a comment of `yaffs2_BlockNotDisqualifiedFromGC` says a block
  with a shrink header is not collected while an older block has discarded
  chunks.  The test is made when the block is noted in `gcDirtiest`, and the note
  may be used many requests later.  (The chunks a shrink header guards were
  discarded before it was written, so this particular order loses nothing.)
- `blocks_wedge`: when a copy can not be written the loop of
  `yaffs_GarbageCollectBlock` ends, but its `gcChunk++` is executed first.  The
  chunk that was not copied is now behind the cursor, so the block can not become
  empty, `gcBlock` stays set and no other block is selected until the objects
  themselves give up that chunk or the device is mounted again.
- `checkpoint_full`: `yaffs2_CheckpointOpen` notes that it writes before it finds that
  there is no space, and resets nothing.  If the device was mounted from a checkpoint
  whose last page did not fill its block, the offset and the block reading it ended in
  are still there, and `yaffs2_CheckpointClose` writes a page without data, which
  `yaffs_mtdif2.c` answers with `BUG()`.  The trace is one with the collector off
  (`yaffs_gc_control` 0): two blocks of overwritten chunks keep `nFreeChunks` above
  what `yaffs_CheckSpaceForAllocation` wants, the blocks of the next checkpoint
  included, while the erased blocks go down to `nReservedBlocks`, which
  `yaffs2_CheckpointSpaceOk` refuses.  With the collector on, an aggressive
  collection frees one of those blocks first (`yaffs_CheckGarbageCollection`).  A save
  that ran out of blocks does not leave this state: it has no current block then.
- `yaffs1_passive`: chunks that the collector has moved are not marked, and a
  passive collection stops after a few.  If such a chunk is written again before
  the block is erased, and power fails, the NAND holds an unmarked copy with serial
  number s and one with s + 2.  The scan takes the later one for a newer one only
  if its number is one higher, so it keeps the older data.

## What is proved

The theorems about `YaffsBlocks` hold of `Spec` for every geometry the mount
accepts (`GeometryAssumption`, `ParameterAssumption`), any number of requests and
faults and any contents at mount.  `CountersFit` is an assumption the code does
not check: `pagesInUse` and `softDeletions` are signed ten bit fields, so a block
of 512 chunks or more would wrap.

`YaffsBlocksProofs`: `IndInv` is inductive, and gives `TypeCorrect`,
`BlockStatesUnique`, `CandidatesAreFull` and `OldestDirtyTracked`.  The
invariants are not inductive by themselves.  That a remembered oldest dirty
block is full needs that `yaffs2_UpdateOldestDirtySequence` never notes the block
being allocated from; that holds because its sequence number is the highest
(`Sequences`), which in turn needs `StatesUnique`.

`YaffsBlocksDataProofs`: `Data` is inductive relative to `IndInv`, and gives
`ChunksAccountedFor` (`BitmapAccounted`) and `DataIsSafe` (`DataSafe`).  A block is
erased when its count of pages in use reaches zero, so the proof needs that the
count is the size of the set (`Counts`), and that the reasons for a bit to be set
exclude each other (`Bits`): then an empty set means that no object loses
anything.  While a chunk is being written, through any number of attempts, the
chunk it replaces must still be held (`Replaced`), or its deletion would release
somebody else's.

`YaffsBlocksCounterProofs`: `CountersAreRight` (`CountersAgree`).  The erased blocks
and the free chunks are followed as sets, and each step is shown to count what it
adds to them or takes away.

`YaffsCacheProofs`: for any number of files and entries, any chunk size and any
reads, writes and sizes (`CacheAssumption`).  There are four invariants:

- `IInv`, which gives `CacheHasOneCopy` (`OneEntryPerChunk`) and `CachedIsMarked`
  (`DirtyIsFlushed`).  The first is inductive once it is known what finding an entry
  tells: where no chunk is in two entries, `Find` returns the one that holds it, or
  there is none, and entries are only filled for chunks that were not found.  The
  second holds only between requests; in between, the write under way owes its file
  the mark (`DirtyIsKnown`), which needs that the jobs stay jobs of their files
  (`Typed`);
- `TInv`, which gives `Types` (`TypeOK`), whatever fails: `nFreeChunks` is what the
  device has less the chunks that the files hold (`Counted`), so it stays between
  none and all of them also where the reserve is used up;
- `FInv`, what the bytes are.  `DataInv`: a clean entry is what its chunk is
  (`CleanIsSaved`), and nothing lies behind the end of a file or behind the count of
  its chunk (`Within`).  `JobsInv`: what is left of a request.  A write never starts
  behind a hole that is still to be filled (`JobsOk`, `ZerosFill`), and what a flush is
  about to report has been written (`Promises`, `FlushFrees`); the last job is the one
  that was asked for (`LastOk`).  It is inductive as
  long as there is a chunk to write to (`CanWrite`, `nFreeChunks > 0`), and gives
  `CacheImplementsFiles` (`ImplementsFiles`: each step is one of `BufferedFiles`, for the
  request in progress, or is not seen), `EndIsTheEnd` (`NothingBehindTheEnd`) and `WrittenIsCounted`
  (`CountCovers`).  `CanWrite` is needed: a flush that finds no chunk drops its
  entry, and `yaffs_ResizeDown` pads the last chunk from the reserve without a check,
  so a reserve can be chosen that enough truncations use up;
- `RInv`, why there always is a chunk to write to.  It is the three others and `SInv`:
  the chunks that files hold or the cache owes (`Claims`) leave all of the reserve
  free but for a chunk per entry (`Spared`).  A new claim is let in only where the
  reserve is free (`Space`); a write that has asked and then flushes another file to
  get an entry has one chunk more spared, and its own chunk stays out of the cache
  meanwhile (`FlushedSpares`).  Zeros that are taken back have claimed the chunk
  whose end is padded then (`ZerosCover`).

`RInv` is inductive under `ReserveCovers`: the reserve has a chunk for every entry
(`Reserve >= NCaches`) and is no larger than the device, and files are cut at whole
chunks.  Then `ReserveKeepsCached` (`CachedIsKept`), `ReserveCoversFiles`
(`ImplementsFiles`) and `ReserveKeepsEnds` (`NothingBehindTheEnd` and `CountCovers`)
hold of a device of any size, however full.  The code has such a reserve:
`yaffs_vfs_glue.c` reserves five blocks, which are far more chunks than its ten
entries.  Cuts inside a chunk are left out because of the padding: a cut in a hole
claims a chunk that nobody asked for.

`YaffsVfsProofs`: for any threads, directories, names, objects and contents
(`VfsAssumption`, `ContentsAssumption`), `Types` (`TypeOK`), `InodesOfObjects`
(`InodesMatch`), `NothingUsedIsFreed` (`NothingFreedIsUsed`) and `NothingIsLeft`
(`NothingLeaks`); and, where no hole is extended (`QuietHoles`), `SyncsSave`
(`SyncSaves`).  None of them is inductive.  The invariant `IInv` adds

- `TreeOk`: a directory lists what is in it, once; names are unique; a hard link
  and its file point to each other; a search stands at an entry of its directory.
  That a freed object is nowhere met again rests on this;
- `CallsOk`: what a call has looked up stays while it holds the mutex of the
  directory, although the gross lock is free between its sections.  The call that
  unmounts is alone;
- `InodesOk`: the count of an inode is the number of threads that have it, its link
  count that of the names, of a drop still to come and of the unlinks and renames
  that failed after they had moved the object (`off`), and one thread at a time
  fills or frees it.  An inode without a count has names, or the last `iput` has
  begun to free it, or a failure has kept it from that, and then its object is `lost`:
  so nothing else leaks;
- `SyncOk`: what is only in the cache makes the super block dirty, and what a sync
  was asked for is in the cache until it is written.

The steps that change the tree are taken apart: what the operators of
`yaffs_guts.c` do to lists and objects (`Leads`), what that means for names and
links (`TreeStep`), what it leaves of the calls of the other threads (`StepKept`),
and then one lemma per action.

`YaffsCheckpointProofs`: for any number of blocks, chunks, keys and pages of the
stream, and any requests, power failures and faults (`CheckpointAssumption`),
`Types` (`TypeOK`), `ErasedIsErasedAlways` (`ErasedIsErased`),
`CountersAlwaysAgree` (`CountersAgree`) and `CheckpointAlwaysTrue`
(`CheckpointIsTrue`).  They assume `~BadKeepsData`, the case that is excluded from
the runs (see "What the runs check").
`CheckpointIsTrue` speaks of checkpoints that can be restored, but a stream is
written and erased page by page, so the invariant has to speak of every page:

- `FlashOk`: a page of a checkpoint that is on the NAND, of whatever stream and
  whether the rest is there or not, names the live chunks that are there now
  (`Saved`).  Only a stream that is all there (`Complete`) also names no written
  block as empty: the blocks of the stream itself were saved as empty ones, and
  a block is erased or torn only when no complete stream can name it.  Every page
  of a stream is there once (`PagesUnique`), so one that has lost its first page
  is not complete (`NotComplete`);
- `Ordered`: what is left to be done.  A write, an erasure and a new stream come
  after an invalidation, and the erasure of the checkpoint leaves no block of it;
- `DeviceOk`: the blocks are what the NAND says, and the counters what the blocks
  say, except for the blocks of a stream that is being written, which are
  subtracted when it is closed (`Streaming`).

`Found`, the chain of blocks the reader follows, is a recursive function.  That it
exists (`ListExists`) and what its entries are is proved by a smallest
counterexample, since induction theorems take an operator.

`YaffsCheckpointSaveProofs`: `SavedAlwaysRestorable` (`SavedIsRestorable`).  The
invariant follows the stream while it is written (`StreamedOk`): the pages so far
are found where they are looked for and hold what has been summed, and the next
block lies behind those that were taken, so a new one never comes between two of
them (`Later`, `FoundKept`).  `Fits` is a hypothesis: the reader looks for at most
`checkpointMaxBlocks` blocks, the writer takes any number, and
`yaffs2_CheckpointSpaceOk` compares with neither.

`Yaffs1Proofs`: for any number of blocks, chunks and keys, and any writes, losses of
power, torn pages, flipped bits and failed erasures (`Yaffs1Assumption`), `Types`
(`TypeOK`) and `NothingRevertsEver` (`NothingReverts`).  They rest on
`TagsAssumption`: of the keys, tags are read as they were packed, whichever bit
outside the error code has flipped.  That is a computation, which TLC does for the
keys of the runs, and it fails only for numbers that do not fit into their fields.
Both theorems assume that no bit of the error code itself flips
(`FlippedBits \cap Ecc = {}`), the case that is excluded from the run.  `Types` holds
however many copies a call of the collector makes.  `NothingRevertsEver` assumes
`MaxCopies = NChunks`: a collection that is not left half way.  Without it the
statement is false, as `yaffs1_passive` shows.  There are two invariants:

- `TInv`: what the device knows.  A chunk that is in use is the one of its key or is
  the next to be deleted (`MapOk`, `UsedOk`); a block is programmed from its first
  page on (`NandOk`), so a page that reads as erased ends the scan of its block; and
  the free chunks are counted by block, and for the block that is being scanned by
  page (`FreeOk`, `Part`);
- `CInv`: what a scan would meet.  A key has two copies at most, and of two the newer
  one, which is what was answered, follows the other in the order of serial
  numbers, modulo four (`Durable`).  That there are never three, or two that are
  further apart, is what two bits rest on.  It holds because, while the device is
  up, the older copy is the next to be marked, or is in the block that is being
  collected and goes with it (`Known`), and that block is erased before anything
  else is written (`Collected`).  During a scan the map has the newest of the
  copies that were met (`Met`).

Only model-checked:

- `ReserveSuffices` (it holds for the bounded device with the collector before
  every write, two entries of the cache and `MaxPads = 1` cuts in holes, and depends on
  how the policy and the reserve interact; it is not true of any number of such cuts:
  `yaffs_ResizeDown` pads the last chunk with `useReserve` where there was none, so
  each takes a chunk and frees none, and with `MaxPads = 7` the device is full to the
  last chunk) and
  `CollectionAdvances`;
- `EveryRequestEnds` and `CallsEnd`: liveness is out of reach of the prover;
- `EntriesListed`: it is not true of every device.  `QuietDirs` lets a file be
  unlinked only while it has no other link, but looks when the call begins.  With
  three threads one may link the file in between; the unlink then moves the link
  to the place of the file (`yaffs_UnlinkWorker`), to the head of its directory,
  and a third thread that reads that directory passes it by.  The run has two;
- `CachedIsKept`, and what rests on it, where files are also cut inside a chunk and
  the device may be full.  It is then not true of every reserve, since every cut in
  a hole may take a chunk of it.  The run has such sizes;
- `TagsMended`, the assumption of `Yaffs1`: `Value` sums the bits of a field by
  recursion, and induction over data is out of reach of the prover;
- the refinement `ImplementsStore`, and everything else about `YaffsLog`.

## Plan

Done: `YaffsBlocks`, `YaffsCache`, `YaffsVfs`, `YaffsCheckpoint` and `Yaffs1` with
proofs; `YaffsLog` with a run.

What would add most, in this order:

1. the cleanup list: the objects of soft deleted files beside the blocks of
   `YaffsBlocks`, so that no list is lost when a collection is cut short;
2. the attribute store, the packed tags of yaffs2 and the sort of the blocks as
   operators, against reference definitions;
3. directories below the root in `YaffsLog`, and the page cache in `YaffsVfs`;
4. the refinement steps of `YaffsLog` as theorems.

## Not modelled

- the MTD drivers, the allocators of tnodes and objects, and the encryption: I/O,
  memory or calls of a cipher, without a protocol of their own.  Memory that runs
  out is therefore not modelled either;
- the attribute store (`yaffs_nameval.c`), the sort and the bitmap functions: pure
  functions that tests reach.  The order the sort gives is taken as the order of
  writing, so the signed comparison of sequence numbers is not covered;
- tags of yaffs2 and the ECC of data (`yaffs_packedtags*.c`, `yaffs_ecc.c`): a chunk
  of yaffs2 has its tags or is `Blank`.  The tags of yaffs1 are in `Yaffs1`;
- in `YaffsLog`: directories below the root, symbolic links and devices, lazy
  loading, and pages that look erased after a torn program;
- in `YaffsVfs`: the page cache, `statfs`, export operations, mount options and
  `/proc`;
- in `Yaffs1`: the repair of hard links and shadowed objects after the scan, which
  `YaffsLog` has for yaffs2.

`PROJECT.json` gives the status of each component and, for each hazard no property
covers, the reason.
