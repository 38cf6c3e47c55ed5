------------------------------ MODULE YaffsVfs ------------------------------
(***************************************************************************)
(* The Linux side (yaffs_vfs_glue.c): threads that call the file system    *)
(* through the VFS, the background thread, and the gross lock they hand    *)
(* over.  What the kernel does (the mutexes of directories and inodes, the *)
(* inode cache, who calls what) is external and modelled from how the code *)
(* uses it; what the objects do when they are linked, unlinked, renamed    *)
(* and freed is the code of yaffs_guts.c.                                  *)
(*                                                                         *)
(* A section under the gross lock is one action: what other threads do     *)
(* meanwhile without the lock touches nothing it reads or writes.  Between *)
(* two sections of a thread the others run, which is what the properties   *)
(* are about: inodes and objects that come and go, directories that are    *)
(* read while they change, and requests that wait for each other.          *)
(***************************************************************************)
EXTENDS Integers, Sequences, FiniteSets

CONSTANTS
    Threads,        \* processes that call the file system
    Dirs,           \* directories, which stay
    Names,
    Ids,            \* object numbers
    Contents,       \* the directories to start with: sets of [id, dir, name, target]
    Room,           \* how many entries fit the buffer of a call of readdir
    QuietDirs,      \* nothing is renamed or takes over a name while a directory is read
    QuietHoles,     \* no file is extended over a hole before something else is written
    MaxRequests     \* bound: how many requests are made

Free == "free"
Bg == "bg"
NoId == 0
Gone == "gone"          \* the place of an object in no directory that can be read

ASSUME VfsAssumption ==
    /\ IsFiniteSet(Threads) /\ Free \notin Threads /\ Gone \notin Dirs
    /\ IsFiniteSet(Ids) /\ Ids \subseteq Nat \ {NoId}
    /\ Room \in Nat \ {0} /\ MaxRequests \in Nat
    /\ QuietDirs \in BOOLEAN /\ QuietHoles \in BOOLEAN

\* An entry has its name for itself, and a hard link is one to a file.
ASSUME ContentsAssumption ==
    \A c \in Contents :
        /\ c \subseteq [id : Ids, dir : Dirs, name : Names, target : Ids \cup {NoId}]
        /\ \A x, y \in c : x.id = y.id \/ (x.dir = y.dir /\ x.name = y.name) => x = y
        /\ \A x \in c : x.target # NoId => \E y \in c : y.id = x.target /\ y.target = NoId

VARIABLES
    lock,           \* the gross lock: who holds it
    mutex,          \* the mutexes of the directories and inodes: who holds them
    obj,            \* the objects, by number
    kids,           \* children of each directory, the first of the list first
    ino,            \* the inodes in the cache, by number
    ver,            \* i_version of the directories
    th,             \* what each thread is doing
    rd,             \* the directory each thread reads, and its search context
    sb,             \* s_dirt, isCheckpointed, and whether data is only in the cache
    bg,             \* the background thread
    mounted,
    requests

vars == <<lock, mutex, obj, kids, ino, ver, th, rd, sb, bg, mounted, requests>>

(***************************************************************************)
(* Objects.  "gen" tells an object from the next one with its number, and  *)
(* "lost" one that has moved although its header could not be written, so  *)
(* that the caller was told it had not: history, that nothing here reads.  *)
(***************************************************************************)
FreeObject(g) == [type |-> "free", gen |-> g, dir |-> Gone, name |-> Gone,
                  target |-> NoId, links |-> <<>>, inode |-> FALSE, deferred |-> FALSE,
                  lost |-> FALSE]
NewObject(g, type, d, n, target) ==
    [FreeObject(g) EXCEPT !.type = type, !.dir = d, !.name = n, !.target = target]

Exists(i) == obj[i].type # "free"
Unused == {i \in Ids : ~Exists(i)}
Tree == [obj |-> obj, kids |-> kids, rd |-> rd]

\* list_del_init
Without(list, i) ==
    LET at == {k \in 1 .. Len(list) : list[k] = i}
        k == CHOOSE x \in at : TRUE
    IN IF at = {} THEN list
       ELSE SubSeq(list, 1, k - 1) \o SubSeq(list, k + 1, Len(list))

\* yaffs_FindObjectByName, yaffs_GetEquivalentObject
Find(d, n) ==
    LET here == {i \in Ids : obj[i].dir = d /\ obj[i].name = n /\ Exists(i)}
    IN IF here = {} THEN NoId ELSE CHOOSE i \in here : TRUE
Equivalent(i) == IF i # NoId /\ obj[i].type = "link" THEN obj[i].target ELSE i

\* yaffs_GetObjectLinkCount
LinkCount(i) == (IF obj[i].dir \in Dirs THEN 1 ELSE 0) + Len(obj[i].links)

\* yaffs_SearchAdvance: what follows i in its directory.
After(list, i) ==
    LET at == {k \in 1 .. Len(list) : list[k] = i /\ k < Len(list)}
    IN IF at = {} THEN NoId ELSE list[(CHOOSE k \in at : TRUE) + 1]

\* yaffs_RemoveObjectCallback
Moved(r, lists, i) == IF r.next = i THEN [r EXCEPT !.next = After(lists[r.dir], i)] ELSE r

\* A variant: the object stays in the list of its directory.
StillListed(s, i) == [s EXCEPT !.obj[i].dir = Gone, !.obj[i].name = Gone]

\* The parent of an object and its name.
PutAt(o, i, d, n) == [o EXCEPT ![i].dir = d, ![i].name = n]

\* yaffs_RemoveObjectFromDirectory
Removed(s, i) ==
    [s EXCEPT !.obj = PutAt(@, i, Gone, Gone),
              !.kids = [d \in Dirs |-> Without(@[d], i)],
              !.rd = [t \in Threads |-> Moved(@[t], s.kids, i)]]

\* yaffs_AddObjectToDirectory: at the head of the list.
Added(s, i, d, n) ==
    [Removed(s, i) EXCEPT !.obj = PutAt(@, i, d, n), !.kids[d] = <<i>> \o @]

\* A variant: an object is freed although an inode still points to it.
FreedAtOnce(s, i) == [s EXCEPT !.obj[i] = FreeObject(s.obj[i].gen + 1)]

\* yaffs_FreeObject
Freed(s, i) ==
    IF s.obj[i].inode THEN [s EXCEPT !.obj[i].deferred = TRUE]
    ELSE [s EXCEPT !.obj[i] = FreeObject(s.obj[i].gen + 1)]

\* yaffs_DoGenericObjectDeletion
Deleted(s, i) == Freed(Removed(s, i), i)

\* yaffs_DeleteHardLink
LinkDeleted(s, i) ==
    LET f == s.obj[i].target
    IN Deleted([s EXCEPT !.obj[f].links = Without(@, i)], i)

Lost(s, i) == [s EXCEPT !.obj[i].lost = TRUE]

\* yaffs_UnlinkWorker for an object with a hard link: it takes over its name.
\* yaffs_ChangeObjectName has moved it when its header cannot be written; the
\* hard link then stays in the unlinked directory.
TakenOver(s, i, written) ==
    LET hl == Head(s.obj[i].links)
        free == Removed([s EXCEPT !.obj[i].links = Tail(@)], hl)
        moved == Added(free, i, s.obj[hl].dir, s.obj[hl].name)
    IN IF written THEN Deleted(moved, hl) ELSE Lost(moved, hl)

\* yaffs_UnlinkObject
Unlinked(s, i, written) ==
    IF s.obj[i].type = "link" THEN LinkDeleted(s, i)
    ELSE IF s.obj[i].links # <<>> THEN TakenOver(s, i, written)
    ELSE IF ~s.obj[i].inode THEN Deleted(s, i)
    ELSE Removed(s, i)

\* Its answer is that of yaffs_ChangeObjectName.
AnswersWritten(s, i) == s.obj[i].type # "link" /\ (s.obj[i].links # <<>> \/ s.obj[i].inode)

\* yaffs_RenameObject: the target is unlinked after the object has its name.
\* What these two calls answer is not looked at.
Renamed(s, i, target, d, n, written) ==
    IF target = NoId THEN Added(s, i, d, n)
    ELSE Added(Unlinked(Added(s, i, d, n), target, written), i, d, n)

NamesIn(s, d) == {s.obj[s.kids[d][k]].name : k \in 1 .. Len(s.kids[d])}

\* The tree becomes s.  A name that is not there any more has not been there
\* all the time a directory was read; what was cached of a deleted file is
\* dropped.
Becomes(s) == \E tree \in {s} :
    LET kept == {i \in Ids : tree.obj[i].type # "free" /\ ~tree.obj[i].deferred}
    IN /\ obj' = tree.obj /\ kids' = tree.kids
       /\ rd' = [t \in Threads |->
                    IF tree.rd[t].dir = Gone THEN tree.rd[t]
                    ELSE [tree.rd[t] EXCEPT !.since = @ \cap NamesIn(tree, tree.rd[t].dir)]]
       /\ sb' = [sb EXCEPT !.cached = @ \cap kept,
                           !.asked = [t \in Threads |-> @[t] \cap kept]]

(***************************************************************************)
(* The gross lock and the steps of a thread.                               *)
(***************************************************************************)
\* yaffs_GrossLock
Section(x) == lock = Free

\* A variant: an inode is asked for with the lock held.
KeptForInode(x) == IF x # Bg /\ th'[x].pc = "iget" THEN x ELSE Free

\* yaffs_GrossUnlock
Released(x) == Free

EndSection(x) == lock' = Released(x)

At(t, pc) == th[t].pc = pc
Goes(t, pc) == th' = [th EXCEPT ![t].pc = pc]
GoesWith(t, pc, i) == th' = [th EXCEPT ![t].pc = pc, ![t].id = i, ![t].gen = obj'[i].gen]
Idle == [pc |-> "idle", op |-> "none", dir |-> Gone, name |-> Gone, dir2 |-> Gone,
         name2 |-> Gone, id |-> NoId, gen |-> 0]
Finished(t) == th' = [th EXCEPT ![t] = Idle]

NoMutex(t) == [m \in DOMAIN mutex |-> IF mutex[m] = t THEN Free ELSE mutex[m]]

\* The VFS calls with the mutexes of the directories held.
Begin(t, op, d, n, d2, n2, held) ==
    /\ mounted /\ th[t].pc = "idle" /\ requests < MaxRequests
    /\ \A u \in Threads : th[u].op # "umount"
    /\ \A m \in held : mutex[m] = Free
    /\ mutex' = [m \in DOMAIN mutex |-> IF m \in held THEN t ELSE mutex[m]]
    /\ th' = [th EXCEPT ![t] = [Idle EXCEPT !.pc = "find", !.op = op, !.dir = d, !.name = n,
                                            !.dir2 = d2, !.name2 = n2]]
    /\ requests' = requests + 1
    /\ UNCHANGED <<lock, obj, kids, ino, ver, rd, sb, bg, mounted>>

Reading == {t \in Threads : rd[t].dir # Gone}
Quiet == QuietDirs => Reading = {}
HasLinks(d, n) == LET i == Find(d, n) IN i # NoId /\ obj[i].links # <<>>

\* A call for a name that is not there changes nothing, and creating one that
\* is there opens it.
There(d, n) == Find(d, n) # NoId

BeginOpen(t, d, n) == There(d, n) /\ Begin(t, "open", d, n, Gone, Gone, {d})
BeginCreate(t, d, n) == ~There(d, n) /\ Begin(t, "create", d, n, Gone, Gone, {d})
BeginUnlink(t, d, n) ==
    There(d, n) /\ (HasLinks(d, n) => Quiet) /\ Begin(t, "unlink", d, n, Gone, Gone, {d})
BeginLink(t, d, n, e, m) == There(d, n) /\ Begin(t, "link", d, n, e, m, {d})
BeginRename(t, d, n, e, m) == There(d, n) /\ Quiet /\ Begin(t, "rename", d, n, e, m, {d, e})

(***************************************************************************)
(* Finding an object and its inode.                                        *)
(***************************************************************************)
\* yaffs_lookup: of a rename the target is looked up here, of the others what
\* they are called with.
Lookup(t) ==
    /\ At(t, "find") /\ Section(t)
    /\ LET r == th[t]
           i == Equivalent(IF r.op = "rename" THEN Find(r.dir2, r.name2) ELSE Find(r.dir, r.name))
           source == Equivalent(Find(r.dir, r.name))
       IN IF r.op = "rename" /\ (source = NoId \/ source = i) THEN Goes(t, "leave")
          ELSE IF i # NoId THEN th' = [th EXCEPT ![t].pc = "iget", ![t].id = i, ![t].gen = obj[i].gen]
          ELSE Goes(t, CASE r.op = "create" -> "make" [] r.op = "rename" -> "act" [] OTHER -> "leave")
    /\ UNCHANGED <<mutex, obj, kids, ino, ver, rd, sb, bg, mounted, requests>>
    /\ EndSection(t)

\* yaffs_mknod: any number that is not used may be the next.  There may be
\* none, or its header cannot be written and the new object is deleted.
Mknod(t) ==
    /\ At(t, "make") /\ Section(t)
    /\ \/ Goes(t, "leave") /\ UNCHANGED <<obj, kids, rd, sb>>
       \/ \E i \in Unused :
              LET made == NewObject(obj[i].gen, "file", Gone, Gone, NoId)
              IN /\ Becomes(Added([Tree EXCEPT !.obj[i] = made], i, th[t].dir, th[t].name))
                 /\ GoesWith(t, "iget", i)
    /\ UNCHANGED <<mutex, ino, ver, bg, mounted, requests>>
    /\ EndSection(t)

\* "off" is how often the link count was left as it was although a name went,
\* since it was last taken from the object: history.
NoInode == [state |-> "none", gen |-> -1, nlink |-> 0, count |-> 0, off |-> 0]

\* yaffs_get_inode: an inode that is being read or freed is waited for.
GetInode(t) ==
    /\ At(t, "iget")
    /\ LET i == th[t].id
       IN \/ /\ ino[i].state = "none"
             /\ ino' = [ino EXCEPT ![i].state = "new"]
             /\ Goes(t, "fill")
          \/ /\ ino[i].state = "live"
             /\ ino' = [ino EXCEPT ![i].count = @ + 1]
             /\ Goes(t, "act")
    /\ UNCHANGED <<lock, mutex, obj, kids, ver, rd, sb, bg, mounted, requests>>

\* yaffs_iget, yaffs_FillInodeFromObject
FillInode(t) ==
    /\ At(t, "fill") /\ Section(t)
    /\ LET i == th[t].id
       IN IF Exists(i)
          THEN /\ ino' = [ino EXCEPT ![i] = [state |-> "live", gen |-> obj[i].gen,
                                             nlink |-> LinkCount(i), count |-> 1, off |-> 0]]
               /\ obj' = [obj EXCEPT ![i].inode = TRUE]
          ELSE /\ ino' = [ino EXCEPT ![i] = [NoInode EXCEPT !.state = "live", !.nlink = 1,
                                                            !.count = 1]]
               /\ UNCHANGED obj
    /\ Goes(t, "act")
    /\ UNCHANGED <<mutex, kids, ver, rd, sb, bg, mounted, requests>>
    /\ EndSection(t)

Leave(t) ==
    /\ At(t, "leave") /\ Finished(t) /\ mutex' = NoMutex(t)
    /\ UNCHANGED <<lock, obj, kids, ino, ver, rd, sb, bg, mounted, requests>>

(***************************************************************************)
(* Open files.                                                             *)
(***************************************************************************)
Opened(t) ==
    /\ At(t, "act") /\ th[t].op \in {"open", "create"}
    /\ Goes(t, "opened") /\ mutex' = NoMutex(t)
    /\ UNCHANGED <<lock, obj, kids, ino, ver, rd, sb, bg, mounted, requests>>

\* A variant: the super block is not marked.
NotMarked == sb.dirt

\* yaffs_MarkSuperBlockDirty
Marked == TRUE

\* yaffs_file_write, yaffs_writepage: what is written may stay in the cache.
FileWrite(t) ==
    /\ At(t, "opened") /\ Section(t)
    /\ \E checkpointed \in {sb.checkpointed, FALSE} :
           sb' = [sb EXCEPT !.cached = @ \cup {th[t].id}, !.dirt = Marked,
                            !.checkpointed = checkpointed]
    /\ UNCHANGED <<mutex, obj, kids, ino, ver, th, rd, bg, mounted, requests>>
    /\ EndSection(t)

\* yaffs_setattr: the zeros of a hole are cached without a mark.
Extend(t) ==
    /\ QuietHoles => sb.dirt
    /\ At(t, "opened") /\ Section(t)
    /\ sb' = [sb EXCEPT !.cached = @ \cup {th[t].id}]
    /\ UNCHANGED <<mutex, obj, kids, ino, ver, th, rd, bg, mounted, requests>>
    /\ EndSection(t)

\* yaffs_file_flush, yaffs_sync_object
FileFlush(t) ==
    /\ At(t, "opened") /\ Section(t)
    /\ LET i == th[t].id
       IN sb' = [sb EXCEPT !.cached = @ \ {i},
                           !.asked = [u \in Threads |-> @[u] \ {i}],
                           !.checkpointed = @ /\ i \notin sb.cached]
    /\ Goes(t, "put")
    /\ UNCHANGED <<mutex, obj, kids, ino, ver, rd, bg, mounted, requests>>
    /\ EndSection(t)

(***************************************************************************)
(* Changing directories.                                                   *)
(***************************************************************************)
\* A variant: the version of the directory is left as it was.
SameVersion(d) == ver

\* i_version
NewVersion(d) == [ver EXCEPT ![d] = @ + 1]

\* A name of file i has gone, and the inode is not told.
NotTold(i) == ino' = [ino EXCEPT ![i].off = @ + 1]

\* yaffs_unlink: when it fails the object has moved, but the link count and the
\* version stay.
Unlink(t) ==
    /\ At(t, "act") /\ th[t].op = "unlink" /\ mutex[th[t].id] = Free /\ Section(t)
    /\ LET i == Find(th[t].dir, th[t].name)
       IN \/ /\ Becomes(Unlinked(Tree, i, TRUE))
             /\ ino' = [ino EXCEPT ![th[t].id].nlink = @ - 1]
             /\ ver' = NewVersion(th[t].dir)
          \/ /\ AnswersWritten(Tree, i) /\ Quiet
             /\ Becomes(Lost(Unlinked(Tree, i, FALSE), i)) /\ NotTold(i)
             /\ UNCHANGED ver
    /\ Goes(t, "put")
    /\ UNCHANGED <<mutex, bg, mounted, requests>>
    /\ EndSection(t)

\* The VFS has found what is to be linked, and calls with the mutex of the
\* other directory.
LinkFound(t) ==
    /\ At(t, "act") /\ th[t].op = "link"
    /\ Goes(t, "link") /\ mutex' = NoMutex(t)
    /\ UNCHANGED <<lock, obj, kids, ino, ver, rd, sb, bg, mounted, requests>>

\* yaffs_link, yaffs_Link; nothing changes when the new object is not made.
Link(t) ==
    /\ At(t, "link") /\ mutex[th[t].dir2] = Free /\ mutex[th[t].id] = Free /\ Section(t)
    /\ LET r == th[t]
       IN \/ UNCHANGED <<obj, kids, rd, sb, ino>>
          \/ /\ Find(r.dir2, r.name2) = NoId
             /\ \E i \in Unused :
                LET made == NewObject(obj[i].gen, "link", Gone, Gone, r.id)
                    s == Added([Tree EXCEPT !.obj[i] = made], i, r.dir2, r.name2)
                IN /\ Becomes([s EXCEPT !.obj[r.id].links = <<i>> \o @])
                   /\ ino' = [ino EXCEPT ![r.id].nlink = LinkCount(r.id) + 1,
                                            ![r.id].off = 0]
    /\ Goes(t, "put")
    /\ UNCHANGED <<mutex, ver, bg, mounted, requests>>
    /\ EndSection(t)

\* yaffs_rename; the link count of the target follows after the lock, unless
\* the header of the object cannot be written the second time.
Rename(t) ==
    /\ At(t, "act") /\ th[t].op = "rename" /\ Section(t)
    /\ \E first, last \in BOOLEAN :
       LET r == th[t]
           target == Find(r.dir2, r.name2)
           s == Renamed(Tree, Find(r.dir, r.name), target, r.dir2, r.name2, first)
       IN \/ /\ target = NoId
             /\ Becomes(s) /\ Goes(t, "leave") /\ UNCHANGED <<mutex, ino>>
          \/ /\ target # NoId /\ mutex[r.id] = Free /\ last
             /\ Becomes(s) /\ Goes(t, "drop") /\ mutex' = [mutex EXCEPT ![r.id] = t]
             /\ UNCHANGED ino
          \/ /\ target # NoId /\ mutex[r.id] = Free /\ ~last
             /\ Becomes(Lost(s, r.id)) /\ Goes(t, "put") /\ NotTold(r.id)
             /\ UNCHANGED mutex
    /\ UNCHANGED <<ver, bg, mounted, requests>>
    /\ EndSection(t)

\* A variant: it does not follow.
NotDropped(i) == ino[i].nlink

Dropped(i) == ino[i].nlink - 1

DropTarget(t) ==
    /\ At(t, "drop")
    /\ ino' = [ino EXCEPT ![th[t].id].nlink = Dropped(th[t].id)]
    /\ Goes(t, "put")
    /\ UNCHANGED <<lock, mutex, obj, kids, ver, rd, sb, bg, mounted, requests>>

(***************************************************************************)
(* Putting and evicting inodes.                                            *)
(***************************************************************************)
\* The VFS gives up a reference: the last one to an inode without a name
\* evicts it.
Put(t) ==
    /\ At(t, "put") /\ mutex' = NoMutex(t)
    /\ LET i == th[t].id
       IN IF ino[i].count = 1 /\ ino[i].nlink = 0
          THEN /\ ino' = [ino EXCEPT ![i].count = 0, ![i].state = "freeing"]
               /\ th' = [th EXCEPT ![t].pc = "delete", ![t].gen = ino[i].gen]
          ELSE /\ ino' = [ino EXCEPT ![i].count = @ - 1]
               /\ Finished(t)
    /\ UNCHANGED <<lock, obj, kids, ver, rd, sb, bg, mounted, requests>>

\* The VFS makes room: an inode that is not in use is evicted.
Reclaim(t, i) ==
    /\ mounted /\ th[t].pc = "idle" /\ \A u \in Threads : th[u].op # "umount"
    /\ ino[i].state = "live" /\ ino[i].count = 0
    /\ ino' = [ino EXCEPT ![i].state = "freeing"]
    /\ th' = [th EXCEPT ![t] = [Idle EXCEPT !.pc = "unstitch", !.id = i, !.gen = ino[i].gen]]
    /\ UNCHANGED <<lock, mutex, obj, kids, ver, rd, sb, bg, mounted, requests>>

\* yaffs_evict_inode, the first section: yaffs_DeleteObject
DeleteInode(t) ==
    /\ At(t, "delete") /\ Section(t)
    /\ Becomes(Deleted(Tree, th[t].id))
    /\ Goes(t, "unstitch")
    /\ UNCHANGED <<mutex, ino, ver, bg, mounted, requests>>
    /\ EndSection(t)

\* A variant: the free that was put off is forgotten.
NotFreed(s, i) == [s EXCEPT !.obj[i].inode = FALSE]

\* yaffs_UnstitchObject, yaffs_HandleDeferedFree
Unstitched(s, i) ==
    LET u == [s EXCEPT !.obj[i].inode = FALSE]
    IN IF u.obj[i].deferred THEN Freed(u, i) ELSE u

\* The second section.
Unstitch(t) ==
    /\ At(t, "unstitch") /\ Section(t)
    /\ Becomes(IF ino[th[t].id].gen = -1 THEN Tree ELSE Unstitched(Tree, th[t].id))
    /\ Goes(t, "evicted")
    /\ UNCHANGED <<mutex, ino, ver, bg, mounted, requests>>
    /\ EndSection(t)

\* The VFS destroys the inode.
Evicted(t) ==
    /\ At(t, "evicted")
    /\ ino' = [ino EXCEPT ![th[t].id] = NoInode]
    /\ IF th[t].op = "umount" THEN Goes(t, "umount") ELSE Finished(t)
    /\ UNCHANGED <<lock, mutex, obj, kids, ver, rd, sb, bg, mounted, requests>>

(***************************************************************************)
(* Reading a directory: calls of readdir until one lists nothing.          *)
(***************************************************************************)
NotReading == [dir |-> Gone, pos |-> 0, ver |-> -1, next |-> NoId, name |-> Gone, room |-> 0,
               since |-> {}, listed |-> {}]

BeginRead(t, d) ==
    /\ mounted /\ th[t].pc = "idle" /\ requests < MaxRequests
    /\ \A u \in Threads : th[u].op # "umount"
    /\ QuietDirs => \A u \in Threads :
           /\ th[u].op # "rename"
           /\ th[u].op = "unlink" => ~HasLinks(th[u].dir, th[u].name)
    /\ rd' = [rd EXCEPT ![t] = [NotReading EXCEPT !.dir = d, !.since = NamesIn(Tree, d)]]
    /\ th' = [th EXCEPT ![t] = [Idle EXCEPT !.pc = "reading", !.op = "read"]]
    /\ requests' = requests + 1
    /\ UNCHANGED <<lock, mutex, obj, kids, ino, ver, sb, bg, mounted>>

\* The entry the search is at is what filldir will be given.
AtEntry(r, i) == [r EXCEPT !.next = i, !.name = IF i = NoId THEN Gone ELSE obj[i].name]

\* yaffs_readdir up to the first entry: yaffs_NewSearch, and what was listed
\* before is skipped unless the directory has another version.
Readdir(t) ==
    /\ At(t, "reading") /\ mutex[rd[t].dir] = Free /\ Section(t)
    /\ mutex' = [mutex EXCEPT ![rd[t].dir] = t]
    /\ LET r == rd[t]
           pos == IF r.ver # ver[r.dir] THEN 2 ELSE r.pos
           list == kids[r.dir]
           first == IF pos - 1 <= Len(list) THEN list[pos - 1] ELSE NoId
       IN /\ rd' = [rd EXCEPT ![t] = [AtEntry(r, first) EXCEPT
                       !.pos = pos, !.ver = ver[r.dir], !.room = Room]]
          /\ Goes(t, IF first # NoId THEN "filldir" ELSE IF r.pos = 0 THEN "endsearch" ELSE "last")
    /\ UNCHANGED <<obj, kids, ino, ver, sb, bg, mounted, requests>>
    /\ EndSection(t)

\* filldir, without the lock: an entry that does not fit ends the call.
Filldir(t) ==
    /\ At(t, "filldir")
    /\ IF rd[t].room = 0 THEN Goes(t, "endsearch") /\ UNCHANGED rd
       ELSE /\ rd' = [rd EXCEPT ![t].listed = @ \cup {rd[t].name}, ![t].room = @ - 1]
            /\ Goes(t, "advance")
    /\ UNCHANGED <<lock, mutex, obj, kids, ino, ver, sb, bg, mounted, requests>>

\* yaffs_SearchAdvance, after the lock was taken again.
Advance(t) ==
    /\ At(t, "advance") /\ Section(t)
    /\ LET r == rd[t]
           next == IF r.next = NoId THEN NoId ELSE After(kids[r.dir], r.next)
       IN /\ rd' = [rd EXCEPT ![t] = [AtEntry(r, next) EXCEPT !.pos = @ + 1]]
          /\ Goes(t, IF next # NoId THEN "filldir" ELSE "endsearch")
    /\ UNCHANGED <<mutex, obj, kids, ino, ver, sb, bg, mounted, requests>>
    /\ EndSection(t)

\* yaffs_EndSearch
EndSearch(t) ==
    /\ At(t, "endsearch") /\ Section(t)
    /\ rd' = [rd EXCEPT ![t].next = NoId, ![t].name = Gone]
    /\ mutex' = NoMutex(t)
    /\ Goes(t, "reading")
    /\ UNCHANGED <<obj, kids, ino, ver, sb, bg, mounted, requests>>
    /\ EndSection(t)

\* A call has listed nothing: the directory has been read.
CloseDir(t) ==
    /\ At(t, "last")
    /\ rd' = [rd EXCEPT ![t] = NotReading] /\ mutex' = NoMutex(t) /\ Finished(t)
    /\ UNCHANGED <<lock, obj, kids, ino, ver, sb, bg, mounted, requests>>

(***************************************************************************)
(* Syncing, the background thread and unmounting.                          *)
(***************************************************************************)
BeginSync(t) ==
    /\ mounted /\ th[t].pc = "idle" /\ requests < MaxRequests
    /\ \A u \in Threads : th[u].op # "umount"
    /\ th' = [th EXCEPT ![t] = [Idle EXCEPT !.pc = "urgency", !.op = "sync"]]
    /\ sb' = [sb EXCEPT !.asked[t] = sb.cached]
    /\ requests' = requests + 1
    /\ UNCHANGED <<lock, mutex, obj, kids, ino, ver, rd, bg, mounted>>

\* yaffs_bg_gc_urgency, read without the lock; the free chunks are left open.
Urgency(t) ==
    /\ At(t, "urgency")
    /\ \E urgent \in (IF bg.running THEN BOOLEAN ELSE {FALSE}) :
           Goes(t, IF urgent THEN "sync" ELSE "syncandsave")
    /\ UNCHANGED <<lock, mutex, obj, kids, ino, ver, rd, sb, bg, mounted, requests>>

\* yaffs_FlushSuperBlock
Flushed(checkpointed) ==
    [cached |-> {}, dirt |-> FALSE, asked |-> [t \in Threads |-> {}],
     checkpointed |-> checkpointed]

\* yaffs_do_sync_fs; a checkpoint may be asked for or not.
SyncFs(t) ==
    /\ At(t, "sync") \/ At(t, "syncandsave")
    /\ Section(t)
    /\ \E save \in (IF th[t].pc = "sync" THEN {FALSE} ELSE BOOLEAN) :
           LET checkpoint == save /\ ~sb.checkpointed
           IN sb' = IF sb.dirt \/ checkpoint
                    THEN Flushed(checkpoint \/ (sb.checkpointed /\ sb.cached = {}))
                    ELSE sb
    /\ Goes(t, "synced")
    /\ UNCHANGED <<mutex, obj, kids, ino, ver, rd, bg, mounted, requests>>
    /\ EndSection(t)

Synced(t) ==
    /\ At(t, "synced") /\ Finished(t)
    /\ sb' = [sb EXCEPT !.asked[t] = {}]
    /\ UNCHANGED <<lock, mutex, obj, kids, ino, ver, rd, bg, mounted, requests>>

\* yaffs_BackgroundThread.  A round checks whether to go on, and then works
\* under the lock (directories are updated and chunks collected, which makes a
\* checkpoint stale); it may be between the two when it is told to stop.
BgRound ==
    /\ bg.pc = "rounds" /\ Section(Bg)
    /\ \E checkpointed \in {sb.checkpointed, FALSE} :
           sb' = [sb EXCEPT !.checkpointed = checkpointed]
    /\ UNCHANGED <<mutex, obj, kids, ino, ver, th, rd, bg, mounted, requests>>
    /\ EndSection(Bg)

BgExit ==
    /\ bg.pc = "rounds" /\ (~bg.running \/ bg.stop)
    /\ bg' = [bg EXCEPT !.pc = "exited"]
    /\ UNCHANGED <<lock, mutex, obj, kids, ino, ver, th, rd, sb, mounted, requests>>

BeginUmount(t) ==
    /\ mounted /\ requests < MaxRequests
    /\ \A u \in Threads : th[u].pc = "idle"
    /\ th' = [th EXCEPT ![t] = [Idle EXCEPT !.pc = "umount", !.op = "umount"]]
    /\ requests' = requests + 1
    /\ UNCHANGED <<lock, mutex, obj, kids, ino, ver, rd, sb, bg, mounted>>

\* The VFS evicts the inodes, then calls yaffs_put_super.
EvictNext(t) ==
    /\ At(t, "umount")
    /\ LET live == {i \in Ids : ino[i].state = "live"}
       IN IF live = {} THEN Goes(t, "stop") /\ UNCHANGED ino
          ELSE \E i \in live :
                 /\ ino' = [ino EXCEPT ![i].state = "freeing"]
                 /\ th' = [th EXCEPT ![t].pc = "unstitch", ![t].id = i, ![t].gen = ino[i].gen]
    /\ UNCHANGED <<lock, mutex, obj, kids, ver, rd, sb, bg, mounted, requests>>

\* yaffs_BackgroundStop: bgRunning is cleared, then kthread_stop waits.
StopBackground(t) ==
    /\ At(t, "stop")
    /\ bg' = [bg EXCEPT !.running = FALSE] /\ Goes(t, "kthread_stop")
    /\ UNCHANGED <<lock, mutex, obj, kids, ino, ver, rd, sb, mounted, requests>>

KthreadStop(t) ==
    /\ At(t, "kthread_stop")
    /\ IF bg.pc = "exited" THEN Goes(t, "put_super") /\ UNCHANGED bg
       ELSE ~bg.stop /\ bg' = [bg EXCEPT !.stop = TRUE] /\ UNCHANGED th
    /\ UNCHANGED <<lock, mutex, obj, kids, ino, ver, rd, sb, mounted, requests>>

\* yaffs_put_super
PutSuper(t) ==
    /\ At(t, "put_super") /\ Section(t)
    /\ sb' = Flushed(TRUE) /\ mounted' = FALSE /\ Finished(t)
    /\ UNCHANGED <<mutex, obj, kids, ino, ver, rd, bg, requests>>
    /\ EndSection(t)

(***************************************************************************)
(* The system.                                                             *)
(***************************************************************************)
\* The elements of S as a list, in any order.
Ordered(S) == CHOOSE list \in [1 .. Cardinality(S) -> S] : {list[k] : k \in DOMAIN list} = S

\* The objects of c.
ObjectOf(c, i) ==
    LET here == {x \in c : x.id = i}
        x == CHOOSE x \in here : TRUE
    IN IF here = {} THEN FreeObject(0)
       ELSE [NewObject(0, IF x.target = NoId THEN "file" ELSE "link", x.dir, x.name, x.target)
             EXCEPT !.links = Ordered({y.id : y \in {z \in c : z.target = i}})]

Listed(o, d) == {i \in Ids : o[i].dir = d}

Init ==
    /\ lock = Free
    /\ \E c \in Contents : obj = [i \in Ids |-> ObjectOf(c, i)]
    /\ kids = [d \in Dirs |-> Ordered(Listed(obj, d))]
    /\ mutex = [m \in Dirs \cup Ids |-> Free]
    /\ ino = [i \in Ids |-> NoInode] /\ ver = [d \in Dirs |-> 0]
    /\ th = [t \in Threads |-> Idle] /\ rd = [t \in Threads |-> NotReading]
    /\ sb = [cached |-> {}, dirt |-> FALSE, asked |-> [t \in Threads |-> {}],
             checkpointed |-> TRUE]
    /\ bg = [pc |-> "rounds", running |-> TRUE, stop |-> FALSE]
    /\ mounted = TRUE /\ requests = 0

Request(t) ==
    \/ \E d \in Dirs, n \in Names : BeginOpen(t, d, n) \/ BeginCreate(t, d, n) \/ BeginUnlink(t, d, n)
    \/ \E d, e \in Dirs, n, m \in Names : BeginLink(t, d, n, e, m) \/ BeginRename(t, d, n, e, m)
    \/ \E d \in Dirs : BeginRead(t, d)
    \/ \E i \in Ids : Reclaim(t, i)
    \/ BeginSync(t) \/ BeginUmount(t) \/ FileWrite(t) \/ Extend(t) \/ FileFlush(t)

Step(t) ==
    \/ Lookup(t) \/ Mknod(t) \/ GetInode(t) \/ FillInode(t) \/ Leave(t) \/ Opened(t)
    \/ Unlink(t) \/ LinkFound(t) \/ Link(t) \/ Rename(t) \/ DropTarget(t)
    \/ Put(t) \/ DeleteInode(t) \/ Unstitch(t) \/ Evicted(t)
    \/ Readdir(t) \/ Filldir(t) \/ Advance(t) \/ EndSearch(t) \/ CloseDir(t)
    \/ Urgency(t) \/ SyncFs(t) \/ Synced(t)
    \/ EvictNext(t) \/ StopBackground(t) \/ KthreadStop(t) \/ PutSuper(t)

Next == (\E t \in Threads : Request(t) \/ Step(t)) \/ BgRound \/ BgExit

Go == (\E t \in Threads : Step(t)) \/ BgExit

\* Who can go on with a call does.  That is weaker than what the queues of the
\* gross lock and the mutexes give, and enough since requests are bounded: a
\* call that does not end is one that waits for what nobody will do.
Spec == Init /\ [][Next]_vars /\ WF_vars(Go)

(***************************************************************************)
(* Properties.                                                             *)
(***************************************************************************)
TypeOK ==
    /\ lock \in Threads \cup {Bg, Free} /\ mutex \in [Dirs \cup Ids -> Threads \cup {Free}]
    /\ \A i \in Ids : /\ obj[i].type \in {"free", "file", "link"}
                      /\ obj[i].dir \in Dirs \cup {Gone} /\ obj[i].name \in Names \cup {Gone}
                      /\ obj[i].target \in Ids \cup {NoId} /\ obj[i].inode \in BOOLEAN
                      /\ ino[i].state \in {"none", "new", "live", "freeing"}
                      /\ ino[i].nlink \in Nat /\ ino[i].count \in 0 .. Cardinality(Threads)
    /\ \A d \in Dirs : Listed(obj, d) = {kids[d][k] : k \in 1 .. Len(kids[d])} /\ ver[d] \in Nat
    /\ sb.cached \subseteq Ids /\ sb.dirt \in BOOLEAN /\ sb.checkpointed \in BOOLEAN
    /\ bg.pc \in {"rounds", "exited"} /\ mounted \in BOOLEAN
    /\ requests \in 0 .. MaxRequests

\* An inode in the cache and the object of its number point to each other, and
\* the link count is the number of names: too high by one for each unlink and
\* rename that has failed since it was counted (yaffs_unlink and yaffs_rename
\* then leave it although yaffs_ChangeObjectName has moved the object), and for
\* the target of a rename that has not been counted down yet.
InodesMatch ==
    \A i \in Ids :
        /\ ino[i].state = "live" =>
               /\ Exists(i) /\ obj[i].inode /\ ino[i].gen = obj[i].gen
               /\ (\A t \in Threads : ~(th[t].pc = "drop" /\ th[t].id = i)) =>
                      ino[i].nlink = LinkCount(i) + ino[i].off
        /\ obj[i].inode => ino[i].state \in {"live", "freeing"}

\* An object that a thread goes on with after the lock, an inode points to or
\* a search stands at has not been freed meanwhile.
NothingFreedIsUsed ==
    /\ \A t \in Threads : th[t].pc \in {"iget", "fill", "delete", "unstitch"} =>
           th[t].gen = -1 \/ (Exists(th[t].id) /\ obj[th[t].id].gen = th[t].gen)
    /\ \A t \in Threads : rd[t].next # NoId => obj[rd[t].next].dir = rd[t].dir

\* When no call is going on, an object that has no name and is not in use is
\* gone (yaffs_HandleDeferedFree), or it is one that an unlink or a rename which
\* failed has left in the unlinked directory.
NothingLeaks ==
    (\A t \in Threads : th[t].pc = "idle") =>
        \A i \in Ids : Exists(i) => obj[i].dir \in Dirs \/ obj[i].links # <<>> \/ obj[i].lost

\* What is in a directory all the time it is read has been listed: "allows us
\* to unlock access to yaffs during filldir without causing problems".
EntriesListed == \A t \in Threads : th[t].pc = "last" => rd[t].since \subseteq rd[t].listed

\* When a sync is done, nothing that was written before it began is only in
\* the cache.
SyncSaves == \A t \in Threads : th[t].pc = "synced" => sb.asked[t] = {}

\* Every call ends: no thread waits for ever for the gross lock, an inode, a
\* directory or the background thread.
CallsEnd == \A t \in Threads :
    th[t].pc \notin {"idle", "opened"} ~> th[t].pc \in {"idle", "opened"}
=============================================================================
