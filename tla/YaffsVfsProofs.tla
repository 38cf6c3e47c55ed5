--------------------------- MODULE YaffsVfsProofs ---------------------------
(***************************************************************************)
(* Proofs about the Linux side, for any threads, names, objects and        *)
(* contents.  The theorems are at the end; they follow from one invariant, *)
(* IInv, of six parts.                                                     *)
(*                                                                         *)
(* TreeTyped, TreeOk   the objects: each directory lists what is in it     *)
(*             once, names are unique, hard links and their file point to  *)
(*             each other, searches stand at what their directory lists    *)
(* RestTyped   the rest has its type, and between two steps the gross lock *)
(*             is free                                                     *)
(* CallsOk     what a call has looked up stays while it holds the mutex of *)
(*             the directory, and that the VFS unmounts when nobody calls  *)
(* InodesOk    an inode in the cache is that of the object; its count is   *)
(*             that of the threads that have it, its link count that of    *)
(*             the names; one thread at a time fills or frees it           *)
(* SyncOk      what is only in the cache makes the super block dirty       *)
(*                                                                         *)
(* The steps that change the tree are taken apart: first what the          *)
(* operators of yaffs_guts.c do to lists and objects (Leads), then what    *)
(* that means for names and links (TreeStep), then what it leaves of what  *)
(* the other threads go on with (StepKept), then one lemma per action.     *)
(***************************************************************************)
EXTENDS YaffsVfs, SequenceTheorems, FiniteSetTheorems, TLAPS

ObjectRecords == [type : {"free", "file", "link"}, gen : Nat, dir : Dirs \cup {Gone},
                  name : Names \cup {Gone}, target : Ids \cup {NoId}, links : Seq(Ids),
                  inode : BOOLEAN, deferred : BOOLEAN, lost : BOOLEAN]

Searches == [dir : Dirs \cup {Gone}, pos : Nat, ver : Int, next : Ids \cup {NoId},
             name : Names \cup {Gone}, room : Int, since : SUBSET (Names \cup {Gone}),
             listed : SUBSET (Names \cup {Gone})]

InodeRecords == [state : {"none", "new", "live", "freeing"}, gen : Int, nlink : Nat, count : Nat,
                 off : Nat]

Named == {"open", "create", "unlink", "link", "rename"}
InPath == {"find", "make", "iget", "fill", "act"}
HasPcs == {"act", "opened", "put", "link", "drop"}
WorkPcs == {"fill", "delete", "unstitch", "evicted"}
SyncPcs == {"urgency", "sync", "syncandsave", "synced"}
Ops == Named \cup {"none", "read", "sync", "umount"}
Pcs == InPath \cup HasPcs \cup WorkPcs \cup SyncPcs
       \cup {"idle", "leave", "reading", "filldir", "advance", "endsearch", "last",
             "umount", "stop", "kthread_stop", "put_super"}
Calls == [pc : Pcs, op : Ops, dir : Dirs \cup {Gone}, name : Names \cup {Gone},
          dir2 : Dirs \cup {Gone}, name2 : Names \cup {Gone}, id : Ids \cup {NoId}, gen : Int]

Marks == [cached : SUBSET Ids, dirt : BOOLEAN, asked : [Threads -> SUBSET Ids],
          checkpointed : BOOLEAN]

TreeTyped == /\ obj \in [Ids -> ObjectRecords] /\ kids \in [Dirs -> Seq(Ids)]
             /\ rd \in [Threads -> Searches] /\ sb \in Marks
Rounds == [pc : {"rounds", "exited"}, running : BOOLEAN, stop : BOOLEAN]
RestTyped ==
    /\ lock = Free /\ mutex \in [Dirs \cup Ids -> Threads \cup {Free}]
    /\ ino \in [Ids -> InodeRecords] /\ ver \in [Dirs -> Nat]
    /\ th \in [Threads -> Calls]
    /\ bg \in Rounds
    /\ mounted \in BOOLEAN /\ requests \in 0 .. MaxRequests

(***************************************************************************)
(* The objects, the lists of the directories and the searches in them.     *)
(***************************************************************************)
Once(list) == \A a, b \in 1 .. Len(list) : list[a] = list[b] => a = b
In(list, i) == \E a \in 1 .. Len(list) : list[a] = i

\* Each directory lists what is in it, once.
Lists(k, o) ==
    \A d \in Dirs : Once(k[d]) /\ \A i \in Ids : o[i].dir = d <=> In(k[d], i)

\* A search is at an object of its directory.
Found(r, o) ==
    \A t \in Threads : r[t].next # NoId => r[t].dir \in Dirs /\ o[r[t].next].dir = r[t].dir

FreeOk(o, i) == o[i].type = "free" =>
    /\ o[i].dir = Gone /\ o[i].links = <<>> /\ ~o[i].inode /\ ~o[i].deferred
LinkOk(o, i) == o[i].type = "link" =>
    /\ o[i].links = <<>> /\ ~o[i].inode /\ ~o[i].deferred
    /\ o[i].dir = Gone => o[i].lost
    /\ o[i].dir # Gone => /\ o[i].target \in Ids /\ o[o[i].target].type = "file"
                          /\ In(o[o[i].target].links, i)
FileOk(o, i) == o[i].type = "file" =>
    /\ Once(o[i].links)
    /\ \A l \in Ids : In(o[i].links, l) => o[l].type = "link" /\ o[l].target = i /\ o[l].dir \in Dirs
    /\ o[i].deferred => o[i].inode /\ o[i].dir = Gone /\ o[i].links = <<>>
    /\ ~o[i].inode => o[i].dir \in Dirs \/ o[i].links # <<>> \/ o[i].lost
Objects(o) == \A i \in Ids : FreeOk(o, i) /\ LinkOk(o, i) /\ FileOk(o, i)

\* A name is that of one object.
IsAt(o, i, d, n) == o[i].dir = d /\ o[i].name = n
NamesUnique(o) ==
    \A d \in Dirs, i, j \in Ids : \A n : IsAt(o, i, d, n) /\ IsAt(o, j, d, n) => i = j

TreeOk == Lists(kids, obj) /\ Found(rd, obj) /\ Objects(obj) /\ NamesUnique(obj)

(***************************************************************************)
(* The calls.                                                              *)
(***************************************************************************)
\* The file that name n of directory d stands for is f.
FileOf(o, i) == IF o[i].type = "link" THEN o[i].target ELSE i
Denotes(o, d, n, f) == \E i \in Ids : IsAt(o, i, d, n) /\ f = FileOf(o, i)
NoneAt(o, d, n) == \A i \in Ids : ~IsAt(o, i, d, n)

Has(t, i) == th[t].id = i /\ th[t].pc \in {"act", "opened", "put", "link", "drop"}
Drops(t, i) == th[t].id = i /\ th[t].pc = "drop"
Works(t, i) == th[t].id = i /\ th[t].pc \in {"fill", "delete", "unstitch", "evicted"}

\* What was looked up in a directory stays there while its mutex is held.
PathOk(t) ==
    th[t].pc \in InPath =>
        /\ th[t].op \in Named
        /\ th[t].dir \in Dirs /\ mutex[th[t].dir] = t
        /\ th[t].op = "rename" => th[t].dir2 \in Dirs /\ mutex[th[t].dir2] = t
        /\ th[t].op = "link" => th[t].dir2 \in Dirs
        /\ th[t].pc = "find" => th[t].id = NoId
        /\ th[t].pc = "make" => /\ th[t].op = "create" /\ th[t].id = NoId
                                /\ NoneAt(obj, th[t].dir, th[t].name)
        /\ th[t].pc \in {"iget", "fill"} => th[t].id \in Ids /\ th[t].gen = obj[th[t].id].gen
LookedUp(t) ==
    th[t].pc \in {"iget", "fill", "act"} =>
        /\ th[t].op # "rename" => Denotes(obj, th[t].dir, th[t].name, th[t].id)
        /\ th[t].op = "rename" =>
               /\ \E f \in Ids : f # th[t].id /\ Denotes(obj, th[t].dir, th[t].name, f)
               /\ IF th[t].id = NoId THEN NoneAt(obj, th[t].dir2, th[t].name2)
                  ELSE Denotes(obj, th[t].dir2, th[t].name2, th[t].id)
LaterOk(t) ==
    /\ th[t].pc \in {"opened", "put", "link", "drop", "delete", "unstitch", "evicted"} =>
           th[t].id \in Ids
    /\ th[t].pc = "idle" => th[t].op # "umount"
    /\ th[t].pc = "umount" => th[t].op = "umount"
    /\ th[t].pc = "link" => th[t].dir2 \in Dirs
    /\ th[t].pc = "drop" => mutex[th[t].id] = t
    /\ th[t].pc \in {"reading", "filldir", "advance", "endsearch"} => rd[t].dir \in Dirs
    /\ rd[t].ver # -1 => rd[t].pos >= 2
Unmounting(t) == th[t].op = "umount" => \A u \in Threads \ {t} : th[u].pc = "idle"
CallsOk == \A t \in Threads : PathOk(t) /\ LookedUp(t) /\ LaterOk(t) /\ Unmounting(t)

(***************************************************************************)
(* The inodes.                                                             *)
(***************************************************************************)
\* The link count of file f.
LC(o, f) == (IF o[f].dir \in Dirs THEN 1 ELSE 0) + Len(o[f].links)

Holders(i) == {t \in Threads : Has(t, i)}
Dropping(i) == IF \E t \in Threads : Drops(t, i) THEN 1 ELSE 0

OneWorks(i) == \A t, u \in Threads : Works(t, i) /\ Works(u, i) => t = u
WorkOk(t) ==
    LET i == th[t].id
    IN /\ th[t].pc = "fill" => ino[i].state = "new"
       /\ th[t].pc \in {"delete", "unstitch", "evicted"} => ino[i].state = "freeing"
       /\ th[t].pc \in {"delete", "unstitch"} =>
              /\ obj[i].type = "file" /\ obj[i].inode
              /\ ino[i].gen = obj[i].gen /\ th[t].gen = obj[i].gen
       /\ th[t].pc = "delete" => LC(obj, i) = 0
       /\ th[t].pc = "unstitch" => obj[i].deferred \/ LC(obj, i) > 0 \/ obj[i].lost
       /\ th[t].pc = "evicted" => ~obj[i].inode
LiveOk(i) ==
    ino[i].state = "live" =>
        /\ obj[i].type = "file" /\ obj[i].inode /\ ~obj[i].deferred
        /\ ino[i].gen = obj[i].gen
        /\ ino[i].count = Cardinality(Holders(i))
        /\ ino[i].nlink = LC(obj, i) + ino[i].off + Dropping(i)
        /\ ino[i].off > 0 => obj[i].lost
        /\ ino[i].count = 0 => ino[i].nlink > 0
RestOk(i) ==
    /\ ino[i].state # "live" => ino[i].count = 0 /\ Holders(i) = {}
    /\ ino[i].state \in {"none", "live"} => \A t \in Threads : ~Works(t, i)
    /\ ino[i].state \in {"none", "new"} => ~obj[i].inode
    /\ ino[i].state = "freeing" => \E t \in Threads : Works(t, i)
InodesOk == /\ \A t \in Threads : WorkOk(t)
            /\ \A i \in Ids : OneWorks(i) /\ LiveOk(i) /\ RestOk(i)

\* What is only in the cache makes the super block dirty.
SyncOk ==
    /\ QuietHoles => (sb.cached # {} => sb.dirt)
    /\ \A t \in Threads :
           /\ th[t].pc \in {"urgency", "sync", "syncandsave"} => sb.asked[t] \subseteq sb.cached
           /\ th[t].pc = "synced" /\ QuietHoles => sb.asked[t] = {}

IInv == TreeTyped /\ RestTyped /\ TreeOk /\ CallsOk /\ InodesOk /\ SyncOk

(***************************************************************************)
(* Lists.                                                                  *)
(***************************************************************************)
\* What list_del_init leaves of a list.
LEMMA WithoutList ==
    ASSUME NEW list \in Seq(Ids), NEW i \in Ids, Once(list)
    PROVE  /\ Without(list, i) \in Seq(Ids) /\ Once(Without(list, i))
           /\ \A j \in Ids : In(Without(list, i), j) <=> j # i /\ In(list, j)
           /\ Len(Without(list, i)) = IF In(list, i) THEN Len(list) - 1 ELSE Len(list)
<1> DEFINE at == {k \in 1 .. Len(list) : list[k] = i}
           k == CHOOSE x \in at : TRUE
           left == SubSeq(list, 1, k - 1)
           right == SubSeq(list, k + 1, Len(list))
<1>1. CASE at = {}
    <2>1. Without(list, i) = list
        BY <1>1 DEF Without
    <2> QED BY <1>1, <2>1 DEF In
<1>2. CASE at # {}
    <2>1. k \in 1 .. Len(list) /\ list[k] = i
        BY <1>2
    <2>2. Without(list, i) = left \o right
        BY <1>2 DEF Without
    <2>3. Len(list) \in Nat /\ \A a \in 1 .. Len(list) : list[a] \in Ids
        OBVIOUS
    <2> HIDE DEF k
    <2>4. left \in Seq(Ids) /\ Len(left) = k - 1 /\ \A a \in 1 .. k - 1 : left[a] = list[a]
        <3>1. \A a \in 1 .. k - 1 : list[a] \in Ids
            BY <2>1, <2>3
        <3>2. 1 \in Int /\ k - 1 \in Int
            BY <2>1
        <3> QED BY <2>1, <3>1, <3>2, SubSeqProperties
    <2>5. right \in Seq(Ids) /\ Len(right) = Len(list) - k
          /\ \A a \in 1 .. Len(list) - k : right[a] = list[k + a]
        <3>1. \A a \in k + 1 .. Len(list) : list[a] \in Ids
            BY <2>1, <2>3
        <3>2. k + 1 \in Int /\ Len(list) \in Int
            BY <2>1, <2>3
        <3>3. /\ right \in Seq(Ids)
              /\ Len(right) = (IF k + 1 <= Len(list) THEN Len(list) - (k + 1) + 1 ELSE 0)
              /\ \A a \in 1 .. Len(list) - (k + 1) + 1 : right[a] = list[(k + 1) + a - 1]
            BY <3>1, <3>2, SubSeqProperties
        <3> QED BY <2>1, <2>3, <3>3
    <2> HIDE DEF left, right
    <2> DEFINE w == left \o right
    <2>6. /\ w \in Seq(Ids) /\ Len(w) = Len(list) - 1
          /\ \A a \in 1 .. Len(list) - 1 : w[a] = IF a < k THEN list[a] ELSE list[a + 1]
        <3>1. /\ w \in Seq(Ids) /\ Len(w) = Len(left) + Len(right)
              /\ \A a \in 1 .. Len(left) + Len(right) :
                     w[a] = IF a <= Len(left) THEN left[a] ELSE right[a - Len(left)]
            BY <2>4, <2>5, ConcatProperties
        <3>2. Len(left) + Len(right) = Len(list) - 1
            BY <2>1, <2>3, <2>4, <2>5
        <3>3. ASSUME NEW a \in 1 .. Len(list) - 1
              PROVE  w[a] = IF a < k THEN list[a] ELSE list[a + 1]
            <4>1. CASE a < k
                BY <2>1, <2>3, <2>4, <3>1, <3>2, <4>1
            <4>2. CASE ~(a < k)
                <5>1. w[a] = right[a - (k - 1)] /\ a - (k - 1) \in 1 .. Len(list) - k
                    BY <2>1, <2>3, <2>4, <3>1, <3>2, <4>2
                <5>2. right[a - (k - 1)] = list[k + (a - (k - 1))] /\ k + (a - (k - 1)) = a + 1
                    BY <2>1, <2>3, <2>5, <5>1
                <5>3. ~(a < k)
                    BY <2>1, <2>3, <4>2
                <5> QED BY <5>1, <5>2, <5>3
            <4> QED BY <2>1, <2>3, <4>1, <4>2
        <3> QED BY <3>1, <3>2, <3>3
    <2> HIDE DEF w
    <2>7. Once(w)
        BY <2>1, <2>3, <2>6 DEF Once
    <2>8. \A j \in Ids : In(w, j) <=> j # i /\ In(list, j)
        <3> TAKE j \in Ids
        <3>1. ASSUME In(w, j) PROVE j # i /\ In(list, j)
            <4>1. PICK a \in 1 .. Len(w) : w[a] = j
                BY <3>1 DEF In
            <4>2. CASE a < k
                BY <2>1, <2>3, <2>6, <4>1, <4>2 DEF Once, In
            <4>3. CASE a >= k
                BY <2>1, <2>3, <2>6, <4>1, <4>3 DEF Once, In
            <4> QED BY <2>1, <4>2, <4>3
        <3>2. ASSUME j # i, In(list, j) PROVE In(w, j)
            <4>1. PICK a \in 1 .. Len(list) : list[a] = j
                BY <3>2 DEF In
            <4>2. CASE a < k
                <5>1. a \in 1 .. Len(w) /\ w[a] = j
                    BY <2>1, <2>3, <2>6, <4>1, <4>2
                <5> QED BY <5>1 DEF In
            <4>3. CASE a > k
                <5>1. a - 1 \in 1 .. Len(w) /\ w[a - 1] = j
                    BY <2>1, <2>3, <2>6, <4>1, <4>3
                <5> QED BY <5>1 DEF In
            <4>4. a # k
                BY <2>1, <3>2, <4>1
            <4> QED BY <2>1, <4>2, <4>3, <4>4
        <3> QED BY <3>1, <3>2
    <2>9. In(list, i)
        BY <2>1 DEF In
    <2> QED BY <2>2, <2>6, <2>7, <2>8, <2>9 DEF w
<1> QED BY <1>1, <1>2

\* What comes after an object in its directory is another one, or nothing.
LEMMA AfterIsNext ==
    ASSUME NEW list \in Seq(Ids), NEW i, Once(list), After(list, i) # NoId
    PROVE  After(list, i) \in Ids /\ After(list, i) # i /\ In(list, After(list, i))
<1> DEFINE at == {k \in 1 .. Len(list) : list[k] = i /\ k < Len(list)}
           k == CHOOSE x \in at : TRUE
<1>1. at # {} /\ After(list, i) = list[k + 1]
    BY DEF After
<1>2. k \in 1 .. Len(list) /\ list[k] = i /\ k < Len(list)
    BY <1>1
<1> HIDE DEF k
<1>3. k + 1 \in 1 .. Len(list) /\ k + 1 # k
    BY <1>2
<1> QED BY <1>1, <1>2, <1>3 DEF Once, In

\* What is put at the head of a list.
LEMMA HeadList ==
    ASSUME NEW list \in Seq(Ids), NEW i \in Ids, Once(list), ~In(list, i)
    PROVE  /\ <<i>> \o list \in Seq(Ids) /\ Once(<<i>> \o list)
           /\ \A j \in Ids : In(<<i>> \o list, j) <=> j = i \/ In(list, j)
           /\ Len(<<i>> \o list) = Len(list) + 1
<1> DEFINE w == <<i>> \o list
<1>0. <<i>> \in Seq(Ids) /\ Len(<<i>>) = 1 /\ <<i>>[1] = i
    OBVIOUS
<1>1. /\ w \in Seq(Ids) /\ Len(w) = Len(list) + 1
      /\ w[1] = i /\ \A a \in 1 .. Len(list) : w[a + 1] = list[a]
    <2>1. /\ w \in Seq(Ids) /\ Len(w) = 1 + Len(list)
          /\ \A a \in 1 .. 1 + Len(list) : w[a] = IF a <= 1 THEN <<i>>[a] ELSE list[a - 1]
        BY <1>0, ConcatProperties
    <2> QED BY <1>0, <2>1
<1>2. Len(list) \in Nat
    OBVIOUS
<1> HIDE DEF w
<1>3. \A a \in 1 .. Len(w) : a = 1 \/ (a - 1 \in 1 .. Len(list) /\ w[a] = list[a - 1])
    BY <1>1, <1>2
<1>4. Once(w)
    <2> SUFFICES ASSUME NEW a \in 1 .. Len(w), NEW b \in 1 .. Len(w), w[a] = w[b]
                 PROVE  a = b
        BY DEF Once
    <2>1. \A c \in 1 .. Len(w) : c # 1 => c - 1 \in 1 .. Len(list) /\ w[c] = list[c - 1] /\ w[c] # i
        BY <1>3 DEF In
    <2>2. a = 1 <=> b = 1
        BY <1>1, <2>1
    <2>3. CASE a # 1
        <3>1. a - 1 = b - 1
            BY <2>1, <2>2, <2>3 DEF Once
        <3> QED BY <1>1, <1>2, <3>1
    <2> QED BY <2>2, <2>3
<1>5. \A j \in Ids : In(w, j) <=> j = i \/ In(list, j)
    <2> TAKE j \in Ids
    <2>1. ASSUME In(list, j) PROVE In(w, j)
        <3>1. PICK a \in 1 .. Len(list) : list[a] = j
            BY <2>1 DEF In
        <3>2. a + 1 \in 1 .. Len(w) /\ w[a + 1] = j
            BY <1>1, <1>2, <3>1
        <3> QED BY <3>2 DEF In
    <2>2. In(w, i)
        BY <1>1, <1>2 DEF In
    <2>3. ASSUME In(w, j), j # i PROVE In(list, j)
        BY <1>1, <1>3, <2>3 DEF In
    <2> QED BY <2>1, <2>2, <2>3
<1> QED BY <1>1, <1>4, <1>5 DEF w

\* What is left of a list without its head.
LEMMA TailList ==
    ASSUME NEW list \in Seq(Ids), list # <<>>, Once(list)
    PROVE  /\ Head(list) \in Ids /\ In(list, Head(list))
           /\ Tail(list) \in Seq(Ids) /\ Once(Tail(list))
           /\ \A j \in Ids : In(Tail(list), j) <=> j # Head(list) /\ In(list, j)
           /\ Len(Tail(list)) = Len(list) - 1
<1>1. /\ Head(list) = list[1] /\ Len(list) \in Nat \ {0}
      /\ Tail(list) \in Seq(Ids) /\ Len(Tail(list)) = Len(list) - 1
      /\ \A a \in 1 .. Len(Tail(list)) : Tail(list)[a] = list[a + 1]
    BY HeadTailProperties, EmptySeq
<1> DEFINE w == Tail(list)
<1> HIDE DEF w
<1>2. Head(list) \in Ids /\ In(list, Head(list))
    BY <1>1 DEF In
<1>3. \A a \in 1 .. Len(list) - 1 : w[a] = list[a + 1]
    BY <1>1 DEF w
<1>4. Once(w)
    BY <1>1, <1>3 DEF Once, w
<1>5. \A j \in Ids : In(w, j) <=> j # list[1] /\ In(list, j)
    <2> TAKE j \in Ids
    <2>1. ASSUME In(w, j) PROVE j # list[1] /\ In(list, j)
        <3>1. PICK a \in 1 .. Len(list) - 1 : w[a] = j
            BY <1>1, <2>1 DEF In, w
        <3>2. a + 1 \in 1 .. Len(list) /\ list[a + 1] = j /\ a + 1 # 1
            BY <1>1, <1>3, <3>1
        <3> QED BY <1>1, <3>2 DEF In, Once
    <2>2. ASSUME j # list[1], In(list, j) PROVE In(w, j)
        <3>1. PICK a \in 1 .. Len(list) : list[a] = j
            BY <2>2 DEF In
        <3>2. a - 1 \in 1 .. Len(list) - 1 /\ w[a - 1] = j
            BY <1>1, <1>3, <2>2, <3>1
        <3> QED BY <1>1, <3>2 DEF In, w
    <2> QED BY <2>1, <2>2
<1> QED BY <1>1, <1>2, <1>4, <1>5 DEF w

\* Nothing is in the empty list.
LEMMA NoList == Once(<<>>) /\ \A j : ~In(<<>>, j)
BY DEF Once, In

(***************************************************************************)
(* Objects enter and leave directories.                                    *)
(***************************************************************************)
\* They differ in their places at most.
Alike(x, y) == /\ x.type = y.type /\ x.gen = y.gen /\ x.target = y.target
               /\ x.links = y.links /\ x.inode = y.inode /\ x.deferred = y.deferred
               /\ x.lost = y.lost

\* Only the place of the object changes.
LEMMA PutAtIs ==
    ASSUME NEW o \in [Ids -> ObjectRecords], NEW i \in Ids,
           NEW d \in Dirs \cup {Gone}, NEW n \in Names \cup {Gone}
    PROVE  \E x \in ObjectRecords : /\ x.dir = d /\ x.name = n /\ Alike(x, o[i])
                                    /\ PutAt(o, i, d, n) = [o EXCEPT ![i] = x]
<1> DEFINE x == [o[i] EXCEPT !.dir = d, !.name = n]
<1>1. o[i] \in ObjectRecords
    OBVIOUS
<1>2. x \in ObjectRecords /\ x.dir = d /\ x.name = n /\ Alike(x, o[i])
    BY <1>1 DEF ObjectRecords, Alike
<1>3. PutAt(o, i, d, n) = [o EXCEPT ![i] = x]
    BY Zenon DEF PutAt
<1> QED BY <1>2, <1>3

\* An object without a place; the others stay.
LEMMA GoneFrom ==
    ASSUME NEW o \in [Ids -> ObjectRecords], NEW i \in Ids
    PROVE  /\ PutAt(o, i, Gone, Gone) \in [Ids -> ObjectRecords]
           /\ PutAt(o, i, Gone, Gone)[i].dir = Gone
           /\ \A j \in Ids : j # i => PutAt(o, i, Gone, Gone)[j] = o[j]
<1> DEFINE p == PutAt(o, i, Gone, Gone)
<1>1. Gone \in Dirs \cup {Gone} /\ Gone \in Names \cup {Gone}
    OBVIOUS
<1>2. PICK x \in ObjectRecords : x.dir = Gone /\ p = [o EXCEPT ![i] = x]
    BY <1>1, PutAtIs
<1>3. p \in [Ids -> ObjectRecords] /\ p[i].dir = Gone /\ \A j \in Ids : j # i => p[j] = o[j]
    <2> HIDE DEF p
    <2> QED BY <1>2
<1> QED BY <1>3

TreeOf(o, k, r) == [obj |-> o, kids |-> k, rd |-> r]

\* The fields of the tree.
LEMMA TreeFields ==
    ASSUME NEW o, NEW k, NEW r, NEW x
    PROVE  /\ TreeOf(o, k, r).obj = o /\ TreeOf(o, k, r).kids = k /\ TreeOf(o, k, r).rd = r
           /\ [TreeOf(o, k, r) EXCEPT !.obj = x] = TreeOf(x, k, r)
           /\ [TreeOf(o, k, r) EXCEPT !.kids = x] = TreeOf(o, x, r)
           /\ [TreeOf(o, k, r) EXCEPT !.rd = x] = TreeOf(o, k, x)
BY DEF TreeOf

\* What yaffs_RemoveObjectFromDirectory does to each field.
LEMMA RemovedIs ==
    ASSUME NEW o, NEW k, NEW r, NEW i
    PROVE  Removed(TreeOf(o, k, r), i)
           = TreeOf(PutAt(o, i, Gone, Gone), [d \in Dirs |-> Without(k[d], i)],
                    [t \in Threads |-> Moved(r[t], k, i)])
<1> DEFINE s == TreeOf(o, k, r)
           o2 == PutAt(s.obj, i, Gone, Gone)
           a == [s EXCEPT !.obj = o2]
           k2 == [d \in Dirs |-> Without(a.kids[d], i)]
           b == [a EXCEPT !.kids = k2]
           r2 == [t \in Threads |-> Moved(b.rd[t], s.kids, i)]
<1>1. Removed(s, i) = [b EXCEPT !.rd = r2]
    BY DEF Removed
<1>2. s.obj = o /\ s.kids = k
    BY TreeFields
<1>3. a = TreeOf(o2, k, r) /\ a.kids = k
    <2> HIDE DEF o2
    <2> QED BY TreeFields
<1>4. b = TreeOf(o2, k2, r) /\ b.rd = r
    <2> HIDE DEF o2, k2, a
    <2> QED BY <1>3, TreeFields
<1>5. Removed(s, i) = TreeOf(o2, k2, r2)
    <2> HIDE DEF o2, k2, r2, b
    <2> QED BY <1>1, <1>4, TreeFields
<1>6. o2 = PutAt(o, i, Gone, Gone) /\ k2 = [d \in Dirs |-> Without(k[d], i)]
      /\ r2 = [t \in Threads |-> Moved(r[t], k, i)]
    <2> HIDE DEF a, b, s
    <2> QED BY <1>2, <1>3, <1>4
<1> QED
    <2> HIDE DEF o2, k2, r2
    <2> QED BY <1>5, <1>6

SameSearches(r, q) == \A t \in Threads : /\ q[t].dir = r[t].dir /\ q[t].ver = r[t].ver
                                         /\ q[t].pos = r[t].pos
Sound(o, k, r) ==
    /\ o \in [Ids -> ObjectRecords] /\ k \in [Dirs -> Seq(Ids)] /\ r \in [Threads -> Searches]
    /\ Lists(k, o) /\ Found(r, o)

\* A tree of the objects o, after the searches r.
Leads(s, r, o) == \E k, q : s = TreeOf(o, k, q) /\ Sound(o, k, q) /\ SameSearches(r, q)

\* yaffs_RemoveObjectFromDirectory
LEMMA RemovedOk ==
    ASSUME NEW o, NEW k, NEW r, Sound(o, k, r), NEW i \in Ids
    PROVE  Leads(Removed(TreeOf(o, k, r), i), r, PutAt(o, i, Gone, Gone))
<1> DEFINE o2 == PutAt(o, i, Gone, Gone)
           k2 == [d \in Dirs |-> Without(k[d], i)]
           r2 == [t \in Threads |-> Moved(r[t], k, i)]
<1>1. Removed(TreeOf(o, k, r), i) = TreeOf(o2, k2, r2)
    BY RemovedIs
<1>2. /\ o2 \in [Ids -> ObjectRecords] /\ o2[i].dir = Gone
      /\ \A j \in Ids : j # i => o2[j] = o[j]
    BY GoneFrom DEF Sound
<1>3. \A d \in Dirs : /\ k[d] \in Seq(Ids) /\ Once(k[d])
                      /\ \A j \in Ids : o[j].dir = d <=> In(k[d], j)
    BY DEF Sound, Lists
<1>4. \A d \in Dirs : /\ k2[d] \in Seq(Ids) /\ Once(k2[d])
                      /\ \A j \in Ids : In(k2[d], j) <=> j # i /\ In(k[d], j)
    BY <1>3, WithoutList
<1>5. Lists(k2, o2)
    <2> SUFFICES ASSUME NEW d \in Dirs, NEW j \in Ids PROVE o2[j].dir = d <=> In(k2[d], j)
        BY <1>4 DEF Lists
    <2>1. In(k2[d], j) <=> j # i /\ In(k[d], j)
        BY <1>4
    <2> HIDE DEF o2, k2
    <2> QED BY <2>1, <1>2, <1>3, VfsAssumption
<1>6. ASSUME NEW t \in Threads
      PROVE  /\ r2[t] \in Searches
             /\ r2[t].dir = r[t].dir /\ r2[t].ver = r[t].ver /\ r2[t].pos = r[t].pos
             /\ r2[t].next # NoId => r2[t].dir \in Dirs /\ o2[r2[t].next].dir = r2[t].dir
    <2>0. r2[t] = Moved(r[t], k, i)
        OBVIOUS
    <2> HIDE DEF o2, k2, r2
    <2>1. r[t] \in Searches
        BY DEF Sound
    <2>2. r[t].next # NoId => r[t].dir \in Dirs /\ o[r[t].next].dir = r[t].dir
        BY DEF Sound, Found
    <2>3. CASE r[t].next # i
        <3>1. r2[t] = r[t]
            BY <2>0, <2>3 DEF Moved
        <3>2. r[t].next # NoId => r[t].next \in Ids
            BY <2>1, <2>3 DEF Searches
        <3> QED BY <1>2, <2>1, <2>2, <2>3, <3>1, <3>2
    <2>4. CASE r[t].next = i
        <3> DEFINE a == After(k[r[t].dir], i)
        <3>0. i # NoId
            BY VfsAssumption
        <3>1. r2[t] = [r[t] EXCEPT !.next = a]
            BY <2>0, <2>4 DEF Moved
        <3>2. a # NoId => a \in Ids /\ a # i /\ In(k[r[t].dir], a)
            BY <1>3, <2>2, <2>4, <3>0, AfterIsNext
        <3>3. a \in Ids \cup {NoId}
            BY <3>2
        <3> HIDE DEF a
        <3>4. /\ r2[t] \in Searches /\ r2[t].next = a /\ r2[t].dir = r[t].dir
              /\ r2[t].ver = r[t].ver /\ r2[t].pos = r[t].pos
            BY <2>1, <3>1, <3>3 DEF Searches
        <3>5. r[t].dir \in Dirs
            BY <2>2, <2>4, <3>0
        <3> QED BY <1>2, <1>3, <2>4, <3>2, <3>4, <3>5
    <2> QED BY <2>3, <2>4
<1>7. Found(r2, o2) /\ r2 \in [Threads -> Searches] /\ SameSearches(r, r2)
    <2>1. DOMAIN r2 = Threads /\ r2 = [t \in Threads |-> r2[t]]
        OBVIOUS
    <2> HIDE DEF r2, o2
    <2> QED BY <1>6, <2>1 DEF Found, SameSearches
<1>8. k2 \in [Dirs -> Seq(Ids)]
    BY <1>4
<1>9. Leads(TreeOf(o2, k2, r2), r, o2)
    <2> HIDE DEF o2, k2, r2
    <2> QED BY <1>2, <1>5, <1>7, <1>8 DEF Leads, Sound
<1> QED BY <1>1, <1>9

\* Removing an object before it is added makes no difference to its place.
LEMMA PutAtTwice ==
    ASSUME NEW o \in [Ids -> ObjectRecords], NEW i \in Ids, NEW d, NEW n
    PROVE  PutAt(PutAt(o, i, Gone, Gone), i, d, n) = PutAt(o, i, d, n)
<1> DEFINE x == o[i]
           y == [x EXCEPT !.dir = Gone, !.name = Gone]
           p == [o EXCEPT ![i] = y]
<1>1. PutAt(o, i, Gone, Gone) = p
    BY Zenon DEF PutAt
<1>2. p[i] = y
    OBVIOUS
<1>3. PutAt(p, i, d, n) = [p EXCEPT ![i] = [p[i] EXCEPT !.dir = d, !.name = n]]
    BY Zenon DEF PutAt
<1>4. [y EXCEPT !.dir = d, !.name = n] = [x EXCEPT !.dir = d, !.name = n]
    BY DEF ObjectRecords
<1>5. PutAt(o, i, d, n) = [o EXCEPT ![i] = [x EXCEPT !.dir = d, !.name = n]]
    BY Zenon DEF PutAt
<1>6. ASSUME NEW z PROVE [p EXCEPT ![i] = z] = [o EXCEPT ![i] = z]
    <2> HIDE DEF y
    <2> QED OBVIOUS
<1> HIDE DEF y, p, x
<1> QED BY <1>1, <1>2, <1>3, <1>4, <1>5, <1>6

\* yaffs_AddObjectToDirectory
LEMMA AddedOk ==
    ASSUME NEW o, NEW k, NEW r, Sound(o, k, r), NEW i \in Ids,
           NEW d \in Dirs, NEW n \in Names \cup {Gone}
    PROVE  Leads(Added(TreeOf(o, k, r), i, d, n), r, PutAt(o, i, d, n))
<1>1. PICK k1, r1 : /\ Removed(TreeOf(o, k, r), i) = TreeOf(PutAt(o, i, Gone, Gone), k1, r1)
                    /\ Sound(PutAt(o, i, Gone, Gone), k1, r1) /\ SameSearches(r, r1)
    BY RemovedOk DEF Leads
<1> DEFINE o1 == PutAt(o, i, Gone, Gone)
           o2 == PutAt(o1, i, d, n)
           k2 == [k1 EXCEPT ![d] = <<i>> \o k1[d]]
<1>2. Added(TreeOf(o, k, r), i, d, n) = TreeOf(o2, k2, r1)
    <2> DEFINE u == TreeOf(o1, k1, r1)
               p == PutAt(u.obj, i, d, n)
               a == [u EXCEPT !.obj = p]
               q == [a.kids EXCEPT ![d] = <<i>> \o a.kids[d]]
    <2>1. Added(TreeOf(o, k, r), i, d, n) = [a EXCEPT !.kids = q]
        BY <1>1 DEF Added
    <2>2. u.obj = o1
        BY TreeFields
    <2>3. a = TreeOf(p, k1, r1) /\ a.kids = k1
        <3> HIDE DEF p
        <3> QED BY TreeFields
    <2>4. [a EXCEPT !.kids = q] = TreeOf(p, q, r1)
        <3> HIDE DEF p, q, a
        <3> QED BY <2>3, TreeFields
    <2>5. p = o2 /\ q = k2
        <3> HIDE DEF a, u
        <3> QED BY <2>2, <2>3
    <2>6. Added(TreeOf(o, k, r), i, d, n) = TreeOf(o2, k2, r1)
        <3> HIDE DEF p, q, o2, k2
        <3> QED BY <2>1, <2>4, <2>5
    <2> QED BY <2>6
<1>3. o2 = PutAt(o, i, d, n)
    BY PutAtTwice DEF Sound
<1>4. o1[i].dir = Gone
    BY GoneFrom DEF Sound
<1>5. /\ o2 \in [Ids -> ObjectRecords] /\ o2[i].dir = d
      /\ \A j \in Ids : j # i => o2[j] = o1[j]
    <2>1. o1 \in [Ids -> ObjectRecords]
        BY <1>1 DEF Sound
    <2> HIDE DEF o1
    <2>2. PICK x \in ObjectRecords : x.dir = d /\ o2 = [o1 EXCEPT ![i] = x]
        BY <2>1, PutAtIs
    <2> HIDE DEF o2
    <2> QED BY <2>1, <2>2
<1> HIDE DEF o1, o2
<1>6. /\ Sound(o1, k1, r1)
      /\ \A e \in Dirs : /\ k1[e] \in Seq(Ids) /\ Once(k1[e]) /\ ~In(k1[e], i)
                          /\ \A j \in Ids : o1[j].dir = e <=> In(k1[e], j)
    BY <1>1, <1>4, VfsAssumption DEF Sound, Lists, o1
<1>7. \A e \in Dirs : k2[e] = IF e = d THEN <<i>> \o k1[e] ELSE k1[e]
    BY <1>6 DEF Sound
<1>8. \A e \in Dirs : /\ k2[e] \in Seq(Ids) /\ Once(k2[e])
                      /\ \A j \in Ids : In(k2[e], j) <=> (j = i /\ e = d) \/ In(k1[e], j)
    <2> HIDE DEF k2
    <2> TAKE e \in Dirs
    <2>1. CASE e = d
        <3>1. k1[d] \in Seq(Ids) /\ Once(k1[d]) /\ ~In(k1[d], i) /\ k2[d] = <<i>> \o k1[d]
            BY <1>6, <1>7
        <3> QED BY <2>1, <3>1, HeadList
    <2>2. CASE e # d
        BY <1>6, <1>7, <2>2
    <2> QED BY <2>1, <2>2
<1>9. k2 \in [Dirs -> Seq(Ids)]
    BY <1>6, <1>8 DEF Sound
<1> HIDE DEF k2
<1>10. Lists(k2, o2)
    <2> SUFFICES ASSUME NEW e \in Dirs, NEW j \in Ids PROVE o2[j].dir = e <=> In(k2[e], j)
        BY <1>8 DEF Lists
    <2> QED BY <1>5, <1>6, <1>8
<1>11. Found(r1, o2)
    <2> SUFFICES ASSUME NEW t \in Threads, r1[t].next # NoId
                 PROVE  r1[t].dir \in Dirs /\ o2[r1[t].next].dir = r1[t].dir
        BY DEF Found
    <2>1. r1[t] \in Searches
        BY <1>6 DEF Sound
    <2>2. r1[t].next \in Ids /\ r1[t].dir \in Dirs /\ o1[r1[t].next].dir = r1[t].dir
        BY <1>6, <2>1 DEF Searches, Sound, Found
    <2> QED BY <1>4, <1>5, <2>2, VfsAssumption
<1>12. Leads(TreeOf(o2, k2, r1), r, o2)
    BY <1>1, <1>5, <1>6, <1>9, <1>10, <1>11 DEF Leads, Sound
<1> QED BY <1>2, <1>3, <1>12

\* What changes objects but not their places keeps the lists.
LEMMA SamePlaces ==
    ASSUME NEW o, NEW k, NEW r, Sound(o, k, r), NEW o2 \in [Ids -> ObjectRecords],
           \A i \in Ids : o2[i].dir = o[i].dir
    PROVE  Sound(o2, k, r)
<1>1. Lists(k, o2)
    BY DEF Sound, Lists
<1>2. Found(r, o2)
    BY DEF Sound, Found, Searches
<1> QED BY <1>1, <1>2 DEF Sound

(***************************************************************************)
(* What the operations on trees do to the objects.                         *)
(***************************************************************************)
LEMMA TreeLeads ==
    ASSUME Sound(obj, kids, rd)
    PROVE  Leads(Tree, rd, obj)
<1>1. SameSearches(rd, rd) /\ Tree = TreeOf(obj, kids, rd)
    BY DEF SameSearches, Tree, TreeOf
<1> QED BY <1>1 DEF Leads

\* What the objects of such a tree are.
LEMMA LeadsTo ==
    ASSUME NEW s, NEW r, NEW o, Leads(s, r, o)
    PROVE  s.obj = o /\ o \in [Ids -> ObjectRecords]
BY TreeFields DEF Leads, Sound

\* Searches that agree with r may be exchanged for r.
LEMMA LeadsOn ==
    ASSUME NEW s, NEW r, NEW q, NEW o, Leads(s, q, o), SameSearches(r, q)
    PROVE  Leads(s, r, o)
<1>1. PICK k1, q1 : s = TreeOf(o, k1, q1) /\ Sound(o, k1, q1) /\ SameSearches(q, q1)
    BY DEF Leads
<1>2. SameSearches(r, q1)
    BY <1>1 DEF SameSearches
<1> QED BY <1>1, <1>2 DEF Leads

\* yaffs_RemoveObjectFromDirectory keeps lists, objects and searches in step.
LEMMA RemovedLeads ==
    ASSUME NEW s, NEW r, NEW o, Leads(s, r, o), NEW i \in Ids
    PROVE  Leads(Removed(s, i), r, PutAt(o, i, Gone, Gone))
<1>1. PICK k, q : s = TreeOf(o, k, q) /\ Sound(o, k, q) /\ SameSearches(r, q)
    BY DEF Leads
<1>2. Leads(Removed(TreeOf(o, k, q), i), q, PutAt(o, i, Gone, Gone))
    BY <1>1, RemovedOk
<1> QED BY <1>1, <1>2, LeadsOn

\* yaffs_AddObjectToDirectory does, too.
LEMMA AddedLeads ==
    ASSUME NEW s, NEW r, NEW o, Leads(s, r, o), NEW i \in Ids,
           NEW d \in Dirs, NEW n \in Names \cup {Gone}
    PROVE  Leads(Added(s, i, d, n), r, PutAt(o, i, d, n))
<1>1. PICK k, q : s = TreeOf(o, k, q) /\ Sound(o, k, q) /\ SameSearches(r, q)
    BY DEF Leads
<1>2. Leads(Added(TreeOf(o, k, q), i, d, n), q, PutAt(o, i, d, n))
    BY <1>1, AddedOk
<1> QED BY <1>1, <1>2, LeadsOn

\* What changes an object but not its place.
LEMMA ChangedLeads ==
    ASSUME NEW s, NEW r, NEW o, Leads(s, r, o), NEW i \in Ids,
           NEW x \in ObjectRecords, x.dir = o[i].dir
    PROVE  Leads([s EXCEPT !.obj = [s.obj EXCEPT ![i] = x]], r, [o EXCEPT ![i] = x])
<1> DEFINE p == [o EXCEPT ![i] = x]
<1>1. PICK k, q : s = TreeOf(o, k, q) /\ Sound(o, k, q) /\ SameSearches(r, q)
    BY DEF Leads
<1>2. s.obj = o
    BY LeadsTo
<1>3. p \in [Ids -> ObjectRecords] /\ \A j \in Ids : p[j].dir = o[j].dir
    BY <1>1 DEF Sound
<1>4. [s EXCEPT !.obj = p] = TreeOf(p, k, q)
    <2> HIDE DEF p
    <2> QED BY <1>1, TreeFields
<1>5. Leads([s EXCEPT !.obj = p], r, p)
    <2> HIDE DEF p
    <2> QED BY <1>1, <1>3, <1>4, SamePlaces DEF Leads
<1> QED BY <1>2, <1>5

\* The objects p are those of o but for the ones in S.
Differs(o, p, S) == /\ p \in [Ids -> ObjectRecords]
                    /\ \A j \in Ids : j \notin S => p[j] = o[j]

\* An object is put in a place, gets a list of hard links, or is freed as
\* soon as no inode points to it.
Placed(o, p, i, d, n) ==
    Differs(o, p, {i}) /\ p[i].dir = d /\ p[i].name = n /\ Alike(p[i], o[i])
Relinked(o, p, i, l) ==
    /\ Differs(o, p, {i}) /\ p[i].links = l /\ p[i].dir = o[i].dir /\ p[i].name = o[i].name
    /\ p[i].type = o[i].type /\ p[i].gen = o[i].gen /\ p[i].target = o[i].target
    /\ p[i].inode = o[i].inode /\ p[i].deferred = o[i].deferred /\ p[i].lost = o[i].lost
LetGo(o, p, i) ==
    /\ Differs(o, p, {i})
    /\ ~o[i].inode => p[i] = FreeObject(o[i].gen + 1)
    /\ o[i].inode => /\ p[i].deferred /\ p[i].dir = Gone
                     /\ p[i].type = o[i].type /\ p[i].gen = o[i].gen
                     /\ p[i].target = o[i].target /\ p[i].links = o[i].links
                     /\ p[i].inode = o[i].inode /\ p[i].lost = o[i].lost

\* yaffs_FreeObject
LEMMA FreedLeads ==
    ASSUME NEW s, NEW r, NEW o, Leads(s, r, o), NEW i \in Ids, o[i].dir = Gone
    PROVE  \E p : Leads(Freed(s, i), r, p) /\ LetGo(o, p, i)
<1>1. s.obj = o /\ o \in [Ids -> ObjectRecords]
    BY LeadsTo
<1>2. o[i] \in ObjectRecords
    BY <1>1
<1>3. CASE o[i].inode
    <2> DEFINE x == [o[i] EXCEPT !.deferred = TRUE]
    <2>1. /\ x \in ObjectRecords /\ x.deferred /\ x.dir = Gone
          /\ x.type = o[i].type /\ x.gen = o[i].gen /\ x.target = o[i].target
          /\ x.links = o[i].links /\ x.inode = o[i].inode /\ x.lost = o[i].lost
        BY <1>2 DEF ObjectRecords
    <2>2. Freed(s, i) = [s EXCEPT !.obj = [s.obj EXCEPT ![i] = x]]
        BY <1>1, <1>3 DEF Freed
    <2> HIDE DEF x
    <2>3. Leads(Freed(s, i), r, [o EXCEPT ![i] = x])
        BY <2>1, <2>2, ChangedLeads
    <2>4. Differs(o, [o EXCEPT ![i] = x], {i}) /\ [o EXCEPT ![i] = x][i] = x
        BY <1>1, <2>1 DEF Differs
    <2> QED BY <1>3, <2>1, <2>3, <2>4 DEF LetGo
<1>4. CASE ~o[i].inode
    <2> DEFINE x == FreeObject(o[i].gen + 1)
    <2>1. x \in ObjectRecords /\ x.dir = Gone
        BY <1>2, EmptySeq DEF ObjectRecords, FreeObject
    <2>2. Freed(s, i) = [s EXCEPT !.obj = [s.obj EXCEPT ![i] = x]]
        BY <1>1, <1>4 DEF Freed
    <2> HIDE DEF x
    <2>3. Leads(Freed(s, i), r, [o EXCEPT ![i] = x])
        BY <2>1, <2>2, ChangedLeads
    <2>4. Differs(o, [o EXCEPT ![i] = x], {i}) /\ [o EXCEPT ![i] = x][i] = x
        BY <1>1, <2>1 DEF Differs
    <2> QED BY <1>4, <2>3, <2>4 DEF x, LetGo
<1> QED BY <1>3, <1>4

\* The object has left its directory, and nothing else is different.
LEMMA RemovedAs ==
    ASSUME NEW s, NEW r, NEW o, Leads(s, r, o), NEW i \in Ids
    PROVE  \E p : Leads(Removed(s, i), r, p) /\ Placed(o, p, i, Gone, Gone)
<1> DEFINE p == PutAt(o, i, Gone, Gone)
<1>1. Gone \in Dirs \cup {Gone} /\ Gone \in Names \cup {Gone} /\ o \in [Ids -> ObjectRecords]
    BY LeadsTo
<1>2. PICK x \in ObjectRecords : x.dir = Gone /\ x.name = Gone /\ Alike(x, o[i]) /\ p = [o EXCEPT ![i] = x]
    BY <1>1, PutAtIs
<1>3. Leads(Removed(s, i), r, p)
    BY RemovedLeads
<1> HIDE DEF p
<1>4. p[i] = x /\ Differs(o, p, {i})
    BY <1>1, <1>2 DEF Differs
<1> QED BY <1>2, <1>3, <1>4 DEF Placed

\* The object is in its new place, and nothing else is different.
LEMMA AddedAs ==
    ASSUME NEW s, NEW r, NEW o, Leads(s, r, o), NEW i \in Ids,
           NEW d \in Dirs, NEW n \in Names \cup {Gone}
    PROVE  \E p : Leads(Added(s, i, d, n), r, p) /\ Placed(o, p, i, d, n)
<1> DEFINE p == PutAt(o, i, d, n)
<1>1. d \in Dirs \cup {Gone} /\ o \in [Ids -> ObjectRecords]
    BY LeadsTo
<1>2. PICK x \in ObjectRecords : x.dir = d /\ x.name = n /\ Alike(x, o[i]) /\ p = [o EXCEPT ![i] = x]
    BY <1>1, PutAtIs
<1>3. Leads(Added(s, i, d, n), r, p)
    BY AddedLeads
<1> HIDE DEF p
<1>4. p[i] = x /\ Differs(o, p, {i})
    BY <1>1, <1>2 DEF Differs
<1> QED BY <1>2, <1>3, <1>4 DEF Placed

\* The list of hard links of a file.
LEMMA LinksAs ==
    ASSUME NEW s, NEW r, NEW o, Leads(s, r, o), NEW i \in Ids, NEW l \in Seq(Ids)
    PROVE  \E p : /\ Leads([s EXCEPT !.obj = [s.obj EXCEPT ![i] = [s.obj[i] EXCEPT !.links = l]]], r, p)
                  /\ Relinked(o, p, i, l)
<1> DEFINE x == [s.obj[i] EXCEPT !.links = l]
<1>1. s.obj = o /\ o \in [Ids -> ObjectRecords]
    BY LeadsTo
<1>2. o[i] \in ObjectRecords
    BY <1>1
<1>3. /\ x \in ObjectRecords /\ x.links = l /\ x.dir = o[i].dir /\ x.name = o[i].name
      /\ x.type = o[i].type /\ x.gen = o[i].gen /\ x.target = o[i].target
      /\ x.inode = o[i].inode /\ x.deferred = o[i].deferred /\ x.lost = o[i].lost
    BY <1>1, <1>2 DEF ObjectRecords
<1> HIDE DEF x
<1>4. Leads([s EXCEPT !.obj = [s.obj EXCEPT ![i] = x]], r, [o EXCEPT ![i] = x])
    BY <1>3, ChangedLeads
<1>5. Differs(o, [o EXCEPT ![i] = x], {i}) /\ [o EXCEPT ![i] = x][i] = x
    BY <1>1, <1>3 DEF Differs
<1>6. \E p : /\ Leads([s EXCEPT !.obj = [s.obj EXCEPT ![i] = x]], r, p)
             /\ Differs(o, p, {i}) /\ p[i] = x
    BY <1>4, <1>5
<1> QED BY <1>3, <1>6 DEF x, Relinked

\* yaffs_DoGenericObjectDeletion
LEMMA DeletedAs ==
    ASSUME NEW s, NEW r, NEW o, Leads(s, r, o), NEW i \in Ids
    PROVE  \E p : Leads(Deleted(s, i), r, p) /\ LetGo(o, p, i)
<1>1. PICK p : Leads(Removed(s, i), r, p) /\ Placed(o, p, i, Gone, Gone)
    BY RemovedAs
<1>2. PICK q : Leads(Freed(Removed(s, i), i), r, q) /\ LetGo(p, q, i)
    BY <1>1, FreedLeads DEF Placed
<1>3. Leads(Deleted(s, i), r, q)
    BY <1>2 DEF Deleted
<1>4. LetGo(o, q, i)
    BY <1>1, <1>2 DEF LetGo, Placed, Differs, Alike
<1> QED BY <1>3, <1>4

\* Only the mark of an object is set.
LostOnly(o, p, i) ==
    /\ Differs(o, p, {i}) /\ p[i].lost /\ p[i].dir = o[i].dir /\ p[i].name = o[i].name
    /\ p[i].type = o[i].type /\ p[i].gen = o[i].gen /\ p[i].target = o[i].target
    /\ p[i].links = o[i].links /\ p[i].inode = o[i].inode /\ p[i].deferred = o[i].deferred

\* An object whose header was not written is marked, and nothing else is different.
LEMMA LostAs ==
    ASSUME NEW s, NEW r, NEW o, Leads(s, r, o), NEW i \in Ids
    PROVE  \E p : Leads(Lost(s, i), r, p) /\ LostOnly(o, p, i)
<1> DEFINE x == [s.obj[i] EXCEPT !.lost = TRUE]
<1>1. s.obj = o /\ o \in [Ids -> ObjectRecords]
    BY LeadsTo
<1>2. o[i] \in ObjectRecords
    BY <1>1
<1>3. /\ x \in ObjectRecords /\ x.lost /\ x.links = o[i].links /\ x.dir = o[i].dir
      /\ x.name = o[i].name /\ x.type = o[i].type /\ x.gen = o[i].gen
      /\ x.target = o[i].target /\ x.inode = o[i].inode /\ x.deferred = o[i].deferred
    BY <1>1, <1>2 DEF ObjectRecords
<1>4. Lost(s, i) = [s EXCEPT !.obj = [s.obj EXCEPT ![i] = x]]
    BY DEF Lost
<1> HIDE DEF x
<1>5. Leads([s EXCEPT !.obj = [s.obj EXCEPT ![i] = x]], r, [o EXCEPT ![i] = x])
    BY <1>3, ChangedLeads
<1>6. Differs(o, [o EXCEPT ![i] = x], {i}) /\ [o EXCEPT ![i] = x][i] = x
    BY <1>1, <1>3 DEF Differs
<1>7. Leads(Lost(s, i), r, [o EXCEPT ![i] = x])
    BY <1>4, <1>5
<1>8. \E p : Leads(Lost(s, i), r, p) /\ Differs(o, p, {i}) /\ p[i] = x
    BY <1>6, <1>7
<1> QED BY <1>3, <1>8 DEF LostOnly

(***************************************************************************)
(* An object loses its name.                                               *)
(***************************************************************************)
SameFile(o, p, f) == /\ p[f].type = o[f].type /\ p[f].gen = o[f].gen
                     /\ p[f].inode = o[f].inode /\ p[f].deferred = o[f].deferred
                     /\ o[f].lost => p[f].lost
\* What is a file stays that file, and nothing else has an inode.
FilesKept(o, p) ==
    \A j \in Ids : IF o[j].type = "file" THEN SameFile(o, p, j) ELSE ~p[j].inode

\* The effect of unlinking i.
NameLost(o, p, i) ==
    /\ Objects(p) /\ FilesKept(o, p)
    /\ \A d \in Dirs : \A m : \A g \in Ids :
           Denotes(p, d, m, g) <=> \E x \in Ids : x # i /\ IsAt(o, x, d, m) /\ g = FileOf(o, x)
    /\ \A d \in Dirs : \A m :
           (\A x, y \in Ids \ {i} : IsAt(o, x, d, m) /\ IsAt(o, y, d, m) => x = y)
               => (\A x, y \in Ids : IsAt(p, x, d, m) /\ IsAt(p, y, d, m) => x = y)
    /\ \A g \in Ids : o[g].type = "file" =>
           LC(p, g) = IF g = FileOf(o, i) THEN LC(o, g) - 1 ELSE LC(o, g)
    /\ \A x \in Ids : o[x].type # "free" /\ FileOf(o, x) # FileOf(o, i) => p[x] = o[x]

\* A hard link i to f is deleted.
LinkGone(o, p, i, f) ==
    /\ Differs(o, p, {i, f}) /\ \E g : p[i] = FreeObject(g)
    /\ p[f].links = Without(o[f].links, i) /\ p[f].dir = o[f].dir /\ p[f].name = o[f].name
    /\ p[f].target = o[f].target /\ SameFile(o, p, f)

\* A hard link that is deleted takes one name from its file.
LEMMA LinkGoneLoses ==
    ASSUME NEW o \in [Ids -> ObjectRecords], NEW p, NEW i \in Ids, NEW f \in Ids, Objects(o),
           o[i].type = "link", o[i].dir \in Dirs, o[i].target = f, o[f].inode, LinkGone(o, p, i, f)
    PROVE  NameLost(o, p, i)
<1>1. /\ o[f].type = "file" /\ i # f /\ In(o[f].links, i) /\ FileOf(o, i) = f
      /\ o[f].links \in Seq(Ids) /\ Once(o[f].links) /\ ~o[i].inode /\ o[i].dir \in Dirs
    BY VfsAssumption DEF Objects, LinkOk, FileOk, FileOf, ObjectRecords
<1>2. /\ Once(p[f].links) /\ \A j \in Ids : In(p[f].links, j) <=> j # i /\ In(o[f].links, j)
      /\ Len(p[f].links) = Len(o[f].links) - 1
    <2>1. PICK l : l = o[f].links
        OBVIOUS
    <2>2. l \in Seq(Ids) /\ Once(l) /\ In(l, i)
        BY <1>1, <2>1
    <2>3. p[f].links = Without(l, i)
        BY <2>1 DEF LinkGone
    <2>4. /\ Once(Without(l, i)) /\ \A j \in Ids : In(Without(l, i), j) <=> j # i /\ In(l, j)
          /\ Len(Without(l, i)) = Len(l) - 1
        BY <2>2, WithoutList
    <2> QED BY <2>1, <2>3, <2>4
<1>3. \A j \in Ids : j # i /\ j # f => p[j] = o[j]
    BY DEF LinkGone, Differs
<1>4. /\ p[i].type = "free" /\ p[i].dir = Gone /\ p[i].links = <<>> /\ ~p[i].inode
      /\ ~p[i].deferred
    BY DEF LinkGone, FreeObject
<1>5. /\ p[f].type = "file" /\ p[f].dir = o[f].dir /\ p[f].name = o[f].name
      /\ SameFile(o, p, f) /\ p[f].inode = o[f].inode /\ p[f].deferred = o[f].deferred
    BY <1>1 DEF LinkGone, SameFile
<1>6. \A j \in Ids : FileOk(o, j) /\ LinkOk(o, j) /\ FreeOk(o, j)
    BY DEF Objects
<1>7. ASSUME NEW j \in Ids PROVE FreeOk(p, j) /\ LinkOk(p, j) /\ FileOk(p, j)
    <2>1. CASE j = i
        BY <1>4, <2>1 DEF FreeOk, LinkOk, FileOk
    <2>2. CASE j = f
        <3>1. \A l \in Ids : In(p[f].links, l) =>
                  p[l].type = "link" /\ p[l].target = f /\ p[l].dir \in Dirs
            BY <1>1, <1>2, <1>3, <1>6 DEF FileOk
        <3>2. ~p[f].deferred
            BY <1>1, <1>5, <1>6, NoList DEF FileOk
        <3> QED BY <1>2, <1>5, <2>2, <3>1, <3>2 DEF FreeOk, LinkOk, FileOk
    <2>3. CASE j # i /\ j # f
        <3>1. p[j] = o[j]
            BY <1>3, <2>3
        <3>2. LinkOk(p, j)
            BY <1>1, <1>2, <1>3, <1>4, <1>5, <1>6, <2>3, <3>1 DEF LinkOk
        <3>3. FileOk(p, j)
            BY <1>1, <1>3, <1>6, <2>3, <3>1 DEF FileOk
        <3> QED BY <1>6, <3>1, <3>2, <3>3 DEF FreeOk
    <2> QED BY <2>1, <2>2, <2>3
<1>8. FilesKept(o, p)
    <2> SUFFICES ASSUME NEW j \in Ids
                 PROVE  IF o[j].type = "file" THEN SameFile(o, p, j) ELSE ~p[j].inode
        BY DEF FilesKept
    <2>1. CASE j = i
        BY <1>4, <2>1
    <2>2. CASE j = f
        BY <1>1, <1>5, <2>2
    <2>3. CASE j # i /\ j # f
        <3>1. p[j] = o[j] /\ o[j].type \in {"free", "file", "link"}
            BY <1>3, <2>3 DEF ObjectRecords
        <3> QED BY <1>6, <3>1 DEF SameFile, FreeOk, LinkOk
    <2> QED BY <2>1, <2>2, <2>3
<1>9. \A x \in Ids : x # i => /\ FileOf(p, x) = FileOf(o, x)
                             /\ p[x].dir = o[x].dir /\ p[x].name = o[x].name
    <2> TAKE x \in Ids
    <2> HAVE x # i
    <2>1. CASE x = f
        BY <1>1, <1>5, <2>1 DEF FileOf
    <2>2. CASE x # f
        BY <1>3, <2>2 DEF FileOf
    <2> QED BY <2>1, <2>2
<1>10. ASSUME NEW d \in Dirs, NEW m
       PROVE  \A x \in Ids : IsAt(p, x, d, m) <=> x # i /\ IsAt(o, x, d, m)
    BY <1>4, <1>9, VfsAssumption DEF IsAt
<1>11. \A d \in Dirs : \A m : \A g \in Ids :
           Denotes(p, d, m, g) <=> \E x \in Ids : x # i /\ IsAt(o, x, d, m) /\ g = FileOf(o, x)
    BY <1>9, <1>10 DEF Denotes
<1>12. \A d \in Dirs : \A m :
           (\A x, y \in Ids \ {i} : IsAt(o, x, d, m) /\ IsAt(o, y, d, m) => x = y)
               => (\A x, y \in Ids : IsAt(p, x, d, m) /\ IsAt(p, y, d, m) => x = y)
    BY <1>10
<1>13. ASSUME NEW g \in Ids, o[g].type = "file"
       PROVE  LC(p, g) = IF g = FileOf(o, i) THEN LC(o, g) - 1 ELSE LC(o, g)
    <2>1. CASE g = f
        <3>1. PICK a : a = Len(o[f].links)
            OBVIOUS
        <3>2. a \in Nat /\ Len(p[f].links) = a - 1
            BY <1>1, <1>2, <3>1
        <3>3. LC(o, f) = (IF o[f].dir \in Dirs THEN 1 ELSE 0) + a
            BY <3>1 DEF LC
        <3>4. LC(p, f) = (IF o[f].dir \in Dirs THEN 1 ELSE 0) + (a - 1)
            BY <1>5, <3>2 DEF LC
        <3> QED BY <1>1, <2>1, <3>2, <3>3, <3>4
    <2>2. CASE g # f
        BY <1>1, <1>3, <1>13, <2>2 DEF LC
    <2> QED BY <2>1, <2>2
<1>14. ASSUME NEW x \in Ids, o[x].type # "free", FileOf(o, x) # FileOf(o, i)
       PROVE  p[x] = o[x]
    BY <1>1, <1>3, <1>14 DEF FileOf
<1>15. Objects(p)
    BY <1>7 DEF Objects
<1> QED BY <1>8, <1>11, <1>12, <1>13, <1>14, <1>15 DEF NameLost

\* An object that was a hard link is free, or has been left without a name.
LinkLeft(x) == /\ x.type = "free" \/ (x.type = "link" /\ x.lost)
               /\ x.dir = Gone /\ x.links = <<>> /\ ~x.inode /\ ~x.deferred

\* A file i takes over the name of its first hard link h.
TakenGone(o, p, i, h) ==
    /\ Differs(o, p, {i, h}) /\ LinkLeft(p[h])
    /\ p[i].links = Tail(o[i].links) /\ p[i].dir = o[h].dir /\ p[i].name = o[h].name
    /\ p[i].target = o[i].target /\ SameFile(o, p, i)

\* A file that takes the place of its first link loses one name.
LEMMA TakenGoneLoses ==
    ASSUME NEW o \in [Ids -> ObjectRecords], NEW p, NEW i \in Ids, NEW h \in Ids, Objects(o),
           o[i].type = "file", o[i].dir \in Dirs, o[i].links # <<>>, h = Head(o[i].links),
           TakenGone(o, p, i, h)
    PROVE  NameLost(o, p, i)
<1>1. \A j \in Ids : FileOk(o, j) /\ LinkOk(o, j) /\ FreeOk(o, j)
    BY DEF Objects
<1>2. o[i].links \in Seq(Ids) /\ Once(o[i].links)
    BY <1>1 DEF FileOk, ObjectRecords
<1>3. /\ In(o[i].links, h) /\ Once(p[i].links)
      /\ \A j \in Ids : In(p[i].links, j) <=> j # h /\ In(o[i].links, j)
      /\ Len(p[i].links) = Len(o[i].links) - 1
    BY <1>2, TailList DEF TakenGone
<1>4. /\ o[h].type = "link" /\ o[h].target = i /\ h # i /\ o[h].dir \in Dirs /\ ~o[h].inode
      /\ FileOf(o, i) = i /\ FileOf(o, h) = i
    BY <1>1, <1>3, VfsAssumption DEF FileOk, LinkOk, FileOf
<1>5. \A j \in Ids : j # i /\ j # h => p[j] = o[j]
    BY DEF TakenGone, Differs
<1>6. /\ p[h].type = "free" \/ (p[h].type = "link" /\ p[h].lost)
      /\ p[h].dir = Gone /\ p[h].links = <<>> /\ ~p[h].inode /\ ~p[h].deferred
    BY DEF TakenGone, LinkLeft
<1>7. /\ p[i].type = "file" /\ p[i].dir = o[h].dir /\ p[i].name = o[h].name
      /\ SameFile(o, p, i) /\ p[i].inode = o[i].inode /\ p[i].deferred = o[i].deferred
    BY <1>1 DEF TakenGone, SameFile
<1>8. ~o[i].deferred
    BY <1>1 DEF FileOk
<1>9. ASSUME NEW j \in Ids PROVE FreeOk(p, j) /\ LinkOk(p, j) /\ FileOk(p, j)
    <2>1. CASE j = h
        BY <1>6, <2>1 DEF FreeOk, LinkOk, FileOk
    <2>2. CASE j = i
        <3>1. \A l \in Ids : In(p[i].links, l) =>
                  p[l].type = "link" /\ p[l].target = i /\ p[l].dir \in Dirs
            BY <1>1, <1>3, <1>4, <1>5 DEF FileOk
        <3> QED BY <1>3, <1>4, <1>7, <1>8, <2>2, <3>1 DEF FreeOk, LinkOk, FileOk
    <2>3. CASE j # i /\ j # h
        <3>1. p[j] = o[j]
            BY <1>5, <2>3
        <3>2. LinkOk(p, j)
            BY <1>1, <1>3, <1>4, <1>5, <1>6, <1>7, <2>3, <3>1 DEF LinkOk
        <3>3. FileOk(p, j)
            BY <1>1, <1>4, <1>5, <2>3, <3>1 DEF FileOk
        <3> QED BY <1>1, <3>1, <3>2, <3>3 DEF FreeOk
    <2> QED BY <2>1, <2>2, <2>3
<1>10. FilesKept(o, p)
    <2> SUFFICES ASSUME NEW j \in Ids
                 PROVE  IF o[j].type = "file" THEN SameFile(o, p, j) ELSE ~p[j].inode
        BY DEF FilesKept
    <2>1. CASE j = h
        BY <1>4, <1>6, <2>1
    <2>2. CASE j = i
        BY <1>7, <2>2
    <2>3. CASE j # i /\ j # h
        <3>1. p[j] = o[j] /\ o[j].type \in {"free", "file", "link"}
            BY <1>5, <2>3 DEF ObjectRecords
        <3> QED BY <1>1, <3>1 DEF SameFile, FreeOk, LinkOk
    <2> QED BY <2>1, <2>2, <2>3
<1>11. \A x \in Ids : x # i /\ x # h => /\ FileOf(p, x) = FileOf(o, x) /\ p[x] = o[x]
    BY <1>5 DEF FileOf
<1>12. FileOf(p, i) = i
    BY <1>7 DEF FileOf
<1>13. ASSUME NEW d \in Dirs, NEW m
       PROVE  /\ \A x \in Ids : x # i /\ x # h => (IsAt(p, x, d, m) <=> IsAt(o, x, d, m))
              /\ ~IsAt(p, h, d, m) /\ (IsAt(p, i, d, m) <=> IsAt(o, h, d, m))
    BY <1>6, <1>7, <1>11, VfsAssumption DEF IsAt
<1>14. ASSUME NEW d \in Dirs, NEW m, NEW g \in Ids
       PROVE  Denotes(p, d, m, g) <=> \E x \in Ids : x # i /\ IsAt(o, x, d, m) /\ g = FileOf(o, x)
    <2>1. ASSUME Denotes(p, d, m, g)
          PROVE  \E x \in Ids : x # i /\ IsAt(o, x, d, m) /\ g = FileOf(o, x)
        <3>1. PICK x \in Ids : IsAt(p, x, d, m) /\ g = FileOf(p, x)
            BY <2>1 DEF Denotes
        <3>2. CASE x = i
            BY <1>4, <1>12, <1>13, <3>1, <3>2
        <3>3. CASE x # i
            BY <1>11, <1>13, <3>1, <3>3
        <3> QED BY <3>2, <3>3
    <2>2. ASSUME NEW x \in Ids, x # i, IsAt(o, x, d, m), g = FileOf(o, x)
          PROVE  Denotes(p, d, m, g)
        <3>1. CASE x = h
            BY <1>4, <1>12, <1>13, <2>2, <3>1 DEF Denotes
        <3>2. CASE x # h
            BY <1>11, <1>13, <2>2, <3>2 DEF Denotes
        <3> QED BY <3>1, <3>2
    <2> QED BY <2>1, <2>2
<1>15. ASSUME NEW d \in Dirs, NEW m,
              \A x, y \in Ids \ {i} : IsAt(o, x, d, m) /\ IsAt(o, y, d, m) => x = y,
              NEW x \in Ids, NEW y \in Ids, IsAt(p, x, d, m), IsAt(p, y, d, m)
       PROVE  x = y
    <2>1. x # h /\ y # h
        BY <1>13, <1>15
    <2>2. CASE x = i
        <3>1. y # i => IsAt(o, h, d, m) /\ IsAt(o, y, d, m) /\ h # i
            BY <1>4, <1>13, <1>15, <2>1, <2>2
        <3> QED BY <1>15, <2>1, <2>2, <3>1
    <2>3. CASE y = i
        <3>1. x # i => IsAt(o, h, d, m) /\ IsAt(o, x, d, m) /\ h # i
            BY <1>4, <1>13, <1>15, <2>1, <2>3
        <3> QED BY <1>15, <2>1, <2>3, <3>1
    <2>4. CASE x # i /\ y # i
        BY <1>13, <1>15, <2>1, <2>4
    <2> QED BY <2>2, <2>3, <2>4
<1>16. ASSUME NEW g \in Ids, o[g].type = "file"
       PROVE  LC(p, g) = IF g = FileOf(o, i) THEN LC(o, g) - 1 ELSE LC(o, g)
    <2>1. CASE g = i
        <3>1. PICK a : a = Len(o[i].links)
            OBVIOUS
        <3>2. a \in Nat /\ Len(p[i].links) = a - 1
            BY <1>2, <1>3, <3>1
        <3>3. LC(o, i) = 1 + a
            BY <3>1 DEF LC
        <3>4. LC(p, i) = 1 + (a - 1)
            BY <1>4, <1>7, <3>2 DEF LC
        <3> QED BY <1>4, <2>1, <3>2, <3>3, <3>4
    <2>2. CASE g # i
        BY <1>4, <1>5, <1>16, <2>2 DEF LC
    <2> QED BY <2>1, <2>2
<1>17. ASSUME NEW x \in Ids, o[x].type # "free", FileOf(o, x) # FileOf(o, i)
       PROVE  p[x] = o[x]
    BY <1>4, <1>5, <1>17
<1>18. Objects(p)
    BY <1>9 DEF Objects
<1> QED BY <1>10, <1>14, <1>15, <1>16, <1>17, <1>18 DEF NameLost

\* A file in use without hard links is in no directory any more.
NameGone(o, p, i) ==
    /\ Differs(o, p, {i}) /\ p[i].dir = Gone /\ p[i].links = <<>> /\ SameFile(o, p, i)

\* A file that leaves its only directory loses its name, and stays for its inode.
LEMMA NameGoneLoses ==
    ASSUME NEW o \in [Ids -> ObjectRecords], NEW p, NEW i \in Ids, Objects(o),
           o[i].type = "file", o[i].dir \in Dirs, o[i].links = <<>>, o[i].inode,
           NameGone(o, p, i)
    PROVE  NameLost(o, p, i)
<1>1. \A j \in Ids : FileOk(o, j) /\ LinkOk(o, j) /\ FreeOk(o, j)
    BY DEF Objects
<1>2. \A j \in Ids : j # i => p[j] = o[j]
    BY DEF NameGone, Differs
<1>3. /\ p[i].type = "file" /\ p[i].dir = Gone /\ p[i].links = <<>> /\ p[i].inode
      /\ p[i].deferred = o[i].deferred /\ SameFile(o, p, i) /\ FileOf(p, i) = i /\ FileOf(o, i) = i
    BY DEF NameGone, SameFile, FileOf
<1>4. ASSUME NEW j \in Ids PROVE FreeOk(p, j) /\ LinkOk(p, j) /\ FileOk(p, j)
    <2>1. CASE j = i
        BY <1>1, <1>3, <2>1, NoList DEF FreeOk, LinkOk, FileOk
    <2>2. CASE j # i
        <3>1. p[j] = o[j]
            BY <1>2, <2>2
        <3>2. LinkOk(p, j)
            BY <1>1, <1>2, <2>2, <3>1, NoList DEF LinkOk
        <3>3. FileOk(p, j)
            BY <1>1, <1>2, <2>2, <3>1 DEF FileOk
        <3> QED BY <1>1, <3>1, <3>2, <3>3 DEF FreeOk
    <2> QED BY <2>1, <2>2
<1>5. FilesKept(o, p)
    BY <1>1, <1>2, <1>3 DEF FilesKept, SameFile, FreeOk, LinkOk, ObjectRecords
<1>6. \A x \in Ids : x # i => FileOf(p, x) = FileOf(o, x) /\ p[x] = o[x]
    BY <1>2 DEF FileOf
<1>7. ASSUME NEW d \in Dirs, NEW m
      PROVE  \A x \in Ids : IsAt(p, x, d, m) <=> x # i /\ IsAt(o, x, d, m)
    BY <1>3, <1>6, VfsAssumption DEF IsAt
<1>8. \A d \in Dirs : \A m : \A g \in Ids :
           Denotes(p, d, m, g) <=> \E x \in Ids : x # i /\ IsAt(o, x, d, m) /\ g = FileOf(o, x)
    BY <1>6, <1>7 DEF Denotes
<1>9. \A d \in Dirs : \A m :
           (\A x, y \in Ids \ {i} : IsAt(o, x, d, m) /\ IsAt(o, y, d, m) => x = y)
               => (\A x, y \in Ids : IsAt(p, x, d, m) /\ IsAt(p, y, d, m) => x = y)
    BY <1>7
<1>10. ASSUME NEW g \in Ids, o[g].type = "file"
       PROVE  LC(p, g) = IF g = FileOf(o, i) THEN LC(o, g) - 1 ELSE LC(o, g)
    <2>1. CASE g = i
        <3>1. Len(<<>>) = 0
            OBVIOUS
        <3>2. LC(p, g) = 0 + Len(<<>>) /\ LC(o, g) = 1 + Len(<<>>)
            BY <1>3, <2>1, VfsAssumption DEF LC
        <3> QED BY <1>3, <2>1, <3>1, <3>2
    <2>2. CASE g # i
        BY <1>2, <1>3, <2>2 DEF LC
    <2> QED BY <2>1, <2>2
<1>11. ASSUME NEW x \in Ids, o[x].type # "free", FileOf(o, x) # FileOf(o, i)
       PROVE  p[x] = o[x]
    BY <1>2, <1>11
<1>12. Objects(p)
    BY <1>4 DEF Objects
<1> QED BY <1>5, <1>8, <1>9, <1>10, <1>11, <1>12 DEF NameLost

\* yaffs_UnlinkObject of what names a file in use
LEMMA UnlinkedAs ==
    ASSUME NEW s, NEW r, NEW o, Leads(s, r, o), NEW i \in Ids, NEW w \in BOOLEAN, Objects(o),
           o[i].dir \in Dirs, o[FileOf(o, i)].inode
    PROVE  \E p : Leads(Unlinked(s, i, w), r, p) /\ NameLost(o, p, i)
<1>1. s.obj = o /\ o \in [Ids -> ObjectRecords]
    BY LeadsTo
<1>2. \A j \in Ids : FileOk(o, j) /\ LinkOk(o, j) /\ FreeOk(o, j)
    BY DEF Objects
<1>3. CASE o[i].type = "link"
    <2>1. PICK f \in Ids : f = o[i].target
        BY <1>2, <1>3, VfsAssumption DEF LinkOk
    <2>2. /\ o[f].type = "file" /\ i # f /\ In(o[f].links, i) /\ FileOf(o, i) = f /\ o[f].inode
          /\ o[f].links \in Seq(Ids) /\ Once(o[f].links) /\ ~o[i].inode
        BY <1>1, <1>2, <1>3, <2>1, VfsAssumption DEF LinkOk, FileOk, FileOf, ObjectRecords
    <2>3. PICK l : l = Without(o[f].links, i)
        OBVIOUS
    <2>4. l \in Seq(Ids)
        <3>1. PICK v : v = o[f].links
            OBVIOUS
        <3>2. v \in Seq(Ids) /\ Once(v) /\ l = Without(v, i)
            BY <2>2, <2>3, <3>1
        <3> QED BY <3>2, WithoutList
    <2> DEFINE u == [s EXCEPT !.obj = [s.obj EXCEPT ![f] = [s.obj[f] EXCEPT !.links = l]]]
    <2>5. Unlinked(s, i, w) = Deleted(u, i)
        <3>1. Unlinked(s, i, w) = LinkDeleted(s, i)
            BY <1>1, <1>3 DEF Unlinked
        <3>2. s.obj[i].target = f /\ Without(s.obj[f].links, i) = l
            BY <1>1, <2>1, <2>3
        <3>3. LinkDeleted(s, i)
              = Deleted([s EXCEPT !.obj = [s.obj EXCEPT ![f] = [s.obj[f] EXCEPT !.links =
                            Without(s.obj[f].links, i)]]], i)
            BY <3>2 DEF LinkDeleted
        <3> QED BY <3>1, <3>2, <3>3
    <2>6. PICK p : Leads(u, r, p) /\ Relinked(o, p, f, l)
        BY <2>4, LinksAs
    <2> HIDE DEF u
    <2>7. p[i] = o[i] /\ ~p[i].inode
        BY <2>2, <2>6 DEF Relinked, Differs
    <2>8. PICK q : Leads(Deleted(u, i), r, q) /\ LetGo(p, q, i)
        BY <2>6, DeletedAs
    <2>9. q[f] = p[f] /\ Differs(o, q, {i, f}) /\ q[i] = FreeObject(p[i].gen + 1)
        BY <2>2, <2>6, <2>7, <2>8 DEF Relinked, LetGo, Differs
    <2>10. LinkGone(o, q, i, f)
        BY <2>3, <2>6, <2>9 DEF LinkGone, SameFile, Relinked
    <2>11. NameLost(o, q, i)
        BY <1>1, <1>3, <2>1, <2>2, <2>10, LinkGoneLoses
    <2> QED BY <2>5, <2>8, <2>11
<1>4. CASE o[i].type = "file" /\ o[i].links # <<>>
    <2>1. o[i] \in ObjectRecords /\ o[i].links \in Seq(Ids) /\ Once(o[i].links)
        BY <1>1, <1>2, <1>4 DEF FileOk, ObjectRecords
    <2>2. PICK l : l = o[i].links
        OBVIOUS
    <2>3. l \in Seq(Ids) /\ l # <<>> /\ Once(l)
        BY <1>4, <2>1, <2>2
    <2>4. PICK h \in Ids : h = Head(l) /\ In(l, h)
        BY <2>3, TailList
    <2>5. PICK rest : rest = Tail(l) /\ rest \in Seq(Ids)
        BY <2>3, TailList
    <2>6. /\ o[h].type = "link" /\ o[h].target = i /\ h # i /\ o[h].dir \in Dirs /\ ~o[h].inode
          /\ o[h].name \in Names \cup {Gone}
        BY <1>1, <1>2, <1>4, <2>2, <2>4 DEF FileOk, LinkOk, ObjectRecords
    <2>7. PICK d \in Dirs, n \in Names \cup {Gone} : d = o[h].dir /\ n = o[h].name
        BY <2>6
    <2> DEFINE u == [s EXCEPT !.obj = [s.obj EXCEPT ![i] = [s.obj[i] EXCEPT !.links = rest]]]
    <2> DEFINE moved == Added(Removed(u, h), i, d, n)
    <2>8. Unlinked(s, i, w) = IF w THEN Deleted(moved, h) ELSE Lost(moved, h)
        <3>1. Unlinked(s, i, w) = TakenOver(s, i, w)
            BY <1>1, <1>4 DEF Unlinked
        <3>2. Head(s.obj[i].links) = h /\ Tail(s.obj[i].links) = rest
            BY <1>1, <2>2, <2>4, <2>5
        <3>3. s.obj[h].dir = d /\ s.obj[h].name = n
            BY <1>1, <2>7
        <3> DEFINE taken == Added(Removed([s EXCEPT !.obj = [s.obj EXCEPT ![i] = [s.obj[i] EXCEPT !.links =
                            Tail(s.obj[i].links)]]], h), i, s.obj[h].dir, s.obj[h].name)
        <3>4. TakenOver(s, i, w) = IF w THEN Deleted(taken, h) ELSE Lost(taken, h)
            BY <3>2 DEF TakenOver
        <3>5. taken = moved
            BY <3>2, <3>3
        <3> HIDE DEF taken, moved
        <3> QED BY <3>1, <3>4, <3>5
    <2>9. PICK p : Leads(u, r, p) /\ Relinked(o, p, i, rest)
        BY <2>5, LinksAs
    <2> HIDE DEF u
    <2>10. PICK q : Leads(Removed(u, h), r, q) /\ Placed(p, q, h, Gone, Gone)
        BY <2>9, RemovedAs
    <2>11. PICK v : Leads(moved, r, v) /\ Placed(q, v, i, d, n)
        BY <2>10, AddedAs
    <2> HIDE DEF moved
    <2>12. /\ ~v[h].inode /\ v[h].dir = Gone /\ v[h].links = <<>> /\ ~v[h].deferred
           /\ v[h].type = "link"
        <3>1. v[h] = q[h] /\ p[h] = o[h]
            BY <2>6, <2>9, <2>11 DEF Relinked, Placed, Differs
        <3>2. o[h].links = <<>> /\ ~o[h].deferred
            BY <1>2, <2>6 DEF LinkOk
        <3> QED BY <2>6, <2>10, <3>1, <3>2 DEF Placed, Alike
    <2>13. PICK z : Leads(Unlinked(s, i, w), r, z) /\ Differs(v, z, {h}) /\ LinkLeft(z[h])
        <3>1. CASE w
            <4>1. PICK z : Leads(Deleted(moved, h), r, z) /\ LetGo(v, z, h)
                BY <2>11, DeletedAs
            <4>2. Differs(v, z, {h}) /\ z[h] = FreeObject(v[h].gen + 1)
                BY <2>12, <4>1 DEF LetGo
            <4>3. LinkLeft(z[h])
                BY <4>2 DEF LinkLeft, FreeObject
            <4> QED BY <2>8, <3>1, <4>1, <4>2, <4>3
        <3>2. CASE ~w
            <4>1. PICK z : Leads(Lost(moved, h), r, z) /\ LostOnly(v, z, h)
                BY <2>11, LostAs
            <4>2. Differs(v, z, {h}) /\ LinkLeft(z[h])
                BY <2>12, <4>1 DEF LostOnly, LinkLeft
            <4> QED BY <2>8, <3>2, <4>1, <4>2
        <3> QED BY <3>1, <3>2
    <2>14. z[i] = v[i] /\ q[i] = p[i] /\ Differs(o, z, {i, h})
        BY <2>6, <2>9, <2>10, <2>11, <2>13 DEF Relinked, Placed, Differs
    <2>15. TakenGone(o, z, i, h)
        BY <2>2, <2>5, <2>7, <2>9, <2>11, <2>13, <2>14 DEF TakenGone, SameFile, Alike, Relinked, Placed
    <2>16. NameLost(o, z, i)
        BY <1>1, <1>4, <2>2, <2>4, <2>15, TakenGoneLoses
    <2> QED BY <2>13, <2>16
<1>5. CASE o[i].type = "file" /\ o[i].links = <<>>
    <2>1. FileOf(o, i) = i /\ o[i].inode
        BY <1>5 DEF FileOf
    <2>2. Unlinked(s, i, w) = Removed(s, i)
        BY <1>1, <1>5, <2>1 DEF Unlinked
    <2>3. PICK p : Leads(Removed(s, i), r, p) /\ Placed(o, p, i, Gone, Gone)
        BY RemovedAs
    <2>4. NameGone(o, p, i)
        BY <1>5, <2>3 DEF NameGone, SameFile, Alike, Placed
    <2> QED BY <1>1, <1>5, <2>1, <2>2, <2>3, <2>4, NameGoneLoses
<1>6. o[i].type \in {"file", "link"}
    BY <1>1, <1>2, VfsAssumption DEF FreeOk, ObjectRecords
<1> QED BY <1>3, <1>4, <1>5, <1>6

(***************************************************************************)
(* Steps of the tree: what the names outside of D stand for is kept, and   *)
(* file f has count more names.                                            *)
(***************************************************************************)
NamesKept(o, p, D) ==
    \A d \in Dirs \ D : \A m : \A g \in Ids : Denotes(p, d, m, g) <=> Denotes(o, d, m, g)
TreeStep(o, p, D, f, count) ==
    /\ p \in [Ids -> ObjectRecords] /\ Objects(p) /\ NamesUnique(p)
    /\ FilesKept(o, p) /\ NamesKept(o, p, D)
    /\ \A g \in Ids : o[g].type = "file" => LC(p, g) = IF g = f THEN LC(o, g) + count ELSE LC(o, g)

\* What is in a directory stands for a file.
LEMMA FileOfIs ==
    ASSUME NEW o \in [Ids -> ObjectRecords], Objects(o), NEW i \in Ids, o[i].dir \in Dirs
    PROVE  FileOf(o, i) \in Ids /\ o[FileOf(o, i)].type = "file"
<1>1. FreeOk(o, i) /\ LinkOk(o, i) /\ o[i] \in ObjectRecords
    BY DEF Objects
<1> QED BY <1>1, VfsAssumption DEF FreeOk, LinkOk, FileOf, ObjectRecords

\* A name that stands for nothing.
LEMMA NoneIs ==
    ASSUME NEW o \in [Ids -> ObjectRecords], Objects(o), NEW d \in Dirs, NEW n
    PROVE  NoneAt(o, d, n) <=> \A g \in Ids : ~Denotes(o, d, n, g)
<1>1. \A i \in Ids : IsAt(o, i, d, n) => FileOf(o, i) \in Ids
    BY FileOfIs DEF IsAt
<1> QED BY <1>1 DEF NoneAt, Denotes

\* Of unlinking.
LEMMA LostIsStep ==
    ASSUME NEW o \in [Ids -> ObjectRecords], NEW p \in [Ids -> ObjectRecords], NEW i \in Ids,
           Objects(o), NamesUnique(o), NameLost(o, p, i), o[i].dir \in Dirs
    PROVE  TreeStep(o, p, {o[i].dir}, FileOf(o, i), -1)
<1>1. Objects(p) /\ FilesKept(o, p)
    BY DEF NameLost
<1>2. NamesUnique(p)
    <2> SUFFICES ASSUME NEW d \in Dirs, NEW m, NEW x \in Ids, NEW y \in Ids,
                        IsAt(p, x, d, m), IsAt(p, y, d, m)
                 PROVE  x = y
        BY DEF NamesUnique
    <2>1. \A a, b \in Ids \ {i} : IsAt(o, a, d, m) /\ IsAt(o, b, d, m) => a = b
        BY DEF NamesUnique
    <2>2. (\A a, b \in Ids \ {i} : IsAt(o, a, d, m) /\ IsAt(o, b, d, m) => a = b)
               => (\A a, b \in Ids : IsAt(p, a, d, m) /\ IsAt(p, b, d, m) => a = b)
        BY DEF NameLost
    <2> QED BY <2>1, <2>2
<1>3. NamesKept(o, p, {o[i].dir})
    <2> SUFFICES ASSUME NEW d \in Dirs, d # o[i].dir, NEW m, NEW g \in Ids
                 PROVE  Denotes(p, d, m, g) <=> Denotes(o, d, m, g)
        BY DEF NamesKept
    <2>1. Denotes(p, d, m, g) <=> \E x \in Ids : x # i /\ IsAt(o, x, d, m) /\ g = FileOf(o, x)
        BY DEF NameLost
    <2>2. \A x \in Ids : IsAt(o, x, d, m) => x # i
        BY DEF IsAt
    <2> QED BY <2>1, <2>2 DEF Denotes
<1>4. ASSUME NEW g \in Ids, o[g].type = "file"
      PROVE  LC(p, g) = IF g = FileOf(o, i) THEN LC(o, g) + -1 ELSE LC(o, g)
    <2>1. LC(p, g) = IF g = FileOf(o, i) THEN LC(o, g) - 1 ELSE LC(o, g)
        BY <1>4 DEF NameLost
    <2>2. LC(o, g) \in Int
        BY DEF LC, ObjectRecords
    <2> HIDE DEF LC
    <2> QED BY <2>1, <2>2
<1> QED BY <1>1, <1>2, <1>3, <1>4 DEF TreeStep

\* Of an object that is moved to another place.
MovedTo(o, p, i, d, n) ==
    /\ p \in [Ids -> ObjectRecords] /\ Objects(p) /\ FilesKept(o, p)
    /\ \A x \in Ids : SameFile(o, p, x) /\ FileOf(p, x) = FileOf(o, x) /\ LC(p, x) = LC(o, x)
    /\ \A x \in Ids : x # i => p[x] = o[x]
    /\ p[i].dir = d /\ p[i].name = n

\* An object that moves within the tree keeps its names.
LEMMA PlacedKeeps ==
    ASSUME NEW o \in [Ids -> ObjectRecords], NEW p, NEW i \in Ids, NEW d \in Dirs, NEW n,
           Objects(o), o[i].dir \in Dirs, Placed(o, p, i, d, n)
    PROVE  MovedTo(o, p, i, d, n)
<1>1. /\ p \in [Ids -> ObjectRecords] /\ p[i].dir = d /\ p[i].name = n
      /\ \A x \in Ids : x # i => p[x] = o[x]
    BY DEF Placed, Differs
<1>2. \A x \in Ids : Alike(p[x], o[x])
    BY <1>1 DEF Placed, Alike
<1>3. \A x \in Ids : FreeOk(o, x) /\ LinkOk(o, x) /\ FileOk(o, x)
    BY DEF Objects
<1>4. \A x \in Ids : p[x].dir # o[x].dir => p[x].dir \in Dirs /\ o[x].dir \in Dirs
    BY <1>1
<1>5. ASSUME NEW x \in Ids PROVE FreeOk(p, x) /\ LinkOk(p, x) /\ FileOk(p, x)
    <2>1. FreeOk(p, x)
        BY <1>2, <1>3, <1>4, VfsAssumption DEF FreeOk, Alike
    <2>2. LinkOk(p, x)
        <3>1. (p[x].dir = Gone <=> o[x].dir = Gone) /\ LinkOk(o, x) /\ Alike(p[x], o[x])
            BY <1>2, <1>3, <1>4, VfsAssumption
        <3>2. \A y \in Ids : p[y].type = o[y].type /\ p[y].links = o[y].links
            BY <1>2 DEF Alike
        <3> QED BY <3>1, <3>2 DEF LinkOk, Alike
    <2>3. FileOk(p, x)
        BY <1>2, <1>3, <1>4, VfsAssumption DEF FileOk, Alike
    <2> QED BY <2>1, <2>2, <2>3
<1>6. \A x \in Ids : /\ SameFile(o, p, x) /\ p[x].links = o[x].links
                     /\ FileOf(p, x) = FileOf(o, x) /\ LC(p, x) = LC(o, x)
    <2> TAKE x \in Ids
    <2>1. SameFile(o, p, x) /\ p[x].links = o[x].links /\ FileOf(p, x) = FileOf(o, x)
        BY <1>2 DEF SameFile, FileOf, Alike
    <2>2. p[x].dir \in Dirs <=> o[x].dir \in Dirs
        BY <1>4
    <2>3. LC(p, x) = LC(o, x)
        BY <2>1, <2>2 DEF LC
    <2> QED BY <2>1, <2>3
<1>7. FilesKept(o, p)
    <2> SUFFICES ASSUME NEW x \in Ids, o[x].type # "file" PROVE ~p[x].inode
        BY <1>6 DEF FilesKept
    <2>1. ~o[x].inode
        BY <1>3 DEF FreeOk, LinkOk, ObjectRecords
    <2> QED BY <1>6, <2>1 DEF SameFile
<1> QED BY <1>1, <1>5, <1>6, <1>7 DEF Objects, MovedTo

\* yaffs_RenameObject to a name that is not there
LEMMA PlacedIsStep ==
    ASSUME NEW o \in [Ids -> ObjectRecords], NEW p, NEW i \in Ids, NEW d \in Dirs, NEW n,
           Objects(o), NamesUnique(o), o[i].dir \in Dirs, NoneAt(o, d, n), Placed(o, p, i, d, n)
    PROVE  TreeStep(o, p, {o[i].dir, d}, NoId, 0)
<1>0. MovedTo(o, p, i, d, n)
    BY PlacedKeeps
<1>1. /\ p \in [Ids -> ObjectRecords] /\ Objects(p) /\ FilesKept(o, p)
      /\ \A x \in Ids : FileOf(p, x) = FileOf(o, x) /\ LC(p, x) = LC(o, x)
      /\ \A x \in Ids : x # i => p[x] = o[x]
      /\ p[i].dir = d /\ p[i].name = n
    BY <1>0 DEF MovedTo
<1>2. NamesUnique(p)
    <2> SUFFICES ASSUME NEW e \in Dirs, NEW m, NEW x \in Ids, NEW y \in Ids,
                        IsAt(p, x, e, m), IsAt(p, y, e, m)
                 PROVE  x = y
        BY DEF NamesUnique
    <2>1. \A z \in Ids : z # i /\ IsAt(p, z, e, m) => IsAt(o, z, e, m)
        BY <1>1 DEF IsAt
    <2>2. IsAt(p, i, e, m) => e = d /\ m = n
        BY <1>1 DEF IsAt
    <2> QED BY <2>1, <2>2 DEF NamesUnique, NoneAt
<1>3. NamesKept(o, p, {o[i].dir, d})
    <2> SUFFICES ASSUME NEW e \in Dirs, e # o[i].dir, e # d, NEW m, NEW g \in Ids
                 PROVE  Denotes(p, e, m, g) <=> Denotes(o, e, m, g)
        BY DEF NamesKept
    <2>1. \A x \in Ids : IsAt(p, x, e, m) <=> IsAt(o, x, e, m)
        BY <1>1 DEF IsAt
    <2> QED BY <1>1, <2>1 DEF Denotes
<1>4. NoId \notin Ids
    BY VfsAssumption
<1> QED BY <1>1, <1>2, <1>3, <1>4 DEF TreeStep

\* yaffs_RenameObject moves the object; what had the name loses it.
LEMMA RenamedAs ==
    ASSUME NEW s, NEW r, NEW o, Leads(s, r, o), NEW i \in Ids, NEW j \in Ids \cup {NoId}, NEW w \in BOOLEAN,
           NEW d \in Dirs, NEW n \in Names \cup {Gone},
           Objects(o), NamesUnique(o), o[i].dir \in Dirs,
           j = NoId => NoneAt(o, d, n),
           j # NoId => /\ IsAt(o, j, d, n) /\ FileOf(o, i) # FileOf(o, j)
                       /\ o[FileOf(o, j)].inode
    PROVE  \E p : /\ Leads(Renamed(s, i, j, d, n, w), r, p)
                  /\ IF j = NoId THEN TreeStep(o, p, {o[i].dir, d}, NoId, 0)
                     ELSE TreeStep(o, p, {o[i].dir, d}, FileOf(o, j), -1)
<1>1. o \in [Ids -> ObjectRecords]
    BY LeadsTo
<1>2. PICK p : Leads(Added(s, i, d, n), r, p) /\ Placed(o, p, i, d, n)
    BY AddedAs
<1>3. CASE j = NoId
    <2>1. Renamed(s, i, j, d, n, w) = Added(s, i, d, n)
        BY <1>3 DEF Renamed
    <2>2. TreeStep(o, p, {o[i].dir, d}, NoId, 0)
        BY <1>1, <1>2, <1>3, PlacedIsStep
    <2> QED BY <1>2, <1>3, <2>1, <2>2
<1>4. CASE j # NoId
    <2>0. Renamed(s, i, j, d, n, w) = Added(Unlinked(Added(s, i, d, n), j, w), i, d, n)
        BY <1>4 DEF Renamed
    <2>a. MovedTo(o, p, i, d, n)
        BY <1>1, <1>2, PlacedKeeps
    <2>1. /\ p \in [Ids -> ObjectRecords] /\ Objects(p) /\ FilesKept(o, p)
          /\ \A x \in Ids : SameFile(o, p, x) /\ FileOf(p, x) = FileOf(o, x) /\ LC(p, x) = LC(o, x)
          /\ \A x \in Ids : x # i => p[x] = o[x]
          /\ p[i].dir = d /\ p[i].name = n
        BY <2>a DEF MovedTo
    <2>2. j \in Ids /\ i # j /\ o[j].dir = d /\ p[j] = o[j]
        BY <1>4, <2>1 DEF IsAt
    <2>3. FileOf(o, j) \in Ids /\ o[FileOf(o, j)].type = "file"
        BY <1>1, <2>2, FileOfIs
    <2>4. p[FileOf(p, j)].inode
        BY <1>4, <2>1, <2>2, <2>3 DEF SameFile
    <2>5. PICK q : Leads(Unlinked(Added(s, i, d, n), j, w), r, q) /\ NameLost(p, q, j)
        BY <1>2, <2>1, <2>2, <2>4, UnlinkedAs
    <2>6. PICK v : /\ Leads(Added(Unlinked(Added(s, i, d, n), j, w), i, d, n), r, v)
                   /\ Placed(q, v, i, d, n)
        BY <2>5, AddedAs
    <2>7. q \in [Ids -> ObjectRecords] /\ v \in [Ids -> ObjectRecords]
        BY <2>5, <2>6, LeadsTo
    <2>8. q[i] = p[i]
        <3>1. p[i].type # "free"
            BY <2>1, VfsAssumption DEF Objects, FreeOk
        <3> QED BY <1>4, <2>1, <2>2, <2>5, <3>1 DEF NameLost
    <2>9. v = q
        <3>1. v[i] = q[i]
            <4>1. v[i] \in ObjectRecords /\ q[i] \in ObjectRecords
                BY <2>7
            <4>2. v[i].dir = q[i].dir /\ v[i].name = q[i].name /\ Alike(v[i], q[i])
                BY <2>1, <2>6, <2>8 DEF Placed
            <4>3. ASSUME NEW x \in ObjectRecords, NEW y \in ObjectRecords,
                         x.dir = y.dir, x.name = y.name, Alike(x, y)
                  PROVE  x = y
                BY <4>3 DEF Alike, ObjectRecords
            <4> QED BY <4>1, <4>2, <4>3
        <3> QED BY <2>6, <2>7, <3>1 DEF Placed, Differs
    <2>10. Objects(q) /\ FilesKept(o, q)
        BY <1>1, <2>1, <2>5 DEF NameLost, FilesKept, SameFile
    <2>11. NamesUnique(q)
        <3> SUFFICES ASSUME NEW e \in Dirs, NEW m, NEW x \in Ids, NEW y \in Ids,
                            IsAt(q, x, e, m), IsAt(q, y, e, m)
                     PROVE  x = y
            BY DEF NamesUnique
        <3>1. \A z \in Ids : z # i => (IsAt(p, z, e, m) <=> IsAt(o, z, e, m))
            BY <2>1 DEF IsAt
        <3>2. IsAt(p, i, e, m) => e = d /\ m = n
            BY <2>1 DEF IsAt
        <3>3. \A z \in Ids : IsAt(o, z, d, n) => z = j
            BY <1>4, <2>2 DEF NamesUnique
        <3>4. \A a, b \in Ids \ {j} : IsAt(p, a, e, m) /\ IsAt(p, b, e, m) => a = b
            BY <3>1, <3>2, <3>3 DEF NamesUnique
        <3>5. (\A a, b \in Ids \ {j} : IsAt(p, a, e, m) /\ IsAt(p, b, e, m) => a = b)
                   => (\A a, b \in Ids : IsAt(q, a, e, m) /\ IsAt(q, b, e, m) => a = b)
            BY <2>5 DEF NameLost
        <3> QED BY <3>4, <3>5
    <2>12. NamesKept(o, q, {o[i].dir, d})
        <3> SUFFICES ASSUME NEW e \in Dirs, e # o[i].dir, e # d, NEW m, NEW g \in Ids
                     PROVE  Denotes(q, e, m, g) <=> Denotes(o, e, m, g)
            BY DEF NamesKept
        <3>1. Denotes(q, e, m, g) <=> \E x \in Ids : x # j /\ IsAt(p, x, e, m) /\ g = FileOf(p, x)
            BY <2>5 DEF NameLost
        <3>2. \A x \in Ids : IsAt(p, x, e, m) <=> IsAt(o, x, e, m)
            BY <2>1 DEF IsAt
        <3>3. ~IsAt(o, j, e, m)
            BY <2>2 DEF IsAt
        <3> QED BY <2>1, <3>1, <3>2, <3>3 DEF Denotes
    <2>13. ASSUME NEW g \in Ids, o[g].type = "file"
           PROVE  LC(q, g) = IF g = FileOf(o, j) THEN LC(o, g) + -1 ELSE LC(o, g)
        <3>1. p[g].type = "file" /\ LC(p, g) = LC(o, g) /\ FileOf(p, j) = FileOf(o, j)
            BY <2>1, <2>2, <2>13 DEF SameFile
        <3>2. LC(q, g) = IF g = FileOf(p, j) THEN LC(p, g) - 1 ELSE LC(p, g)
            BY <2>5, <3>1 DEF NameLost
        <3>3. LC(o, g) \in Int
            BY <1>1 DEF LC, ObjectRecords
        <3> QED BY <3>1, <3>2, <3>3
    <2>14. TreeStep(o, q, {o[i].dir, d}, FileOf(o, j), -1)
        BY <2>7, <2>10, <2>11, <2>12, <2>13 DEF TreeStep
    <2>15. Leads(Renamed(s, i, j, d, n, w), r, q)
        BY <2>0, <2>6, <2>9
    <2> QED BY <1>4, <2>14, <2>15
<1> QED BY <1>3, <1>4

\* A file that is marked keeps its names.
LEMMA LostSteps ==
    ASSUME NEW o \in [Ids -> ObjectRecords], NEW p, NEW q, NEW i \in Ids, NEW D, NEW f, NEW count,
           TreeStep(o, p, D, f, count), p[i].type = "file", LostOnly(p, q, i)
    PROVE  TreeStep(o, q, D, f, count) /\ q[i].lost
<1>1. /\ q \in [Ids -> ObjectRecords] /\ q[i].lost /\ q[i].type = "file"
      /\ \A j \in Ids : j # i => q[j] = p[j]
    BY DEF LostOnly, Differs
<1>2. \A j \in Ids : /\ q[j].type = p[j].type /\ q[j].gen = p[j].gen /\ q[j].target = p[j].target
                      /\ q[j].links = p[j].links /\ q[j].inode = p[j].inode
                      /\ q[j].deferred = p[j].deferred /\ q[j].dir = p[j].dir
                      /\ q[j].name = p[j].name /\ (p[j].lost => q[j].lost)
    BY <1>1 DEF LostOnly
<1>3. /\ Objects(p) /\ NamesUnique(p) /\ FilesKept(o, p) /\ NamesKept(o, p, D)
      /\ \A g \in Ids : o[g].type = "file" => LC(p, g) = IF g = f THEN LC(o, g) + count ELSE LC(o, g)
    BY DEF TreeStep
<1>4. Objects(q)
    <2> SUFFICES ASSUME NEW j \in Ids PROVE FreeOk(q, j) /\ LinkOk(q, j) /\ FileOk(q, j)
        BY DEF Objects
    <2>1. FreeOk(p, j) /\ LinkOk(p, j) /\ FileOk(p, j)
        BY <1>3 DEF Objects
    <2>2. FreeOk(q, j) /\ LinkOk(q, j)
        BY <1>2, <2>1 DEF FreeOk, LinkOk
    <2>3. FileOk(q, j)
        BY <1>2, <2>1 DEF FileOk
    <2> QED BY <2>2, <2>3
<1>5. \A d \in Dirs : \A m : \A x \in Ids : IsAt(q, x, d, m) <=> IsAt(p, x, d, m)
    BY <1>2 DEF IsAt
<1>6. \A x \in Ids : FileOf(q, x) = FileOf(p, x) /\ LC(q, x) = LC(p, x)
    BY <1>2 DEF FileOf, LC
<1>7. NamesUnique(q) /\ NamesKept(o, q, D)
    BY <1>3, <1>5, <1>6 DEF NamesUnique, NamesKept, Denotes
<1>8. FilesKept(o, q)
    BY <1>2, <1>3 DEF FilesKept, SameFile
<1>9. \A g \in Ids : o[g].type = "file" => LC(q, g) = IF g = f THEN LC(o, g) + count ELSE LC(o, g)
    BY <1>3, <1>6
<1> QED BY <1>1, <1>4, <1>7, <1>8, <1>9 DEF TreeStep

\* yaffs_mknod: a new file i
NewFile(x, g) == /\ x.type = "file" /\ x.gen = g /\ x.links = <<>> /\ ~x.inode /\ ~x.deferred
                 /\ x.target = NoId
FileMade(o, p, i, d, n) ==
    /\ Differs(o, p, {i}) /\ NewFile(p[i], o[i].gen) /\ p[i].dir = d /\ p[i].name = n

\* A new file has one name, and nothing else changes.
LEMMA FileMadeIsStep ==
    ASSUME NEW o \in [Ids -> ObjectRecords], NEW p, NEW i \in Ids, NEW d \in Dirs, NEW n,
           Objects(o), NamesUnique(o), o[i].type = "free", NoneAt(o, d, n),
           FileMade(o, p, i, d, n)
    PROVE  TreeStep(o, p, {d}, NoId, 0) /\ Denotes(p, d, n, i)
<1>1. /\ p \in [Ids -> ObjectRecords] /\ \A x \in Ids : x # i => p[x] = o[x]
      /\ p[i].type = "file" /\ p[i].links = <<>> /\ ~p[i].inode /\ ~p[i].deferred
      /\ p[i].dir = d /\ p[i].name = n
    BY DEF FileMade, Differs, NewFile
<1>2. \A x \in Ids : FreeOk(o, x) /\ LinkOk(o, x) /\ FileOk(o, x)
    BY DEF Objects
<1>3. ASSUME NEW x \in Ids PROVE FreeOk(p, x) /\ LinkOk(p, x) /\ FileOk(p, x)
    <2>1. CASE x = i
        BY <1>1, <2>1, NoList DEF FreeOk, LinkOk, FileOk
    <2>2. CASE x # i
        <3>1. p[x] = o[x]
            BY <1>1, <2>2
        <3>2. LinkOk(p, x)
            BY <1>1, <1>2, <3>1 DEF LinkOk
        <3>3. FileOk(p, x)
            BY <1>1, <1>2, <3>1 DEF FileOk
        <3> QED BY <1>2, <3>1, <3>2, <3>3 DEF FreeOk
    <2> QED BY <2>1, <2>2
<1>4. FilesKept(o, p)
    <2> SUFFICES ASSUME NEW j \in Ids
                 PROVE  IF o[j].type = "file" THEN SameFile(o, p, j) ELSE ~p[j].inode
        BY DEF FilesKept
    <2>1. j # i => p[j] = o[j] /\ o[j].type \in {"free", "file", "link"}
        BY <1>1 DEF ObjectRecords
    <2> QED BY <1>1, <1>2, <2>1 DEF SameFile, FreeOk, LinkOk
<1>5. \A x \in Ids : x # i => FileOf(p, x) = FileOf(o, x)
    BY <1>1 DEF FileOf
<1>6. o[i].dir = Gone
    BY <1>2 DEF FreeOk
<1>7. NamesUnique(p)
    <2> SUFFICES ASSUME NEW e \in Dirs, NEW m, NEW x \in Ids, NEW y \in Ids,
                        IsAt(p, x, e, m), IsAt(p, y, e, m)
                 PROVE  x = y
        BY DEF NamesUnique
    <2>1. \A z \in Ids : z # i /\ IsAt(p, z, e, m) => IsAt(o, z, e, m)
        BY <1>1 DEF IsAt
    <2>2. IsAt(p, i, e, m) => e = d /\ m = n
        BY <1>1 DEF IsAt
    <2> QED BY <2>1, <2>2 DEF NamesUnique, NoneAt
<1>8. NamesKept(o, p, {d})
    <2> SUFFICES ASSUME NEW e \in Dirs, e # d, NEW m, NEW g \in Ids
                 PROVE  Denotes(p, e, m, g) <=> Denotes(o, e, m, g)
        BY DEF NamesKept
    <2>1. \A x \in Ids : IsAt(p, x, e, m) <=> IsAt(o, x, e, m) /\ x # i
        BY <1>1, <1>6, VfsAssumption DEF IsAt
    <2>2. ~IsAt(o, i, e, m)
        BY <1>6, VfsAssumption DEF IsAt
    <2> QED BY <1>5, <2>1, <2>2 DEF Denotes
<1>9. \A g \in Ids : o[g].type = "file" => LC(p, g) = LC(o, g)
    BY <1>1 DEF LC
<1>10. Denotes(p, d, n, i)
    BY <1>1 DEF Denotes, IsAt, FileOf
<1>11. NoId \notin Ids
    BY VfsAssumption
<1> QED BY <1>1, <1>3, <1>4, <1>7, <1>8, <1>9, <1>10, <1>11 DEF TreeStep, Objects

FileAdded(s, i, d, n) ==
    Added([s EXCEPT !.obj = [s.obj EXCEPT ![i] = NewObject(s.obj[i].gen, "file", Gone, Gone, NoId)]],
          i, d, n)

FileIsNew(o, p, i, d, n) ==
    TreeStep(o, p, {d}, NoId, 0) /\ Denotes(p, d, n, i) /\ p[i].gen = o[i].gen

\* yaffs_CreateNewObject and yaffs_AddObjectToDirectory make such a file.
LEMMA FileMadeAs ==
    ASSUME NEW s, NEW r, NEW o, Leads(s, r, o), NEW i \in Ids, NEW d \in Dirs,
           NEW n \in Names \cup {Gone},
           Objects(o), NamesUnique(o), o[i].type = "free", NoneAt(o, d, n)
    PROVE  \E p : Leads(FileAdded(s, i, d, n), r, p) /\ FileIsNew(o, p, i, d, n)
<1> DEFINE x == NewObject(s.obj[i].gen, "file", Gone, Gone, NoId)
           u == [s EXCEPT !.obj = [s.obj EXCEPT ![i] = x]]
<1>1. s.obj = o /\ o \in [Ids -> ObjectRecords] /\ o[i] \in ObjectRecords
    BY LeadsTo
<1>2. o[i].gen \in Nat /\ o[i].dir = Gone
    BY <1>1 DEF Objects, FreeOk, ObjectRecords
<1>3. x \in ObjectRecords /\ x.dir = Gone /\ NewFile(x, o[i].gen)
    <2>1. <<>> \in Seq(Ids)
        BY EmptySeq
    <2> QED BY <1>1, <1>2, <2>1 DEF NewObject, FreeObject, NewFile, ObjectRecords
<1> HIDE DEF x
<1>4. Leads(u, r, [o EXCEPT ![i] = x])
    BY <1>2, <1>3, ChangedLeads
<1> HIDE DEF u
<1>5. PICK q : q = [o EXCEPT ![i] = x]
    OBVIOUS
<1>6. q[i] = x /\ Differs(o, q, {i})
    BY <1>1, <1>3, <1>5 DEF Differs
<1>7. PICK p : Leads(Added(u, i, d, n), r, p) /\ Placed(q, p, i, d, n)
    BY <1>4, <1>5, AddedAs
<1>8. FileMade(o, p, i, d, n)
    BY <1>3, <1>6, <1>7 DEF FileMade, NewFile, Placed, Differs, Alike
<1>9. TreeStep(o, p, {d}, NoId, 0) /\ Denotes(p, d, n, i) /\ p[i].gen = o[i].gen
    BY <1>1, <1>8, FileMadeIsStep DEF FileMade, NewFile
<1> QED BY <1>7, <1>9 DEF u, x, FileAdded, FileIsNew

\* yaffs_Link: a new hard link i to file f
LinkMade(o, p, i, f, d, n) ==
    /\ Differs(o, p, {i, f})
    /\ p[i].type = "link" /\ p[i].target = f /\ p[i].links = <<>>
    /\ ~p[i].inode /\ ~p[i].deferred /\ p[i].dir = d /\ p[i].name = n
    /\ p[f].links = <<i>> \o o[f].links /\ p[f].dir = o[f].dir /\ p[f].name = o[f].name
    /\ SameFile(o, p, f)

\* A new hard link gives its file one more name.
LEMMA LinkMadeIsStep ==
    ASSUME NEW o \in [Ids -> ObjectRecords], NEW p, NEW i \in Ids, NEW f \in Ids,
           NEW d \in Dirs, NEW n, Objects(o), NamesUnique(o), NoneAt(o, d, n),
           o[i].type = "free", o[f].type = "file", ~o[f].deferred, LinkMade(o, p, i, f, d, n)
    PROVE  TreeStep(o, p, {d}, f, 1)
<1>1. \A x \in Ids : FreeOk(o, x) /\ LinkOk(o, x) /\ FileOk(o, x)
    BY DEF Objects
<1>2. /\ i # f /\ p \in [Ids -> ObjectRecords] /\ \A x \in Ids : x # i /\ x # f => p[x] = o[x]
      /\ p[i].type = "link" /\ p[i].target = f /\ p[i].links = <<>>
      /\ ~p[i].inode /\ ~p[i].deferred /\ p[i].dir = d /\ p[i].name = n
      /\ p[f].dir = o[f].dir /\ p[f].name = o[f].name /\ SameFile(o, p, f)
      /\ p[f].type = "file" /\ ~p[f].deferred
    BY DEF LinkMade, Differs, SameFile
<1>3. PICK l : l = o[f].links
    OBVIOUS
<1>4. l \in Seq(Ids) /\ Once(l) /\ ~In(l, i)
    BY <1>1, <1>3 DEF FileOk, ObjectRecords
<1>5. p[f].links = <<i>> \o l
    BY <1>3 DEF LinkMade
<1>6. /\ Once(p[f].links) /\ Len(p[f].links) = Len(l) + 1
      /\ \A j \in Ids : In(p[f].links, j) <=> j = i \/ In(l, j)
    BY <1>4, <1>5, HeadList
<1>7. p[f].links # <<>>
    BY <1>6, NoList
<1>8. ASSUME NEW x \in Ids PROVE FreeOk(p, x) /\ LinkOk(p, x) /\ FileOk(p, x)
    <2>1. CASE x = i
        BY <1>2, <1>6, <2>1, VfsAssumption DEF FreeOk, LinkOk, FileOk
    <2>2. CASE x = f
        <3>1. \A j \in Ids : In(p[f].links, j) =>
                  p[j].type = "link" /\ p[j].target = f /\ p[j].dir \in Dirs
            BY <1>1, <1>2, <1>3, <1>6 DEF FileOk
        <3> QED BY <1>2, <1>6, <1>7, <2>2, <3>1 DEF FreeOk, LinkOk, FileOk
    <2>3. CASE x # i /\ x # f
        <3>1. p[x] = o[x]
            BY <1>2, <2>3
        <3>2. LinkOk(p, x)
            <4>1. CASE o[x].target = f
                BY <1>1, <1>2, <1>3, <1>6, <3>1, <4>1 DEF LinkOk
            <4>2. CASE o[x].target # f
                BY <1>1, <1>2, <3>1, <4>2 DEF LinkOk
            <4> QED BY <4>1, <4>2
        <3>3. FileOk(p, x)
            BY <1>1, <1>2, <2>3, <3>1 DEF FileOk
        <3> QED BY <1>1, <3>1, <3>2, <3>3 DEF FreeOk
    <2> QED BY <2>1, <2>2, <2>3
<1>9. FilesKept(o, p)
    <2> SUFFICES ASSUME NEW j \in Ids
                 PROVE  IF o[j].type = "file" THEN SameFile(o, p, j) ELSE ~p[j].inode
        BY DEF FilesKept
    <2>1. j # i /\ j # f => p[j] = o[j] /\ o[j].type \in {"free", "file", "link"}
        BY <1>2 DEF ObjectRecords
    <2> QED BY <1>1, <1>2, <2>1 DEF SameFile, FreeOk, LinkOk
<1>10. \A x \in Ids : x # i => /\ FileOf(p, x) = FileOf(o, x)
                              /\ p[x].dir = o[x].dir /\ p[x].name = o[x].name
    <2> TAKE x \in Ids
    <2>1. CASE x = f
        BY <1>2, <2>1 DEF FileOf
    <2>2. CASE x # f
        BY <1>2, <2>2 DEF FileOf
    <2> QED BY <2>1, <2>2
<1>11. o[i].dir = Gone
    BY <1>1 DEF FreeOk
<1>12. NamesUnique(p)
    <2> SUFFICES ASSUME NEW e \in Dirs, NEW m, NEW x \in Ids, NEW y \in Ids,
                        IsAt(p, x, e, m), IsAt(p, y, e, m)
                 PROVE  x = y
        BY DEF NamesUnique
    <2>1. \A z \in Ids : z # i /\ IsAt(p, z, e, m) => IsAt(o, z, e, m)
        BY <1>10 DEF IsAt
    <2>2. IsAt(p, i, e, m) => e = d /\ m = n
        BY <1>2 DEF IsAt
    <2> QED BY <2>1, <2>2 DEF NamesUnique, NoneAt
<1>13. NamesKept(o, p, {d})
    <2> SUFFICES ASSUME NEW e \in Dirs, e # d, NEW m, NEW g \in Ids
                 PROVE  Denotes(p, e, m, g) <=> Denotes(o, e, m, g)
        BY DEF NamesKept
    <2>1. \A x \in Ids : IsAt(p, x, e, m) <=> IsAt(o, x, e, m) /\ x # i
        BY <1>2, <1>10, <1>11, VfsAssumption DEF IsAt
    <2>2. ~IsAt(o, i, e, m)
        BY <1>11, VfsAssumption DEF IsAt
    <2> QED BY <1>10, <2>1, <2>2 DEF Denotes
<1>14. ASSUME NEW g \in Ids, o[g].type = "file"
       PROVE  LC(p, g) = IF g = f THEN LC(o, g) + 1 ELSE LC(o, g)
    <2>1. CASE g = f
        <3>1. PICK a : a = Len(l)
            OBVIOUS
        <3>2. a \in Nat /\ Len(p[f].links) = a + 1
            BY <1>4, <1>6, <3>1
        <3>3. LC(o, f) = (IF o[f].dir \in Dirs THEN 1 ELSE 0) + a
            BY <1>3, <3>1 DEF LC
        <3>4. LC(p, f) = (IF o[f].dir \in Dirs THEN 1 ELSE 0) + (a + 1)
            BY <1>2, <3>2 DEF LC
        <3> QED BY <2>1, <3>2, <3>3, <3>4
    <2>2. CASE g # f
        BY <1>2, <1>14, <2>2 DEF LC
    <2> QED BY <2>1, <2>2
<1> QED BY <1>2, <1>8, <1>9, <1>12, <1>13, <1>14 DEF TreeStep, Objects

\* yaffs_Link makes such a link.
LEMMA LinkMadeAs ==
    ASSUME NEW s, NEW r, NEW o, Leads(s, r, o), NEW i \in Ids, NEW f \in Ids, NEW d \in Dirs,
           NEW n \in Names \cup {Gone}, Objects(o), NamesUnique(o), NoneAt(o, d, n),
           o[i].type = "free", o[f].type = "file", ~o[f].deferred
    PROVE  LET made == [s EXCEPT !.obj = [s.obj EXCEPT ![i] =
                                 NewObject(s.obj[i].gen, "link", Gone, Gone, f)]]
               a == Added(made, i, d, n)
           IN \E p : /\ Leads([a EXCEPT !.obj = [a.obj EXCEPT ![f] =
                                 [a.obj[f] EXCEPT !.links = <<i>> \o a.obj[f].links]]], r, p)
                     /\ TreeStep(o, p, {d}, f, 1)
<1> DEFINE x == NewObject(s.obj[i].gen, "link", Gone, Gone, f)
           u == [s EXCEPT !.obj = [s.obj EXCEPT ![i] = x]]
           a == Added(u, i, d, n)
<1>1. s.obj = o /\ o \in [Ids -> ObjectRecords] /\ o[i] \in ObjectRecords
    BY LeadsTo
<1>2. o[i].gen \in Nat /\ o[i].dir = Gone /\ i # f
    BY <1>1 DEF Objects, FreeOk, ObjectRecords
<1>3. /\ x \in ObjectRecords /\ x.dir = Gone /\ x.type = "link" /\ x.target = f
      /\ x.links = <<>> /\ ~x.inode /\ ~x.deferred
    <2>1. <<>> \in Seq(Ids)
        BY EmptySeq
    <2> QED BY <1>1, <1>2, <2>1 DEF NewObject, FreeObject, ObjectRecords
<1> HIDE DEF x
<1>4. Leads(u, r, [o EXCEPT ![i] = x])
    BY <1>2, <1>3, ChangedLeads
<1> HIDE DEF u
<1>5. PICK q : q = [o EXCEPT ![i] = x]
    OBVIOUS
<1>6. q[i] = x /\ Differs(o, q, {i})
    BY <1>1, <1>3, <1>5 DEF Differs
<1>7. PICK p : Leads(a, r, p) /\ Placed(q, p, i, d, n)
    BY <1>4, <1>5, AddedAs
<1> HIDE DEF a
<1>8. a.obj = p /\ p[f] = o[f]
    BY <1>2, <1>6, <1>7, LeadsTo DEF Placed, Differs
<1>9. PICK l : l = <<i>> \o a.obj[f].links
    OBVIOUS
<1>10. l \in Seq(Ids) /\ l = <<i>> \o o[f].links
    BY <1>1, <1>8, <1>9 DEF ObjectRecords
<1>11. PICK v : /\ Leads([a EXCEPT !.obj = [a.obj EXCEPT ![f] = [a.obj[f] EXCEPT !.links = l]]], r, v)
                /\ Relinked(p, v, f, l)
    BY <1>7, <1>10, LinksAs
<1>12. v[i] = p[i] /\ Differs(o, v, {i, f})
    BY <1>2, <1>6, <1>7, <1>11 DEF Placed, Relinked, Differs
<1>13. LinkMade(o, v, i, f, d, n)
    BY <1>3, <1>6, <1>7, <1>8, <1>10, <1>11, <1>12 DEF LinkMade, SameFile, Placed, Relinked, Alike
<1>14. TreeStep(o, v, {d}, f, 1)
    BY <1>1, <1>13, LinkMadeIsStep
<1> QED BY <1>9, <1>11, <1>14 DEF a, u, x

(***************************************************************************)
(* The steps of the threads.                                               *)
(***************************************************************************)
LEMMA TreeIsSound ==
    ASSUME TreeTyped, TreeOk
    PROVE  Leads(Tree, rd, obj)
BY TreeLeads DEF TreeTyped, TreeOk, Sound

\* The searches go on and what is in the cache can only be dropped.
Went == /\ \A t \in Threads : /\ rd'[t].dir = rd[t].dir /\ rd'[t].ver = rd[t].ver
                              /\ rd'[t].pos = rd[t].pos
        /\ sb'.dirt = sb.dirt /\ sb'.cached \subseteq sb.cached
        /\ \A t \in Threads :
               /\ sb'.asked[t] \subseteq sb.asked[t]
               /\ sb.asked[t] \subseteq sb.cached => sb'.asked[t] \subseteq sb'.cached

\* The next state has the tree that a step leads to.
LEMMA BecomesTo ==
    ASSUME TreeTyped, NEW s, NEW p, Leads(s, rd, p), Objects(p), NamesUnique(p), Becomes(s)
    PROVE  obj' = p /\ TreeTyped' /\ TreeOk' /\ Went
<1>1. PICK k, q : s = TreeOf(p, k, q) /\ Sound(p, k, q) /\ SameSearches(rd, q)
    BY DEF Leads
<1>2. s.obj = p /\ s.kids = k /\ s.rd = q
    BY <1>1, TreeFields
<1> DEFINE kept == {i \in Ids : s.obj[i].type # "free" /\ ~s.obj[i].deferred}
<1>3. /\ obj' = p /\ kids' = k
      /\ rd' = [t \in Threads |->
                    IF q[t].dir = Gone THEN q[t]
                    ELSE [q[t] EXCEPT !.since = q[t].since \cap NamesIn(s, q[t].dir)]]
      /\ sb' = [[sb EXCEPT !.cached = sb.cached \cap kept] EXCEPT
                    !.asked = [t \in Threads |-> sb.asked[t] \cap kept]]
    <2>1. /\ obj' = s.obj /\ kids' = s.kids
          /\ rd' = [t \in Threads |->
                        IF s.rd[t].dir = Gone THEN s.rd[t]
                        ELSE [s.rd[t] EXCEPT !.since = s.rd[t].since \cap NamesIn(s, s.rd[t].dir)]]
          /\ sb' = [[sb EXCEPT !.cached = sb.cached \cap kept] EXCEPT
                    !.asked = [t \in Threads |-> [sb EXCEPT !.cached = sb.cached \cap kept].asked[t] \cap kept]]
        BY DEF Becomes
    <2>2. [sb EXCEPT !.cached = sb.cached \cap kept].asked = sb.asked
        <3> HIDE DEF kept
        <3> QED BY DEF TreeTyped, Marks
    <2> HIDE DEF kept
    <2> QED BY <1>2, <2>1, <2>2
<1>4. ASSUME NEW t \in Threads
      PROVE  /\ rd'[t] \in Searches /\ rd'[t].dir = q[t].dir /\ rd'[t].ver = q[t].ver
             /\ rd'[t].pos = q[t].pos /\ rd'[t].next = q[t].next
    <2>1. q[t] \in Searches
        BY <1>1 DEF Sound
    <2>2. PICK names : names = NamesIn(s, q[t].dir)
        OBVIOUS
    <2>3. rd'[t] = IF q[t].dir = Gone THEN q[t] ELSE [q[t] EXCEPT !.since = q[t].since \cap names]
        BY <1>3, <2>2
    <2> QED BY <2>1, <2>3 DEF Searches
<1>5. rd' \in [Threads -> Searches]
    <2>1. rd' = [t \in Threads |-> rd'[t]]
        BY <1>3
    <2> QED BY <1>4, <2>1
<1> HIDE DEF kept
<1>6. /\ sb' \in Marks /\ sb'.dirt = sb.dirt /\ sb'.cached = sb.cached \cap kept
      /\ \A t \in Threads : sb'.asked[t] = sb.asked[t] \cap kept
    BY <1>3 DEF TreeTyped, Marks
<1>7. TreeTyped'
    BY <1>1, <1>3, <1>5, <1>6 DEF TreeTyped, Sound
<1>8. Found(rd', obj') /\ Lists(kids', obj')
    BY <1>1, <1>3, <1>4 DEF Found, Sound
<1>9. TreeOk'
    BY <1>3, <1>8 DEF TreeOk
<1>10. Went
    BY <1>1, <1>4, <1>6 DEF Went, SameSearches
<1> QED BY <1>3, <1>7, <1>9, <1>10

\* What yaffs_FindObjectByName returns, and the file behind it.
LEMMA FindIs ==
    ASSUME TreeTyped, TreeOk, NEW d \in Dirs, NEW n
    PROVE  /\ Find(d, n) \in Ids \cup {NoId}
           /\ Find(d, n) = NoId => NoneAt(obj, d, n)
           /\ Find(d, n) # NoId => /\ IsAt(obj, Find(d, n), d, n) /\ Find(d, n) \in Ids
                                   /\ Equivalent(Find(d, n)) = FileOf(obj, Find(d, n))
                                   /\ Denotes(obj, d, n, Equivalent(Find(d, n)))
<1> DEFINE here == {i \in Ids : obj[i].dir = d /\ obj[i].name = n /\ Exists(i)}
<1>1. Find(d, n) = IF here = {} THEN NoId ELSE CHOOSE i \in here : TRUE
    BY DEF Find
<1>2. \A i \in Ids : IsAt(obj, i, d, n) <=> i \in here
    BY VfsAssumption DEF IsAt, Exists, TreeOk, Objects, FreeOk
<1>3. here \subseteq Ids /\ NoId \notin Ids
    BY VfsAssumption
<1> HIDE DEF here
<1>4. CASE here = {}
    BY <1>1, <1>2, <1>4 DEF NoneAt
<1>5. CASE here # {}
    <2>1. Find(d, n) \in here /\ Find(d, n) \in Ids /\ Find(d, n) # NoId
        BY <1>1, <1>3, <1>5
    <2>2. IsAt(obj, Find(d, n), d, n)
        BY <1>2, <2>1
    <2>3. Equivalent(Find(d, n)) = FileOf(obj, Find(d, n))
        BY <2>1 DEF Equivalent, FileOf
    <2> QED BY <2>1, <2>2, <2>3 DEF Denotes
<1> QED BY <1>4, <1>5

\* A thread that ends gives back only its own mutexes.
LEMMA NoMutexIs ==
    ASSUME RestTyped, NEW t \in Threads, mutex' = NoMutex(t)
    PROVE  /\ mutex' \in [Dirs \cup Ids -> Threads \cup {Free}]
           /\ \A m \in Dirs \cup Ids : \A u \in Threads : u # t => (mutex[m] = u <=> mutex'[m] = u)
BY VfsAssumption DEF NoMutex, RestTyped

(***************************************************************************)
(* What a thread goes on with while another one takes a step.              *)
(***************************************************************************)
\* The mutexes of u.
Holding(u) == \A m \in Dirs \cup Ids : mutex[m] = u => mutex'[m] = u

\* What is looked up for u is kept.
Kept(u) ==
    /\ \A d \in Dirs : \A m : \A g \in Ids :
           mutex[d] = u => (Denotes(obj', d, m, g) <=> Denotes(obj, d, m, g))
    /\ \A d \in Dirs : \A m : \A g \in Ids :
           mutex[d] = u /\ Denotes(obj, d, m, g) => obj'[g].gen = obj[g].gen

\* A call of another thread still stands where it stood.
LEMMA CallKept ==
    ASSUME TreeTyped, TreeTyped', RestTyped, TreeOk, TreeOk', NEW u \in Threads,
           PathOk(u), LookedUp(u), LaterOk(u), Holding(u), Kept(u), th'[u] = th[u],
           rd'[u].dir = rd[u].dir, rd'[u].ver = rd[u].ver, rd'[u].pos = rd[u].pos
    PROVE  PathOk(u)' /\ LookedUp(u)' /\ LaterOk(u)'
<1>1. /\ obj \in [Ids -> ObjectRecords] /\ Objects(obj)
      /\ obj' \in [Ids -> ObjectRecords] /\ Objects(obj')
    BY DEF TreeTyped, TreeOk
<1>2. ASSUME NEW d \in Dirs, NEW n, mutex[d] = u
      PROVE  NoneAt(obj, d, n) => NoneAt(obj', d, n)
    BY <1>1, <1>2, NoneIs DEF Kept
<1>3. PathOk(u)'
    <2> SUFFICES ASSUME th[u].pc \in InPath
                 PROVE  /\ th[u].op \in Named
                        /\ th[u].dir \in Dirs /\ mutex'[th[u].dir] = u
                        /\ th[u].op = "rename" => th[u].dir2 \in Dirs /\ mutex'[th[u].dir2] = u
                        /\ th[u].op = "link" => th[u].dir2 \in Dirs
                        /\ th[u].pc = "find" => th[u].id = NoId
                        /\ th[u].pc = "make" => /\ th[u].op = "create" /\ th[u].id = NoId
                                                /\ NoneAt(obj', th[u].dir, th[u].name)
                        /\ th[u].pc \in {"iget", "fill"} =>
                               th[u].id \in Ids /\ th[u].gen = obj'[th[u].id].gen
        BY DEF PathOk
    <2>1. /\ th[u].dir \in Dirs /\ mutex[th[u].dir] = u
          /\ th[u].op = "rename" => th[u].dir2 \in Dirs /\ mutex[th[u].dir2] = u
        BY DEF PathOk
    <2>2. mutex'[th[u].dir] = u /\ (th[u].op = "rename" => mutex'[th[u].dir2] = u)
        BY <2>1 DEF Holding
    <2>3. ASSUME th[u].pc \in {"iget", "fill"}
          PROVE  th[u].id \in Ids /\ th[u].gen = obj'[th[u].id].gen
        <3>1. th[u].id \in Ids /\ th[u].gen = obj[th[u].id].gen
            BY <2>3 DEF PathOk
        <3>2. \E d \in Dirs : \E m : mutex[d] = u /\ Denotes(obj, d, m, th[u].id)
            <4>1. CASE th[u].op # "rename"
                BY <2>1, <2>3, <4>1 DEF LookedUp
            <4>2. CASE th[u].op = "rename"
                BY <2>1, <2>3, <3>1, <4>2, VfsAssumption DEF LookedUp
            <4> QED BY <4>1, <4>2
        <3> QED BY <3>1, <3>2 DEF Kept
    <2>4. th[u].pc = "make" => NoneAt(obj', th[u].dir, th[u].name)
        BY <1>2, <2>1 DEF PathOk
    <2> QED BY <2>1, <2>2, <2>3, <2>4 DEF PathOk
<1>4. LookedUp(u)'
    <2> SUFFICES ASSUME th[u].pc \in {"iget", "fill", "act"}
                 PROVE  /\ th[u].op # "rename" => Denotes(obj', th[u].dir, th[u].name, th[u].id)
                        /\ th[u].op = "rename" =>
                               /\ \E f \in Ids : f # th[u].id /\ Denotes(obj', th[u].dir, th[u].name, f)
                               /\ IF th[u].id = NoId THEN NoneAt(obj', th[u].dir2, th[u].name2)
                                  ELSE Denotes(obj', th[u].dir2, th[u].name2, th[u].id)
        BY DEF LookedUp
    <2>1. /\ th[u].dir \in Dirs /\ mutex[th[u].dir] = u
          /\ th[u].op = "rename" => th[u].dir2 \in Dirs /\ mutex[th[u].dir2] = u
        BY DEF PathOk, InPath
    <2>2. ASSUME NEW d, NEW n, NEW g, d \in Dirs, mutex[d] = u, Denotes(obj, d, n, g)
          PROVE  Denotes(obj', d, n, g)
        <3>1. g \in Ids
            BY <1>1, <2>2, FileOfIs DEF Denotes, IsAt
        <3> QED BY <2>2, <3>1 DEF Kept
    <2>3. CASE th[u].op # "rename"
        BY <2>1, <2>2, <2>3 DEF LookedUp
    <2>4. CASE th[u].op = "rename"
        <3>1. \E f \in Ids : f # th[u].id /\ Denotes(obj', th[u].dir, th[u].name, f)
            BY <2>1, <2>2, <2>4 DEF LookedUp
        <3>2. IF th[u].id = NoId THEN NoneAt(obj', th[u].dir2, th[u].name2)
              ELSE Denotes(obj', th[u].dir2, th[u].name2, th[u].id)
            BY <1>2, <2>1, <2>2, <2>4 DEF LookedUp
        <3> QED BY <2>4, <3>1, <3>2
    <2> QED BY <2>3, <2>4
<1>5. LaterOk(u)'
    <2>1. th[u].pc = "drop" => th[u].id \in Ids /\ mutex[th[u].id] = u
        BY DEF LaterOk
    <2>2. th[u].pc = "drop" => mutex'[th[u].id] = u
        BY <2>1 DEF Holding
    <2> QED BY <2>2 DEF LaterOk
<1> QED BY <1>3, <1>4, <1>5

(***************************************************************************)
(* What is known of the inodes while a thread takes a step.                *)
(***************************************************************************)
\* File i stays the same, or there is none and no inode of it.
FileSame(i) == IF obj[i].type = "file" THEN SameFile(obj, obj', i) /\ LC(obj', i) = LC(obj, i)
               ELSE ~obj'[i].inode

\* Thread t is as much in the way of inode i as before.
StandsSame(t, i) ==
    (Has(t, i)' <=> Has(t, i)) /\ (Works(t, i)' <=> Works(t, i)) /\ (Drops(t, i)' <=> Drops(t, i))

\* An inode nobody has touched is still right.
LEMMA InodeKept ==
    ASSUME NEW i \in Ids, LiveOk(i), RestOk(i), OneWorks(i), ino'[i] = ino[i], FileSame(i),
           \A u \in Threads : StandsSame(u, i)
    PROVE  LiveOk(i)' /\ RestOk(i)' /\ OneWorks(i)'
<1>1. Holders(i)' = Holders(i)
    BY DEF Holders, StandsSame
<1>2. Dropping(i)' = Dropping(i)
    BY DEF Dropping, StandsSame
<1>3. LiveOk(i)'
    BY <1>1, <1>2 DEF LiveOk, FileSame, SameFile
<1>4. RestOk(i)'
    <2>1. ino[i].state \in {"none", "new"} => ~obj'[i].inode
        BY DEF RestOk, FileSame, SameFile
    <2>2. \A t \in Threads : Works(t, i)' <=> Works(t, i)
        BY DEF StandsSame
    <2> HIDE DEF Works
    <2> QED BY <1>1, <2>1, <2>2 DEF RestOk
<1>5. OneWorks(i)'
    <2>1. \A t \in Threads : Works(t, i)' <=> Works(t, i)
        BY DEF StandsSame
    <2> HIDE DEF Works
    <2> QED BY <2>1 DEF OneWorks
<1> QED BY <1>3, <1>4, <1>5

\* So is what a thread does with the inode it fills or frees.
LEMMA WorkKept ==
    ASSUME NEW u \in Threads, WorkOk(u), th'[u] = th[u],
           th[u].pc \in {"fill", "delete", "unstitch", "evicted"} =>
               ino'[th[u].id] = ino[th[u].id] /\ FileSame(th[u].id)
    PROVE  WorkOk(u)'
<1> DEFINE i == th[u].id
<1>1. CASE th[u].pc \in {"fill", "delete", "unstitch", "evicted"}
    <2>1. ino'[i] = ino[i] /\ FileSame(i)
        BY <1>1
    <2>2. th[u].pc \in {"delete", "unstitch"} => obj[i].type = "file"
        BY DEF WorkOk
    <2> QED BY <2>1, <2>2 DEF WorkOk, FileSame, SameFile
<1>2. CASE th[u].pc \notin {"fill", "delete", "unstitch", "evicted"}
    BY <1>2 DEF WorkOk
<1> QED BY <1>1, <1>2

\* Thread t is now at x.
Turns(t, x) == /\ th' \in [Threads -> Calls] /\ th'[t] = x
               /\ \A u \in Threads : u # t => th'[u] = th[u]
Same(x, y) == /\ x.op = y.op /\ x.dir = y.dir /\ x.name = y.name
              /\ x.dir2 = y.dir2 /\ x.name2 = y.name2

\* A thread that turns to x; the others stay.
LEMMA TurnsTo ==
    ASSUME RestTyped, NEW t \in Threads, NEW x \in Calls, th' = [th EXCEPT ![t] = x]
    PROVE  Turns(t, x)
BY DEF RestTyped, Turns

\* A thread that only goes on to another step.
LEMMA GoesTo ==
    ASSUME RestTyped, NEW t \in Threads, NEW pc \in Pcs, Goes(t, pc)
    PROVE  \E x \in Calls : /\ Turns(t, x) /\ x.pc = pc /\ Same(x, th[t])
                            /\ x.id = th[t].id /\ x.gen = th[t].gen
<1>1. PICK y \in Calls : y = th[t]
    BY DEF RestTyped
<1> DEFINE x == [y EXCEPT !.pc = pc]
<1>2. th' = [th EXCEPT ![t] = x]
    BY <1>1 DEF Goes
<1>3. x \in Calls /\ x.pc = pc /\ Same(x, y) /\ x.id = y.id /\ x.gen = y.gen
    BY DEF Calls, Same
<1> HIDE DEF x
<1> QED BY <1>1, <1>2, <1>3, TurnsTo

MovesTo(t, pc, i, g) == th' = [th EXCEPT ![t].pc = pc, ![t].id = i, ![t].gen = g]

\* A thread that goes on with another inode.
LEMMA GoesToWith ==
    ASSUME RestTyped, NEW t \in Threads, NEW pc \in Pcs, NEW i \in Ids, NEW g \in Int,
           MovesTo(t, pc, i, g)
    PROVE  \E x \in Calls : Turns(t, x) /\ x.pc = pc /\ Same(x, th[t]) /\ x.id = i /\ x.gen = g
<1>1. PICK y \in Calls : y = th[t]
    BY DEF RestTyped
<1> DEFINE x == [y EXCEPT !.pc = pc, !.id = i, !.gen = g]
<1>2. th' = [th EXCEPT ![t] = x]
    <2>1. th' = [th EXCEPT ![t] = [th[t] EXCEPT !.pc = pc, !.id = i, !.gen = g]]
        BY DEF RestTyped, MovesTo
    <2> QED BY <1>1, <2>1
<1>3. x \in Calls /\ x.pc = pc /\ Same(x, y) /\ x.id = i /\ x.gen = g
    BY DEF Calls, Same
<1> HIDE DEF x
<1> QED BY <1>1, <1>2, <1>3, TurnsTo

\* Who unmounts does so alone.
LEMMA UnmountingKept ==
    ASSUME NEW t \in Threads, NEW x, Turns(t, x), \A u \in Threads : Unmounting(u),
           th[t].pc # "idle" \/ \A u \in Threads : th[u].op # "umount",
           x.op = "umount" => \A u \in Threads \ {t} : th[u].pc = "idle"
    PROVE  \A u \in Threads : Unmounting(u)'
<1>1. \A u \in Threads : u # t => th[u].op # "umount"
    BY DEF Unmounting
<1> QED BY <1>1 DEF Unmounting, Turns

\* All that is left to show of a step: what it does to the thread that takes it
\* and to the one inode it is about.
LEMMA StepKept ==
    ASSUME IInv, TreeTyped', RestTyped', TreeOk', NEW t \in Threads, NEW x, Turns(t, x),
           \A u \in Threads : u # t => /\ Holding(u) /\ Kept(u)
                                       /\ rd'[u].dir = rd[u].dir /\ rd'[u].ver = rd[u].ver
                                       /\ rd'[u].pos = rd[u].pos,
           PathOk(t)', LookedUp(t)', LaterOk(t)', WorkOk(t)',
           th[t].pc # "idle" \/ \A u \in Threads : th[u].op # "umount",
           x.op = "umount" => \A u \in Threads \ {t} : th[u].pc = "idle",
           NEW i \in Ids \cup {NoId},
           \A j \in Ids \ {i} : ino'[j] = ino[j] /\ FileSame(j) /\ StandsSame(t, j),
           i # NoId => /\ LiveOk(i)' /\ RestOk(i)' /\ OneWorks(i)'
                       /\ \A u \in Threads \ {t} : ~Works(u, i)
    PROVE  CallsOk' /\ InodesOk'
<1>1. CallsOk'
    <2>1. \A u \in Threads : Unmounting(u)'
        BY UnmountingKept DEF IInv, CallsOk
    <2>2. ASSUME NEW u \in Threads PROVE PathOk(u)' /\ LookedUp(u)' /\ LaterOk(u)'
        <3>1. CASE u = t
            BY <3>1
        <3>2. CASE u # t
            <4>1. th'[u] = th[u]
                BY <3>2 DEF Turns
            <4>2. PathOk(u) /\ LookedUp(u) /\ LaterOk(u)
                BY DEF IInv, CallsOk
            <4>3. TreeTyped /\ RestTyped /\ TreeOk
                BY DEF IInv
            <4> QED BY <3>2, <4>1, <4>2, <4>3, CallKept
        <3> QED BY <3>1, <3>2
    <2> QED BY <2>1, <2>2 DEF CallsOk
<1>2. ASSUME NEW u \in Threads PROVE WorkOk(u)'
    <2>1. CASE u = t
        BY <2>1
    <2>2. CASE u # t
        <3>1. th'[u] = th[u] /\ WorkOk(u)
            BY <2>2 DEF Turns, IInv, InodesOk
        <3>2. ASSUME th[u].pc \in {"fill", "delete", "unstitch", "evicted"}
              PROVE  ino'[th[u].id] = ino[th[u].id] /\ FileSame(th[u].id)
            <4>1. th[u].id \in Ids
                BY <3>2 DEF IInv, CallsOk, PathOk, LaterOk, InPath
            <4>2. Works(u, th[u].id)
                BY <3>2 DEF Works
            <4>3. th[u].id # i
                BY <2>2, <4>1, <4>2, VfsAssumption
            <4> QED BY <4>1, <4>3
        <3> QED BY <3>1, <3>2, WorkKept
    <2> QED BY <2>1, <2>2
<1>3. ASSUME NEW j \in Ids PROVE LiveOk(j)' /\ RestOk(j)' /\ OneWorks(j)'
    <2>1. CASE j = i
        BY <2>1, VfsAssumption
    <2>2. CASE j # i
        <3>1. ino'[j] = ino[j] /\ FileSame(j)
            BY <2>2
        <3>2. ASSUME NEW u \in Threads PROVE StandsSame(u, j)
            <4>1. CASE u = t
                BY <2>2, <4>1
            <4>2. CASE u # t
                BY <4>2 DEF Turns, StandsSame, Has, Works, Drops
            <4> QED BY <4>1, <4>2
        <3>3. LiveOk(j) /\ RestOk(j) /\ OneWorks(j)
            BY DEF IInv, InodesOk
        <3> QED BY <3>1, <3>2, <3>3, InodeKept
    <2> QED BY <2>1, <2>2
<1> QED BY <1>1, <1>2, <1>3 DEF InodesOk

\* A step that leaves the objects alone.
LEMMA SameObjects ==
    ASSUME TreeTyped, TreeOk, obj' = obj
    PROVE  (\A u : Kept(u)) /\ \A i \in Ids : FileSame(i)
<1>1. ASSUME NEW i \in Ids PROVE FileSame(i)
    <2>1. obj[i].type \in {"free", "file", "link"} /\ FreeOk(obj, i) /\ LinkOk(obj, i)
        BY DEF TreeTyped, ObjectRecords, TreeOk, Objects
    <2> QED BY <2>1 DEF FileSame, SameFile, FreeOk, LinkOk
<1> QED BY <1>1 DEF Kept

\* A step that leaves the tree alone.
LEMMA SameTree ==
    ASSUME TreeTyped, TreeOk, UNCHANGED <<obj, kids, rd>>, sb' \in Marks
    PROVE  TreeTyped' /\ TreeOk'
BY DEF TreeTyped, TreeOk

\* A step that leaves the mutexes alone.
LEMMA SameMutex ==
    ASSUME UNCHANGED mutex
    PROVE  \A u : Holding(u)
BY DEF Holding

\* The marks of the super block.
LEMMA SyncKept ==
    ASSUME SyncOk, NEW t \in Threads, NEW x, Turns(t, x), Went \/ UNCHANGED sb,
           x.pc \notin {"urgency", "sync", "syncandsave", "synced"}
    PROVE  SyncOk'
<1>1. /\ sb'.dirt = sb.dirt /\ sb'.cached \subseteq sb.cached
      /\ \A u \in Threads :
             /\ sb'.asked[u] \subseteq sb.asked[u]
             /\ sb.asked[u] \subseteq sb.cached => sb'.asked[u] \subseteq sb'.cached
    BY DEF Went
<1>2. QuietHoles => (sb'.cached # {} => sb'.dirt)
    BY <1>1 DEF SyncOk
<1>3. ASSUME NEW u \in Threads
      PROVE  /\ th'[u].pc \in {"urgency", "sync", "syncandsave"} => sb'.asked[u] \subseteq sb'.cached
             /\ th'[u].pc = "synced" /\ QuietHoles => sb'.asked[u] = {}
    BY <1>1 DEF SyncOk, Turns
<1> QED BY <1>2, <1>3 DEF SyncOk


(***************************************************************************)
(* The inode of a file comes and goes.                                     *)
(***************************************************************************)
\* Every name stands for what it did.
Stays(o, p) ==
    /\ p \in [Ids -> ObjectRecords] /\ Objects(p) /\ NamesUnique(p)
    /\ \A d \in Dirs : \A m : \A g \in Ids :
           /\ Denotes(p, d, m, g) <=> Denotes(o, d, m, g)
           /\ Denotes(o, d, m, g) => p[g].gen = o[g].gen

\* File i is still one, or nothing.
StillFile(x, y) ==
    /\ y.type = "file" /\ y.gen = x.gen /\ (y.dir \in Dirs => y.name = x.name)
    /\ y.deferred => y.inode /\ y.dir = Gone /\ y.links = <<>>
    /\ ~y.inode => y.dir \in Dirs \/ y.links # <<>> \/ y.lost
NoFile(y) == y.type = "free" /\ y.dir = Gone /\ y.links = <<>> /\ ~y.inode /\ ~y.deferred

\* A file that changes without its names takes no name from others.
LEMMA OneStays ==
    ASSUME NEW o \in [Ids -> ObjectRecords], NEW p, NEW i \in Ids, Objects(o), NamesUnique(o),
           o[i].type = "file", Differs(o, p, {i}), p[i].dir = o[i].dir, p[i].links = o[i].links,
           StillFile(o[i], p[i]) \/ NoFile(p[i])
    PROVE  Stays(o, p)
<1>1. \A j \in Ids : FileOk(o, j) /\ LinkOk(o, j) /\ FreeOk(o, j)
    BY DEF Objects
<1>2. p \in [Ids -> ObjectRecords] /\ \A j \in Ids : j # i => p[j] = o[j]
    BY DEF Differs
<1>3. NoFile(p[i]) => \A j \in Ids : o[j].type = "link" /\ o[j].dir # Gone => o[j].target # i
    BY <1>1, NoList DEF NoFile, LinkOk
<1>4. ASSUME NEW j \in Ids PROVE FreeOk(p, j) /\ LinkOk(p, j) /\ FileOk(p, j)
    <2>1. CASE j = i
        <3>1. Once(p[i].links)
            BY <1>1 DEF FileOk
        <3>2. \A l \in Ids : In(p[i].links, l) =>
                  p[l].type = "link" /\ p[l].target = i /\ p[l].dir \in Dirs
            BY <1>1, <1>2 DEF FileOk
        <3>3. CASE StillFile(o[i], p[i])
            BY <2>1, <3>1, <3>2, <3>3 DEF FreeOk, LinkOk, FileOk, StillFile
        <3>4. CASE NoFile(p[i])
            BY <2>1, <3>4 DEF FreeOk, LinkOk, FileOk, NoFile
        <3> QED BY <3>3, <3>4
    <2>2. CASE j # i
        <3>1. p[j] = o[j]
            BY <1>2, <2>2
        <3>2. LinkOk(p, j)
            BY <1>1, <1>2, <1>3, <3>1 DEF LinkOk, StillFile
        <3>3. FileOk(p, j)
            BY <1>1, <1>2, <3>1 DEF FileOk
        <3> QED BY <1>1, <3>1, <3>2, <3>3 DEF FreeOk
    <2> QED BY <2>1, <2>2
<1>5. NoFile(p[i]) => p[i].dir \notin Dirs /\ o[i].dir \notin Dirs
    BY VfsAssumption DEF NoFile
<1>6. ASSUME NEW d \in Dirs, NEW m, NEW x \in Ids
      PROVE  /\ IsAt(p, x, d, m) <=> IsAt(o, x, d, m)
             /\ IsAt(o, x, d, m) => FileOf(p, x) = FileOf(o, x)
    BY <1>2, <1>5 DEF IsAt, FileOf, StillFile
<1>7. NamesUnique(p)
    BY <1>6 DEF NamesUnique
<1>8. ASSUME NEW d \in Dirs, NEW m, NEW g \in Ids
      PROVE  Denotes(p, d, m, g) <=> Denotes(o, d, m, g)
    BY <1>6 DEF Denotes
<1>9. ASSUME NEW d \in Dirs, NEW m, NEW g \in Ids, Denotes(o, d, m, g)
      PROVE  p[g].gen = o[g].gen
    <2>1. PICK x \in Ids : IsAt(o, x, d, m) /\ g = FileOf(o, x)
        BY <1>9 DEF Denotes
    <2>2. NoFile(p[i]) => x # i /\ g # i
        BY <1>3, <1>5, <2>1, VfsAssumption DEF IsAt, FileOf
    <2> QED BY <1>2, <2>2 DEF StillFile
<1> QED BY <1>2, <1>4, <1>7, <1>8, <1>9 DEF Stays, Objects

\* Where names stay, so does all that has been looked up.
LEMMA StaysKept ==
    ASSUME Stays(obj, obj')
    PROVE  \A u : Kept(u)
BY DEF Stays, Kept

\* The other objects are the same.
LEMMA DiffersSame ==
    ASSUME TreeTyped, TreeOk, NEW i, Differs(obj, obj', {i})
    PROVE  \A j \in Ids \ {i} : FileSame(j)
<1> SUFFICES ASSUME NEW j \in Ids, j # i PROVE FileSame(j)
    OBVIOUS
<1>1. obj'[j] = obj[j]
    BY DEF Differs
<1>2. obj[j].type \in {"free", "file", "link"} /\ FreeOk(obj, j) /\ LinkOk(obj, j)
    BY DEF TreeTyped, ObjectRecords, TreeOk, Objects
<1> QED BY <1>1, <1>2 DEF FileSame, SameFile, LC, FreeOk, LinkOk

\* yaffs_DeleteObject of a file an inode points to
LEMMA DeletedStays ==
    ASSUME NEW o \in [Ids -> ObjectRecords], NEW p, NEW i \in Ids, Objects(o), NamesUnique(o),
           o[i].type = "file", o[i].inode, LC(o, i) = 0, LetGo(o, p, i)
    PROVE  Stays(o, p)
<1>1. o[i].dir = Gone /\ o[i].links = <<>>
    <2>1. PICK l : l = o[i].links
        OBVIOUS
    <2>2. l \in Seq(Ids) /\ o[i].dir \in Dirs \cup {Gone}
        BY <2>1 DEF ObjectRecords
    <2>3. Len(l) = 0 /\ o[i].dir \notin Dirs
        <3>1. PICK a : a = Len(l)
            OBVIOUS
        <3>2. a \in Nat
            BY <2>2, <3>1
        <3>3. (IF o[i].dir \in Dirs THEN 1 ELSE 0) + a = 0
            BY <2>1, <3>1 DEF LC
        <3> QED BY <3>1, <3>2, <3>3
    <2> QED BY <2>1, <2>2, <2>3
<1>2. /\ Differs(o, p, {i}) /\ p[i].dir = o[i].dir /\ p[i].links = o[i].links
      /\ p[i].type = "file" /\ p[i].gen = o[i].gen /\ p[i].inode
    BY <1>1 DEF LetGo
<1>3. StillFile(o[i], p[i])
    BY <1>1, <1>2, VfsAssumption DEF StillFile
<1> QED BY <1>2, <1>3, OneStays

\* The inode pointer of a file is set or cleared.
InodeSet(o, p, i, b) ==
    /\ Differs(o, p, {i}) /\ p[i].inode = b /\ p[i].dir = o[i].dir /\ p[i].name = o[i].name
    /\ p[i].type = o[i].type /\ p[i].gen = o[i].gen /\ p[i].target = o[i].target
    /\ p[i].links = o[i].links /\ p[i].deferred = o[i].deferred /\ p[i].lost = o[i].lost

\* An object whose myInode is set or reset.
LEMMA InodeAs ==
    ASSUME NEW o \in [Ids -> ObjectRecords], NEW i \in Ids, NEW b \in BOOLEAN
    PROVE  \E x \in ObjectRecords :
               /\ x = [o[i] EXCEPT !.inode = b] /\ x.dir = o[i].dir
               /\ InodeSet(o, [o EXCEPT ![i] = x], i, b)
<1>1. PICK y \in ObjectRecords : y = o[i]
    OBVIOUS
<1> DEFINE x == [y EXCEPT !.inode = b]
<1>2. /\ x \in ObjectRecords /\ x.inode = b /\ x.dir = y.dir /\ x.name = y.name
      /\ x.type = y.type /\ x.gen = y.gen /\ x.target = y.target
      /\ x.links = y.links /\ x.deferred = y.deferred /\ x.lost = y.lost
    BY DEF ObjectRecords
<1>3. x = [o[i] EXCEPT !.inode = b]
    BY <1>1
<1> HIDE DEF x
<1>4. Differs(o, [o EXCEPT ![i] = x], {i}) /\ [o EXCEPT ![i] = x][i] = x
    BY <1>2 DEF Differs
<1> QED BY <1>1, <1>2, <1>3, <1>4 DEF InodeSet

\* yaffs_FillInodeFromObject
LEMMA FilledStays ==
    ASSUME NEW o \in [Ids -> ObjectRecords], NEW p, NEW i \in Ids, Objects(o), NamesUnique(o),
           o[i].type = "file", ~o[i].deferred, InodeSet(o, p, i, TRUE)
    PROVE  Stays(o, p)
<1>1. StillFile(o[i], p[i])
    BY DEF StillFile, InodeSet
<1> QED BY <1>1, OneStays DEF InodeSet

\* yaffs_UnstitchObject
LEMMA UnstitchedAs ==
    ASSUME NEW s, NEW r, NEW o, Leads(s, r, o), NEW i \in Ids, Objects(o), NamesUnique(o),
           o[i].type = "file", o[i].inode, o[i].deferred \/ LC(o, i) > 0 \/ o[i].lost
    PROVE  \E p : Leads(Unstitched(s, i), r, p) /\ Stays(o, p) /\ Differs(o, p, {i}) /\ ~p[i].inode
<1>1. s.obj = o /\ o \in [Ids -> ObjectRecords] /\ FileOk(o, i)
    BY LeadsTo DEF Objects
<1>2. PICK x \in ObjectRecords : /\ x = [s.obj[i] EXCEPT !.inode = FALSE] /\ x.dir = o[i].dir
                                 /\ InodeSet(o, [o EXCEPT ![i] = x], i, FALSE)
    BY <1>1, InodeAs
<1>3. PICK q : q = [o EXCEPT ![i] = x]
    OBVIOUS
<1>4. PICK u : u = [s EXCEPT !.obj = [s.obj EXCEPT ![i] = x]]
    OBVIOUS
<1>5. Leads(u, r, q) /\ InodeSet(o, q, i, FALSE) /\ u.obj = q
    <2>1. Leads([s EXCEPT !.obj = [s.obj EXCEPT ![i] = x]], r, [o EXCEPT ![i] = x])
        BY <1>2, ChangedLeads
    <2>2. Leads(u, r, q)
        BY <1>3, <1>4, <2>1
    <2> QED BY <1>2, <1>3, <2>2, LeadsTo
<1>6. Unstitched(s, i) = IF q[i].deferred THEN Freed(u, i) ELSE u
    <2>1. u = [s EXCEPT !.obj = [s.obj EXCEPT ![i] = [s.obj[i] EXCEPT !.inode = FALSE]]]
        BY <1>2, <1>4
    <2>2. Unstitched(s, i) = IF u.obj[i].deferred THEN Freed(u, i) ELSE u
        BY Zenon, <2>1 DEF Unstitched
    <2> QED BY <1>5, <2>2
<1>7. CASE o[i].deferred
    <2>1. q[i].dir = Gone /\ q[i].deferred /\ ~q[i].inode /\ o[i].links = <<>> /\ o[i].dir = Gone
        BY <1>1, <1>5, <1>7 DEF InodeSet, FileOk
    <2>2. PICK p : Leads(Freed(u, i), r, p) /\ LetGo(q, p, i)
        BY <1>5, <2>1, FreedLeads
    <2>3. Differs(o, p, {i}) /\ p[i] = FreeObject(q[i].gen + 1)
        BY <1>5, <2>1, <2>2 DEF LetGo, Differs, InodeSet
    <2>4. NoFile(p[i]) /\ p[i].dir = o[i].dir /\ p[i].links = o[i].links
        BY <2>1, <2>3 DEF NoFile, FreeObject
    <2>5. Stays(o, p) /\ ~p[i].inode
        BY <1>1, <2>3, <2>4, OneStays DEF NoFile
    <2> QED BY <1>6, <2>1, <2>2, <2>3, <2>5
<1>8. CASE ~o[i].deferred
    <2>1. o[i].dir \in Dirs \/ o[i].links # <<>> \/ o[i].lost
        <3>1. Len(<<>>) = 0
            OBVIOUS
        <3>2. LC(o, i) > 0 \/ o[i].lost
            BY <1>8
        <3>3. ASSUME o[i].dir \notin Dirs, o[i].links = <<>>, ~o[i].lost PROVE FALSE
            <4>1. LC(o, i) = 0 + Len(<<>>)
                BY <3>3 DEF LC
            <4> QED BY <3>1, <3>2, <3>3, <4>1
        <3> QED BY <3>3
    <2>2. StillFile(o[i], q[i])
        BY <1>5, <1>8, <2>1 DEF StillFile, InodeSet
    <2>3. Stays(o, q)
        BY <1>1, <1>5, <2>2, OneStays DEF InodeSet
    <2>4. ~q[i].deferred
        BY <1>5, <1>8 DEF InodeSet
    <2> QED BY <1>5, <1>6, <2>3, <2>4 DEF InodeSet
<1> QED BY <1>7, <1>8

(***************************************************************************)
(* The steps of a call that leave objects and inodes alone.                *)
(***************************************************************************)
LEMMA StandsNot ==
    ASSUME NEW t \in Threads, NEW x, Turns(t, x),
           th[t].pc \notin WorkPcs \cup HasPcs \/ th[t].id \notin Ids,
           x.pc \notin WorkPcs \cup HasPcs \/ x.id \notin Ids
    PROVE  \A j \in Ids : StandsSame(t, j)
BY DEF StandsSame, Has, Works, Drops, WorkPcs, HasPcs, Turns

\* A thread that still has its inode counts as before.
LEMMA StandsOn ==
    ASSUME NEW t \in Threads, NEW x, Turns(t, x), x.id = th[t].id,
           th[t].pc \in HasPcs \ {"drop"}, x.pc \in HasPcs \ {"drop"}
    PROVE  \A j \in Ids : StandsSame(t, j)
BY DEF StandsSame, Has, Works, Drops, HasPcs, Turns

\* A thread counts only for its own inode.
LEMMA StandsElse ==
    ASSUME NEW t \in Threads, NEW x, Turns(t, x), x.id = th[t].id
    PROVE  \A j \in Ids \ {x.id} : StandsSame(t, j)
BY DEF StandsSame, Has, Works, Drops, Turns

\* Whether t may begin to unmount.
Alone(t, x) == /\ th[t].pc # "idle" \/ \A u \in Threads : th[u].op # "umount"
               /\ x.op = "umount" => \A u \in Threads \ {t} : th[u].pc = "idle"

\* The call that unmounts is alone, and stays so.
LEMMA AloneKept ==
    ASSUME IInv, NEW t \in Threads, NEW x, Same(x, th[t]), th[t].pc # "idle"
    PROVE  Alone(t, x)
BY DEF IInv, CallsOk, Unmounting, Alone, Same

\* What t needs is there.
CallOk(t) == PathOk(t) /\ LookedUp(t) /\ LaterOk(t)
\* The others go on as before.
OthersGoOn(t) == \A u \in Threads : u # t =>
    /\ Holding(u) /\ rd'[u].dir = rd[u].dir /\ rd'[u].ver = rd[u].ver /\ rd'[u].pos = rd[u].pos

\* A step that touches neither objects nor inodes.
LEMMA CallStep ==
    ASSUME IInv, NEW t \in Threads, NEW x, Turns(t, x), UNCHANGED <<obj, kids, ino>>,
           TreeTyped', RestTyped', TreeOk', SyncOk', OthersGoOn(t), CallOk(t)',
           \A j \in Ids : StandsSame(t, j), x.pc \notin WorkPcs, Alone(t, x)
    PROVE  IInv'
<1>1. (\A u : Kept(u)) /\ \A j \in Ids : FileSame(j)
    BY SameObjects DEF IInv
<1>2. WorkOk(t)'
    BY DEF WorkOk, Turns, WorkPcs
<1>3. NoId \in Ids \cup {NoId} /\ NoId \notin Ids
    BY VfsAssumption
<1>4. CallsOk' /\ InodesOk'
    BY <1>1, <1>2, <1>3, StepKept DEF OthersGoOn, CallOk, Alone
<1> QED BY <1>4 DEF IInv

\* A step that leaves the super block alone.
LEMMA SyncStays ==
    ASSUME IInv, NEW t \in Threads, NEW x, Turns(t, x), UNCHANGED sb, x.pc \notin SyncPcs
    PROVE  SyncOk'
BY SyncKept DEF IInv, SyncPcs

\* The types, variable by variable.
LEMMA RestStays ==
    ASSUME IInv, NEW t \in Threads, NEW x, Turns(t, x), lock' = Free,
           mutex' \in [Dirs \cup Ids -> Threads \cup {Free}], ino' \in [Ids -> InodeRecords],
           ver' \in [Dirs -> Nat], bg' \in Rounds, mounted' \in BOOLEAN, requests' \in 0 .. MaxRequests
    PROVE  RestTyped'
BY DEF IInv, RestTyped, Turns

\* The types as single facts.
LEMMA InvTyped ==
    ASSUME IInv
    PROVE  /\ lock = Free /\ mutex \in [Dirs \cup Ids -> Threads \cup {Free}]
           /\ ino \in [Ids -> InodeRecords] /\ ver \in [Dirs -> Nat]
           /\ th \in [Threads -> Calls] /\ requests \in 0 .. MaxRequests
           /\ obj \in [Ids -> ObjectRecords] /\ kids \in [Dirs -> Seq(Ids)]
           /\ rd \in [Threads -> Searches] /\ sb \in Marks
           /\ bg \in Rounds /\ mounted \in BOOLEAN
BY DEF IInv, RestTyped, TreeTyped

\* A step of t alone, with the marks and searches as they are.
LEMMA PlainStep ==
    ASSUME IInv, NEW t \in Threads, NEW x, Turns(t, x), UNCHANGED <<obj, kids, rd, sb, ino>>,
           lock' = Free, UNCHANGED ver, bg' \in Rounds, mounted' \in BOOLEAN,
           requests' \in 0 .. MaxRequests,
           mutex' \in [Dirs \cup Ids -> Threads \cup {Free}],
           \A u \in Threads : u # t => Holding(u),
           \A j \in Ids : StandsSame(t, j), x.pc \notin WorkPcs, x.pc \notin SyncPcs,
           Alone(t, x), CallOk(t)'
    PROVE  IInv'
<1>1. TreeTyped' /\ TreeOk'
    BY SameTree, InvTyped DEF IInv
<1>2. RestTyped'
    BY RestStays, InvTyped
<1>3. SyncOk'
    BY SyncStays
<1>4. OthersGoOn(t)
    BY DEF OthersGoOn
<1> QED BY <1>1, <1>2, <1>3, <1>4, CallStep

(***************************************************************************)
(* The calls begin.                                                        *)
(***************************************************************************)
LEMMA IdleCall == Idle \in Calls /\ Idle.pc = "idle" /\ Idle.op = "none" /\ Idle.id = NoId
BY DEF Idle, Calls, Pcs, Ops, InPath

\* A call begins, with the mutexes the VFS takes for it.
LEMMA BeginInv ==
    ASSUME IInv, NEW t \in Threads, NEW op \in Named, NEW d \in Dirs, NEW n \in Names,
           NEW e \in Dirs \cup {Gone}, NEW m \in Names \cup {Gone}, NEW held,
           held \subseteq Dirs, d \in held, op = "rename" => e \in held, op = "link" => e \in Dirs,
           Begin(t, op, d, n, e, m, held)
    PROVE  IInv'
<1> DEFINE x == [Idle EXCEPT !.pc = "find", !.op = op, !.dir = d, !.name = n,
                             !.dir2 = e, !.name2 = m]
<1>1. /\ x \in Calls /\ x.pc = "find" /\ x.op = op /\ x.dir = d /\ x.dir2 = e /\ x.id = NoId
    <2>1. Idle \in Calls /\ Idle.id = NoId
        BY IdleCall
    <2>2. op \in Ops /\ "find" \in Pcs
        BY DEF Ops, Pcs, InPath
    <2> QED BY <2>1, <2>2 DEF Calls
<1>2. th' = [th EXCEPT ![t] = x]
    BY DEF Begin
<1> HIDE DEF x
<1>3. Turns(t, x)
    BY <1>1, <1>2, TurnsTo DEF IInv
<1>4. mutex' = [k \in Dirs \cup Ids |-> IF k \in held THEN t ELSE mutex[k]]
    BY InvTyped DEF Begin
<1>5. mutex' \in [Dirs \cup Ids -> Threads \cup {Free}]
    BY <1>4, InvTyped
<1>6. \A u \in Threads : u # t => Holding(u)
    BY <1>4, VfsAssumption DEF Holding, Begin
<1>7. requests' \in 0 .. MaxRequests
    BY InvTyped, VfsAssumption DEF Begin
<1>8. CallOk(t)'
    <2>1. mutex'[d] = t /\ (op = "rename" => e \in Dirs /\ mutex'[e] = t)
        BY <1>4
    <2>2. PathOk(t)' /\ LookedUp(t)'
        BY <1>1, <1>3, <2>1 DEF PathOk, LookedUp, InPath, Turns
    <2>3. LaterOk(t) /\ rd' = rd
        BY DEF IInv, CallsOk, Begin
    <2> QED BY <1>1, <1>3, <2>2, <2>3 DEF CallOk, LaterOk, Turns
<1>9. Alone(t, x)
    BY <1>1 DEF Alone, Begin, Named
<1>10. \A j \in Ids : StandsSame(t, j)
    <2>1. th[t].pc = "idle"
        BY DEF Begin
    <2> QED BY <1>1, <1>3, <2>1, StandsNot DEF WorkPcs, HasPcs
<1>11. /\ UNCHANGED <<obj, kids, rd, sb, ino, lock, ver>> /\ lock' = Free
       /\ bg' \in Rounds /\ mounted' \in BOOLEAN
    BY InvTyped DEF Begin
<1> QED BY <1>1, <1>3, <1>5, <1>6, <1>7, <1>8, <1>9, <1>10, <1>11, PlainStep DEF WorkPcs, SyncPcs

\* The calls that name a file.
LEMMA NamedCalls ==
    ASSUME IInv, NEW t \in Threads, NEW d \in Dirs, NEW n \in Names, NEW e \in Dirs, NEW m \in Names,
           \/ BeginOpen(t, d, n) \/ BeginCreate(t, d, n) \/ BeginUnlink(t, d, n)
           \/ BeginLink(t, d, n, e, m) \/ BeginRename(t, d, n, e, m)
    PROVE  IInv'
<1>1. \A op \in Named \ {"link", "rename"} : (Begin(t, op, d, n, Gone, Gone, {d}) => IInv')
    BY BeginInv
<1>2. Begin(t, "link", d, n, e, m, {d}) => IInv'
    BY BeginInv DEF Named
<1>3. Begin(t, "rename", d, n, e, m, {d, e}) => IInv'
    BY BeginInv DEF Named
<1> QED BY <1>1, <1>2, <1>3 DEF BeginOpen, BeginCreate, BeginUnlink, BeginLink, BeginRename, Named

\* The search of t changes.
LEMMA SearchStep ==
    ASSUME IInv, NEW t \in Threads, NEW y \in Searches, rd' = [rd EXCEPT ![t] = y],
           UNCHANGED <<obj, kids, sb>>,
           y.next # NoId => y.dir \in Dirs /\ obj[y.next].dir = y.dir
    PROVE  TreeTyped' /\ TreeOk' /\ rd'[t] = y /\ \A u \in Threads : u # t => rd'[u] = rd[u]
<1>1. rd'[t] = y /\ (\A u \in Threads : u # t => rd'[u] = rd[u]) /\ rd' \in [Threads -> Searches]
    BY InvTyped
<1>2. TreeTyped'
    BY <1>1 DEF IInv, TreeTyped
<1>3. Found(rd', obj)
    BY <1>1 DEF IInv, TreeOk, Found
<1> QED BY <1>1, <1>2, <1>3 DEF IInv, TreeOk

\* The file a name stands for.
LEMMA TargetIs ==
    ASSUME IInv, NEW d \in Dirs, NEW n, NEW e, e = Equivalent(Find(d, n))
    PROVE  /\ e = NoId => NoneAt(obj, d, n) /\ Find(d, n) = NoId
           /\ e # NoId => /\ e \in Ids /\ Denotes(obj, d, n, e) /\ obj[e].type = "file"
                          /\ Find(d, n) # NoId
<1>1. CASE Find(d, n) = NoId
    <2>1. e = NoId
        BY <1>1 DEF Equivalent
    <2> QED BY <1>1, <2>1, FindIs DEF IInv
<1>2. CASE Find(d, n) # NoId
    <2>1. /\ Find(d, n) \in Ids /\ obj[Find(d, n)].dir \in Dirs /\ e = FileOf(obj, Find(d, n))
          /\ Denotes(obj, d, n, e)
        BY <1>2, FindIs DEF IInv, IsAt
    <2>2. e \in Ids /\ obj[e].type = "file"
        BY <2>1, InvTyped, FileOfIs DEF IInv, TreeOk
    <2> QED BY <1>2, <2>1, <2>2, VfsAssumption
<1> QED BY <1>1, <1>2

\* Where no more is needed of a thread.
LEMMA OutOfPath ==
    ASSUME IInv, NEW t \in Threads, NEW x, Turns(t, x), x.pc \notin InPath,
           x.pc \in {"opened", "put", "link", "drop", "delete", "unstitch", "evicted"} => x.id \in Ids,
           x.pc = "idle" => x.op # "umount", x.pc = "umount" => x.op = "umount",
           x.pc = "link" => x.dir2 \in Dirs, x.pc = "drop" => mutex'[x.id] = t,
           x.pc \in {"reading", "filldir", "advance", "endsearch"} => rd'[t].dir \in Dirs,
           rd'[t].ver # -1 => rd'[t].pos >= 2
    PROVE  CallOk(t)'
BY DEF CallOk, PathOk, LookedUp, LaterOk, Turns, InPath

\* A directory that has been read is past its first two entries.
LEMMA SearchesOk ==
    ASSUME IInv, NEW t \in Threads
    PROVE  rd[t].ver # -1 => rd[t].pos >= 2
BY DEF IInv, CallsOk, LaterOk

\* A step to where nothing is needed.
LEMMA RestingStep ==
    ASSUME IInv, NEW t \in Threads, NEW x, Turns(t, x), UNCHANGED <<obj, kids, rd, sb, ino>>,
           lock' = Free, UNCHANGED ver, bg' \in Rounds, mounted' \in BOOLEAN,
           requests' \in 0 .. MaxRequests,
           mutex' = mutex \/ mutex' = NoMutex(t),
           \A j \in Ids : StandsSame(t, j), Alone(t, x),
           x.pc \in {"idle", "leave", "umount", "stop", "kthread_stop", "put_super", "opened", "link"},
           x.pc = "idle" => x.op # "umount", x.pc = "umount" => x.op = "umount",
           x.pc \in {"opened", "link"} => x.id \in Ids, x.pc = "link" => x.dir2 \in Dirs
    PROVE  IInv'
<1>1. /\ mutex' \in [Dirs \cup Ids -> Threads \cup {Free}]
      /\ \A u \in Threads : u # t => Holding(u)
    BY NoMutexIs, SameMutex, InvTyped DEF IInv, Holding
<1>2. rd'[t].ver # -1 => rd'[t].pos >= 2
    BY SearchesOk
<1>3. CallOk(t)'
    BY <1>2, OutOfPath DEF InPath
<1> QED BY <1>1, <1>3, PlainStep DEF WorkPcs, SyncPcs

\* yaffs_lookup keeps the invariant.
LEMMA LookupInv ==
    ASSUME IInv, NEW t \in Threads, Lookup(t)
    PROVE  IInv'
<1> DEFINE r == th[t]
           i == Equivalent(IF r.op = "rename" THEN Find(r.dir2, r.name2) ELSE Find(r.dir, r.name))
           source == Equivalent(Find(r.dir, r.name))
<1>1. /\ r.pc = "find" /\ UNCHANGED <<mutex, obj, kids, ino, ver, rd, sb, bg, mounted, requests>>
      /\ lock' = Free
      /\ IF r.op = "rename" /\ (source = NoId \/ source = i) THEN Goes(t, "leave")
         ELSE IF i # NoId THEN th' = [th EXCEPT ![t].pc = "iget", ![t].id = i, ![t].gen = obj[i].gen]
         ELSE Goes(t, CASE r.op = "create" -> "make" [] r.op = "rename" -> "act" [] OTHER -> "leave")
    BY DEF Lookup, At, EndSection, Released
<1>2. /\ r.op \in Named /\ r.dir \in Dirs /\ mutex[r.dir] = t /\ r.id = NoId
      /\ r.op = "rename" => r.dir2 \in Dirs /\ mutex[r.dir2] = t
      /\ r.op = "link" => r.dir2 \in Dirs
    BY <1>1 DEF IInv, CallsOk, PathOk, InPath
<1>3. /\ source = NoId => NoneAt(obj, r.dir, r.name)
      /\ source # NoId => /\ source \in Ids /\ Denotes(obj, r.dir, r.name, source)
    BY <1>2, TargetIs
<1>4. r.op # "rename" => i = source
    OBVIOUS
<1>5. r.op = "rename" => /\ i = NoId => NoneAt(obj, r.dir2, r.name2)
                         /\ i # NoId => i \in Ids /\ Denotes(obj, r.dir2, r.name2, i)
    BY <1>2, TargetIs
<1> HIDE DEF i, source
<1>6. \A u : Holding(u)
    BY <1>1, SameMutex
<1>7. ASSUME NEW x, Turns(t, x), Same(x, r), x.pc \notin WorkPcs, x.pc \notin SyncPcs,
             x.pc \notin HasPcs \/ x.id \notin Ids, CallOk(t)'
      PROVE  IInv'
    <2>1. \A j \in Ids : StandsSame(t, j)
        BY <1>1, <1>7, StandsNot DEF WorkPcs, HasPcs
    <2>2. Alone(t, x)
        BY <1>1, <1>7, AloneKept
    <2> QED BY <1>1, <1>6, <1>7, <2>1, <2>2, PlainStep, InvTyped
<1>8. rd'[t].ver # -1 => rd'[t].pos >= 2
    BY <1>1, SearchesOk
<1>9. CASE Goes(t, "leave")
    <2>1. "leave" \in Pcs
        BY DEF Pcs
    <2>2. PICK x \in Calls : Turns(t, x) /\ x.pc = "leave" /\ Same(x, r)
        BY <1>9, <2>1, GoesTo DEF IInv
    <2>3. CallOk(t)'
        BY <1>8, <2>2, OutOfPath DEF InPath
    <2> QED BY <1>7, <2>2, <2>3 DEF WorkPcs, SyncPcs, HasPcs
<1>10. CASE /\ ~(r.op = "rename" /\ (source = NoId \/ source = i)) /\ i # NoId
    <2>1. i \in Ids /\ th' = [th EXCEPT ![t].pc = "iget", ![t].id = i, ![t].gen = obj[i].gen]
        BY <1>1, <1>3, <1>4, <1>5, <1>10
    <2>2. obj[i].gen \in Int /\ "iget" \in Pcs
        BY <2>1, InvTyped DEF ObjectRecords, Pcs, InPath
    <2>3. PICK x \in Calls : Turns(t, x) /\ x.pc = "iget" /\ Same(x, r) /\ x.id = i /\ x.gen = obj[i].gen
        <3>1. PICK g \in Int : g = obj[i].gen
            BY <2>2
        <3>2. RestTyped /\ MovesTo(t, "iget", i, g)
            BY <2>1, <3>1 DEF IInv, MovesTo
        <3> QED BY <2>1, <2>2, <3>1, <3>2, GoesToWith
    <2>4. PathOk(t)'
        BY <1>1, <1>2, <2>1, <2>3 DEF PathOk, Turns, Same
    <2>5. LookedUp(t)'
        BY <1>1, <1>3, <1>4, <1>5, <1>10, <2>3 DEF LookedUp, Turns, Same
    <2>6. LaterOk(t)'
        BY <1>8, <2>3 DEF LaterOk, Turns
    <2> QED BY <1>7, <2>3, <2>4, <2>5, <2>6 DEF CallOk, WorkPcs, SyncPcs, HasPcs
<1>11. CASE i = NoId /\ r.op = "create" /\ Goes(t, "make")
    <2>1. "make" \in Pcs
        BY DEF Pcs, InPath
    <2>2. PICK x \in Calls : Turns(t, x) /\ x.pc = "make" /\ Same(x, r) /\ x.id = NoId
        BY <1>2, <1>11, <2>1, GoesTo DEF IInv
    <2>3. PathOk(t)' /\ LookedUp(t)' /\ LaterOk(t)'
        BY <1>1, <1>2, <1>3, <1>4, <1>8, <1>11, <2>2 DEF PathOk, LookedUp, LaterOk, Turns, Same
    <2> QED BY <1>7, <2>2, <2>3 DEF CallOk, WorkPcs, SyncPcs, HasPcs
<1>12. CASE i = NoId /\ r.op = "rename" /\ source # NoId /\ Goes(t, "act")
    <2>1. "act" \in Pcs
        BY DEF Pcs, InPath
    <2>2. PICK x \in Calls : Turns(t, x) /\ x.pc = "act" /\ Same(x, r) /\ x.id = NoId
        BY <1>2, <1>12, <2>1, GoesTo DEF IInv
    <2>3. PathOk(t)'
        BY <1>1, <1>2, <2>2 DEF PathOk, Turns, Same
    <2>4. LookedUp(t)'
        BY <1>1, <1>3, <1>5, <1>12, <2>2 DEF LookedUp, Turns, Same
    <2>5. LaterOk(t)'
        BY <1>8, <2>2 DEF LaterOk, Turns
    <2>6. x.id \notin Ids
        BY <2>2, VfsAssumption
    <2> QED BY <1>7, <2>2, <2>3, <2>4, <2>5, <2>6 DEF CallOk, WorkPcs, SyncPcs
<1> QED BY <1>1, <1>9, <1>10, <1>11, <1>12

(***************************************************************************)
(* Calls end and go on.                                                    *)
(***************************************************************************)
LEMMA GoesOn ==
    ASSUME IInv, NEW t \in Threads, NEW pc \in Pcs, Goes(t, pc), th[t].pc # "idle"
    PROVE  \E x \in Calls : /\ Turns(t, x) /\ x.pc = pc /\ Same(x, th[t])
                            /\ x.id = th[t].id /\ x.gen = th[t].gen /\ Alone(t, x)
<1>1. PICK x \in Calls : /\ Turns(t, x) /\ x.pc = pc /\ Same(x, th[t])
                         /\ x.id = th[t].id /\ x.gen = th[t].gen
    BY GoesTo DEF IInv
<1> QED BY <1>1, AloneKept

\* A thread that has ended its call.
LEMMA Finishes ==
    ASSUME IInv, NEW t \in Threads, Finished(t), th[t].pc # "idle"
    PROVE  Turns(t, Idle) /\ Alone(t, Idle)
BY TurnsTo, IdleCall DEF IInv, Finished, Alone

\* What a call of another operation than rename has looked up.
LEMMA LookedUpIs ==
    ASSUME IInv, NEW t \in Threads, th[t].pc = "act", th[t].op # "rename"
    PROVE  /\ th[t].id \in Ids /\ th[t].dir \in Dirs /\ mutex[th[t].dir] = t
           /\ Denotes(obj, th[t].dir, th[t].name, th[t].id)
           /\ th[t].op = "link" => th[t].dir2 \in Dirs
<1>1. /\ th[t].dir \in Dirs /\ mutex[th[t].dir] = t
      /\ Denotes(obj, th[t].dir, th[t].name, th[t].id)
      /\ th[t].op = "link" => th[t].dir2 \in Dirs
    BY DEF IInv, CallsOk, PathOk, LookedUp, InPath
<1>2. th[t].id \in Ids
    BY <1>1, InvTyped, FileOfIs DEF IInv, TreeOk, Denotes, IsAt
<1> QED BY <1>1, <1>2

\* The end of a call keeps the invariant.
LEMMA LeaveInv ==
    ASSUME IInv, NEW t \in Threads, Leave(t)
    PROVE  IInv'
<1>1. Turns(t, Idle) /\ Alone(t, Idle)
    BY Finishes DEF Leave, At
<1>2. \A j \in Ids : StandsSame(t, j)
    BY <1>1, IdleCall, StandsNot DEF Leave, At, WorkPcs, HasPcs
<1> QED BY <1>1, <1>2, RestingStep, IdleCall, InvTyped DEF Leave

\* The end of an open keeps the invariant.
LEMMA OpenedInv ==
    ASSUME IInv, NEW t \in Threads, Opened(t)
    PROVE  IInv'
<1>1. PICK x \in Calls : /\ Turns(t, x) /\ x.pc = "opened" /\ x.id = th[t].id /\ Alone(t, x)
    BY GoesOn DEF Opened, At, Pcs, HasPcs
<1>2. x.id \in Ids
    BY <1>1, LookedUpIs DEF Opened, At
<1>3. \A j \in Ids : StandsSame(t, j)
    BY <1>1, StandsOn DEF Opened, At, HasPcs
<1> QED BY <1>1, <1>2, <1>3, RestingStep, InvTyped DEF Opened

\* Between the lookup of the old name and the link the invariant holds on.
LEMMA LinkFoundInv ==
    ASSUME IInv, NEW t \in Threads, LinkFound(t)
    PROVE  IInv'
<1>1. PICK x \in Calls : /\ Turns(t, x) /\ x.pc = "link" /\ x.id = th[t].id /\ Alone(t, x)
                         /\ Same(x, th[t])
    BY GoesOn DEF LinkFound, At, Pcs, HasPcs
<1>2. x.id \in Ids /\ x.dir2 \in Dirs
    BY <1>1, LookedUpIs DEF LinkFound, At, Same
<1>3. \A j \in Ids : StandsSame(t, j)
    BY <1>1, StandsOn DEF LinkFound, At, HasPcs
<1> QED BY <1>1, <1>2, <1>3, RestingStep, InvTyped DEF LinkFound

\* The unmount begins only when nobody calls, and keeps the invariant.
LEMMA BeginUmountInv ==
    ASSUME IInv, NEW t \in Threads, BeginUmount(t)
    PROVE  IInv'
<1>1. PICK x \in Calls : x.pc = "umount" /\ x.op = "umount" /\ th' = [th EXCEPT ![t] = x]
    <2>1. Idle \in Calls /\ "umount" \in Pcs /\ "umount" \in Ops
        BY IdleCall DEF Pcs, Ops
    <2>2. [Idle EXCEPT !.pc = "umount", !.op = "umount"] \in Calls
        BY <2>1 DEF Calls
    <2> QED BY <2>1, <2>2 DEF BeginUmount, Calls
<1>2. Turns(t, x)
    BY <1>1, TurnsTo DEF IInv
<1>3. Alone(t, x)
    <2>1. \A u \in Threads : th[u].pc = "idle"
        BY DEF BeginUmount
    <2>2. ASSUME \E u \in Threads : th[u].op = "umount" PROVE FALSE
        BY <2>1, <2>2 DEF IInv, CallsOk, LaterOk
    <2> QED BY <2>1, <2>2 DEF Alone
<1>4. \A j \in Ids : StandsSame(t, j)
    BY <1>1, <1>2, StandsNot DEF BeginUmount, WorkPcs, HasPcs
<1>5. requests' \in 0 .. MaxRequests
    BY InvTyped, VfsAssumption DEF BeginUmount
<1> QED BY <1>1, <1>2, <1>3, <1>4, <1>5, RestingStep, InvTyped DEF BeginUmount

\* Stopping the background thread keeps the invariant.
LEMMA StopBackgroundInv ==
    ASSUME IInv, NEW t \in Threads, StopBackground(t)
    PROVE  IInv'
<1>1. PICK x \in Calls : Turns(t, x) /\ x.pc = "kthread_stop" /\ Alone(t, x)
    BY GoesOn DEF StopBackground, At, Pcs
<1>2. \A j \in Ids : StandsSame(t, j)
    BY <1>1, StandsNot DEF StopBackground, At, WorkPcs, HasPcs
<1>3. bg' \in Rounds
    BY InvTyped DEF StopBackground, Rounds
<1> QED BY <1>1, <1>2, <1>3, RestingStep, InvTyped DEF StopBackground

\* Waiting for the background thread keeps the invariant.
LEMMA KthreadStopInv ==
    ASSUME IInv, NEW t \in Threads, KthreadStop(t)
    PROVE  IInv'
<1>1. bg' \in Rounds
    BY InvTyped DEF KthreadStop, Rounds
<1>2. PICK x \in Calls : Turns(t, x) /\ x.pc \in {"kthread_stop", "put_super"} /\ Alone(t, x)
    <2>1. CASE UNCHANGED th
        <3>1. Turns(t, th[t]) /\ th[t] \in Calls /\ Same(th[t], th[t]) /\ th[t].pc = "kthread_stop"
            BY <2>1, InvTyped DEF Turns, Same, KthreadStop, At
        <3> QED BY <3>1, AloneKept
    <2>2. CASE Goes(t, "put_super")
        BY <2>2, GoesOn DEF KthreadStop, At, Pcs
    <2> QED BY <2>1, <2>2 DEF KthreadStop
<1>3. \A j \in Ids : StandsSame(t, j)
    BY <1>2, StandsNot DEF KthreadStop, At, WorkPcs, HasPcs
<1> QED BY <1>1, <1>2, <1>3, RestingStep, InvTyped DEF KthreadStop

\* A step that changes no object, call or inode leaves the inodes right.
LEMMA InodesSame ==
    ASSUME IInv, UNCHANGED <<obj, th, ino>>
    PROVE  InodesOk'
<1>1. \A i \in Ids : FileSame(i)
    BY SameObjects DEF IInv
<1>2. \A i \in Ids : \A t \in Threads : StandsSame(t, i)
    BY DEF StandsSame, Has, Works, Drops
<1>3. \A i \in Ids : OneWorks(i)' /\ LiveOk(i)' /\ RestOk(i)'
    BY <1>1, <1>2, InodeKept DEF IInv, InodesOk
<1>4. \A t \in Threads : WorkOk(t)'
    BY DEF IInv, InodesOk, WorkOk
<1> QED BY <1>3, <1>4 DEF InodesOk

\* The end of the background thread keeps the invariant.
LEMMA BgExitInv ==
    ASSUME IInv, BgExit
    PROVE  IInv'
<1>1. bg' \in Rounds
    BY InvTyped DEF BgExit, Rounds
<1>2. TreeTyped' /\ TreeOk'
    BY SameTree, InvTyped DEF IInv, BgExit
<1>3. RestTyped'
    BY <1>1 DEF IInv, RestTyped, BgExit
<1>4. CallsOk' /\ InodesOk' /\ SyncOk'
    <2>1. UNCHANGED <<mutex, obj, rd, th, ino, sb>>
        BY DEF BgExit
    <2>2. CallsOk'
        BY <2>1 DEF IInv, CallsOk, PathOk, LookedUp, LaterOk, Unmounting
    <2>3. InodesOk'
        BY <2>1, InodesSame
    <2>4. SyncOk'
        BY <2>1 DEF IInv, SyncOk
    <2> QED BY <2>2, <2>3, <2>4
<1> QED BY <1>2, <1>3, <1>4 DEF IInv

(***************************************************************************)
(* The marks of the super block.                                           *)
(***************************************************************************)
\* A step of t that changes the marks of the super block.
LEMMA MarkStep ==
    ASSUME IInv, NEW t \in Threads, NEW x, Turns(t, x),
           UNCHANGED <<obj, kids, rd, ino, mutex, ver, bg>>, lock' = Free,
           mounted' \in BOOLEAN, requests' \in 0 .. MaxRequests, sb' \in Marks, SyncOk',
           \A j \in Ids : StandsSame(t, j), Alone(t, x),
           x.pc \notin InPath \cup WorkPcs \cup {"link", "drop", "reading", "filldir", "advance", "endsearch", "umount"},
           x.pc \in {"opened", "put"} => x.id \in Ids,
           x.pc = "idle" => x.op # "umount"
    PROVE  IInv'
<1>1. TreeTyped' /\ TreeOk'
    BY SameTree DEF IInv
<1>2. RestTyped'
    BY RestStays, InvTyped
<1>3. OthersGoOn(t)
    BY SameMutex DEF OthersGoOn
<1>4. rd'[t].ver # -1 => rd'[t].pos >= 2
    BY SearchesOk
<1>5. CallOk(t)'
    BY <1>4, OutOfPath DEF WorkPcs
<1> QED BY <1>1, <1>2, <1>3, <1>5, CallStep

\* yaffs_file_write and yaffs_setattr keep the invariant: what is in the cache is
\* noted in the super block in the same section.
LEMMA FileWriteInv ==
    ASSUME IInv, NEW t \in Threads, FileWrite(t) \/ Extend(t)
    PROVE  IInv'
<1>1. /\ Turns(t, th[t]) /\ Same(th[t], th[t]) /\ th[t].pc = "opened" /\ th[t].id \in Ids
    BY InvTyped DEF Turns, Same, FileWrite, Extend, At, IInv, CallsOk, LaterOk
<1>2. Alone(t, th[t])
    BY <1>1, AloneKept
<1>3. \A j \in Ids : StandsSame(t, j)
    BY <1>1, StandsOn DEF HasPcs
<1>4. /\ sb' \in Marks /\ sb'.cached = sb.cached \cup {th[t].id} /\ sb'.asked = sb.asked
      /\ QuietHoles => sb'.dirt
    <2>1. CASE FileWrite(t)
        <3>1. PICK c \in BOOLEAN : sb' = [sb EXCEPT !.cached = sb.cached \cup {th[t].id}, !.dirt = TRUE,
                                                    !.checkpointed = c]
            BY <2>1, InvTyped DEF FileWrite, Marked, Marks
        <3> QED BY <1>1, <3>1, InvTyped DEF Marks
    <2>2. CASE Extend(t)
        <3>1. sb' = [sb EXCEPT !.cached = sb.cached \cup {th[t].id}] /\ (QuietHoles => sb.dirt)
            BY <2>2 DEF Extend
        <3> QED BY <1>1, <3>1, InvTyped DEF Marks
    <2> QED BY <2>1, <2>2
<1>5. SyncOk'
    BY <1>1, <1>4 DEF IInv, SyncOk, Turns
<1>6. /\ UNCHANGED <<obj, kids, rd, ino, mutex, ver, bg, mounted, requests>> /\ lock' = Free
    BY DEF FileWrite, Extend, EndSection, Released
<1> QED BY <1>1, <1>2, <1>3, <1>4, <1>5, <1>6, MarkStep, InvTyped DEF InPath, WorkPcs

\* yaffs_file_flush keeps the invariant.
LEMMA FileFlushInv ==
    ASSUME IInv, NEW t \in Threads, FileFlush(t)
    PROVE  IInv'
<1>1. PICK x \in Calls : Turns(t, x) /\ x.pc = "put" /\ x.id = th[t].id /\ Alone(t, x)
    BY GoesOn DEF FileFlush, At, Pcs, HasPcs
<1>2. th[t].pc = "opened" /\ x.id \in Ids
    BY <1>1 DEF FileFlush, At, IInv, CallsOk, LaterOk
<1>3. \A j \in Ids : StandsSame(t, j)
    BY <1>1, <1>2, StandsOn DEF HasPcs
<1>4. /\ sb' \in Marks /\ sb'.cached = sb.cached \ {x.id} /\ sb'.dirt = sb.dirt
      /\ \A u \in Threads : sb'.asked[u] = sb.asked[u] \ {x.id}
    <2>1. PICK i : i = x.id
        OBVIOUS
    <2>2. PICK c \in BOOLEAN : c = (sb.checkpointed /\ i \notin sb.cached)
        OBVIOUS
    <2>3. sb' = [sb EXCEPT !.cached = sb.cached \ {i}, !.asked = [u \in Threads |-> sb.asked[u] \ {i}],
                           !.checkpointed = c]
        BY <1>1, <2>1, <2>2, InvTyped DEF FileFlush, Marks
    <2> QED BY <2>1, <2>3, InvTyped DEF Marks
<1>5. SyncOk'
    BY <1>1, <1>4 DEF IInv, SyncOk, Turns
<1>6. /\ UNCHANGED <<obj, kids, rd, ino, mutex, ver, bg, mounted, requests>> /\ lock' = Free
    BY DEF FileFlush, EndSection, Released
<1> QED BY <1>1, <1>2, <1>3, <1>4, <1>5, <1>6, MarkStep, InvTyped DEF InPath, WorkPcs

\* The choice how much yaffs_sync_fs is to write keeps the invariant.
LEMMA UrgencyInv ==
    ASSUME IInv, NEW t \in Threads, Urgency(t)
    PROVE  IInv'
<1>1. PICK x \in Calls : Turns(t, x) /\ x.pc \in {"sync", "syncandsave"} /\ Alone(t, x)
    BY GoesOn DEF Urgency, At, Pcs, SyncPcs
<1>2. \A j \in Ids : StandsSame(t, j)
    BY <1>1, StandsNot DEF Urgency, At, WorkPcs, HasPcs
<1>3. SyncOk'
    BY <1>1 DEF IInv, SyncOk, Turns, Urgency, At
<1> QED BY <1>1, <1>2, <1>3, MarkStep, InvTyped DEF Urgency, InPath, WorkPcs

\* What is left to write when everything has been flushed.
LEMMA FlushedMarks ==
    ASSUME NEW c \in BOOLEAN
    PROVE  /\ Flushed(c) \in Marks /\ Flushed(c).cached = {}
           /\ \A u \in Threads : Flushed(c).asked[u] = {}
BY DEF Flushed, Marks

\* yaffs_do_sync_fs keeps the invariant: it resets the mark when all is written.
LEMMA SyncFsInv ==
    ASSUME IInv, NEW t \in Threads, SyncFs(t)
    PROVE  IInv'
<1>0. th[t].pc \in {"sync", "syncandsave"}
    BY DEF SyncFs, At
<1>1. PICK x \in Calls : Turns(t, x) /\ x.pc = "synced" /\ Alone(t, x)
    BY <1>0, GoesOn DEF SyncFs, Pcs, SyncPcs
<1>2. \A j \in Ids : StandsSame(t, j)
    BY <1>0, <1>1, StandsNot DEF WorkPcs, HasPcs
<1>3. \/ \E c \in BOOLEAN : sb' = Flushed(c)
      \/ sb' = sb /\ ~sb.dirt
    BY InvTyped DEF SyncFs, Marks
<1>4. sb' \in Marks /\ SyncOk'
    <2>1. CASE \E c \in BOOLEAN : sb' = Flushed(c)
        <3>1. sb' \in Marks /\ sb'.cached = {} /\ \A u \in Threads : sb'.asked[u] = {}
            BY <2>1, FlushedMarks
        <3> QED BY <3>1 DEF SyncOk
    <2>2. CASE sb' = sb /\ ~sb.dirt
        <3>1. QuietHoles => sb.cached = {}
            BY <2>2 DEF IInv, SyncOk
        <3>2. sb.asked[t] \subseteq sb.cached
            BY <1>0 DEF IInv, SyncOk
        <3> QED BY <1>1, <2>2, <3>1, <3>2, InvTyped DEF IInv, SyncOk, Turns
    <2> QED BY <1>3, <2>1, <2>2
<1>5. /\ UNCHANGED <<obj, kids, rd, ino, mutex, ver, bg, mounted, requests>> /\ lock' = Free
    BY DEF SyncFs, EndSection, Released
<1> QED BY <1>1, <1>2, <1>4, <1>5, MarkStep, InvTyped DEF InPath, WorkPcs

\* The end of a sync keeps the invariant.
LEMMA SyncedInv ==
    ASSUME IInv, NEW t \in Threads, Synced(t)
    PROVE  IInv'
<1>1. Turns(t, Idle) /\ Alone(t, Idle)
    BY Finishes DEF Synced, At
<1>2. \A j \in Ids : StandsSame(t, j)
    BY <1>1, IdleCall, StandsNot DEF Synced, At, WorkPcs, HasPcs
<1>3. /\ sb' \in Marks /\ sb'.cached = sb.cached /\ sb'.dirt = sb.dirt
      /\ \A u \in Threads : sb'.asked[u] = IF u = t THEN {} ELSE sb.asked[u]
    BY InvTyped DEF Synced, Marks
<1>4. SyncOk'
    BY <1>1, <1>3, IdleCall DEF IInv, SyncOk, Turns
<1>5. /\ UNCHANGED <<obj, kids, rd, ino, mutex, ver, bg, mounted, requests>> /\ lock' = Free
    BY InvTyped DEF Synced
<1> QED BY <1>1, <1>2, <1>3, <1>4, <1>5, IdleCall, MarkStep, InvTyped DEF InPath, WorkPcs

\* The begin of a sync keeps the invariant.
LEMMA BeginSyncInv ==
    ASSUME IInv, NEW t \in Threads, BeginSync(t)
    PROVE  IInv'
<1>1. PICK x \in Calls : x.pc = "urgency" /\ x.op = "sync" /\ th' = [th EXCEPT ![t] = x]
    <2>1. Idle \in Calls /\ "urgency" \in Pcs /\ "sync" \in Ops
        BY IdleCall DEF Pcs, Ops, SyncPcs
    <2>2. [Idle EXCEPT !.pc = "urgency", !.op = "sync"] \in Calls
        BY <2>1 DEF Calls
    <2> QED BY <2>1, <2>2 DEF BeginSync, Calls
<1>2. Turns(t, x) /\ Alone(t, x)
    BY <1>1, TurnsTo DEF IInv, Alone, BeginSync
<1>3. \A j \in Ids : StandsSame(t, j)
    BY <1>1, <1>2, StandsNot DEF BeginSync, WorkPcs, HasPcs
<1>4. /\ sb' \in Marks /\ sb'.cached = sb.cached /\ sb'.dirt = sb.dirt
      /\ \A u \in Threads : sb'.asked[u] = IF u = t THEN sb.cached ELSE sb.asked[u]
    BY InvTyped DEF BeginSync, Marks
<1>5. SyncOk'
    BY <1>1, <1>2, <1>4 DEF IInv, SyncOk, Turns
<1>6. requests' \in 0 .. MaxRequests
    BY InvTyped, VfsAssumption DEF BeginSync
<1>7. /\ UNCHANGED <<obj, kids, rd, ino, mutex, ver, bg, mounted>> /\ lock' = Free
    BY InvTyped DEF BeginSync
<1> QED BY <1>1, <1>2, <1>3, <1>4, <1>5, <1>6, <1>7, MarkStep, InvTyped DEF InPath, WorkPcs

\* yaffs_put_super keeps the invariant.
LEMMA PutSuperInv ==
    ASSUME IInv, NEW t \in Threads, PutSuper(t)
    PROVE  IInv'
<1>1. Turns(t, Idle) /\ Alone(t, Idle)
    BY Finishes DEF PutSuper, At
<1>2. \A j \in Ids : StandsSame(t, j)
    BY <1>1, IdleCall, StandsNot DEF PutSuper, At, WorkPcs, HasPcs
<1>3. sb' \in Marks /\ sb'.cached = {} /\ \A u \in Threads : sb'.asked[u] = {}
    BY FlushedMarks DEF PutSuper
<1>4. SyncOk'
    BY <1>3 DEF SyncOk
<1>5. /\ UNCHANGED <<obj, kids, rd, ino, mutex, ver, bg, requests>> /\ lock' = Free
      /\ mounted' \in BOOLEAN
    BY DEF PutSuper, EndSection, Released
<1> QED BY <1>1, <1>2, <1>3, <1>4, <1>5, IdleCall, MarkStep, InvTyped DEF InPath, WorkPcs

\* A round of the background thread keeps the invariant.
LEMMA BgRoundInv ==
    ASSUME IInv, BgRound
    PROVE  IInv'
<1>1. PICK c \in BOOLEAN : sb' = [sb EXCEPT !.checkpointed = c]
    BY InvTyped DEF BgRound, Marks
<1>2. sb' \in Marks /\ sb'.cached = sb.cached /\ sb'.dirt = sb.dirt /\ sb'.asked = sb.asked
    BY <1>1, InvTyped DEF Marks
<1>3. UNCHANGED <<mutex, obj, kids, ino, ver, th, rd, bg, mounted, requests>> /\ lock' = Free
    BY DEF BgRound, EndSection, Released
<1>4. TreeTyped' /\ TreeOk'
    BY <1>2, <1>3, SameTree DEF IInv
<1>5. RestTyped'
    BY <1>3 DEF IInv, RestTyped
<1>6. CallsOk'
    BY <1>3 DEF IInv, CallsOk, PathOk, LookedUp, LaterOk, Unmounting
<1>7. InodesOk'
    BY <1>3, InodesSame
<1>8. SyncOk'
    BY <1>2, <1>3 DEF IInv, SyncOk
<1> QED BY <1>4, <1>5, <1>6, <1>7, <1>8 DEF IInv

(***************************************************************************)
(* Reading a directory.                                                    *)
(***************************************************************************)
ReadPcs == {"reading", "filldir", "advance", "endsearch", "last", "idle"}

\* A step of a thread that reads a directory.
LEMMA ReadStep ==
    ASSUME IInv, NEW t \in Threads, NEW x, Turns(t, x), NEW y \in Searches,
           rd' = [rd EXCEPT ![t] = y], UNCHANGED <<obj, kids, sb, ino, ver, bg, mounted>>,
           lock' = Free, requests' \in 0 .. MaxRequests,
           mutex' \in [Dirs \cup Ids -> Threads \cup {Free}],
           \A u \in Threads : u # t => Holding(u),
           y.next # NoId => y.dir \in Dirs /\ obj[y.next].dir = y.dir,
           y.ver # -1 => y.pos >= 2, x.pc \in {"reading", "filldir", "advance", "endsearch"} => y.dir \in Dirs,
           th[t].pc \in ReadPcs, x.pc \in ReadPcs, Alone(t, x), x.pc = "idle" => x.op # "umount"
    PROVE  IInv'
<1>1. TreeTyped' /\ TreeOk' /\ rd'[t] = y /\ \A u \in Threads : u # t => rd'[u] = rd[u]
    BY SearchStep
<1>2. RestTyped'
    BY RestStays, InvTyped
<1>3. SyncOk'
    BY SyncStays DEF SyncPcs, ReadPcs
<1>4. OthersGoOn(t)
    BY <1>1 DEF OthersGoOn
<1>5. CallOk(t)'
    BY <1>1, OutOfPath DEF ReadPcs, InPath
<1>6. \A j \in Ids : StandsSame(t, j)
    BY StandsNot DEF ReadPcs, WorkPcs, HasPcs
<1> QED BY <1>1, <1>2, <1>3, <1>4, <1>5, <1>6, CallStep DEF ReadPcs, WorkPcs

\* The names in a directory.
LEMMA NamesInTyped ==
    ASSUME IInv, NEW d \in Dirs
    PROVE  NamesIn(Tree, d) \subseteq Names \cup {Gone}
<1>1. kids[d] \in Seq(Ids) /\ \A k \in 1 .. Len(kids[d]) : kids[d][k] \in Ids
    BY InvTyped
<1>2. \A i \in Ids : obj[i].name \in Names \cup {Gone}
    BY InvTyped DEF ObjectRecords
<1>3. Tree.obj = obj /\ Tree.kids = kids
    BY DEF Tree
<1> QED BY <1>1, <1>2, <1>3 DEF NamesIn

\* opendir keeps the invariant.
LEMMA BeginReadInv ==
    ASSUME IInv, NEW t \in Threads, NEW d \in Dirs, BeginRead(t, d)
    PROVE  IInv'
<1>1. PICK x \in Calls : x.pc = "reading" /\ x.op = "read" /\ th' = [th EXCEPT ![t] = x]
    <2>1. Idle \in Calls /\ "reading" \in Pcs /\ "read" \in Ops
        BY IdleCall DEF Pcs, Ops
    <2>2. [Idle EXCEPT !.pc = "reading", !.op = "read"] \in Calls
        BY <2>1 DEF Calls
    <2> QED BY <2>1, <2>2 DEF BeginRead, Calls
<1>2. Turns(t, x) /\ Alone(t, x)
    BY <1>1, TurnsTo DEF IInv, Alone, BeginRead
<1>3. PICK names : names = NamesIn(Tree, d)
    OBVIOUS
<1>4. names \subseteq Names \cup {Gone}
    BY <1>3, NamesInTyped
<1>5. PICK y \in Searches : /\ rd' = [rd EXCEPT ![t] = y]
                            /\ y.dir = d /\ y.ver = -1 /\ y.next = NoId
    <2>1. NotReading \in Searches
        BY DEF NotReading, Searches
    <2>2. [NotReading EXCEPT !.dir = d, !.since = names] \in Searches
        BY <1>4, <2>1 DEF Searches
    <2>3. rd' = [rd EXCEPT ![t] = [NotReading EXCEPT !.dir = d, !.since = names]]
        BY <1>3 DEF BeginRead
    <2> QED BY <2>2, <2>3 DEF NotReading
<1>6. requests' \in 0 .. MaxRequests
    BY InvTyped, VfsAssumption DEF BeginRead
<1>7. /\ UNCHANGED <<obj, kids, sb, ino, ver, bg, mounted, mutex>> /\ lock' = Free
      /\ th[t].pc = "idle"
    BY InvTyped DEF BeginRead
<1> QED BY <1>1, <1>2, <1>5, <1>6, <1>7, ReadStep, SameMutex, InvTyped DEF ReadPcs

\* The entry a search is put at is in its directory.
LEMMA AtEntryIs ==
    ASSUME IInv, NEW r \in Searches, NEW i \in Ids \cup {NoId}
    PROVE  /\ AtEntry(r, i) \in Searches /\ AtEntry(r, i).next = i /\ AtEntry(r, i).dir = r.dir
           /\ AtEntry(r, i).pos = r.pos /\ AtEntry(r, i).ver = r.ver
<1>1. PICK n \in Names \cup {Gone} : n = IF i = NoId THEN Gone ELSE obj[i].name
    BY InvTyped DEF ObjectRecords
<1>2. AtEntry(r, i) = [r EXCEPT !.next = i, !.name = n]
    BY <1>1 DEF AtEntry
<1> QED BY <1>2 DEF Searches

\* What a directory lists is in it.
LEMMA InList ==
    ASSUME IInv, NEW d \in Dirs, NEW i \in Ids, In(kids[d], i)
    PROVE  obj[i].dir = d
BY DEF IInv, TreeOk, Lists

\* The begin of yaffs_readdir keeps the invariant.
LEMMA ReaddirInv ==
    ASSUME IInv, NEW t \in Threads, Readdir(t)
    PROVE  IInv'
<1>1. PICK r \in Searches : r = rd[t]
    BY InvTyped
<1>2. r.dir \in Dirs /\ th[t].pc = "reading" /\ mutex[r.dir] = Free
    BY <1>1 DEF Readdir, At, IInv, CallsOk, LaterOk
<1>3. PICK pos \in Nat : pos = (IF r.ver # ver[r.dir] THEN 2 ELSE r.pos) /\ pos >= 2
    <2>1. ver[r.dir] \in Nat /\ r.pos \in Nat
        BY <1>2, InvTyped DEF Searches
    <2>2. r.ver = ver[r.dir] => r.pos >= 2
        BY <1>1, <2>1, SearchesOk
    <2> QED BY <2>1, <2>2
<1>4. PICK list \in Seq(Ids) : list = kids[r.dir]
    BY <1>2, InvTyped
<1>5. PICK first \in Ids \cup {NoId} : first = IF pos - 1 <= Len(list) THEN list[pos - 1] ELSE NoId
    <2>1. pos - 1 <= Len(list) => pos - 1 \in 1 .. Len(list)
        BY <1>3
    <2>2. pos - 1 <= Len(list) => list[pos - 1] \in Ids
        BY <2>1
    <2> QED BY <2>2
<1>6. first # NoId => obj[first].dir = r.dir
    <2>1. first # NoId => pos - 1 \in 1 .. Len(list) /\ list[pos - 1] = first
        BY <1>3, <1>5
    <2>2. first # NoId => In(kids[r.dir], first)
        BY <1>4, <2>1 DEF In
    <2> QED BY <1>2, <1>5, <2>2, InList
<1>7. PICK v \in Nat : v = ver[r.dir]
    BY <1>2, InvTyped
<1>8. PICK y \in Searches : /\ rd' = [rd EXCEPT ![t] = y] /\ y.next = first /\ y.dir = r.dir
                            /\ y.pos = pos
    <2>1. PICK z : z = AtEntry(r, first)
        OBVIOUS
    <2>2. z \in Searches /\ z.next = first /\ z.dir = r.dir
        BY <2>1, AtEntryIs
    <2>3. rd' = [rd EXCEPT ![t] = [z EXCEPT !.pos = pos, !.ver = v, !.room = Room]]
        BY <1>1, <1>3, <1>4, <1>5, <1>7, <2>1 DEF Readdir
    <2>4. [z EXCEPT !.pos = pos, !.ver = v, !.room = Room] \in Searches
        <3>1. Room \in Int /\ v \in Int
            BY VfsAssumption
        <3> QED BY <2>2, <3>1 DEF Searches
    <2> QED BY <2>2, <2>3, <2>4 DEF Searches
<1>9. PICK x \in Calls : Turns(t, x) /\ x.pc \in {"filldir", "endsearch", "last"} /\ Alone(t, x)
    <2>1. Goes(t, "filldir") \/ Goes(t, "endsearch") \/ Goes(t, "last")
        BY DEF Readdir
    <2> QED BY <1>2, <2>1, GoesOn DEF Pcs
<1>10. /\ mutex' \in [Dirs \cup Ids -> Threads \cup {Free}]
       /\ \A u \in Threads : u # t => Holding(u)
    BY <1>1, <1>2, InvTyped, VfsAssumption DEF Readdir, Holding
<1>11. UNCHANGED <<obj, kids, ino, ver, sb, bg, mounted, requests>> /\ lock' = Free
    BY DEF Readdir, EndSection, Released
<1> QED BY <1>2, <1>3, <1>6, <1>8, <1>9, <1>10, <1>11, ReadStep, InvTyped DEF ReadPcs

\* The search of t as it is.
LEMMA SearchIs ==
    ASSUME IInv, NEW t \in Threads
    PROVE  /\ th[t].pc \in {"reading", "filldir", "advance", "endsearch"} => rd[t].dir \in Dirs
           /\ rd[t] \in Searches /\ (rd[t].ver # -1 => rd[t].pos >= 2)
           /\ rd[t].next # NoId => rd[t].dir \in Dirs /\ obj[rd[t].next].dir = rd[t].dir
BY InvTyped, SearchesOk DEF IInv, TreeOk, Found, CallsOk, LaterOk

\* An entry that is given to filldir keeps the invariant.
LEMMA FilldirInv ==
    ASSUME IInv, NEW t \in Threads, Filldir(t)
    PROVE  IInv'
<1>1. PICK r \in Searches : r = rd[t]
    BY InvTyped
<1>2. PICK y \in Searches : /\ rd' = [rd EXCEPT ![t] = y] /\ y.next = r.next /\ y.dir = r.dir
                            /\ y.ver = r.ver /\ y.pos = r.pos
    <2>1. CASE UNCHANGED rd
        BY <1>1, <2>1, InvTyped
    <2>2. CASE rd' = [rd EXCEPT ![t].listed = @ \cup {rd[t].name}, ![t].room = @ - 1]
        <3>1. rd' = [rd EXCEPT ![t] = [r EXCEPT !.listed = r.listed \cup {r.name}, !.room = r.room - 1]]
            BY <1>1, <2>2, InvTyped
        <3>2. [r EXCEPT !.listed = r.listed \cup {r.name}, !.room = r.room - 1] \in Searches
            <4>1. r.listed \cup {r.name} \subseteq Names \cup {Gone} /\ r.room - 1 \in Int
                BY DEF Searches
            <4> QED BY <4>1 DEF Searches
        <3> QED BY <3>1, <3>2 DEF Searches
    <2> QED BY <2>1, <2>2 DEF Filldir
<1>3. PICK x \in Calls : Turns(t, x) /\ x.pc \in {"endsearch", "advance"} /\ Alone(t, x)
    BY GoesOn DEF Filldir, At, Pcs
<1>4. UNCHANGED <<obj, kids, ino, ver, sb, bg, mounted, requests, mutex>> /\ lock' = Free
    BY InvTyped DEF Filldir
<1>5. th[t].pc = "filldir"
    BY DEF Filldir, At
<1> QED BY <1>1, <1>2, <1>3, <1>4, <1>5, SearchIs, ReadStep, SameMutex, InvTyped DEF ReadPcs

\* The search that goes on to the next entry keeps the invariant.
LEMMA AdvanceInv ==
    ASSUME IInv, NEW t \in Threads, Advance(t)
    PROVE  IInv'
<1>1. PICK r \in Searches : r = rd[t]
    BY InvTyped
<1>2. PICK next : next = IF r.next = NoId THEN NoId ELSE After(kids[r.dir], r.next)
    OBVIOUS
<1>3. next \in Ids \cup {NoId} /\ (next # NoId => r.dir \in Dirs /\ obj[next].dir = r.dir)
    <2>1. CASE next = NoId
        BY <2>1
    <2>2. CASE next # NoId
        <3>1. r.dir \in Dirs /\ r.next \in Ids /\ next = After(kids[r.dir], r.next)
            BY <1>1, <1>2, <2>2, SearchIs DEF Searches
        <3>2. PICK list \in Seq(Ids) : list = kids[r.dir] /\ Once(list)
            BY <3>1, InvTyped DEF IInv, TreeOk, Lists
        <3>3. next \in Ids /\ In(list, next)
            BY <2>2, <3>1, <3>2, AfterIsNext
        <3> QED BY <3>1, <3>2, <3>3, InList
    <2> QED BY <2>1, <2>2
<1>4. PICK y \in Searches : /\ rd' = [rd EXCEPT ![t] = y] /\ y.next = next /\ y.dir = r.dir
                            /\ y.ver = r.ver /\ y.pos = r.pos + 1
    <2>1. PICK z : z = AtEntry(r, next)
        OBVIOUS
    <2>2. z \in Searches /\ z.next = next /\ z.dir = r.dir /\ z.pos = r.pos /\ z.ver = r.ver
        BY <1>3, <2>1, AtEntryIs
    <2>3. rd' = [rd EXCEPT ![t] = [z EXCEPT !.pos = z.pos + 1]]
        BY <1>1, <1>2, <2>1 DEF Advance
    <2>4. [z EXCEPT !.pos = z.pos + 1] \in Searches
        BY <2>2 DEF Searches
    <2> QED BY <2>2, <2>3, <2>4 DEF Searches
<1>5. PICK x \in Calls : Turns(t, x) /\ x.pc \in {"endsearch", "filldir"} /\ Alone(t, x)
    <2>1. Goes(t, "filldir") \/ Goes(t, "endsearch")
        BY DEF Advance
    <2> QED BY <2>1, GoesOn DEF Advance, At, Pcs
<1>6. UNCHANGED <<obj, kids, ino, ver, sb, bg, mounted, requests, mutex>> /\ lock' = Free
    BY DEF Advance, EndSection, Released
<1>7. th[t].pc = "advance"
    BY DEF Advance, At
<1>8. y.ver # -1 => y.pos >= 2
    <2>1. r.pos \in Nat
        BY DEF Searches
    <2> QED BY <1>1, <1>4, <2>1, SearchIs
<1>9. r.dir \in Dirs
    BY <1>1, <1>7, SearchIs
<1> QED BY <1>3, <1>4, <1>5, <1>6, <1>7, <1>8, <1>9, ReadStep, SameMutex, InvTyped DEF ReadPcs

\* The end of the search keeps the invariant.
LEMMA EndSearchInv ==
    ASSUME IInv, NEW t \in Threads, EndSearch(t)
    PROVE  IInv'
<1>1. PICK r \in Searches : r = rd[t]
    BY InvTyped
<1>2. PICK y \in Searches : /\ rd' = [rd EXCEPT ![t] = y] /\ y.next = NoId /\ y.dir = r.dir
                            /\ y.ver = r.ver /\ y.pos = r.pos
    <2>1. rd' = [rd EXCEPT ![t] = [r EXCEPT !.next = NoId, !.name = Gone]]
        BY <1>1, InvTyped DEF EndSearch
    <2>2. [r EXCEPT !.next = NoId, !.name = Gone] \in Searches
        BY DEF Searches
    <2> QED BY <2>1, <2>2 DEF Searches
<1>3. PICK x \in Calls : Turns(t, x) /\ x.pc = "reading" /\ Alone(t, x)
    BY GoesOn DEF EndSearch, At, Pcs
<1>4. UNCHANGED <<obj, kids, ino, ver, sb, bg, mounted, requests>> /\ lock' = Free
    BY DEF EndSearch, EndSection, Released
<1>5. th[t].pc = "endsearch" /\ r.dir \in Dirs
    BY <1>1, SearchIs DEF EndSearch, At
<1>6. /\ mutex' \in [Dirs \cup Ids -> Threads \cup {Free}]
      /\ \A u \in Threads : u # t => Holding(u)
    BY NoMutexIs DEF IInv, Holding, EndSearch
<1> QED BY <1>1, <1>2, <1>3, <1>4, <1>5, <1>6, SearchIs, ReadStep, InvTyped DEF ReadPcs

\* closedir keeps the invariant.
LEMMA CloseDirInv ==
    ASSUME IInv, NEW t \in Threads, CloseDir(t)
    PROVE  IInv'
<1>1. Turns(t, Idle) /\ Alone(t, Idle)
    BY Finishes DEF CloseDir, At
<1>2. NotReading \in Searches /\ NotReading.next = NoId /\ NotReading.ver = -1
    BY DEF NotReading, Searches
<1>3. /\ mutex' \in [Dirs \cup Ids -> Threads \cup {Free}]
      /\ \A u \in Threads : u # t => Holding(u)
    BY NoMutexIs DEF IInv, Holding, CloseDir
<1>4. UNCHANGED <<obj, kids, ino, ver, sb, bg, mounted, requests>> /\ lock' = Free
    BY InvTyped DEF CloseDir
<1>5. th[t].pc = "last" /\ rd' = [rd EXCEPT ![t] = NotReading]
    BY DEF CloseDir, At
<1> QED BY <1>1, <1>2, <1>3, <1>4, <1>5, IdleCall, ReadStep, InvTyped DEF ReadPcs

(***************************************************************************)
(* The steps that get and put inodes.                                      *)
(***************************************************************************)
LEMMA HoldersIs ==
    ASSUME NEW i \in Ids
    PROVE  /\ IsFiniteSet(Holders(i)) /\ Cardinality(Holders(i)) \in Nat
           /\ Cardinality(Holders(i)) = 0 <=> Holders(i) = {}
           /\ Holders(i) = {} => Dropping(i) = 0
<1>1. IsFiniteSet(Holders(i))
    BY FS_Subset, VfsAssumption DEF Holders
<1>2. Holders(i) = {} => Dropping(i) = 0
    BY DEF Holders, Dropping, Has, Drops
<1> QED BY <1>1, <1>2, FS_CardinalityType, FS_EmptySet

\* One thread more has the inode.
LEMMA HoldersMore ==
    ASSUME NEW i \in Ids, NEW t \in Threads, NEW x, Turns(t, x), ~Has(t, i), Has(t, i)'
    PROVE  Holders(i)' = Holders(i) \cup {t} /\ Cardinality(Holders(i)') = Cardinality(Holders(i)) + 1
<1>1. Holders(i)' = Holders(i) \cup {t} /\ t \notin Holders(i)
    BY DEF Holders, Turns, Has
<1> QED BY <1>1, HoldersIs, FS_AddElement

\* One thread fewer has the inode.
LEMMA HoldersFewer ==
    ASSUME NEW i \in Ids, NEW t \in Threads, NEW x, Turns(t, x), Has(t, i), ~Has(t, i)'
    PROVE  Holders(i)' = Holders(i) \ {t} /\ Cardinality(Holders(i)') = Cardinality(Holders(i)) - 1
<1>1. Holders(i)' = Holders(i) \ {t} /\ t \in Holders(i)
    BY DEF Holders, Turns, Has
<1> QED BY <1>1, HoldersIs, FS_RemoveElement

\* The same threads have the inode.
LEMMA HoldersKept ==
    ASSUME NEW i \in Ids, NEW t \in Threads, NEW x, Turns(t, x), Has(t, i)' <=> Has(t, i)
    PROVE  Holders(i)' = Holders(i)
BY DEF Holders, Turns, Has

\* The same link count is still to be dropped.
LEMMA DroppingKept ==
    ASSUME NEW i \in Ids, NEW t \in Threads, NEW x, Turns(t, x), Drops(t, i)' <=> Drops(t, i)
    PROVE  Dropping(i)' = Dropping(i)
BY DEF Dropping, Turns, Drops

\* The link count is a number.
LEMMA LCIs ==
    ASSUME NEW o \in [Ids -> ObjectRecords], NEW i \in Ids
    PROVE  LC(o, i) \in Nat
<1>1. PICK a \in Nat : a = Len(o[i].links)
    BY DEF ObjectRecords
<1>2. LC(o, i) = (IF o[i].dir \in Dirs THEN 1 ELSE 0) + a
    BY <1>1 DEF LC
<1> QED BY <1>2

\* What the invariant says of one inode.
LEMMA InodeIs ==
    ASSUME IInv, NEW i \in Ids
    PROVE  /\ LiveOk(i) /\ RestOk(i) /\ OneWorks(i) /\ ino[i] \in InodeRecords
           /\ ino[i].nlink \in Nat /\ ino[i].count \in Nat /\ ino[i].off \in Nat
           /\ obj[i] \in ObjectRecords /\ obj[i].gen \in Nat /\ LC(obj, i) \in Nat
           /\ FileOk(obj, i)
<1>1. ino[i] \in InodeRecords /\ obj[i] \in ObjectRecords /\ LC(obj, i) \in Nat
    BY InvTyped, LCIs
<1>2. ino[i].nlink \in Nat /\ ino[i].count \in Nat /\ ino[i].off \in Nat /\ obj[i].gen \in Nat
    BY <1>1 DEF InodeRecords, ObjectRecords
<1> QED BY <1>1, <1>2 DEF IInv, InodesOk, TreeOk, Objects

\* A step of t that changes inode i.
LEMMA InodeStep ==
    ASSUME IInv, NEW t \in Threads, NEW x, Turns(t, x), UNCHANGED <<obj, kids, rd, sb>>,
           lock' = Free, UNCHANGED <<ver, bg, mounted, requests>>,
           mutex' = mutex \/ mutex' = NoMutex(t), NEW i \in Ids, ino' \in [Ids -> InodeRecords],
           x.pc \notin SyncPcs, CallOk(t)', WorkOk(t)', Alone(t, x),
           \A j \in Ids \ {i} : ino'[j] = ino[j] /\ StandsSame(t, j),
           LiveOk(i)', RestOk(i)', OneWorks(i)', \A u \in Threads \ {t} : ~Works(u, i)
    PROVE  IInv'
<1>1. TreeTyped' /\ TreeOk'
    BY SameTree, InvTyped DEF IInv
<1>2. /\ mutex' \in [Dirs \cup Ids -> Threads \cup {Free}]
      /\ \A u \in Threads : u # t => Holding(u)
    BY NoMutexIs, SameMutex, InvTyped DEF IInv, Holding
<1>3. RestTyped'
    BY <1>2, RestStays, InvTyped
<1>4. SyncOk'
    BY SyncStays
<1>5. (\A u : Kept(u)) /\ \A j \in Ids : FileSame(j)
    BY SameObjects DEF IInv
<1>6. i # NoId
    BY VfsAssumption
<1>7. CallsOk' /\ InodesOk'
    BY <1>1, <1>2, <1>3, <1>5, <1>6, StepKept DEF CallOk, Alone
<1> QED BY <1>1, <1>3, <1>4, <1>7 DEF IInv

\* yaffs_get_inode keeps the invariant: a second thread finds the inode of the
\* first.
LEMMA GetInodeInv ==
    ASSUME IInv, NEW t \in Threads, GetInode(t)
    PROVE  IInv'
<1>1. PICK i : i = th[t].id
    OBVIOUS
<1>2. /\ th[t].pc = "iget" /\ i \in Ids /\ th[t].gen = obj[i].gen
      /\ PathOk(t) /\ LookedUp(t) /\ LaterOk(t)
    BY <1>1 DEF GetInode, At, IInv, CallsOk, PathOk, InPath
<1>3. UNCHANGED <<lock, mutex, obj, kids, ver, rd, sb, bg, mounted, requests>> /\ lock' = Free
    BY InvTyped DEF GetInode
<1>4. /\ LiveOk(i) /\ RestOk(i) /\ OneWorks(i) /\ ino[i].nlink \in Nat /\ ino[i].count \in Nat
      /\ ino[i] \in InodeRecords
    BY <1>2, InodeIs
<1>5. ~Has(t, i) /\ ~Works(t, i) /\ ~Drops(t, i)
    BY <1>2 DEF Has, Works, Drops
<1>6. CASE ino[i].state = "none" /\ ino' = [ino EXCEPT ![i].state = "new"] /\ Goes(t, "fill")
    <2>1. PICK x \in Calls : /\ Turns(t, x) /\ x.pc = "fill" /\ Same(x, th[t]) /\ x.id = i
                             /\ x.gen = th[t].gen /\ Alone(t, x)
        BY <1>1, <1>2, <1>6, GoesOn DEF Pcs, InPath, WorkPcs
    <2>2. /\ ino' \in [Ids -> InodeRecords] /\ ino'[i].state = "new" /\ ino'[i].count = ino[i].count
          /\ \A j \in Ids \ {i} : ino'[j] = ino[j]
        <3>1. [ino[i] EXCEPT !.state = "new"] \in InodeRecords
            BY <1>4 DEF InodeRecords
        <3> QED BY <1>2, <1>6, <3>1, InvTyped DEF InodeRecords
    <2>3. CallOk(t)'
        BY <1>1, <1>2, <1>3, <2>1 DEF CallOk, PathOk, LookedUp, LaterOk, Turns, Same, InPath
    <2>4. WorkOk(t)'
        BY <2>1, <2>2 DEF WorkOk, Turns
    <2>5. Holders(i)' = Holders(i)
        BY <1>2, <1>5, <2>1, HoldersKept DEF Has, Turns
    <2>6. \A u \in Threads : ~Works(u, i) /\ (u # t => ~Works(u, i)')
        BY <1>4, <1>6, <2>1 DEF RestOk, Works, Turns
    <2>7. LiveOk(i)' /\ RestOk(i)' /\ OneWorks(i)'
        BY <1>3, <1>4, <1>6, <2>2, <2>5, <2>6 DEF LiveOk, RestOk, OneWorks
    <2>8. \A j \in Ids \ {i} : StandsSame(t, j)
        BY <1>1, <2>1, StandsElse
    <2> QED BY <1>2, <1>3, <2>1, <2>2, <2>3, <2>4, <2>6, <2>7, <2>8, InodeStep DEF SyncPcs
<1>7. CASE ino[i].state = "live" /\ ino' = [ino EXCEPT ![i].count = @ + 1] /\ Goes(t, "act")
    <2>1. PICK x \in Calls : /\ Turns(t, x) /\ x.pc = "act" /\ Same(x, th[t]) /\ x.id = i
                             /\ x.gen = th[t].gen /\ Alone(t, x)
        BY <1>1, <1>2, <1>7, GoesOn DEF Pcs, InPath
    <2>2. /\ ino' \in [Ids -> InodeRecords] /\ ino'[i].state = "live"
          /\ ino'[i].count = ino[i].count + 1
          /\ ino'[i].nlink = ino[i].nlink /\ ino'[i].gen = ino[i].gen /\ ino'[i].off = ino[i].off
          /\ \A j \in Ids \ {i} : ino'[j] = ino[j]
        <3>1. PICK c \in Nat : c = ino[i].count + 1
            BY <1>4
        <3>2. [ino[i] EXCEPT !.count = c] \in InodeRecords
            BY <1>4 DEF InodeRecords
        <3> QED BY <1>2, <1>7, <3>1, <3>2, InvTyped DEF InodeRecords
    <2>3. CallOk(t)'
        BY <1>1, <1>2, <1>3, <2>1 DEF CallOk, PathOk, LookedUp, LaterOk, Turns, Same, InPath
    <2>4. WorkOk(t)'
        BY <2>1 DEF WorkOk, Turns
    <2>5. Cardinality(Holders(i)') = Cardinality(Holders(i)) + 1
        BY <1>2, <1>5, <2>1, HoldersMore DEF Has, Turns
    <2>6. Dropping(i)' = Dropping(i)
        BY <1>2, <1>5, <2>1, DroppingKept DEF Drops, Turns
    <2>7. \A u \in Threads : ~Works(u, i) /\ ~Works(u, i)'
        BY <1>4, <1>7, <2>1 DEF RestOk, Works, Turns
    <2>8. LiveOk(i)' /\ RestOk(i)' /\ OneWorks(i)'
        BY <1>3, <1>4, <1>7, <2>2, <2>5, <2>6, <2>7 DEF LiveOk, RestOk, OneWorks
    <2>9. \A j \in Ids \ {i} : StandsSame(t, j)
        BY <1>1, <2>1, StandsElse
    <2> QED BY <1>2, <1>3, <2>1, <2>2, <2>3, <2>4, <2>7, <2>8, <2>9, InodeStep DEF SyncPcs
<1> QED BY <1>1, <1>6, <1>7 DEF GetInode

\* The inode of a thread that has one.
LEMMA HasIs ==
    ASSUME IInv, NEW t \in Threads, NEW i \in Ids, Has(t, i)
    PROVE  /\ ino[i].state = "live" /\ t \in Holders(i) /\ obj[i].type = "file" /\ obj[i].inode
           /\ ~obj[i].deferred /\ \A u \in Threads : ~Works(u, i)
           /\ ino[i].nlink = LC(obj, i) + ino[i].off + Dropping(i)
           /\ ino[i].off > 0 => obj[i].lost
           /\ ino[i].count = Cardinality(Holders(i)) /\ ino[i].gen = obj[i].gen
<1>1. t \in Holders(i)
    BY DEF Holders
<1>2. LiveOk(i) /\ RestOk(i) /\ ino[i] \in InodeRecords
    BY InodeIs
<1> QED BY <1>1, <1>2 DEF LiveOk, RestOk, InodeRecords

\* iput keeps the invariant: the last one frees the inode of a file without names.
LEMMA PutInv ==
    ASSUME IInv, NEW t \in Threads, Put(t)
    PROVE  IInv'
<1>1. PICK i : i = th[t].id
    OBVIOUS
<1>2. th[t].pc = "put" /\ i \in Ids
    BY <1>1 DEF Put, At, IInv, CallsOk, LaterOk
<1>3. UNCHANGED <<lock, obj, kids, ver, rd, sb, bg, mounted, requests>> /\ lock' = Free
      /\ mutex' = NoMutex(t)
    BY InvTyped DEF Put
<1>4. /\ LiveOk(i) /\ RestOk(i) /\ OneWorks(i) /\ ino[i].nlink \in Nat /\ ino[i].count \in Nat
      /\ ino[i] \in InodeRecords /\ ino[i].off \in Nat /\ LC(obj, i) \in Nat /\ obj[i].gen \in Nat
    BY <1>2, InodeIs
<1>5. Has(t, i) /\ ~Works(t, i) /\ ~Drops(t, i)
    BY <1>1, <1>2 DEF Has, Works, Drops
<1>6. /\ ino[i].state = "live" /\ t \in Holders(i) /\ obj[i].type = "file" /\ obj[i].inode
      /\ \A u \in Threads : ~Works(u, i)
      /\ ino[i].nlink = LC(obj, i) + ino[i].off + Dropping(i) /\ ino[i].count = Cardinality(Holders(i))
      /\ ino[i].gen = obj[i].gen
    BY <1>2, <1>5, HasIs
<1>7. rd'[t].ver # -1 => rd'[t].pos >= 2
    BY <1>3, SearchesOk
<1>8. Dropping(i) \in {0, 1}
    BY DEF Dropping
<1>9. CASE ino[i].count = 1 /\ ino[i].nlink = 0
    <2>1. /\ ino' = [ino EXCEPT ![i] = [ino[i] EXCEPT !.count = 0, !.state = "freeing"]]
          /\ th' = [th EXCEPT ![t] = [th[t] EXCEPT !.pc = "delete", !.gen = ino[i].gen]]
        BY <1>1, <1>2, <1>9, InvTyped DEF Put
    <2>2. [ino[i] EXCEPT !.count = 0, !.state = "freeing"] \in InodeRecords
        BY <1>4 DEF InodeRecords
    <2>3. /\ ino' \in [Ids -> InodeRecords] /\ ino'[i].state = "freeing" /\ ino'[i].count = 0
          /\ ino'[i].gen = ino[i].gen /\ \A j \in Ids \ {i} : ino'[j] = ino[j]
        BY <1>2, <2>1, <2>2, InvTyped DEF InodeRecords
    <2>4. PICK x \in Calls : /\ Turns(t, x) /\ x.pc = "delete" /\ x.id = i /\ x.gen = ino[i].gen
                             /\ Same(x, th[t])
        <3>1. PICK y \in Calls : y = th[t]
            BY InvTyped
        <3>2. PICK g \in Int : g = ino[i].gen
            BY <1>4 DEF InodeRecords
        <3>3. "delete" \in Pcs
            BY DEF Pcs, WorkPcs
        <3>4. [y EXCEPT !.pc = "delete", !.gen = g] \in Calls
            BY <3>3 DEF Calls
        <3>5. th' = [th EXCEPT ![t] = [y EXCEPT !.pc = "delete", !.gen = g]]
            BY <2>1, <3>1, <3>2
        <3>6. Turns(t, [y EXCEPT !.pc = "delete", !.gen = g])
            BY <3>4, <3>5, TurnsTo DEF IInv
        <3> QED BY <1>1, <3>1, <3>2, <3>4, <3>6 DEF Calls, Same
    <2>5. Alone(t, x)
        BY <1>2, <2>4, AloneKept
    <2>6. CallOk(t)'
        BY <1>2, <1>7, <2>4, OutOfPath DEF InPath
    <2>7. LC(obj, i) = 0
        BY <1>4, <1>6, <1>8, <1>9
    <2>8. WorkOk(t)'
        BY <1>3, <1>6, <2>3, <2>4, <2>7 DEF WorkOk, Turns
    <2>9. Holders(i)' = {}
        <3>1. Cardinality(Holders(i)') = 0 /\ Holders(i)' = Holders(i) \ {t}
            <4>1. ~Has(t, i)'
                BY <2>4 DEF Has, Turns
            <4>2. /\ Holders(i)' = Holders(i) \ {t}
                  /\ Cardinality(Holders(i)') = Cardinality(Holders(i)) - 1
                BY <1>2, <1>5, <2>4, <4>1, HoldersFewer
            <4> QED BY <1>6, <1>9, <4>2
        <3>2. IsFiniteSet(Holders(i)')
            BY <1>2, <3>1, HoldersIs, FS_RemoveElement
        <3> QED BY <3>1, <3>2, FS_EmptySet
    <2>10. /\ Works(t, i)' /\ \A u \in Threads \ {t} : ~Works(u, i) /\ ~Works(u, i)'
        BY <1>6, <2>4 DEF Works, Turns
    <2>11. LiveOk(i)' /\ RestOk(i)' /\ OneWorks(i)'
        BY <2>3, <2>9, <2>10 DEF LiveOk, RestOk, OneWorks
    <2>12. \A j \in Ids \ {i} : StandsSame(t, j)
        BY <1>1, <2>4, StandsElse
    <2> QED BY <1>2, <1>3, <2>3, <2>4, <2>5, <2>6, <2>8, <2>10, <2>11, <2>12, InodeStep DEF SyncPcs
<1>10. CASE ~(ino[i].count = 1 /\ ino[i].nlink = 0)
    <2>1. /\ ino' = [ino EXCEPT ![i].count = @ - 1] /\ Finished(t)
        BY <1>1, <1>10 DEF Put
    <2>2. Turns(t, Idle) /\ Alone(t, Idle)
        BY <1>2, <2>1, Finishes
    <2>3. Cardinality(Holders(i)') = Cardinality(Holders(i)) - 1
        BY <1>2, <1>5, <2>2, IdleCall, HoldersFewer DEF Has, Turns
    <2>4. ino[i].count > 0
        BY <1>2, <1>4, <1>6, HoldersIs
    <2>5. /\ ino' \in [Ids -> InodeRecords] /\ ino'[i].state = ino[i].state
          /\ ino'[i].count = ino[i].count - 1
          /\ ino'[i].nlink = ino[i].nlink /\ ino'[i].gen = ino[i].gen /\ ino'[i].off = ino[i].off
          /\ \A j \in Ids \ {i} : ino'[j] = ino[j]
        <3>1. PICK c \in Nat : c = ino[i].count - 1
            BY <1>4, <2>4
        <3>2. [ino[i] EXCEPT !.count = c] \in InodeRecords
            BY <1>4 DEF InodeRecords
        <3> QED BY <1>2, <2>1, <3>1, <3>2, InvTyped DEF InodeRecords
    <2>6. Dropping(i)' = Dropping(i)
        BY <1>2, <1>5, <2>2, IdleCall, DroppingKept DEF Drops, Turns
    <2>7. \A u \in Threads : ~Works(u, i) /\ ~Works(u, i)'
        BY <1>6, <2>2, IdleCall DEF Works, Turns
    <2>8. ino'[i].count = 0 => ino'[i].nlink > 0
        BY <1>4, <1>10, <2>5
    <2>9. LiveOk(i)' /\ RestOk(i)' /\ OneWorks(i)'
        BY <1>3, <1>4, <1>6, <2>3, <2>5, <2>6, <2>7, <2>8 DEF LiveOk, RestOk, OneWorks
    <2>10. \A j \in Ids \ {i} : StandsSame(t, j)
        BY <1>1, <1>2, <2>2, IdleCall DEF StandsSame, Has, Works, Drops, Turns
    <2>11. CallOk(t)'
        BY <1>2, <1>7, <2>2, IdleCall, OutOfPath DEF InPath
    <2>12. WorkOk(t)'
        BY <2>2, IdleCall DEF WorkOk, Turns
    <2> QED BY <1>2, <1>3, <2>2, <2>5, <2>7, <2>9, <2>10, <2>11, <2>12, IdleCall, InodeStep DEF SyncPcs
<1> QED BY <1>9, <1>10

\* The link count that yaffs_rename drops keeps the invariant.
LEMMA DropTargetInv ==
    ASSUME IInv, NEW t \in Threads, DropTarget(t)
    PROVE  IInv'
<1>1. PICK i : i = th[t].id
    OBVIOUS
<1>2. th[t].pc = "drop" /\ i \in Ids /\ mutex[i] = t
    BY <1>1 DEF DropTarget, At, IInv, CallsOk, LaterOk
<1>3. UNCHANGED <<lock, mutex, obj, kids, ver, rd, sb, bg, mounted, requests>> /\ lock' = Free
    BY InvTyped DEF DropTarget
<1>4. /\ LiveOk(i) /\ RestOk(i) /\ OneWorks(i) /\ ino[i].nlink \in Nat /\ ino[i].count \in Nat
      /\ ino[i] \in InodeRecords /\ ino[i].off \in Nat /\ LC(obj, i) \in Nat
    BY <1>2, InodeIs
<1>5. Has(t, i) /\ ~Works(t, i) /\ Drops(t, i)
    BY <1>1, <1>2 DEF Has, Works, Drops
<1>6. /\ ino[i].state = "live" /\ t \in Holders(i) /\ \A u \in Threads : ~Works(u, i)
      /\ ino[i].nlink = LC(obj, i) + ino[i].off + Dropping(i) /\ ino[i].count = Cardinality(Holders(i))
    BY <1>2, <1>5, HasIs
<1>7. PICK x \in Calls : /\ Turns(t, x) /\ x.pc = "put" /\ x.id = i /\ Alone(t, x)
    BY <1>1, <1>2, GoesOn DEF DropTarget, Pcs, HasPcs
<1>8. \A u \in Threads : u # t => ~Drops(u, i)
    BY <1>2 DEF IInv, CallsOk, LaterOk, Drops
<1>9. Dropping(i) = 1 /\ Dropping(i)' = 0
    BY <1>5, <1>7, <1>8 DEF Dropping, Drops, Turns
<1>10. /\ ino' \in [Ids -> InodeRecords] /\ ino'[i].state = ino[i].state
       /\ ino'[i].count = ino[i].count
       /\ ino'[i].nlink = ino[i].nlink - 1 /\ ino'[i].gen = ino[i].gen /\ ino'[i].off = ino[i].off
       /\ \A j \in Ids \ {i} : ino'[j] = ino[j]
    <2>1. PICK c \in Nat : c = ino[i].nlink - 1
        BY <1>4, <1>6, <1>9
    <2>2. [ino[i] EXCEPT !.nlink = c] \in InodeRecords
        BY <1>4 DEF InodeRecords
    <2>3. ino' = [ino EXCEPT ![i].nlink = c]
        BY <1>1, <2>1 DEF DropTarget, Dropped
    <2> QED BY <1>2, <2>1, <2>2, <2>3, InvTyped DEF InodeRecords
<1>11. Holders(i)' = Holders(i)
    BY <1>2, <1>5, <1>7, HoldersKept DEF Has, Turns
<1>12. ino[i].count > 0
    BY <1>2, <1>4, <1>6, HoldersIs
<1>13. \A u \in Threads : ~Works(u, i) /\ ~Works(u, i)'
    BY <1>6, <1>7 DEF Works, Turns
<1>14. LiveOk(i)' /\ RestOk(i)' /\ OneWorks(i)'
    BY <1>3, <1>4, <1>6, <1>9, <1>10, <1>11, <1>12, <1>13 DEF LiveOk, RestOk, OneWorks
<1>15. \A j \in Ids \ {i} : StandsSame(t, j)
    BY <1>1, <1>7, StandsElse
<1>16. rd'[t].ver # -1 => rd'[t].pos >= 2
    BY <1>3, SearchesOk
<1>17. CallOk(t)'
    BY <1>2, <1>7, <1>16, OutOfPath DEF InPath
<1>18. WorkOk(t)'
    BY <1>7 DEF WorkOk, Turns
<1> QED BY <1>2, <1>3, <1>7, <1>10, <1>13, <1>14, <1>15, <1>17, <1>18, InodeStep DEF SyncPcs

\* The VFS evicts an inode that nobody uses.
LEMMA EvictStep ==
    ASSUME IInv, NEW t \in Threads, NEW x \in Calls, Turns(t, x), NEW i \in Ids,
           ino[i].state = "live", Holders(i) = {}, ino' = [ino EXCEPT ![i].state = "freeing"],
           x.pc = "unstitch", x.id = i, x.gen = ino[i].gen, Alone(t, x),
           th[t].pc \in {"idle", "umount"},
           UNCHANGED <<mutex, obj, kids, ver, rd, sb, bg, mounted, requests>>, lock' = Free
    PROVE  IInv'
<1>1. /\ LiveOk(i) /\ RestOk(i) /\ OneWorks(i) /\ ino[i].nlink \in Nat /\ ino[i].count \in Nat
      /\ ino[i] \in InodeRecords /\ ino[i].off \in Nat /\ LC(obj, i) \in Nat
    BY InodeIs
<1>2. ino[i].count = 0 /\ (LC(obj, i) > 0 \/ obj[i].lost)
    <2>1. Cardinality(Holders(i)) = 0 /\ Dropping(i) = 0
        BY HoldersIs
    <2> QED BY <1>1, <2>1 DEF LiveOk
<1>3. /\ ino' \in [Ids -> InodeRecords] /\ ino'[i].state = "freeing"
      /\ ino'[i].count = 0 /\ ino'[i].gen = ino[i].gen
      /\ \A j \in Ids \ {i} : ino'[j] = ino[j]
    <2>1. [ino[i] EXCEPT !.state = "freeing"] \in InodeRecords
        BY <1>1 DEF InodeRecords
    <2> QED BY <1>2, <2>1, InvTyped DEF InodeRecords
<1>4. rd'[t].ver # -1 => rd'[t].pos >= 2
    BY SearchesOk
<1>5. CallOk(t)'
    BY <1>4, OutOfPath DEF InPath
<1>6. WorkOk(t)'
    BY <1>1, <1>2, <1>3 DEF WorkOk, LiveOk, Turns
<1>7. Holders(i)' = {}
    BY HoldersKept DEF Has, Turns
<1>8. Works(t, i)' /\ \A u \in Threads : ~Works(u, i) /\ (u # t => ~Works(u, i)')
    BY <1>1 DEF Works, Turns, RestOk
<1>9. LiveOk(i)' /\ RestOk(i)' /\ OneWorks(i)'
    BY <1>3, <1>7, <1>8 DEF LiveOk, RestOk, OneWorks
<1>10. \A j \in Ids \ {i} : StandsSame(t, j)
    BY DEF StandsSame, Has, Works, Drops, Turns
<1> QED BY <1>3, <1>5, <1>6, <1>8, <1>9, <1>10, InodeStep DEF SyncPcs

\* An inode that is reclaimed keeps the invariant.
LEMMA ReclaimInv ==
    ASSUME IInv, NEW t \in Threads, NEW i \in Ids, Reclaim(t, i)
    PROVE  IInv'
<1>1. ino[i].state = "live" /\ Holders(i) = {}
    BY InodeIs, HoldersIs DEF Reclaim, LiveOk
<1>2. PICK g \in Int : g = ino[i].gen
    BY InodeIs DEF InodeRecords
<1>3. PICK x \in Calls : /\ x.pc = "unstitch" /\ x.op = "none" /\ x.id = i /\ x.gen = g
                         /\ th' = [th EXCEPT ![t] = x]
    <2>1. Idle \in Calls /\ "unstitch" \in Pcs /\ Idle.op = "none"
        BY IdleCall DEF Pcs, WorkPcs
    <2>2. [Idle EXCEPT !.pc = "unstitch", !.id = i, !.gen = g] \in Calls
        BY <2>1 DEF Calls
    <2>3. th' = [th EXCEPT ![t] = [Idle EXCEPT !.pc = "unstitch", !.id = i, !.gen = g]]
        BY <1>2 DEF Reclaim
    <2> QED BY <2>1, <2>2, <2>3 DEF Calls
<1>4. Turns(t, x) /\ Alone(t, x)
    BY <1>3, TurnsTo DEF IInv, Alone, Reclaim
<1> QED BY <1>1, <1>2, <1>3, <1>4, EvictStep, InvTyped DEF Reclaim

\* An inode that the unmount evicts keeps the invariant.
LEMMA EvictNextInv ==
    ASSUME IInv, NEW t \in Threads, EvictNext(t)
    PROVE  IInv'
<1>1. th[t].pc = "umount"
    BY DEF EvictNext, At
<1>2. CASE Goes(t, "stop") /\ UNCHANGED ino
    <2>1. PICK x \in Calls : Turns(t, x) /\ x.pc = "stop" /\ Alone(t, x)
        BY <1>1, <1>2, GoesOn DEF Pcs
    <2>2. \A j \in Ids : StandsSame(t, j)
        BY <1>1, <2>1, StandsNot DEF WorkPcs, HasPcs
    <2> QED BY <1>2, <2>1, <2>2, RestingStep, InvTyped DEF EvictNext
<1>3. CASE \E i \in Ids :
               /\ ino[i].state = "live" /\ ino' = [ino EXCEPT ![i].state = "freeing"]
               /\ th' = [th EXCEPT ![t].pc = "unstitch", ![t].id = i, ![t].gen = ino[i].gen]
    <2>1. PICK i \in Ids : /\ ino[i].state = "live" /\ ino' = [ino EXCEPT ![i].state = "freeing"]
                           /\ MovesTo(t, "unstitch", i, ino[i].gen)
        BY <1>3 DEF MovesTo
    <2>2. PICK g \in Int : g = ino[i].gen
        BY InodeIs DEF InodeRecords
    <2>3. PICK x \in Calls : Turns(t, x) /\ x.pc = "unstitch" /\ Same(x, th[t]) /\ x.id = i /\ x.gen = g
        <3>1. MovesTo(t, "unstitch", i, g) /\ "unstitch" \in Pcs /\ RestTyped
            BY <2>1, <2>2 DEF Pcs, WorkPcs, IInv
        <3> QED BY <3>1, GoesToWith
    <2>4. Alone(t, x)
        BY <1>1, <2>3, AloneKept
    <2>5. Holders(i) = {}
        <3>1. \A u \in Threads : u # t => th[u].pc = "idle"
            BY <1>1 DEF IInv, CallsOk, Unmounting, LaterOk
        <3> QED BY <1>1, <3>1 DEF Holders, Has
    <2> QED BY <1>1, <2>1, <2>2, <2>3, <2>4, <2>5, EvictStep, InvTyped DEF EvictNext
<1> QED BY <1>2, <1>3 DEF EvictNext

\* Inode i is that of a thread that works on it.
LEMMA WorksIs ==
    ASSUME IInv, NEW t \in Threads, NEW i \in Ids, Works(t, i)
    PROVE  /\ \A u \in Threads \ {t} : ~Works(u, i)
           /\ ino[i].state \notin {"none", "live"} /\ ino[i].count = 0 /\ Holders(i) = {}
<1>1. LiveOk(i) /\ RestOk(i) /\ OneWorks(i) /\ ino[i] \in InodeRecords
    BY InodeIs
<1>2. \A u \in Threads \ {t} : ~Works(u, i)
    BY <1>1 DEF OneWorks
<1>3. ino[i].state \notin {"none", "live"}
    BY <1>1 DEF RestOk
<1> QED BY <1>1, <1>2, <1>3 DEF RestOk

\* The end of an eviction keeps the invariant.
LEMMA EvictedInv ==
    ASSUME IInv, NEW t \in Threads, Evicted(t)
    PROVE  IInv'
<1>1. PICK i : i = th[t].id
    OBVIOUS
<1>2. th[t].pc = "evicted" /\ i \in Ids
    BY <1>1 DEF Evicted, At, IInv, CallsOk, LaterOk
<1>3. UNCHANGED <<lock, mutex, obj, kids, ver, rd, sb, bg, mounted, requests>> /\ lock' = Free
    BY InvTyped DEF Evicted
<1>4. Works(t, i)
    BY <1>1, <1>2 DEF Works
<1>5. /\ \A u \in Threads \ {t} : ~Works(u, i)
      /\ ino[i].count = 0 /\ Holders(i) = {} /\ ~obj[i].inode
    <2>1. WorkOk(t)
        BY DEF IInv, InodesOk
    <2> QED BY <1>1, <1>2, <1>4, <2>1, WorksIs DEF WorkOk
<1>6. PICK x \in Calls : /\ Turns(t, x) /\ x.pc \in {"umount", "idle"} /\ Alone(t, x)
                         /\ x.pc = "umount" => x.op = "umount"
                         /\ x.pc = "idle" => x.op # "umount"
    <2>1. CASE th[t].op = "umount"
        <3>1. PICK x \in Calls : Turns(t, x) /\ x.pc = "umount" /\ Alone(t, x) /\ Same(x, th[t])
            BY <1>2, <2>1, GoesOn DEF Evicted, Pcs
        <3> QED BY <2>1, <3>1 DEF Same
    <2>2. CASE th[t].op # "umount"
        BY <1>2, <2>2, Finishes, IdleCall DEF Evicted
    <2> QED BY <2>1, <2>2
<1>7. /\ ino' \in [Ids -> InodeRecords] /\ ino'[i].state = "none" /\ ino'[i].count = 0
      /\ \A j \in Ids \ {i} : ino'[j] = ino[j]
    <2>1. NoInode \in InodeRecords /\ NoInode.state = "none" /\ NoInode.count = 0
        BY DEF NoInode, InodeRecords
    <2>2. ino' = [ino EXCEPT ![i] = NoInode]
        BY <1>1 DEF Evicted
    <2> QED BY <1>2, <2>1, <2>2, InvTyped
<1>8. rd'[t].ver # -1 => rd'[t].pos >= 2
    BY <1>3, SearchesOk
<1>9. CallOk(t)'
    BY <1>6, <1>8, OutOfPath DEF InPath
<1>10. WorkOk(t)'
    BY <1>6 DEF WorkOk, Turns
<1>11. Holders(i)' = {}
    BY <1>1, <1>2, <1>5, <1>6, HoldersKept DEF Has, Turns
<1>12. \A u \in Threads : ~Works(u, i)'
    BY <1>5, <1>6 DEF Works, Turns
<1>13. LiveOk(i)' /\ RestOk(i)' /\ OneWorks(i)'
    BY <1>3, <1>5, <1>7, <1>11, <1>12 DEF LiveOk, RestOk, OneWorks
<1>14. \A j \in Ids \ {i} : StandsSame(t, j)
    BY <1>1, <1>2, <1>6 DEF StandsSame, Has, Works, Drops, Turns
<1> QED BY <1>2, <1>3, <1>5, <1>6, <1>7, <1>9, <1>10, <1>13, <1>14, InodeStep DEF SyncPcs

\* A step of t that changes the object and the inode of i.
LEMMA ObjectStep ==
    ASSUME IInv, NEW t \in Threads, NEW x, Turns(t, x), TreeTyped', TreeOk', Went \/ UNCHANGED <<sb, rd>>,
           Stays(obj, obj'), NEW i \in Ids, Differs(obj, obj', {i}),
           lock' = Free, UNCHANGED <<mutex, ver, bg, mounted, requests>>,
           ino' \in [Ids -> InodeRecords],
           x.pc \notin SyncPcs, CallOk(t)', WorkOk(t)', Alone(t, x),
           \A j \in Ids \ {i} : ino'[j] = ino[j] /\ StandsSame(t, j),
           LiveOk(i)', RestOk(i)', OneWorks(i)', \A u \in Threads \ {t} : ~Works(u, i)
    PROVE  IInv'
<1>1. RestTyped'
    BY RestStays, InvTyped
<1>2. SyncOk'
    BY SyncKept DEF SyncPcs, IInv
<1>3. (\A u : Kept(u)) /\ (\A u : Holding(u)) /\ \A j \in Ids \ {i} : FileSame(j)
    BY StaysKept, SameMutex, DiffersSame DEF IInv
<1>4. \A u \in Threads : rd'[u].dir = rd[u].dir /\ rd'[u].ver = rd[u].ver /\ rd'[u].pos = rd[u].pos
    BY DEF Went
<1>5. i # NoId
    BY VfsAssumption
<1>6. CallsOk' /\ InodesOk'
    BY <1>1, <1>3, <1>4, <1>5, StepKept DEF CallOk, Alone
<1> QED BY <1>1, <1>2, <1>6 DEF IInv

\* The searches that were moved stay past the first two entries.
LEMMA WentSearches ==
    ASSUME IInv, NEW t \in Threads, Went
    PROVE  rd'[t].ver # -1 => rd'[t].pos >= 2
BY SearchesOk DEF Went

\* The first section of yaffs_evict_inode keeps the invariant.
LEMMA DeleteInodeInv ==
    ASSUME IInv, NEW t \in Threads, DeleteInode(t)
    PROVE  IInv'
<1>1. PICK i : i = th[t].id
    OBVIOUS
<1>2. th[t].pc = "delete" /\ i \in Ids
    BY <1>1 DEF DeleteInode, At, IInv, CallsOk, LaterOk
<1>3. UNCHANGED <<mutex, ino, ver, bg, mounted, requests>> /\ lock' = Free
    BY DEF DeleteInode, EndSection, Released
<1>4. Works(t, i)
    BY <1>1, <1>2 DEF Works
<1>5. /\ \A u \in Threads \ {t} : ~Works(u, i)
      /\ ino[i].count = 0 /\ Holders(i) = {} /\ ino[i].state = "freeing"
      /\ obj[i].type = "file" /\ obj[i].inode /\ LC(obj, i) = 0
      /\ ino[i].gen = obj[i].gen /\ th[t].gen = obj[i].gen
    <2>1. WorkOk(t)
        BY DEF IInv, InodesOk
    <2> QED BY <1>1, <1>2, <1>4, <2>1, WorksIs DEF WorkOk
<1>6. TreeTyped /\ TreeOk /\ Objects(obj) /\ NamesUnique(obj)
    BY DEF IInv, TreeOk
<1>7. PICK p : Leads(Deleted(Tree, i), rd, p) /\ LetGo(obj, p, i)
    BY <1>2, <1>6, TreeIsSound, DeletedAs
<1>8. /\ Stays(obj, p) /\ Differs(obj, p, {i}) /\ p[i].type = "file" /\ p[i].inode
      /\ p[i].gen = obj[i].gen /\ p[i].deferred
    BY <1>2, <1>5, <1>6, <1>7, InvTyped, DeletedStays DEF LetGo
<1>9. obj' = p /\ TreeTyped' /\ TreeOk' /\ Went
    <2>1. Becomes(Deleted(Tree, i))
        BY <1>1 DEF DeleteInode
    <2> QED BY <1>6, <1>7, <1>8, <2>1, BecomesTo DEF Stays
<1>10. PICK x \in Calls : /\ Turns(t, x) /\ x.pc = "unstitch" /\ x.id = i /\ x.gen = th[t].gen
                          /\ Alone(t, x)
    BY <1>1, <1>2, GoesOn DEF DeleteInode, Pcs, WorkPcs
<1>11. CallOk(t)'
    BY <1>2, <1>9, <1>10, WentSearches, OutOfPath DEF InPath
<1>12. WorkOk(t)'
    BY <1>3, <1>5, <1>8, <1>9, <1>10 DEF WorkOk, Turns
<1>13. Holders(i)' = {}
    BY <1>1, <1>2, <1>5, <1>10, HoldersKept DEF Has, Turns
<1>14. Works(t, i)' /\ \A u \in Threads : u # t => ~Works(u, i)'
    BY <1>5, <1>10 DEF Works, Turns
<1>15. LiveOk(i)' /\ RestOk(i)' /\ OneWorks(i)'
    BY <1>3, <1>5, <1>13, <1>14 DEF LiveOk, RestOk, OneWorks
<1>16. \A j \in Ids \ {i} : StandsSame(t, j)
    BY <1>1, <1>10, StandsElse
<1> QED BY <1>2, <1>3, <1>5, <1>8, <1>9, <1>10, <1>11, <1>12, <1>15, <1>16, ObjectStep, InvTyped
        DEF SyncPcs

\* The second section of yaffs_evict_inode keeps the invariant.
LEMMA UnstitchInv ==
    ASSUME IInv, NEW t \in Threads, Unstitch(t)
    PROVE  IInv'
<1>1. PICK i : i = th[t].id
    OBVIOUS
<1>2. th[t].pc = "unstitch" /\ i \in Ids
    BY <1>1 DEF Unstitch, At, IInv, CallsOk, LaterOk
<1>3. UNCHANGED <<mutex, ino, ver, bg, mounted, requests>> /\ lock' = Free
    BY DEF Unstitch, EndSection, Released
<1>4. Works(t, i)
    BY <1>1, <1>2 DEF Works
<1>5. /\ \A u \in Threads \ {t} : ~Works(u, i)
      /\ ino[i].count = 0 /\ Holders(i) = {} /\ ino[i].state = "freeing"
      /\ obj[i].type = "file" /\ obj[i].inode
      /\ ino[i].gen = obj[i].gen /\ (obj[i].deferred \/ LC(obj, i) > 0 \/ obj[i].lost)
    <2>1. WorkOk(t)
        BY DEF IInv, InodesOk
    <2> QED BY <1>1, <1>2, <1>4, <2>1, WorksIs DEF WorkOk
<1>6. TreeTyped /\ TreeOk /\ Objects(obj) /\ NamesUnique(obj)
    BY DEF IInv, TreeOk
<1>7. PICK p : /\ Leads(Unstitched(Tree, i), rd, p) /\ Stays(obj, p) /\ Differs(obj, p, {i})
               /\ ~p[i].inode
    BY <1>2, <1>5, <1>6, TreeIsSound, UnstitchedAs
<1>8. obj' = p /\ TreeTyped' /\ TreeOk' /\ Went
    <2>1. ino[i].gen # -1
        BY <1>2, <1>5, InodeIs
    <2>2. Becomes(Unstitched(Tree, i))
        BY <1>1, <2>1 DEF Unstitch
    <2> QED BY <1>6, <1>7, <2>2, BecomesTo DEF Stays
<1>9. PICK x \in Calls : /\ Turns(t, x) /\ x.pc = "evicted" /\ x.id = i /\ Alone(t, x)
    BY <1>1, <1>2, GoesOn DEF Unstitch, Pcs, WorkPcs
<1>10. CallOk(t)'
    BY <1>2, <1>8, <1>9, WentSearches, OutOfPath DEF InPath
<1>11. WorkOk(t)'
    BY <1>3, <1>5, <1>7, <1>8, <1>9 DEF WorkOk, Turns
<1>12. Holders(i)' = {}
    BY <1>1, <1>2, <1>5, <1>9, HoldersKept DEF Has, Turns
<1>13. Works(t, i)' /\ \A u \in Threads : u # t => ~Works(u, i)'
    BY <1>5, <1>9 DEF Works, Turns
<1>14. LiveOk(i)' /\ RestOk(i)' /\ OneWorks(i)'
    BY <1>3, <1>5, <1>12, <1>13 DEF LiveOk, RestOk, OneWorks
<1>15. \A j \in Ids \ {i} : StandsSame(t, j)
    BY <1>1, <1>9, StandsElse
<1> QED BY <1>2, <1>3, <1>5, <1>7, <1>8, <1>9, <1>10, <1>11, <1>14, <1>15, ObjectStep, InvTyped
        DEF SyncPcs

\* yaffs_FillInodeFromObject keeps the invariant.
LEMMA FillInodeInv ==
    ASSUME IInv, NEW t \in Threads, FillInode(t)
    PROVE  IInv'
<1>1. PICK i : i = th[t].id
    OBVIOUS
<1>2. /\ th[t].pc = "fill" /\ i \in Ids /\ th[t].gen = obj[i].gen
      /\ PathOk(t) /\ LookedUp(t) /\ LaterOk(t) /\ WorkOk(t)
    BY <1>1 DEF FillInode, At, IInv, CallsOk, PathOk, InPath, InodesOk
<1>3. UNCHANGED <<mutex, kids, ver, rd, sb, bg, mounted, requests>> /\ lock' = Free
    BY DEF FillInode, EndSection, Released
<1>4. /\ LiveOk(i) /\ RestOk(i) /\ OneWorks(i) /\ LC(obj, i) \in Nat /\ obj[i].gen \in Nat
      /\ FileOk(obj, i)
    BY <1>2, InodeIs
<1>5. TreeTyped /\ TreeOk /\ Objects(obj) /\ NamesUnique(obj) /\ Sound(obj, kids, rd)
    BY InvTyped DEF IInv, TreeOk, Sound
<1>6. /\ \A u \in Threads \ {t} : ~Works(u, i)
      /\ ino[i].state = "new" /\ Holders(i) = {} /\ ~obj[i].inode
    <2>1. Works(t, i)
        BY <1>1, <1>2 DEF Works
    <2> QED BY <1>1, <1>2, <1>4, <2>1, WorksIs DEF WorkOk, RestOk
<1>7. obj[i].type = "file"
    <2>1. \E d \in Dirs : \E n : Denotes(obj, d, n, i)
        BY <1>1, <1>2, VfsAssumption DEF PathOk, LookedUp, InPath
    <2> QED BY <1>5, <2>1, InvTyped, FileOfIs DEF Denotes, IsAt
<1>8. ~obj[i].deferred
    BY <1>4, <1>6, <1>7 DEF FileOk
<1>9. PICK y \in ObjectRecords : /\ y = [obj[i] EXCEPT !.inode = TRUE]
                                /\ InodeSet(obj, [obj EXCEPT ![i] = y], i, TRUE)
    BY <1>2, InvTyped, InodeAs
<1>10. /\ obj' = [obj EXCEPT ![i] = y]
       /\ ino' = [ino EXCEPT ![i] = [state |-> "live", gen |-> obj[i].gen,
                                     nlink |-> LinkCount(i), count |-> 1, off |-> 0]]
    BY <1>1, <1>7, <1>9 DEF FillInode, Exists
<1>11. Stays(obj, obj') /\ InodeSet(obj, obj', i, TRUE)
    BY <1>2, <1>5, <1>7, <1>8, <1>9, <1>10, InvTyped, FilledStays
<1>12. /\ Differs(obj, obj', {i}) /\ obj'[i].inode /\ obj'[i].type = "file" /\ ~obj'[i].deferred
       /\ obj'[i].gen = obj[i].gen /\ obj'[i].dir = obj[i].dir /\ obj'[i].links = obj[i].links
    BY <1>7, <1>8, <1>11 DEF InodeSet
<1>13. LC(obj', i) = LC(obj, i)
    BY <1>12 DEF LC
<1>14. TreeTyped' /\ TreeOk'
    <2>1. \A j \in Ids : obj'[j].dir = obj[j].dir
        BY <1>12 DEF Differs
    <2>2. obj' \in [Ids -> ObjectRecords]
        BY <1>12 DEF Differs
    <2>3. Sound(obj', kids, rd)
        BY <1>5, <2>1, <2>2, SamePlaces
    <2> QED BY <1>3, <1>11, <2>3, InvTyped DEF TreeTyped, TreeOk, Sound, Stays
<1>15. /\ ino' \in [Ids -> InodeRecords] /\ ino'[i].state = "live" /\ ino'[i].gen = obj[i].gen
       /\ ino'[i].nlink = LC(obj, i) /\ ino'[i].count = 1 /\ ino'[i].off = 0
       /\ \A j \in Ids \ {i} : ino'[j] = ino[j]
    <2>1. PICK a \in Nat : a = LC(obj, i)
        BY <1>4
    <2>2. LinkCount(i) = a
        BY <2>1 DEF LinkCount, LC
    <2>3. PICK g \in Nat : g = obj[i].gen
        BY <1>4
    <2> DEFINE z == [state |-> "live", gen |-> g, nlink |-> a, count |-> 1, off |-> 0]
    <2>4. /\ z \in InodeRecords /\ z.state = "live" /\ z.gen = g /\ z.nlink = a /\ z.count = 1
          /\ z.off = 0
        BY DEF InodeRecords
    <2>5. ino' = [ino EXCEPT ![i] = z]
        BY <1>10, <2>2, <2>3
    <2> HIDE DEF z
    <2> QED BY <1>2, <2>1, <2>3, <2>4, <2>5, InvTyped
<1>16. PICK x \in Calls : /\ Turns(t, x) /\ x.pc = "act" /\ Same(x, th[t]) /\ x.id = i
                          /\ Alone(t, x)
    BY <1>1, <1>2, GoesOn DEF FillInode, Pcs, InPath
<1>17. CallOk(t)'
    <2>1. PathOk(t)'
        BY <1>2, <1>3, <1>16 DEF PathOk, Turns, Same, InPath
    <2>2. LookedUp(t)'
        <3>1. th[t].dir \in Dirs /\ (th[t].op = "rename" => th[t].dir2 \in Dirs)
            BY <1>2 DEF PathOk, InPath
        <3>2. \A d \in Dirs : \A m : \A g \in Ids : Denotes(obj', d, m, g) <=> Denotes(obj, d, m, g)
            BY <1>11 DEF Stays
        <3>3. th[t].op # "rename" => Denotes(obj', th[t].dir, th[t].name, i)
            BY <1>1, <1>2, <3>1, <3>2 DEF LookedUp
        <3>4. th[t].op = "rename" =>
                  /\ \E f \in Ids : f # i /\ Denotes(obj', th[t].dir, th[t].name, f)
                  /\ Denotes(obj', th[t].dir2, th[t].name2, i)
            BY <1>1, <1>2, <3>1, <3>2, VfsAssumption DEF LookedUp
        <3> QED BY <1>2, <1>16, <3>3, <3>4, VfsAssumption DEF LookedUp, Turns, Same
    <2>3. LaterOk(t)'
        BY <1>2, <1>3, <1>16 DEF LaterOk, Turns
    <2> QED BY <2>1, <2>2, <2>3 DEF CallOk
<1>18. WorkOk(t)'
    BY <1>16 DEF WorkOk, Turns
<1>19. Cardinality(Holders(i)') = 1 /\ Dropping(i)' = 0
    <2>1. ~Has(t, i) /\ Has(t, i)'
        BY <1>2, <1>16 DEF Has, Turns
    <2>2. Cardinality(Holders(i)') = 1
        BY <1>2, <1>6, <1>16, <2>1, HoldersMore, HoldersIs
    <2>3. Dropping(i)' = Dropping(i)
        BY <1>2, <1>16, DroppingKept DEF Drops, Turns
    <2> QED BY <1>2, <1>6, <2>2, <2>3, HoldersIs
<1>20. \A u \in Threads : ~Works(u, i)'
    BY <1>6, <1>16 DEF Works, Turns
<1>21. LiveOk(i)' /\ RestOk(i)' /\ OneWorks(i)'
    BY <1>4, <1>12, <1>13, <1>15, <1>19, <1>20 DEF LiveOk, RestOk, OneWorks
<1>22. \A j \in Ids \ {i} : StandsSame(t, j)
    BY <1>1, <1>16, StandsElse
<1> QED BY <1>2, <1>3, <1>6, <1>11, <1>12, <1>14, <1>15, <1>16, <1>17, <1>18, <1>21, <1>22, ObjectStep
        DEF SyncPcs

(***************************************************************************)
(* The steps that change directories.                                      *)
(***************************************************************************)
LEMMA TreeStepKept ==
    ASSUME IInv, NEW t \in Threads, NEW D, NEW f, NEW count, TreeStep(obj, obj', D, f, count),
           \A d \in D : mutex[d] \in {t, Free}
    PROVE  /\ \A u \in Threads : u # t => Kept(u)
           /\ \A j \in Ids : j # f => FileSame(j)
           /\ f \in Ids /\ obj[f].type = "file" =>
                  SameFile(obj, obj', f) /\ LC(obj', f) = LC(obj, f) + count
<1>1. /\ obj \in [Ids -> ObjectRecords] /\ Objects(obj)
    BY InvTyped DEF IInv, TreeOk
<1>2. FilesKept(obj, obj') /\ NamesKept(obj, obj', D)
    BY DEF TreeStep
<1>3. ASSUME NEW u \in Threads, u # t PROVE Kept(u)
    <2>1. \A d \in Dirs : mutex[d] = u => d \notin D
        BY <1>3, VfsAssumption
    <2>2. ASSUME NEW d \in Dirs, NEW m, NEW g \in Ids, Denotes(obj, d, m, g)
          PROVE  obj'[g].gen = obj[g].gen
        <3>1. obj[g].type = "file"
            BY <1>1, <2>2, FileOfIs DEF Denotes, IsAt
        <3> QED BY <1>2, <3>1 DEF FilesKept, SameFile
    <2> QED BY <1>2, <2>1, <2>2 DEF Kept, NamesKept
<1>4. ASSUME NEW j \in Ids, j # f PROVE FileSame(j)
    BY <1>2, <1>4 DEF FileSame, FilesKept, TreeStep
<1>5. ASSUME f \in Ids, obj[f].type = "file"
      PROVE  SameFile(obj, obj', f) /\ LC(obj', f) = LC(obj, f) + count
    BY <1>2, <1>5 DEF FilesKept, TreeStep
<1> QED BY <1>3, <1>4, <1>5

\* A step of t that changes directories whose mutexes nobody else holds, and the names of file f.
LEMMA DirStep ==
    ASSUME IInv, NEW t \in Threads, NEW x, Turns(t, x), TreeTyped', TreeOk', Went,
           NEW D, NEW f \in Ids \cup {NoId}, NEW count, TreeStep(obj, obj', D, f, count),
           \A d \in D : mutex[d] \in {t, Free},
           lock' = Free, UNCHANGED <<bg, mounted, requests>>, ver' \in [Dirs -> Nat],
           mutex' \in [Dirs \cup Ids -> Threads \cup {Free}], \A u \in Threads : u # t => Holding(u),
           ino' \in [Ids -> InodeRecords], x.pc \notin SyncPcs, x.pc \notin WorkPcs,
           CallOk(t)', Alone(t, x),
           \A j \in Ids \ {f} : ino'[j] = ino[j] /\ StandsSame(t, j),
           f # NoId => /\ LiveOk(f)' /\ RestOk(f)' /\ OneWorks(f)'
                       /\ \A u \in Threads : ~Works(u, f)
    PROVE  IInv'
<1>1. RestTyped'
    BY RestStays, InvTyped
<1>2. SyncOk'
    BY SyncKept DEF SyncPcs, IInv
<1>3. /\ \A u \in Threads : u # t => Kept(u)
      /\ \A j \in Ids \ {f} : FileSame(j)
    BY TreeStepKept
<1>4. \A u \in Threads : rd'[u].dir = rd[u].dir /\ rd'[u].ver = rd[u].ver /\ rd'[u].pos = rd[u].pos
    BY DEF Went
<1>5. WorkOk(t)'
    BY DEF WorkOk, Turns, WorkPcs
<1>6. CallsOk' /\ InodesOk'
    BY <1>1, <1>3, <1>4, <1>5, StepKept DEF CallOk, Alone
<1> QED BY <1>1, <1>2, <1>6 DEF IInv

\* The names of a file t has an inode of become more or fewer, and its link count with them.
LEMMA HeldInode ==
    ASSUME IInv, NEW t \in Threads, NEW x, Turns(t, x), NEW f \in Ids, Has(t, f),
           x.id = f, x.pc \in HasPcs, SameFile(obj, obj', f),
           ino'[f].state = ino[f].state, ino'[f].gen = ino[f].gen, ino'[f].count = ino[f].count,
           ino'[f].nlink = LC(obj', f) + ino'[f].off + Dropping(f)',
           ino'[f].off > 0 => obj'[f].lost
    PROVE  LiveOk(f)' /\ RestOk(f)' /\ OneWorks(f)' /\ \A u \in Threads : ~Works(u, f)
<1>1. /\ ino[f].state = "live" /\ t \in Holders(f) /\ obj[f].type = "file" /\ obj[f].inode
      /\ ~obj[f].deferred /\ \A u \in Threads : ~Works(u, f)
      /\ ino[f].count = Cardinality(Holders(f)) /\ ino[f].gen = obj[f].gen
    BY HasIs
<1>2. Holders(f)' = Holders(f)
    <2>1. Has(t, f)'
        BY DEF Has, HasPcs, Turns
    <2> QED BY <2>1, HoldersKept
<1>3. ino[f].count # 0
    BY <1>1, HoldersIs
<1>4. \A u \in Threads : ~Works(u, f)'
    BY <1>1 DEF Works, Turns, HasPcs
<1>5. LiveOk(f)'
    BY <1>1, <1>2, <1>3 DEF LiveOk, SameFile
<1>6. RestOk(f)' /\ OneWorks(f)'
    BY <1>1, <1>4 DEF RestOk, OneWorks
<1> QED BY <1>1, <1>5, <1>6

\* Nobody drops a name of a file whose mutex is free.
LEMMA NobodyDrops ==
    ASSUME IInv, NEW f \in Ids, mutex[f] = Free
    PROVE  Dropping(f) = 0 /\ \A t \in Threads : ~Drops(t, f)
<1>1. \A t \in Threads : ~Drops(t, f)
    BY VfsAssumption DEF IInv, CallsOk, LaterOk, Drops
<1> QED BY <1>1 DEF Dropping

\* yaffs_mknod keeps the invariant.
LEMMA MknodInv ==
    ASSUME IInv, NEW t \in Threads, Mknod(t)
    PROVE  IInv'
<1>1. UNCHANGED <<mutex, ino, ver, bg, mounted, requests>> /\ lock' = Free /\ th[t].pc = "make"
    BY DEF Mknod, EndSection, Released, At
<1>2. /\ th[t].op = "create" /\ th[t].id = NoId /\ th[t].dir \in Dirs /\ mutex[th[t].dir] = t
      /\ NoneAt(obj, th[t].dir, th[t].name) /\ LaterOk(t)
    BY <1>1 DEF IInv, CallsOk, PathOk, InPath
<1>3. CASE Goes(t, "leave") /\ UNCHANGED <<obj, kids, rd, sb>>
    <2>1. PICK x \in Calls : Turns(t, x) /\ x.pc = "leave" /\ Alone(t, x)
        BY <1>1, <1>3, GoesOn DEF Pcs
    <2>2. \A j \in Ids : StandsSame(t, j)
        BY <1>1, <2>1, StandsNot DEF WorkPcs, HasPcs
    <2> QED BY <1>1, <1>3, <2>1, <2>2, RestingStep, InvTyped
<1>4. ASSUME NEW i \in Unused,
             Becomes(Added([Tree EXCEPT !.obj[i] = NewObject(obj[i].gen, "file", Gone, Gone, NoId)],
                           i, th[t].dir, th[t].name)),
             GoesWith(t, "iget", i)
      PROVE  IInv'
    <2>1. i \in Ids /\ obj[i].type = "free"
        BY DEF Unused, Exists
    <2>2. PICK d \in Dirs : d = th[t].dir
        BY <1>2
    <2>3. PICK n \in Names \cup {Gone} : n = th[t].name
        BY InvTyped DEF Calls
    <2>4. PICK s : s = FileAdded(Tree, i, d, n)
        OBVIOUS
    <2>5. TreeTyped /\ TreeOk /\ Objects(obj) /\ NamesUnique(obj) /\ Leads(Tree, rd, obj)
        BY TreeIsSound DEF IInv, TreeOk
    <2>6. PICK p : /\ Leads(s, rd, p) /\ TreeStep(obj, p, {d}, NoId, 0) /\ Denotes(p, d, n, i)
                   /\ p[i].gen = obj[i].gen
        <3>1. NoneAt(obj, d, n)
            BY <1>2, <2>2, <2>3
        <3>2. \E p : Leads(s, rd, p) /\ FileIsNew(obj, p, i, d, n)
            BY <2>1, <2>4, <2>5, <3>1, FileMadeAs
        <3> QED BY <3>2 DEF FileIsNew
    <2>7. Becomes(s)
        <3>1. Tree.obj = obj
            BY DEF Tree
        <3>2. [Tree EXCEPT !.obj[i] = NewObject(obj[i].gen, "file", Gone, Gone, NoId)]
              = [Tree EXCEPT !.obj = [Tree.obj EXCEPT ![i] =
                                 NewObject(Tree.obj[i].gen, "file", Gone, Gone, NoId)]]
            BY Zenon, <3>1
        <3> QED BY Zenon, <1>4, <2>2, <2>3, <2>4, <3>2 DEF FileAdded
    <2>8. obj' = p /\ TreeTyped' /\ TreeOk' /\ Went
        BY <2>5, <2>6, <2>7, BecomesTo DEF TreeStep
    <2>9. PICK g \in Int : g = obj'[i].gen
        BY <2>1, <2>6, <2>8, InodeIs
    <2>10. PICK x \in Calls : /\ Turns(t, x) /\ x.pc = "iget" /\ Same(x, th[t]) /\ x.id = i
                              /\ x.gen = g
        <3>1. MovesTo(t, "iget", i, g)
            BY <1>4, <2>9 DEF GoesWith, MovesTo
        <3>2. "iget" \in Pcs
            BY DEF Pcs, InPath
        <3> QED BY <2>1, <3>1, <3>2, GoesToWith DEF IInv
    <2>11. CallOk(t)'
        <3>1. PathOk(t)'
            BY <1>1, <1>2, <2>1, <2>9, <2>10 DEF PathOk, Turns, Same, Named
        <3>2. LookedUp(t)'
            BY <1>2, <2>2, <2>3, <2>6, <2>8, <2>10 DEF LookedUp, Turns, Same
        <3>3. LaterOk(t)'
            BY <2>8, <2>10, WentSearches DEF LaterOk, Turns
        <3> QED BY <3>1, <3>2, <3>3 DEF CallOk
    <2>12. Alone(t, x)
        BY <1>1, <2>10, AloneKept
    <2>13. \A j \in Ids : StandsSame(t, j)
        BY <1>1, <2>10, StandsNot DEF WorkPcs, HasPcs
    <2>14. TreeStep(obj, obj', {d}, NoId, 0) /\ \A e \in {d} : mutex[e] \in {t, Free}
        BY <1>2, <2>2, <2>6, <2>8
    <2>15. \A u : Holding(u)
        BY <1>1, SameMutex
    <2>16. x.pc \notin SyncPcs /\ x.pc \notin WorkPcs
        BY <2>10 DEF SyncPcs, WorkPcs
    <2>17. /\ ver' \in [Dirs -> Nat] /\ mutex' \in [Dirs \cup Ids -> Threads \cup {Free}]
           /\ ino' \in [Ids -> InodeRecords] /\ \A j \in Ids \ {NoId} : ino'[j] = ino[j]
           /\ NoId \in Ids \cup {NoId}
        BY <1>1, InvTyped
    <2> QED BY <1>1, <2>8, <2>10, <2>11, <2>12, <2>13, <2>14, <2>15, <2>16, <2>17, DirStep
<1> QED BY <1>3, <1>4 DEF Mknod

\* The link count of an inode changes.
LEMMA NlinkSet ==
    ASSUME IInv, NEW f \in Ids, NEW c \in Nat, ino' = [ino EXCEPT ![f].nlink = c]
    PROVE  /\ ino' \in [Ids -> InodeRecords] /\ ino'[f].nlink = c /\ ino'[f].state = ino[f].state
           /\ ino'[f].gen = ino[f].gen /\ ino'[f].count = ino[f].count /\ ino'[f].off = ino[f].off
           /\ \A j \in Ids \ {f} : ino'[j] = ino[j]
<1>1. PICK y \in InodeRecords : y = ino[f]
    BY InvTyped
<1> DEFINE z == [y EXCEPT !.nlink = c]
<1>2. /\ z \in InodeRecords /\ z.nlink = c /\ z.state = y.state /\ z.gen = y.gen /\ z.count = y.count
      /\ z.off = y.off
    BY DEF InodeRecords
<1>3. ino' = [ino EXCEPT ![f] = z]
    BY <1>1
<1> HIDE DEF z
<1> QED BY <1>1, <1>2, <1>3, InvTyped

\* The names of a file are counted anew.
LEMMA CountedIs ==
    ASSUME IInv, NEW f \in Ids, NEW c \in Nat,
           ino' = [ino EXCEPT ![f].nlink = c, ![f].off = 0]
    PROVE  /\ ino' \in [Ids -> InodeRecords] /\ ino'[f].nlink = c /\ ino'[f].state = ino[f].state
           /\ ino'[f].gen = ino[f].gen /\ ino'[f].count = ino[f].count /\ ino'[f].off = 0
           /\ \A j \in Ids \ {f} : ino'[j] = ino[j]
<1>1. PICK y \in InodeRecords : y = ino[f] /\ y.off \in Nat
    BY InodeIs
<1> DEFINE z == [y EXCEPT !.nlink = c, !.off = 0]
<1>2. /\ z \in InodeRecords /\ z.nlink = c /\ z.state = y.state /\ z.gen = y.gen /\ z.count = y.count
      /\ z.off = 0
    BY <1>1 DEF InodeRecords
<1>3. ino' = [ino EXCEPT ![f] = z]
    BY <1>1
<1> HIDE DEF z
<1> QED BY <1>1, <1>2, <1>3, InvTyped

\* An inode is not told of a name that has gone.
LEMMA NotToldIs ==
    ASSUME IInv, NEW f \in Ids, NotTold(f)
    PROVE  /\ ino' \in [Ids -> InodeRecords] /\ ino'[f].nlink = ino[f].nlink /\ ino'[f].state = ino[f].state
           /\ ino'[f].gen = ino[f].gen /\ ino'[f].count = ino[f].count /\ ino'[f].off = ino[f].off + 1
           /\ \A j \in Ids \ {f} : ino'[j] = ino[j]
<1>1. PICK y \in InodeRecords : y = ino[f] /\ y.off \in Nat
    BY InodeIs
<1> DEFINE z == [y EXCEPT !.off = y.off + 1]
<1>2. /\ z \in InodeRecords /\ z.nlink = y.nlink /\ z.state = y.state /\ z.gen = y.gen /\ z.count = y.count
      /\ z.off = y.off + 1
    BY <1>1 DEF InodeRecords
<1>3. ino' = [ino EXCEPT ![f] = z]
    BY <1>1 DEF NotTold
<1> HIDE DEF z
<1> QED BY <1>1, <1>2, <1>3, InvTyped

\* yaffs_unlink keeps the invariant.
LEMMA UnlinkInv ==
    ASSUME IInv, NEW t \in Threads, Unlink(t)
    PROVE  IInv'
<1>1. PICK f : f = th[t].id
    OBVIOUS
<1>2. /\ UNCHANGED <<mutex, bg, mounted, requests>> /\ lock' = Free /\ th[t].pc = "act"
      /\ th[t].op = "unlink" /\ mutex[f] = Free
    BY <1>1 DEF Unlink, EndSection, Released, At
<1>3. PICK d \in Dirs : d = th[t].dir
    BY <1>2, LookedUpIs
<1>4. f \in Ids /\ mutex[d] = t /\ Denotes(obj, d, th[t].name, f)
    BY <1>1, <1>2, <1>3, LookedUpIs
<1>5. PICK i : i = Find(d, th[t].name)
    OBVIOUS
<1>6. TreeTyped /\ TreeOk /\ Objects(obj) /\ NamesUnique(obj) /\ Leads(Tree, rd, obj)
    BY TreeIsSound DEF IInv, TreeOk
<1>7. i \in Ids /\ obj[i].dir = d /\ f = FileOf(obj, i)
    <2>1. PICK k \in Ids : IsAt(obj, k, d, th[t].name) /\ f = FileOf(obj, k)
        BY <1>4 DEF Denotes
    <2>2. i # NoId
        BY <1>5, <1>6, <2>1, FindIs DEF NoneAt
    <2>3. i \in Ids /\ IsAt(obj, i, d, th[t].name)
        BY <1>5, <1>6, <2>2, FindIs
    <2>4. i = k
        BY <1>6, <2>1, <2>3 DEF NamesUnique
    <2> QED BY <2>1, <2>3, <2>4 DEF IsAt
<1>8. Has(t, f)
    BY <1>1, <1>2 DEF Has
<1>9. /\ obj[f].type = "file" /\ obj[f].inode
      /\ ino[f].nlink = LC(obj, f) + ino[f].off + Dropping(f)
      /\ ino[f].off > 0 => obj[f].lost
      /\ ino[f].off \in Nat /\ LC(obj, f) \in Nat
    BY <1>4, <1>8, HasIs, InodeIs
<1>10. PICK w \in BOOLEAN :
          \/ /\ w /\ Becomes(Unlinked(Tree, i, w)) /\ ino' = [ino EXCEPT ![f].nlink = @ - 1]
             /\ ver' = NewVersion(d)
          \/ /\ ~w /\ AnswersWritten(Tree, i) /\ Becomes(Lost(Unlinked(Tree, i, w), i))
             /\ NotTold(i) /\ UNCHANGED ver
    BY <1>1, <1>3, <1>5 DEF Unlink
<1>11. PICK p : /\ Leads(Unlinked(Tree, i, w), rd, p) /\ p \in [Ids -> ObjectRecords]
                /\ TreeStep(obj, p, {d}, f, -1)
    <2>1. PICK p : Leads(Unlinked(Tree, i, w), rd, p) /\ NameLost(obj, p, i)
        BY <1>6, <1>7, <1>9, UnlinkedAs
    <2>2. p \in [Ids -> ObjectRecords]
        BY <2>1, LeadsTo
    <2>3. TreeStep(obj, p, {d}, f, -1)
        BY <1>6, <1>7, <2>1, <2>2, InvTyped, LostIsStep
    <2> QED BY <2>1, <2>2, <2>3
<1>12. ~w => i = f
    <2>1. ~w => obj[i].type # "link"
        BY <1>10 DEF AnswersWritten, Tree
    <2> QED BY <1>7, <2>1 DEF FileOf
<1>13. TreeStep(obj, obj', {d}, f, -1) /\ TreeTyped' /\ TreeOk' /\ Went /\ (~w => obj'[f].lost)
    <2>1. CASE w
        <3>1. Becomes(Unlinked(Tree, i, w))
            BY <1>10, <2>1
        <3>2. obj' = p /\ TreeTyped' /\ TreeOk' /\ Went
            BY <1>6, <1>11, <3>1, BecomesTo DEF TreeStep
        <3> QED BY <1>11, <2>1, <3>2
    <2>2. CASE ~w
        <3>1. Becomes(Lost(Unlinked(Tree, i, w), f))
            BY <1>10, <1>12, <2>2
        <3>2. PICK q : Leads(Lost(Unlinked(Tree, i, w), f), rd, q) /\ LostOnly(p, q, f)
            BY <1>4, <1>11, LostAs
        <3>3. TreeStep(obj, q, {d}, f, -1) /\ q[f].lost
            <4>1. p[f].type = "file"
                BY <1>4, <1>9, <1>11 DEF TreeStep, FilesKept, SameFile
            <4> QED BY <1>4, <1>11, <3>2, <4>1, InvTyped, LostSteps
        <3>4. obj' = q /\ TreeTyped' /\ TreeOk' /\ Went
            BY <1>6, <3>1, <3>2, <3>3, BecomesTo DEF TreeStep
        <3> QED BY <3>3, <3>4
    <2> QED BY <2>1, <2>2
<1>14. PICK x \in Calls : /\ Turns(t, x) /\ x.pc = "put" /\ x.id = f /\ Alone(t, x)
    BY <1>1, <1>2, GoesOn DEF Unlink, Pcs, HasPcs
<1>15. SameFile(obj, obj', f) /\ LC(obj', f) = LC(obj, f) - 1
    <2>1. TreeStep(obj, obj', {d}, f, -1) /\ \A e \in {d} : mutex[e] \in {t, Free}
        BY <1>4, <1>13
    <2>2. SameFile(obj, obj', f) /\ LC(obj', f) = LC(obj, f) + (-1)
        BY <1>4, <1>9, <2>1, TreeStepKept
    <2> QED BY <1>9, <2>2
<1>16. LC(obj', f) \in Nat
    BY <1>4, <1>13, LCIs DEF TreeTyped
<1>17. Dropping(f) = 0 /\ Dropping(f)' = 0
    <2>1. Dropping(f) = 0 /\ \A u \in Threads : ~Drops(u, f)
        BY <1>2, <1>4, NobodyDrops
    <2>2. \A u \in Threads : ~Drops(u, f)'
        BY <1>14, <2>1 DEF Drops, Turns
    <2> QED BY <2>1, <2>2 DEF Dropping
<1>18. /\ ino' \in [Ids -> InodeRecords] /\ ino'[f].state = ino[f].state
       /\ ino'[f].gen = ino[f].gen /\ ino'[f].count = ino[f].count
       /\ \A j \in Ids \ {f} : ino'[j] = ino[j]
       /\ w => ino'[f].nlink = ino[f].nlink - 1 /\ ino'[f].off = ino[f].off
       /\ ~w => ino'[f].nlink = ino[f].nlink /\ ino'[f].off = ino[f].off + 1
    <2>1. CASE w
        <3>1. PICK c \in Nat : c = ino[f].nlink - 1
            BY <1>9, <1>15, <1>16, <1>17
        <3>2. ino' = [ino EXCEPT ![f].nlink = c]
            BY <1>10, <2>1, <3>1
        <3> QED BY <1>4, <2>1, <3>1, <3>2, NlinkSet
    <2>2. CASE ~w
        BY <1>4, <1>10, <1>12, <2>2, NotToldIs
    <2> QED BY <2>1, <2>2
<1>19. ino'[f].nlink = LC(obj', f) + ino'[f].off + Dropping(f)'
    BY <1>9, <1>15, <1>16, <1>17, <1>18
<1>20. ino'[f].off > 0 => obj'[f].lost
    BY <1>9, <1>13, <1>15, <1>18 DEF SameFile
<1>21. x.pc \in HasPcs
    BY <1>14 DEF HasPcs
<1>22. LiveOk(f)' /\ RestOk(f)' /\ OneWorks(f)' /\ \A u \in Threads : ~Works(u, f)
    BY <1>4, <1>8, <1>14, <1>15, <1>18, <1>19, <1>20, <1>21, HeldInode
<1>23. CallOk(t)'
    BY <1>4, <1>13, <1>14, WentSearches, OutOfPath DEF InPath
<1>24. \A j \in Ids \ {f} : StandsSame(t, j)
    BY <1>1, <1>14, StandsElse
<1>25. ver' \in [Dirs -> Nat]
    <2>1. PICK a \in Nat : a = ver[d] + 1
        BY InvTyped
    <2>2. ver' = [ver EXCEPT ![d] = a] \/ ver' = ver
        BY <1>10, <2>1 DEF NewVersion
    <2> QED BY <2>2, InvTyped
<1>26. TreeStep(obj, obj', {d}, f, -1) /\ \A e \in {d} : mutex[e] \in {t, Free}
    BY <1>4, <1>13
<1>27. \A u : Holding(u)
    BY <1>2, SameMutex
<1>28. x.pc \notin SyncPcs /\ x.pc \notin WorkPcs
    BY <1>14 DEF SyncPcs, WorkPcs
<1>29. mutex' \in [Dirs \cup Ids -> Threads \cup {Free}]
    BY <1>2, InvTyped
<1> QED BY <1>2, <1>4, <1>13, <1>14, <1>18, <1>22, <1>23, <1>24, <1>25, <1>26, <1>27, <1>28,
           <1>29, DirStep

\* yaffs_link keeps the invariant.
LEMMA LinkInv ==
    ASSUME IInv, NEW t \in Threads, Link(t)
    PROVE  IInv'
<1>1. PICK f : f = th[t].id
    OBVIOUS
<1>2. /\ UNCHANGED <<mutex, ver, bg, mounted, requests>> /\ lock' = Free /\ th[t].pc = "link"
      /\ mutex[f] = Free /\ mutex[th[t].dir2] = Free /\ Goes(t, "put")
    BY <1>1 DEF Link, EndSection, Released, At
<1>3. f \in Ids /\ th[t].dir2 \in Dirs
    BY <1>1, <1>2 DEF IInv, CallsOk, LaterOk
<1>4. PICK d \in Dirs : d = th[t].dir2
    BY <1>3
<1>5. PICK n \in Names \cup {Gone} : n = th[t].name2
    BY InvTyped DEF Calls
<1>6. TreeTyped /\ TreeOk /\ Objects(obj) /\ NamesUnique(obj) /\ Leads(Tree, rd, obj)
    BY TreeIsSound DEF IInv, TreeOk
<1>7. PICK x \in Calls : /\ Turns(t, x) /\ x.pc = "put" /\ x.id = f /\ Alone(t, x)
    BY <1>1, <1>2, GoesOn DEF Pcs, HasPcs
<1>8. Has(t, f)
    BY <1>1, <1>2 DEF Has
<1>9. obj[f].type = "file" /\ obj[f].inode /\ ~obj[f].deferred
    BY <1>3, <1>8, HasIs
<1>10. x.pc \in HasPcs /\ x.pc \notin SyncPcs /\ x.pc \notin WorkPcs
    BY <1>7 DEF HasPcs, SyncPcs, WorkPcs
<1>11. \A u : Holding(u)
    BY <1>2, SameMutex
<1>12. CASE UNCHANGED <<obj, kids, rd, sb, ino>>
    <2>1. \A j \in Ids : StandsSame(t, j)
        BY <1>1, <1>2, <1>7, StandsOn DEF HasPcs
    <2>2. rd'[t].ver # -1 => rd'[t].pos >= 2
        BY <1>12, SearchesOk
    <2>3. CallOk(t)'
        BY <1>3, <1>7, <2>2, OutOfPath DEF InPath
    <2> QED BY <1>2, <1>7, <1>10, <1>11, <1>12, <2>1, <2>3, InvTyped, PlainStep
<1>13. ASSUME Find(d, n) = NoId, NEW i \in Unused,
              LET made == NewObject(obj[i].gen, "link", Gone, Gone, f)
                  s == Added([Tree EXCEPT !.obj[i] = made], i, d, n)
              IN Becomes([s EXCEPT !.obj[f].links = <<i>> \o @]),
              ino' = [ino EXCEPT ![f].nlink = LinkCount(f) + 1, ![f].off = 0]
       PROVE  IInv'
    <2>1. i \in Ids /\ obj[i].type = "free" /\ NoneAt(obj, d, n)
        BY <1>6, <1>13, FindIs DEF Unused, Exists
    <2> DEFINE made == [Tree EXCEPT !.obj = [Tree.obj EXCEPT ![i] =
                                 NewObject(Tree.obj[i].gen, "link", Gone, Gone, f)]]
               a == Added(made, i, d, n)
               s == [a EXCEPT !.obj = [a.obj EXCEPT ![f] =
                                 [a.obj[f] EXCEPT !.links = <<i>> \o a.obj[f].links]]]
    <2>2. PICK p : Leads(s, rd, p) /\ TreeStep(obj, p, {d}, f, 1)
        <3>1. \E p : Leads(s, rd, p) /\ TreeStep(obj, p, {d}, f, 1)
            BY <1>3, <1>6, <1>9, <2>1, LinkMadeAs
        <3> QED BY <3>1
    <2>3. Becomes(s)
        <3>1. Tree.obj = obj
            BY DEF Tree
        <3>2. [Tree EXCEPT !.obj[i] = NewObject(obj[i].gen, "link", Gone, Gone, f)] = made
            BY Zenon, <3>1
        <3>3. Added([Tree EXCEPT !.obj[i] = NewObject(obj[i].gen, "link", Gone, Gone, f)], i, d, n) = a
            BY Zenon, <3>2
        <3>4. [a EXCEPT !.obj[f].links = <<i>> \o @] = s
            OBVIOUS
        <3> QED BY Zenon, <1>13, <3>3, <3>4
    <2> HIDE DEF s, a, made
    <2>4. obj' = p /\ TreeTyped' /\ TreeOk' /\ Went
        BY <1>6, <2>2, <2>3, BecomesTo DEF TreeStep
    <2>5. TreeStep(obj, obj', {d}, f, 1) /\ \A e \in {d} : mutex[e] \in {t, Free}
        BY <1>2, <1>4, <2>2, <2>4
    <2>6. SameFile(obj, obj', f) /\ LC(obj', f) = LC(obj, f) + 1
        BY <1>3, <1>9, <2>5, TreeStepKept
    <2>7. Dropping(f)' = 0
        <3>1. \A u \in Threads : ~Drops(u, f)
            BY <1>2, <1>3, NobodyDrops
        <3>2. \A u \in Threads : ~Drops(u, f)'
            BY <1>7, <3>1 DEF Drops, Turns
        <3> QED BY <3>2 DEF Dropping
    <2>8. PICK c \in Nat : c = LC(obj, f) + 1
        BY <1>3, InodeIs
    <2>9. LinkCount(f) = LC(obj, f)
        BY DEF LinkCount, LC
    <2>10. ino' = [ino EXCEPT ![f].nlink = c, ![f].off = 0]
        BY <1>13, <2>8, <2>9
    <2>11. /\ ino' \in [Ids -> InodeRecords] /\ ino'[f].nlink = c /\ ino'[f].state = ino[f].state
           /\ ino'[f].gen = ino[f].gen /\ ino'[f].count = ino[f].count /\ ino'[f].off = 0
           /\ \A j \in Ids \ {f} : ino'[j] = ino[j]
        BY <1>3, <2>10, CountedIs
    <2>12. ino'[f].nlink = LC(obj', f) + ino'[f].off + Dropping(f)'
        BY <2>6, <2>7, <2>8, <2>11
    <2>13. LiveOk(f)' /\ RestOk(f)' /\ OneWorks(f)' /\ \A u \in Threads : ~Works(u, f)
        BY <1>3, <1>7, <1>8, <1>10, <2>6, <2>11, <2>12, HeldInode
    <2>14. CallOk(t)'
        BY <1>3, <1>7, <2>4, WentSearches, OutOfPath DEF InPath
    <2>15. \A j \in Ids \ {f} : StandsSame(t, j)
        BY <1>1, <1>7, StandsElse
    <2>16. ver' \in [Dirs -> Nat] /\ mutex' \in [Dirs \cup Ids -> Threads \cup {Free}]
        BY <1>2, InvTyped
    <2> QED BY <1>2, <1>3, <1>7, <1>10, <1>11, <2>4, <2>5, <2>11, <2>13, <2>14, <2>15, <2>16, DirStep
<1>14. /\ UNCHANGED <<obj, kids, rd, sb, ino>>
       \/ /\ Find(d, n) = NoId
          /\ \E i \in Unused :
             /\ LET made == NewObject(obj[i].gen, "link", Gone, Gone, f)
                    s == Added([Tree EXCEPT !.obj[i] = made], i, d, n)
                IN Becomes([s EXCEPT !.obj[f].links = <<i>> \o @])
             /\ ino' = [ino EXCEPT ![f].nlink = LinkCount(f) + 1, ![f].off = 0]
    BY Zenon, <1>1, <1>4, <1>5 DEF Link
<1> QED BY <1>12, <1>13, <1>14

\* What a name that stands for a file is that of.
LEMMA FindDenotes ==
    ASSUME IInv, NEW d \in Dirs, NEW n, NEW f \in Ids, Denotes(obj, d, n, f)
    PROVE  /\ Find(d, n) \in Ids /\ Find(d, n) # NoId /\ IsAt(obj, Find(d, n), d, n)
           /\ obj[Find(d, n)].dir = d /\ f = FileOf(obj, Find(d, n))
<1>1. PICK k \in Ids : IsAt(obj, k, d, n) /\ f = FileOf(obj, k)
    BY DEF Denotes
<1>2. Find(d, n) # NoId
    BY <1>1, FindIs DEF NoneAt, IInv
<1>3. Find(d, n) \in Ids /\ IsAt(obj, Find(d, n), d, n)
    BY <1>2, FindIs DEF IInv
<1>4. Find(d, n) = k
    BY <1>1, <1>3 DEF NamesUnique, IInv, TreeOk
<1> QED BY <1>1, <1>2, <1>3, <1>4 DEF IsAt

\* yaffs_rename keeps the invariant.
LEMMA RenameInv ==
    ASSUME IInv, NEW t \in Threads, Rename(t)
    PROVE  IInv'
<1>1. PICK i : i = Find(th[t].dir, th[t].name)
    OBVIOUS
<1>2. PICK j : j = Find(th[t].dir2, th[t].name2)
    OBVIOUS
<1>3. PICK f : f = th[t].id
    OBVIOUS
<1>4. /\ UNCHANGED <<ver, bg, mounted, requests>> /\ lock' = Free /\ th[t].pc = "act"
      /\ th[t].op = "rename"
    BY DEF Rename, EndSection, Released, At
<1>5. /\ th[t].dir \in Dirs /\ mutex[th[t].dir] = t /\ th[t].dir2 \in Dirs /\ mutex[th[t].dir2] = t
      /\ \E g \in Ids : g # f /\ Denotes(obj, th[t].dir, th[t].name, g)
      /\ IF f = NoId THEN NoneAt(obj, th[t].dir2, th[t].name2)
         ELSE Denotes(obj, th[t].dir2, th[t].name2, f)
    BY <1>3, <1>4 DEF IInv, CallsOk, PathOk, LookedUp, InPath
<1>6. PICK d \in Dirs : d = th[t].dir2
    BY <1>5
<1>7. PICK n \in Names \cup {Gone} : n = th[t].name2
    BY InvTyped DEF Calls
<1>8. PICK e \in Dirs : e = th[t].dir
    BY <1>5
<1>9. TreeTyped /\ TreeOk /\ Objects(obj) /\ NamesUnique(obj) /\ Leads(Tree, rd, obj)
    BY TreeIsSound DEF IInv, TreeOk
<1>10. /\ i \in Ids /\ obj[i].dir = e /\ FileOf(obj, i) # f
    <2>1. PICK g \in Ids : g # f /\ Denotes(obj, e, th[t].name, g)
        BY <1>5, <1>8
    <2> QED BY <1>1, <1>8, <2>1, FindDenotes
<1>11. f = NoId \/ f \in Ids
    BY <1>3, InvTyped DEF Calls
<1>12. PICK w \in BOOLEAN :
          \/ /\ j = NoId /\ Becomes(Renamed(Tree, i, j, d, n, w)) /\ Goes(t, "leave")
             /\ UNCHANGED <<mutex, ino>>
          \/ /\ j # NoId /\ mutex[f] = Free /\ Becomes(Renamed(Tree, i, j, d, n, w))
             /\ Goes(t, "drop") /\ mutex' = [mutex EXCEPT ![f] = t] /\ UNCHANGED ino
          \/ /\ j # NoId /\ mutex[f] = Free /\ Becomes(Lost(Renamed(Tree, i, j, d, n, w), f))
             /\ Goes(t, "put") /\ NotTold(f) /\ UNCHANGED mutex
    BY <1>1, <1>2, <1>3, <1>6, <1>7 DEF Rename
<1>13. \A b \in {e, d} : mutex[b] \in {t, Free}
    BY <1>5, <1>6, <1>8
<1>14. ver' \in [Dirs -> Nat]
    BY <1>4, InvTyped
<1>15. CASE f = NoId
    <2>1. j = NoId /\ NoneAt(obj, d, n)
        <3>1. NoneAt(obj, d, n)
            BY <1>5, <1>6, <1>7, <1>15
        <3>2. j = Find(d, n) /\ (j # NoId => j \in Ids /\ IsAt(obj, j, d, n))
            BY <1>2, <1>6, <1>7, <1>9, FindIs
        <3> QED BY <3>1, <3>2 DEF NoneAt
    <2>2. PICK p : Leads(Renamed(Tree, i, j, d, n, w), rd, p) /\ TreeStep(obj, p, {e, d}, NoId, 0)
        <3>1. \E p : /\ Leads(Renamed(Tree, i, j, d, n, w), rd, p)
                     /\ IF j = NoId THEN TreeStep(obj, p, {obj[i].dir, d}, NoId, 0)
                        ELSE TreeStep(obj, p, {obj[i].dir, d}, FileOf(obj, j), -1)
            BY <1>9, <1>10, <2>1, RenamedAs
        <3> QED BY <1>10, <2>1, <3>1
    <2>3. obj' = p /\ TreeTyped' /\ TreeOk' /\ Went
        BY <1>9, <1>12, <2>1, <2>2, BecomesTo DEF TreeStep
    <2>4. PICK x \in Calls : Turns(t, x) /\ x.pc = "leave" /\ Alone(t, x)
        BY <1>4, <1>12, <2>1, GoesOn DEF Pcs
    <2>5. \A k \in Ids : StandsSame(t, k)
        BY <1>3, <1>15, <2>4, VfsAssumption, StandsNot DEF WorkPcs, HasPcs
    <2>6. CallOk(t)'
        BY <2>3, <2>4, WentSearches, OutOfPath DEF InPath
    <2>7. x.pc \notin SyncPcs /\ x.pc \notin WorkPcs
        BY <2>4 DEF SyncPcs, WorkPcs
    <2>8. \A u : Holding(u)
        BY <1>12, <2>1, SameMutex
    <2>9. mutex' \in [Dirs \cup Ids -> Threads \cup {Free}]
        BY <1>12, <2>1, InvTyped
    <2>10. TreeStep(obj, obj', {e, d}, NoId, 0)
        BY <2>2, <2>3
    <2>11. /\ ino' \in [Ids -> InodeRecords] /\ \A k \in Ids \ {NoId} : ino'[k] = ino[k]
           /\ NoId \in Ids \cup {NoId}
        BY <1>12, <2>1, InvTyped
    <2> QED BY <1>4, <1>13, <1>14, <2>3, <2>4, <2>5, <2>6, <2>7, <2>8, <2>9, <2>10, <2>11, DirStep
<1>16. CASE f # NoId
    <2>1. /\ j = Find(d, n) /\ j \in Ids /\ j # NoId /\ IsAt(obj, j, d, n) /\ f = FileOf(obj, j)
        <3>1. f \in Ids /\ Denotes(obj, d, n, f)
            BY <1>5, <1>6, <1>7, <1>11, <1>16
        <3> QED BY <1>2, <1>6, <1>7, <3>1, FindDenotes
    <2>2. f \in Ids /\ Has(t, f)
        BY <1>3, <1>4, <1>11, <1>16 DEF Has
    <2>3. /\ obj[f].type = "file" /\ obj[f].inode
          /\ ino[f].nlink = LC(obj, f) + ino[f].off + Dropping(f)
          /\ ino[f].off > 0 => obj[f].lost
          /\ ino[f].off \in Nat /\ LC(obj, f) \in Nat
        BY <2>2, HasIs, InodeIs
    <2>4. PICK p : Leads(Renamed(Tree, i, j, d, n, w), rd, p) /\ TreeStep(obj, p, {e, d}, f, -1)
        <3>1. \E p : /\ Leads(Renamed(Tree, i, j, d, n, w), rd, p)
                     /\ IF j = NoId THEN TreeStep(obj, p, {obj[i].dir, d}, NoId, 0)
                        ELSE TreeStep(obj, p, {obj[i].dir, d}, FileOf(obj, j), -1)
            BY <1>9, <1>10, <2>1, <2>3, RenamedAs
        <3> QED BY <1>10, <2>1, <3>1
    <2>5. PICK told \in BOOLEAN :
             /\ mutex[f] = Free
             /\ told => /\ Becomes(Renamed(Tree, i, j, d, n, w)) /\ Goes(t, "drop")
                        /\ mutex' = [mutex EXCEPT ![f] = t] /\ UNCHANGED ino
             /\ ~told => /\ Becomes(Lost(Renamed(Tree, i, j, d, n, w), f)) /\ Goes(t, "put")
                         /\ NotTold(f) /\ UNCHANGED mutex
        BY <1>12, <2>1
    <2>6. /\ TreeStep(obj, obj', {e, d}, f, -1) /\ TreeTyped' /\ TreeOk' /\ Went
          /\ ~told => obj'[f].lost
        <3>1. CASE told
            <4>1. obj' = p /\ TreeTyped' /\ TreeOk' /\ Went
                BY <1>9, <2>4, <2>5, <3>1, BecomesTo DEF TreeStep
            <4> QED BY <2>4, <3>1, <4>1
        <3>2. CASE ~told
            <4>1. p \in [Ids -> ObjectRecords] /\ p[f].type = "file"
                BY <2>2, <2>3, <2>4, LeadsTo DEF TreeStep, FilesKept, SameFile
            <4>2. PICK q : /\ Leads(Lost(Renamed(Tree, i, j, d, n, w), f), rd, q)
                           /\ LostOnly(p, q, f)
                BY <2>2, <2>4, LostAs
            <4>3. TreeStep(obj, q, {e, d}, f, -1) /\ q[f].lost
                BY <2>2, <2>4, <4>1, <4>2, InvTyped, LostSteps
            <4>4. obj' = q /\ TreeTyped' /\ TreeOk' /\ Went
                BY <1>9, <2>5, <3>2, <4>2, <4>3, BecomesTo DEF TreeStep
            <4> QED BY <4>3, <4>4
        <3> QED BY <3>1, <3>2
    <2>7. PICK x \in Calls : /\ Turns(t, x) /\ x.id = f /\ Alone(t, x)
                             /\ x.pc = IF told THEN "drop" ELSE "put"
        BY <1>3, <1>4, <2>5, GoesOn DEF Pcs, HasPcs
    <2>8. SameFile(obj, obj', f) /\ LC(obj', f) = LC(obj, f) - 1 /\ LC(obj', f) \in Nat
        <3>1. SameFile(obj, obj', f) /\ LC(obj', f) = LC(obj, f) + (-1)
            BY <1>13, <2>2, <2>3, <2>6, TreeStepKept
        <3>2. LC(obj', f) \in Nat
            BY <2>2, <2>6, LCIs DEF TreeTyped
        <3> QED BY <2>3, <3>1, <3>2
    <2>9. Dropping(f) = 0 /\ Dropping(f)' = IF told THEN 1 ELSE 0
        <3>1. Dropping(f) = 0 /\ \A u \in Threads : ~Drops(u, f)
            BY <2>2, <2>5, NobodyDrops
        <3>2. (told => Drops(t, f)') /\ (~told => \A u \in Threads : ~Drops(u, f)')
            BY <2>7, <3>1 DEF Drops, Turns
        <3> QED BY <3>1, <3>2 DEF Dropping
    <2>10. /\ ino' \in [Ids -> InodeRecords] /\ ino'[f].nlink = ino[f].nlink
           /\ ino'[f].state = ino[f].state /\ ino'[f].gen = ino[f].gen
           /\ ino'[f].count = ino[f].count
           /\ ino'[f].off = ino[f].off + (IF told THEN 0 ELSE 1)
           /\ \A k \in Ids \ {f} : ino'[k] = ino[k]
        <3>1. CASE told
            BY <2>3, <2>5, <3>1, InvTyped
        <3>2. CASE ~told
            BY <2>2, <2>5, <3>2, NotToldIs
        <3> QED BY <3>1, <3>2
    <2>11. /\ ino'[f].nlink = LC(obj', f) + ino'[f].off + Dropping(f)'
           /\ ino'[f].off > 0 => obj'[f].lost
        <3>1. ino'[f].off > 0 => obj'[f].lost
            BY <2>3, <2>6, <2>8, <2>10 DEF SameFile
        <3> QED BY <2>3, <2>8, <2>9, <2>10, <3>1
    <2>12. x.pc \in HasPcs /\ x.pc \notin SyncPcs /\ x.pc \notin WorkPcs
        BY <2>7 DEF HasPcs, SyncPcs, WorkPcs
    <2>13. LiveOk(f)' /\ RestOk(f)' /\ OneWorks(f)' /\ \A u \in Threads : ~Works(u, f)
        BY <2>2, <2>7, <2>8, <2>10, <2>11, <2>12, HeldInode
    <2>14. /\ mutex' \in [Dirs \cup Ids -> Threads \cup {Free}] /\ (told => mutex'[f] = t)
           /\ \A u \in Threads : u # t => Holding(u)
        BY <2>2, <2>5, InvTyped, VfsAssumption DEF Holding
    <2>15. CallOk(t)'
        <3>1. rd'[t].ver # -1 => rd'[t].pos >= 2
            BY <2>6, WentSearches
        <3> QED BY <2>2, <2>7, <2>14, <3>1, OutOfPath DEF InPath
    <2>16. \A k \in Ids \ {f} : StandsSame(t, k)
        BY <1>3, <2>7, StandsElse
    <2> QED BY <1>4, <1>13, <1>14, <2>2, <2>6, <2>7, <2>10, <2>12, <2>13, <2>14, <2>15, <2>16, DirStep
<1> QED BY <1>15, <1>16

(***************************************************************************)
(* The beginning.                                                          *)
(***************************************************************************)
LEMMA OrderedIs ==
    ASSUME NEW S \in SUBSET Ids
    PROVE  /\ Ordered(S) \in Seq(Ids) /\ Once(Ordered(S))
           /\ \A i \in Ids : In(Ordered(S), i) <=> i \in S
<1> DEFINE n == Cardinality(S)
           Fits(list) == list \in [1 .. n -> S] /\ {list[k] : k \in DOMAIN list} = S
<1>1. IsFiniteSet(S) /\ n \in Nat
    BY FS_Subset, FS_CardinalityType, VfsAssumption
<1>2. PICK g : g \in Surjection(1 .. n, S)
    BY <1>1, FS_CardinalityType DEF ExistsBijection, Bijection
<1>3. Fits(g)
    BY <1>2 DEF Surjection
<1>4. Ordered(S) = CHOOSE list \in [1 .. n -> S] : {list[k] : k \in DOMAIN list} = S
    BY DEF Ordered
<1>5. Fits(Ordered(S))
    BY <1>3, <1>4
<1>6. PICK list : list = Ordered(S)
    OBVIOUS
<1>7. list \in [1 .. n -> S] /\ \A i \in S : \E k \in 1 .. n : list[k] = i
    BY <1>5, <1>6
<1> HIDE DEF n
<1>8. list \in Surjection(1 .. n, S)
    BY <1>7 DEF Surjection
<1>9. IsFiniteSet(1 .. n) /\ Cardinality(1 .. n) = n
    BY <1>1, FS_Interval
<1>10. list \in Injection(1 .. n, S)
    BY <1>8, <1>9, FS_SurjSameCardinalityImpliesInj DEF n
<1>11. list \in Seq(Ids) /\ Len(list) = n
    BY <1>1, <1>7
<1>12. Once(list)
    BY <1>7, <1>10, <1>11 DEF Once, Injection, IsInjective
<1>13. \A i \in Ids : In(list, i) <=> i \in S
    BY <1>7, <1>11 DEF In
<1> QED BY <1>6, <1>11, <1>12, <1>13

\* The links to i.
LinksTo(c, i) == {y.id : y \in {z \in c : z.target = i}}

\* What the contents at mount are.
LEMMA ContentIs ==
    ASSUME NEW c \in Contents, NEW i \in Ids
    PROVE  /\ \A x \in c : /\ x.id \in Ids /\ x.dir \in Dirs /\ x.name \in Names
                           /\ x.target \in Ids \cup {NoId}
           /\ LinksTo(c, i) \in SUBSET Ids
           /\ \A l \in Ids : l \in LinksTo(c, i) <=> \E y \in c : y.id = l /\ y.target = i
           /\ \A x \in c : x.id = i /\ x.target # NoId => LinksTo(c, i) = {}
<1>1. c \subseteq [id : Ids, dir : Dirs, name : Names, target : Ids \cup {NoId}]
    BY ContentsAssumption
<1>2. \A x \in c : /\ x.id \in Ids /\ x.dir \in Dirs /\ x.name \in Names
                   /\ x.target \in Ids \cup {NoId}
    BY <1>1
<1>3. LinksTo(c, i) \in SUBSET Ids
    BY <1>2 DEF LinksTo
<1>4. \A l \in Ids : l \in LinksTo(c, i) <=> \E y \in c : y.id = l /\ y.target = i
    BY DEF LinksTo
<1>5. ASSUME NEW x \in c, x.id = i, x.target # NoId, NEW y \in c, y.target = i PROVE FALSE
    <2>1. PICK z \in c : z.id = i /\ z.target = NoId
        BY <1>5, ContentsAssumption, VfsAssumption
    <2>2. z = x
        BY <1>5, <2>1, ContentsAssumption
    <2> QED BY <1>5, <2>1, <2>2
<1>6. \A x \in c : x.id = i /\ x.target # NoId => LinksTo(c, i) = {}
    BY <1>5 DEF LinksTo
<1> QED BY <1>2, <1>3, <1>4, <1>6

\* An object of the contents at mount.
LEMMA ObjectOfIs ==
    ASSUME NEW c \in Contents, NEW i \in Ids
    PROVE  /\ ObjectOf(c, i) \in ObjectRecords
           /\ ~ObjectOf(c, i).inode /\ ~ObjectOf(c, i).deferred
           /\ (\A x \in c : x.id # i) =>
                  /\ ObjectOf(c, i).type = "free" /\ ObjectOf(c, i).dir = Gone
                  /\ ObjectOf(c, i).links = <<>>
           /\ \A x \in c : x.id = i =>
                  /\ ObjectOf(c, i).type = (IF x.target = NoId THEN "file" ELSE "link")
                  /\ ObjectOf(c, i).dir = x.dir /\ ObjectOf(c, i).name = x.name
                  /\ ObjectOf(c, i).target = x.target
                  /\ ObjectOf(c, i).links = Ordered(LinksTo(c, i))
<1>1. PICK z : z = FreeObject(0)
    OBVIOUS
<1>2. /\ z \in ObjectRecords /\ z.type = "free" /\ z.dir = Gone /\ z.links = <<>>
      /\ ~z.inode /\ ~z.deferred
    <2>1. <<>> \in Seq(Ids)
        OBVIOUS
    <2> QED BY <1>1, <2>1 DEF FreeObject, ObjectRecords
<1>3. CASE \A x \in c : x.id # i
    <2>1. ObjectOf(c, i) = z
        BY <1>1, <1>3 DEF ObjectOf
    <2> QED BY <1>2, <1>3, <2>1
<1>4. ASSUME NEW x \in c, x.id = i
      PROVE  /\ ObjectOf(c, i) \in ObjectRecords
             /\ ~ObjectOf(c, i).inode /\ ~ObjectOf(c, i).deferred
             /\ ObjectOf(c, i).type = (IF x.target = NoId THEN "file" ELSE "link")
             /\ ObjectOf(c, i).dir = x.dir /\ ObjectOf(c, i).name = x.name
             /\ ObjectOf(c, i).target = x.target
             /\ ObjectOf(c, i).links = Ordered(LinksTo(c, i))
    <2>1. {y \in c : y.id = i} = {x}
        BY <1>4, ContentsAssumption
    <2> DEFINE type == IF x.target = NoId THEN "file" ELSE "link"
               l == Ordered(LinksTo(c, i))
               y == [z EXCEPT !.type = type, !.dir = x.dir, !.name = x.name, !.target = x.target]
    <2>2. (CHOOSE w \in {x} : TRUE) = x /\ {x} # {}
        OBVIOUS
    <2>3. ObjectOf(c, i) = [y EXCEPT !.links = l]
        BY <1>1, <2>1, <2>2 DEF ObjectOf, NewObject, LinksTo
    <2>4. l \in Seq(Ids)
        BY ContentIs, OrderedIs
    <2>5. x.dir \in Dirs /\ x.name \in Names /\ x.target \in Ids \cup {NoId}
        BY ContentIs
    <2>6. type \in {"file", "link"}
        OBVIOUS
    <2> HIDE DEF type, l
    <2>7. /\ y \in ObjectRecords /\ ~y.inode /\ ~y.deferred /\ y.type = type
          /\ y.dir = x.dir /\ y.name = x.name /\ y.target = x.target
        BY <1>2, <2>5, <2>6 DEF ObjectRecords
    <2> HIDE DEF y
    <2>8. /\ [y EXCEPT !.links = l] \in ObjectRecords /\ [y EXCEPT !.links = l].links = l
          /\ [y EXCEPT !.links = l].type = y.type /\ [y EXCEPT !.links = l].dir = y.dir
          /\ [y EXCEPT !.links = l].name = y.name /\ [y EXCEPT !.links = l].target = y.target
          /\ [y EXCEPT !.links = l].inode = y.inode
          /\ [y EXCEPT !.links = l].deferred = y.deferred
        BY <2>4, <2>7 DEF ObjectRecords
    <2> QED BY <2>3, <2>7, <2>8 DEF type, l
<1> QED BY <1>3, <1>4

\* The mounted device has the invariant.
LEMMA InitInv ==
    ASSUME Init
    PROVE  IInv
<1>1. PICK c \in Contents : obj = [i \in Ids |-> ObjectOf(c, i)]
    BY DEF Init
<1>2. \A i \in Ids : obj[i] = ObjectOf(c, i)
    BY <1>1
<1>3. obj \in [Ids -> ObjectRecords]
    BY <1>1, ObjectOfIs
<1>4. ASSUME NEW i \in Ids
      PROVE  /\ ~obj[i].inode /\ ~obj[i].deferred
             /\ (\A x \in c : x.id # i) =>
                    obj[i].type = "free" /\ obj[i].dir = Gone /\ obj[i].links = <<>>
             /\ \A x \in c : x.id = i =>
                    /\ obj[i].type = (IF x.target = NoId THEN "file" ELSE "link")
                    /\ obj[i].dir = x.dir /\ obj[i].name = x.name /\ obj[i].target = x.target
                    /\ obj[i].links = Ordered(LinksTo(c, i))
    BY <1>2, ObjectOfIs
<1>5. ASSUME NEW i \in Ids PROVE FreeOk(obj, i) /\ LinkOk(obj, i) /\ FileOk(obj, i)
    <2>1. CASE \A x \in c : x.id # i
        BY <1>4, <2>1 DEF FreeOk, LinkOk, FileOk
    <2>2. ASSUME NEW x \in c, x.id = i PROVE FreeOk(obj, i) /\ LinkOk(obj, i) /\ FileOk(obj, i)
        <3>1. /\ x.dir \in Dirs /\ x.target \in Ids \cup {NoId}
              /\ LinksTo(c, i) \in SUBSET Ids
              /\ \A l \in Ids : l \in LinksTo(c, i) <=> \E y \in c : y.id = l /\ y.target = i
            BY ContentIs
        <3>2. /\ obj[i].links = Ordered(LinksTo(c, i)) /\ obj[i].dir = x.dir
              /\ obj[i].target = x.target
              /\ ~obj[i].inode /\ ~obj[i].deferred
              /\ obj[i].type = IF x.target = NoId THEN "file" ELSE "link"
            BY <1>4, <2>2
        <3>3. /\ Once(obj[i].links) /\ \A l \in Ids : In(obj[i].links, l) <=> l \in LinksTo(c, i)
            BY <3>1, <3>2, OrderedIs
        <3>4. FileOk(obj, i)
            <4>1. ASSUME NEW l \in Ids, In(obj[i].links, l)
                  PROVE  obj[l].type = "link" /\ obj[l].target = i /\ obj[l].dir \in Dirs
                <5>1. PICK y \in c : y.id = l /\ y.target = i /\ y.dir \in Dirs
                    BY <3>1, <3>3, <4>1, ContentIs
                <5> QED BY <1>4, <5>1, VfsAssumption
            <4> QED BY <3>1, <3>2, <3>3, <4>1 DEF FileOk
        <3>5. LinkOk(obj, i)
            <4>1. CASE x.target = NoId
                BY <3>2, <4>1 DEF LinkOk
            <4>2. CASE x.target # NoId
                <5>1. PICK f \in Ids : f = x.target
                    BY <3>1, <4>2
                <5>2. PICK y \in c : y.id = f /\ y.target = NoId
                    BY <4>2, <5>1, ContentsAssumption
                <5>3. obj[f].type = "file" /\ obj[f].links = Ordered(LinksTo(c, f))
                    BY <1>4, <5>2
                <5>4. i \in LinksTo(c, f)
                    BY <2>2, <5>1, ContentIs
                <5>5. In(obj[f].links, i)
                    <6>1. LinksTo(c, f) \in SUBSET Ids
                        BY ContentIs
                    <6> QED BY <5>3, <5>4, <6>1, OrderedIs
                <5>6. obj[i].links = <<>>
                    <6>1. LinksTo(c, i) = {}
                        BY <2>2, <4>2, ContentIs
                    <6>2. Ordered({}) = <<>>
                        <7>1. Ordered({}) \in Seq(Ids)
                            BY OrderedIs
                        <7>2. \A k \in 1 .. Len(Ordered({})) : Ordered({})[k] \in Ids
                            BY <7>1, ElementOfSeq
                        <7>3. ~\E k \in 1 .. Len(Ordered({})) : TRUE
                            BY <7>2, OrderedIs DEF In
                        <7>4. Len(Ordered({})) = 0
                            BY <7>1, <7>3, LenProperties
                        <7> QED BY <7>1, <7>4, EmptySeq
                    <6> QED BY <3>2, <6>1, <6>2
                <5> QED BY <3>1, <3>2, <5>1, <5>3, <5>5, <5>6, VfsAssumption DEF LinkOk
            <4> QED BY <4>1, <4>2
        <3>6. FreeOk(obj, i)
            BY <3>2 DEF FreeOk
        <3> QED BY <3>4, <3>5, <3>6
    <2> QED BY <2>1, <2>2
<1>6. NamesUnique(obj)
    <2> SUFFICES ASSUME NEW d \in Dirs, NEW i \in Ids, NEW j \in Ids, NEW n,
                        IsAt(obj, i, d, n), IsAt(obj, j, d, n)
                 PROVE  i = j
        BY DEF NamesUnique
    <2>1. ASSUME NEW k \in Ids, IsAt(obj, k, d, n) PROVE \E x \in c : x.id = k /\ x.dir = d /\ x.name = n
        <3>1. obj[k].dir # Gone
            BY <2>1, VfsAssumption DEF IsAt
        <3>2. PICK x \in c : x.id = k
            BY <1>4, <3>1
        <3> QED BY <1>4, <2>1, <3>2 DEF IsAt
    <2>2. PICK x \in c : x.id = i /\ x.dir = d /\ x.name = n
        BY <2>1
    <2>3. PICK y \in c : y.id = j /\ y.dir = d /\ y.name = n
        BY <2>1
    <2> QED BY <2>2, <2>3, ContentsAssumption
<1>7. kids \in [Dirs -> Seq(Ids)] /\ Lists(kids, obj)
    <2>1. kids = [d \in Dirs |-> Ordered(Listed(obj, d))]
        BY DEF Init
    <2>2. \A d \in Dirs : Listed(obj, d) \in SUBSET Ids
        BY DEF Listed
    <2>3. ASSUME NEW d \in Dirs
          PROVE  /\ kids[d] \in Seq(Ids) /\ Once(kids[d])
                 /\ \A i \in Ids : obj[i].dir = d <=> In(kids[d], i)
        <3>1. kids[d] = Ordered(Listed(obj, d))
            BY <2>1
        <3> QED BY <2>2, <3>1, OrderedIs DEF Listed
    <2> QED BY <2>1, <2>3 DEF Lists
<1>8. /\ rd = [t \in Threads |-> NotReading] /\ NotReading \in Searches
      /\ NotReading.next = NoId /\ NotReading.ver = -1 /\ NotReading.dir = Gone
    BY DEF Init, NotReading, Searches
<1>9. TreeTyped /\ TreeOk
    <2>1. sb \in Marks
        BY DEF Init, Marks
    <2>2. Found(rd, obj)
        BY <1>8 DEF Found
    <2> QED BY <1>3, <1>5, <1>6, <1>7, <1>8, <2>1, <2>2 DEF TreeTyped, TreeOk, Objects
<1>10. RestTyped
    <2>1. NoInode \in InodeRecords
        BY DEF NoInode, InodeRecords
    <2> QED BY <2>1, IdleCall, VfsAssumption DEF Init, RestTyped, Rounds
<1>11. \A t \in Threads : th[t].pc = "idle" /\ th[t].op = "none" /\ rd[t].ver = -1
    BY <1>8, IdleCall DEF Init
<1>12. CallsOk
    BY <1>11 DEF CallsOk, PathOk, LookedUp, LaterOk, Unmounting, InPath
<1>13. \A i \in Ids : ino[i].state = "none" /\ ino[i].count = 0 /\ Holders(i) = {}
    BY <1>11 DEF Init, NoInode, Holders, Has
<1>14. InodesOk
    BY <1>4, <1>11, <1>13 DEF InodesOk, WorkOk, LiveOk, RestOk, OneWorks, Works
<1>15. SyncOk
    BY <1>11 DEF Init, SyncOk
<1> QED BY <1>9, <1>10, <1>12, <1>14, <1>15 DEF IInv

(***************************************************************************)
(* Every step.                                                             *)
(***************************************************************************)
LEMMA StutterInv ==
    ASSUME IInv, UNCHANGED vars
    PROVE  IInv'
<1>1. InodesOk'
    BY InodesSame DEF vars
<1> QED BY <1>1 DEF vars, IInv, TreeTyped, RestTyped, TreeOk, CallsOk, PathOk, LookedUp, LaterOk,
                    Unmounting, SyncOk

\* Every call begins with the invariant.
LEMMA RequestInv ==
    ASSUME IInv, NEW t \in Threads, Request(t)
    PROVE  IInv'
<1>1. ASSUME NEW d \in Dirs, NEW n \in Names, BeginOpen(t, d, n) \/ BeginCreate(t, d, n)
                                              \/ BeginUnlink(t, d, n)
      PROVE  IInv'
    BY <1>1, NamedCalls
<1>2. ASSUME NEW d \in Dirs, NEW e \in Dirs, NEW n \in Names, NEW m \in Names,
             BeginLink(t, d, n, e, m) \/ BeginRename(t, d, n, e, m)
      PROVE  IInv'
    BY <1>2, NamedCalls
<1>3. ASSUME NEW d \in Dirs, BeginRead(t, d) PROVE IInv'
    BY <1>3, BeginReadInv
<1>4. ASSUME NEW i \in Ids, Reclaim(t, i) PROVE IInv'
    BY <1>4, ReclaimInv
<1>5. BeginSync(t) \/ BeginUmount(t) \/ FileWrite(t) \/ Extend(t) \/ FileFlush(t) => IInv'
    BY BeginSyncInv, BeginUmountInv, FileWriteInv, FileFlushInv
<1> QED BY <1>1, <1>2, <1>3, <1>4, <1>5 DEF Request

\* Every step of a call keeps it.
LEMMA StepInv ==
    ASSUME IInv, NEW t \in Threads, Step(t)
    PROVE  IInv'
<1>1. Lookup(t) \/ Mknod(t) \/ GetInode(t) \/ FillInode(t) \/ Leave(t) \/ Opened(t) => IInv'
    BY LookupInv, MknodInv, GetInodeInv, FillInodeInv, LeaveInv, OpenedInv
<1>2. Unlink(t) \/ LinkFound(t) \/ Link(t) \/ Rename(t) \/ DropTarget(t) => IInv'
    BY UnlinkInv, LinkFoundInv, LinkInv, RenameInv, DropTargetInv
<1>3. Put(t) \/ DeleteInode(t) \/ Unstitch(t) \/ Evicted(t) => IInv'
    BY PutInv, DeleteInodeInv, UnstitchInv, EvictedInv
<1>4. Readdir(t) \/ Filldir(t) \/ Advance(t) \/ EndSearch(t) \/ CloseDir(t) => IInv'
    BY ReaddirInv, FilldirInv, AdvanceInv, EndSearchInv, CloseDirInv
<1>5. Urgency(t) \/ SyncFs(t) \/ Synced(t) => IInv'
    BY UrgencyInv, SyncFsInv, SyncedInv
<1>6. EvictNext(t) \/ StopBackground(t) \/ KthreadStop(t) \/ PutSuper(t) => IInv'
    BY EvictNextInv, StopBackgroundInv, KthreadStopInv, PutSuperInv
<1> QED BY <1>1, <1>2, <1>3, <1>4, <1>5, <1>6 DEF Step

\* What is known of every state: of the tree and the lists (the names of
\* yaffs_guts.c), of the calls and the inodes, and of the marks of the super
\* block, through unlinks and renames that fail after yaffs_ChangeObjectName has
\* moved the object.
THEOREM Invariant == Spec => []IInv
<1>1. Init => IInv
    BY InitInv
<1>2. IInv /\ [Next]_vars => IInv'
    BY RequestInv, StepInv, BgRoundInv, BgExitInv, StutterInv DEF Next
<1> QED BY <1>1, <1>2, PTL DEF Spec

\* Every variable has its type; each directory lists what is in it, and an
\* inode is used by no more than the threads.
THEOREM Types == Spec => []TypeOK
<1>1. IInv => TypeOK
    <2> SUFFICES ASSUME IInv PROVE TypeOK
        OBVIOUS
    <2>1. ASSUME NEW i \in Ids PROVE ino[i].count \in 0 .. Cardinality(Threads)
        <3>1. LiveOk(i) /\ RestOk(i) /\ ino[i].count \in Nat
            BY InodeIs
        <3>2. Cardinality(Threads) \in Nat /\ Cardinality(Holders(i)) <= Cardinality(Threads)
            BY FS_Subset, FS_CardinalityType, VfsAssumption DEF Holders
        <3> QED BY <3>1, <3>2 DEF LiveOk, RestOk
    <2>2. ASSUME NEW i \in Ids
          PROVE  /\ obj[i].type \in {"free", "file", "link"}
                 /\ obj[i].dir \in Dirs \cup {Gone} /\ obj[i].name \in Names \cup {Gone}
                 /\ obj[i].target \in Ids \cup {NoId} /\ obj[i].inode \in BOOLEAN
                 /\ ino[i].state \in {"none", "new", "live", "freeing"} /\ ino[i].nlink \in Nat
        <3>1. obj[i] \in ObjectRecords /\ ino[i] \in InodeRecords
            BY InodeIs
        <3> QED BY <3>1 DEF ObjectRecords, InodeRecords
    <2>3. ASSUME NEW d \in Dirs
          PROVE  Listed(obj, d) = {kids[d][k] : k \in 1 .. Len(kids[d])} /\ ver[d] \in Nat
        <3>1. kids[d] \in Seq(Ids) /\ \A i \in Ids : obj[i].dir = d <=> In(kids[d], i)
            BY InvTyped DEF IInv, TreeOk, Lists
        <3>2. \A k \in 1 .. Len(kids[d]) : kids[d][k] \in Ids
            BY <3>1, ElementOfSeq
        <3> QED BY <3>1, <3>2, InvTyped DEF Listed, In
    <2>4. /\ lock \in Threads \cup {Bg, Free} /\ mutex \in [Dirs \cup Ids -> Threads \cup {Free}]
          /\ sb.cached \subseteq Ids /\ sb.dirt \in BOOLEAN /\ sb.checkpointed \in BOOLEAN
          /\ bg.pc \in {"rounds", "exited"} /\ mounted \in BOOLEAN /\ requests \in 0 .. MaxRequests
        BY InvTyped DEF Marks, Rounds
    <2> QED BY <2>1, <2>2, <2>3, <2>4 DEF TypeOK
<1> QED BY <1>1, Invariant, PTL

\* The inode a thread finds in the cache is that of the object with its number
\* (yaffs_get_inode against yaffs_FreeObject and yaffs_CreateNewObject), and its
\* link count is the number of names and of the calls of yaffs_unlink and
\* yaffs_rename that failed since it was counted, whatever links, unlinks and
\* renames of other threads came between.
THEOREM InodesOfObjects == Spec => []InodesMatch
<1>1. IInv => InodesMatch
    <2> SUFFICES ASSUME IInv, NEW i \in Ids
                 PROVE  /\ ino[i].state = "live" =>
                               /\ Exists(i) /\ obj[i].inode /\ ino[i].gen = obj[i].gen
                               /\ (\A t \in Threads : ~(th[t].pc = "drop" /\ th[t].id = i)) =>
                                      ino[i].nlink = LinkCount(i) + ino[i].off
                        /\ obj[i].inode => ino[i].state \in {"live", "freeing"}
        BY DEF InodesMatch
    <2>1. /\ LiveOk(i) /\ RestOk(i) /\ ino[i] \in InodeRecords /\ LC(obj, i) \in Nat
          /\ ino[i].off \in Nat
        BY InodeIs
    <2>2. LinkCount(i) = LC(obj, i)
        BY DEF LinkCount, LC
    <2>3. (\A t \in Threads : ~(th[t].pc = "drop" /\ th[t].id = i)) => Dropping(i) = 0
        BY DEF Dropping, Drops
    <2>4. ino[i].state \in {"none", "new", "live", "freeing"}
        BY <2>1 DEF InodeRecords
    <2> QED BY <2>1, <2>2, <2>3, <2>4 DEF LiveOk, RestOk, Exists
<1> QED BY <1>1, Invariant, PTL

\* What yaffs_lookup has found is there when yaffs_get_inode fills the inode,
\* what an inode points to is there when it is evicted, and a search of
\* yaffs_readdir stands at an object of its directory although the gross lock
\* was given up in between.
THEOREM NothingUsedIsFreed == Spec => []NothingFreedIsUsed
<1>1. IInv => NothingFreedIsUsed
    <2> SUFFICES ASSUME IInv PROVE NothingFreedIsUsed
        OBVIOUS
    <2>1. ASSUME NEW t \in Threads, th[t].pc \in {"iget", "fill"}
          PROVE  Exists(th[t].id) /\ obj[th[t].id].gen = th[t].gen
        <3>1. /\ th[t].id \in Ids /\ th[t].gen = obj[th[t].id].gen /\ th[t].dir \in Dirs
              /\ th[t].op = "rename" => th[t].dir2 \in Dirs
            BY <2>1 DEF IInv, CallsOk, PathOk, InPath
        <3>2. \E d \in Dirs : \E n : Denotes(obj, d, n, th[t].id)
            BY <2>1, <3>1, VfsAssumption DEF IInv, CallsOk, LookedUp
        <3>3. obj[th[t].id].type = "file"
            BY <3>2, InvTyped, FileOfIs DEF IInv, TreeOk, Denotes, IsAt
        <3> QED BY <3>1, <3>3 DEF Exists
    <2>2. ASSUME NEW t \in Threads, th[t].pc \in {"delete", "unstitch"}
          PROVE  Exists(th[t].id) /\ obj[th[t].id].gen = th[t].gen
        BY <2>2 DEF IInv, InodesOk, WorkOk, Exists
    <2>3. \A t \in Threads : rd[t].next # NoId => obj[rd[t].next].dir = rd[t].dir
        BY DEF IInv, TreeOk, Found
    <2> QED BY <2>1, <2>2, <2>3 DEF NothingFreedIsUsed
<1> QED BY <1>1, Invariant, PTL

\* When no call is going on every object has a name: those that were deleted
\* while an inode pointed to them are gone with it (yaffs_HandleDeferedFree).
\* Only what an unlink or a rename that failed has moved may be left: a hard
\* link in the unlinked directory, or a file whose link count stayed.
THEOREM NothingIsLeft == Spec => []NothingLeaks
<1>1. IInv => NothingLeaks
    <2> SUFFICES ASSUME IInv, \A t \in Threads : th[t].pc = "idle", NEW i \in Ids, Exists(i)
                 PROVE  obj[i].dir \in Dirs \/ obj[i].links # <<>> \/ obj[i].lost
        BY DEF NothingLeaks
    <2>1. /\ obj[i] \in ObjectRecords /\ LinkOk(obj, i) /\ FileOk(obj, i)
          /\ LiveOk(i) /\ RestOk(i) /\ ino[i] \in InodeRecords /\ LC(obj, i) \in Nat
          /\ ino[i].off \in Nat
        BY InodeIs DEF IInv, TreeOk, Objects
    <2>2. obj[i].type \in {"file", "link"}
        BY <2>1 DEF Exists, ObjectRecords
    <2>3. CASE obj[i].type = "file" /\ obj[i].inode
        <3>1. Holders(i) = {} /\ Dropping(i) = 0 /\ \A t \in Threads : ~Works(t, i)
            BY DEF Holders, Has, Dropping, Drops, Works
        <3>2. ino[i].state = "live"
            <4>1. ino[i].state \in {"none", "new", "live", "freeing"}
                BY <2>1 DEF InodeRecords
            <4>2. ino[i].state \in {"none", "new"} => ~obj[i].inode
                BY <2>1 DEF RestOk
            <4>3. ino[i].state = "freeing" => \E t \in Threads : Works(t, i)
                BY <2>1 DEF RestOk
            <4> QED BY <2>3, <3>1, <4>1, <4>2, <4>3
        <3>3. ino[i].count = 0
            BY <2>1, <3>1, <3>2, HoldersIs DEF LiveOk
        <3>4. LC(obj, i) > 0 \/ obj[i].lost
            BY <2>1, <3>1, <3>2, <3>3 DEF LiveOk
        <3>5. ASSUME obj[i].dir \notin Dirs, obj[i].links = <<>>, ~obj[i].lost PROVE FALSE
            <4>1. LC(obj, i) = 0 + Len(<<>>)
                BY <3>5 DEF LC
            <4> QED BY <3>4, <3>5, <4>1
        <3> QED BY <3>5
    <2>4. obj[i].dir \in Dirs \cup {Gone}
        BY <2>1 DEF ObjectRecords
    <2> QED BY <2>1, <2>2, <2>3, <2>4 DEF LinkOk, FileOk
<1> QED BY <1>1, Invariant, PTL

\* When a sync is done nothing that was written before it began is only in the
\* cache, with any number of threads that write and sync at the same time: what
\* marks the super block (yaffs_MarkSuperBlockDirty) and what looks at the mark
\* (yaffs_do_sync_fs) leave no gap.  The zeros of a hole are the exception, which
\* QuietHoles leaves out.
THEOREM SyncsSave == ASSUME QuietHoles PROVE Spec => []SyncSaves
<1>1. IInv => SyncSaves
    BY DEF IInv, SyncOk, SyncSaves
<1> QED BY <1>1, Invariant, PTL
=============================================================================
