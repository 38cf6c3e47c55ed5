------------------------ MODULE YaffsCheckpointProofs ------------------------
(***************************************************************************)
(* The checkpoint tells the truth, proved for every number of blocks,      *)
(* chunks, keys and pages of the stream, and for any number of requests,   *)
(* power failures and faults.                                              *)
(*                                                                         *)
(* The invariant says three things.  What is on the NAND (FlashOk): every  *)
(* page of a checkpoint that is there, of whatever stream, names the live  *)
(* chunks that are there now and no block as empty that holds data; a      *)
(* stream that is all there also names no block as empty that has been     *)
(* written.  What is left to be done (Ordered): a change of the NAND comes *)
(* after the invalidation, which erases the checkpoint block by block.     *)
(* What the device is (DeviceOk): its blocks are what the NAND says, and   *)
(* its counters what its blocks say, except for the blocks of a checkpoint *)
(* that is being written.                                                  *)
(*                                                                         *)
(* The theorems are about blocks that cannot be read any more once they    *)
(* could not be erased: a checkpoint block that keeps its pages through a  *)
(* failed erasure is retired and never erased again.                       *)
(***************************************************************************)
EXTENDS YaffsCheckpoint, SequenceTheorems, FiniteSetTheorems, WellFoundedInduction, TLAPS
(***************************************************************************)
(* What is on the NAND.                                                    *)
(***************************************************************************)
IsData(f, b, p) == f[b][p].kind = "data"
IsCk(f, b, p) == f[b][p].kind = "ck"
HasData(f, b) == \E p \in Pages : IsData(f, b, p)
HasCk(f, b) == \E p \in Pages : IsCk(f, b, p)
AllErased(f, b) == \A p \in Pages : f[b][p] = Erased

\* Page i of a stream is on the NAND, all of them are.
Present(f, i) == \E b \in Blocks, p \in Pages : IsCk(f, b, p) /\ f[b][p].n = i
Complete(f) == \A i \in Stream : Present(f, i)

PageOk(x) == /\ x.kind \in {"erased", "torn", "data", "ck"}
             /\ x.kind = "erased" => x = Erased
             /\ x.kind = "data" => x.time \in Nat /\ x.time <= clock
             /\ x.kind = "ck" => x.n \in Stream
Written(f) ==
    /\ DOMAIN f = Blocks
    /\ \A b \in Blocks : DOMAIN f[b] = Pages /\ \A p \in Pages : PageOk(f[b][p])

\* No two chunks were written at the same time, and a page of the stream is on
\* the NAND once.
TimesUnique(f) ==
    \A b, c \in Blocks, p, q \in Pages :
        IsData(f, b, p) /\ IsData(f, c, q) /\ f[b][p].time = f[c][q].time => b = c /\ p = q
PagesUnique(f) ==
    \A b, c \in Blocks, p, q \in Pages :
        IsCk(f, b, p) /\ IsCk(f, c, q) /\ f[b][p].n = f[c][q].n => b = c /\ p = q
NotMixed(f) == \A b \in Blocks : ~(HasData(f, b) /\ HasCk(f, b))

(***************************************************************************)
(* What the pages of a checkpoint say, whether all of them are there or    *)
(* not.                                                                    *)
(***************************************************************************)
Usable(state, used) ==
    NChunks * Cardinality({b \in Blocks : state[b] # "dead"}) - Cardinality(used)

\* The first page.
CountersSaved(f, d) ==
    /\ d.allocationBlock \in Blocks \cup {NoBlock} /\ d.allocationPage \in 0 .. NChunks
    /\ d.nErasedBlocks \in Int /\ d.nFreeChunks \in Int
    /\ d.allocationBlock # NoBlock =>
           /\ d.allocationPage \in 1 .. NChunks - 1 /\ HasData(f, d.allocationBlock)
           /\ \A p \in Pages : p > d.allocationPage => f[d.allocationBlock][p] = Erased

\* The second page.
BlocksSaved(f, s) ==
    /\ s.state \in [Blocks -> States] /\ s.used = Live(f)
    /\ \A b \in Blocks : /\ HasData(f, b) => s.state[b] \in {"allocating", "full"}
                         /\ HasCk(f, b) => s.state[b] \in {"empty", "checkpoint"}
\* ... once all pages are there.
BlocksFinal(f, s) ==
    \A b \in Blocks : /\ s.state[b] = "empty" => AllErased(f, b) \/ IsCheckpoint(f, b)
                      /\ s.state[b] = "checkpoint" => IsCheckpoint(f, b)
                      /\ b \in bad => s.state[b] = "dead"

\* The first and the second page are of the same device.
SameSaved(d, s) ==
    /\ d.nErasedBlocks = Cardinality({b \in Blocks : s.state[b] \in {"empty", "checkpoint"}})
    /\ d.nFreeChunks = Usable(s.state, s.used)
    /\ \A b \in Blocks : s.state[b] = "allocating" => b = d.allocationBlock
    /\ d.allocationBlock # NoBlock => s.state[d.allocationBlock] = "allocating"

Saved(f) ==
    \A b \in Blocks, p \in Pages :
        IsCk(f, b, p) =>
            /\ f[b][p].n = 1 => p = 1 /\ CountersSaved(f, f[b][p].holds)
            /\ f[b][p].n = 2 => /\ BlocksSaved(f, f[b][p].holds)
                                /\ Complete(f) => BlocksFinal(f, f[b][p].holds)
            /\ f[b][p].n >= 3 => f[b][p].holds.used = Live(f)
            /\ f[b][p].n = 1 => \A c \in Blocks, q \in Pages :
                  IsCk(f, c, q) /\ f[c][q].n = 2 => SameSaved(f[b][p].holds, f[c][q].holds)

FlashOk ==
    /\ Written(flash) /\ TimesUnique(flash) /\ PagesUnique(flash) /\ NotMixed(flash)
    /\ bad \subseteq Blocks /\ \A b \in bad, p \in Pages : flash[b][p] = Torn
    /\ Saved(flash)

(***************************************************************************)
(* What is to be done.                                                     *)
(***************************************************************************)
Put(a, w) == <<a>> \o w
Erasing == Task("erasecheckpoint", 0)
Paging == Task("page", 0)
Ends == {<<>>, Put(Task("unmount", 0), <<>>)}
Mounting == Put(Task("cleanup", 0), Put(Invalidate, <<>>))
Scans == {<<>>, Mounting}

\* What changes the NAND and follows an invalidation.
Changes ==
    {Put(Task("write", k), <<>>) : k \in Keys}
    \cup {Put(Task("erase", b), w) : b \in Blocks, w \in Scans}
    \cup {Put(Task("open", 0), w) : w \in Ends}
Pagings == {Put(Paging, w) : w \in Ends}
Tasks == [what : {"unmount", "write", "erase", "open", "page", "close", "invalidate",
                  "erasecheckpoint", "flush", "dirty", "cleanup", "bug"},
          x : Keys \cup Blocks \cup BOOLEAN \cup {0}]

\* What may come after task a.
Follows(a, w) ==
    /\ a.what \in {"unmount", "write", "bug"} => w = <<>>
    /\ a.what = "write" => a.x \in Keys
    /\ a.what \in {"dirty", "erase"} => a.x \in Blocks /\ w \in Scans
    /\ a.what \in {"open", "page", "close"} => w \in Ends
    /\ a.what = "close" => a.x \in BOOLEAN
    /\ a.what = "invalidate" => w \in Changes \cup {<<>>}
    /\ a.what = "erasecheckpoint" => w \in Changes \cup Pagings \cup {<<>>}
    /\ a.what = "flush" => \E e \in Ends : w = Put(Task("close", FALSE), e)
    /\ a.what = "cleanup" => w = Put(Invalidate, <<>>)
Ordered(w) == w \in Seq(Tasks) /\ (w # <<>> => Follows(Head(w), Tail(w)))

\* The scan is not finished.
CleaningIn(w) == \E i \in DOMAIN w : w[i].what = "cleanup"
CleaningUp == CleaningIn(work)

\* The block that is to be erased.
TargetsIn(w) == {w[i].x : i \in {j \in DOMAIN w : w[j].what \in {"dirty", "erase"}}}

(***************************************************************************)
(* The device while it is mounted.                                         *)
(***************************************************************************)
DeviceTyped ==
    /\ dev \in [state : [Blocks -> States], used : SUBSET (Blocks \X Pages),
                nErasedBlocks : Int, nFreeChunks : Int,
                allocationBlock : Blocks \cup {NoBlock}, allocationPage : 0 .. NChunks,
                blocksInCheckpoint : 0 .. NBlocks, isCheckpointed : BOOLEAN]
    /\ ck = [forWriting |-> ck.forWriting, buffer |-> ck.buffer, offset |-> ck.offset,
             currentBlock |-> ck.currentBlock, currentChunk |-> ck.currentChunk,
             nextBlock |-> ck.nextBlock, page |-> ck.page, sum |-> ck.sum]
    /\ ck.currentBlock \in Blocks \cup {NoBlock} /\ ck.currentChunk \in 0 .. NChunks
    /\ ck.nextBlock \in Int /\ ck.page \in 0 .. StreamPages

\* Its blocks are what the NAND says.
BlocksOk ==
    \A b \in Blocks :
        /\ HasData(flash, b) => dev.state[b] \in {"allocating", "full"}
        /\ HasCk(flash, b) => dev.state[b] = "checkpoint" \/ (CleaningUp /\ dev.state[b] = "full")
        /\ IsCheckpoint(flash, b) => dev.state[b] = "checkpoint"
        /\ dev.state[b] = "empty" => AllErased(flash, b)
        /\ b \in bad => dev.state[b] = "dead"

AllocationOk ==
    /\ \A b \in Blocks : dev.state[b] = "allocating" => b = dev.allocationBlock
    /\ dev.allocationBlock # NoBlock =>
           /\ dev.state[dev.allocationBlock] = "allocating"
           /\ HasData(flash, dev.allocationBlock)
           /\ ~CleaningUp =>
                  /\ dev.allocationPage \in 1 .. NChunks - 1
                  /\ \A p \in Pages : p > dev.allocationPage => flash[dev.allocationBlock][p] = Erased

\* The blocks of the checkpoint that have been taken but not been subtracted.
Streaming == Doing("page") \/ Doing("close")
Checkpoints == Cardinality(InState(dev, "checkpoint"))
CountersOk ==
    /\ dev.nErasedBlocks = Cardinality(InState(dev, "empty")) + (IF Streaming THEN Checkpoints ELSE 0)
    /\ dev.nFreeChunks = Usable(dev.state, dev.used) - (IF Streaming THEN 0 ELSE NChunks * Checkpoints)
    /\ ~Doing("erasecheckpoint") => dev.blocksInCheckpoint = Checkpoints

WorkOk ==
    /\ Ordered(work)
    /\ \A b \in TargetsIn(work) : b \in Blocks /\ dev.state[b] = "full" /\ PagesOf(dev.used, b) = {}
    /\ (\E w \in {"write", "erase", "open", "flush", "bug"} : Doing(w)) => InState(dev, "checkpoint") = {}

\* All blocks of the checkpoint have their first page.
AllBegun == \A b \in Blocks : dev.state[b] = "checkpoint" => IsCheckpoint(flash, b)

\* While the stream is written.
PagesOk ==
    /\ ck.page < StreamPages
    /\ ck.currentBlock # NoBlock => /\ ck.page >= 1 /\ ck.currentChunk \in 1 .. NChunks - 1
                                    /\ dev.state[ck.currentBlock] = "checkpoint"
    /\ \A b \in Blocks, p \in Pages :
           IsCk(flash, b, p) =>
               /\ flash[b][p].n <= ck.page
               /\ flash[b][p].n = 1 => flash[b][p].holds = SavedCounters
               /\ flash[b][p].n = 2 =>
                      \A c \in Blocks : LET was == flash[b][p].holds.state[c]
                                        IN \/ was = dev.state[c]
                                           \/ was = "empty" /\ dev.state[c] = "checkpoint"
    /\ (\A i \in 1 .. ck.page : Present(flash, i)) => AllBegun

StreamOk ==
    /\ Doing("page") => PagesOk
    /\ ~Doing("page") /\ Complete(flash) => AllBegun
    /\ Doing("erasecheckpoint") /\ Tail(work) \in Pagings => ck.page = 0 /\ ck.currentBlock = NoBlock

DeviceOk ==
    /\ DeviceTyped /\ dev.used = Live(flash)
    /\ BlocksOk /\ AllocationOk /\ CountersOk /\ WorkOk /\ StreamOk

Bounded == /\ requests \in 0 .. MaxRequests /\ crashes \in 0 .. MaxCrashes
           /\ faults \in 0 .. MaxFaults /\ clock \in Nat /\ mounted \in BOOLEAN

IInv == FlashOk /\ Bounded /\ IF mounted THEN DeviceOk ELSE dev = NoDevice /\ ck = NoStream /\ work = <<>>

(***************************************************************************)
(* The smallest of a set, and lists of tasks.                              *)
(***************************************************************************)
\* A set of numbers has a smallest one.
LEMMA SmallestIs ==
    ASSUME NEW S, S \subseteq Nat, S # {}
    PROVE  \E m \in S : \A k \in S : m <= k
<1> DEFINE R == {ss \in Nat \X Nat : ss[1] < ss[2]}
<1>1. IsWellFoundedOn(R, Nat)
    BY NatLessThanWellFounded DEF OpToRel
<1>2. PICK m \in S : \A k \in S : ~(<<k, m>> \in R)
    <2> HIDE DEF R
    <2> QED BY <1>1, WFMin
<1>3. \A k \in S : ~(k < m)
    <2> TAKE k \in S
    <2>1. <<k, m>> \in Nat \X Nat /\ <<k, m>>[1] = k /\ <<k, m>>[2] = m
        OBVIOUS
    <2> QED BY <1>2, <2>1
<1>4. m \in Nat /\ \A k \in S : k \in Nat
    OBVIOUS
<1> QED BY <1>3, <1>4

\* What Lowest returns.
LEMMA LowestIs ==
    ASSUME NEW S, S \subseteq Nat
    PROVE  /\ S = {} => Lowest(S) = NoBlock
           /\ S # {} => Lowest(S) \in S /\ Lowest(S) # NoBlock /\ \A c \in S : Lowest(S) <= c
<1>1. CASE S = {}
    BY <1>1 DEF Lowest
<1>2. CASE S # {}
    <2>1. \E m \in S : \A c \in S : m <= c
        BY <1>2, SmallestIs
    <2>2. Lowest(S) \in S /\ \A c \in S : Lowest(S) <= c
        BY <1>2, <2>1 DEF Lowest
    <2>3. Lowest(S) # -1
        BY <2>2
    <2> QED BY <1>2, <2>2, <2>3 DEF NoBlock
<1> QED BY <1>1, <1>2

\* The first of a list, and the rest.
LEMMA PutTask ==
    ASSUME NEW a \in Tasks, NEW w \in Seq(Tasks)
    PROVE  /\ Put(a, w) \in Seq(Tasks) /\ Put(a, w) # <<>>
           /\ Head(Put(a, w)) = a /\ Tail(Put(a, w)) = w
           /\ Len(Put(a, w)) = 1 + Len(w)
           /\ \A i \in 1 .. 1 + Len(w) : Put(a, w)[i] = IF i = 1 THEN a ELSE w[i - 1]
<1>1. <<a>> \in Seq(Tasks) /\ Len(<<a>>) = 1 /\ <<a>>[1] = a
    OBVIOUS
<1>2. /\ <<a>> \o w \in Seq(Tasks) /\ Len(<<a>> \o w) = 1 + Len(w)
      /\ \A i \in 1 .. 1 + Len(w) : (<<a>> \o w)[i] = IF i <= 1 THEN <<a>>[i] ELSE w[i - 1]
    BY <1>1, ConcatProperties
<1>3. Head(<<a>> \o w) = a /\ Tail(<<a>> \o w) = w /\ <<a>> \o w # <<>>
    BY <1>1, <1>2, HeadTailProperties, SeqEqual, EmptySeq
<1> QED BY <1>1, <1>2, <1>3 DEF Put

\* What an action does to the list of tasks.
LEMMA ListsAre ==
    ASSUME NEW a \in Tasks, NEW b \in Tasks, NEW w \in Seq(Tasks)
    PROVE  /\ <<>> \o w = w /\ <<a>> \o w = Put(a, w)
           /\ <<a, b>> \o w = Put(a, Put(b, w))
           /\ <<a>> = Put(a, <<>>) /\ <<a, b>> = Put(a, Put(b, <<>>))
<1>1. <<a>> \in Seq(Tasks) /\ <<b>> \in Seq(Tasks) /\ <<>> \in Seq(Tasks)
    OBVIOUS
<1>2. <<a>> \o <<b>> = <<a, b>>
    <2>1. /\ <<a>> \o <<b>> \in Seq(Tasks) /\ Len(<<a>> \o <<b>>) = 2
          /\ \A i \in 1 .. 2 : (<<a>> \o <<b>>)[i] = IF i <= 1 THEN <<a>>[i] ELSE <<b>>[i - 1]
        <3>1. Len(<<a>>) = 1 /\ Len(<<b>>) = 1
            OBVIOUS
        <3> QED BY <1>1, <3>1, ConcatProperties
    <2>2. <<a, b>> \in Seq(Tasks) /\ Len(<<a, b>>) = 2
        OBVIOUS
    <2>3. \A i \in 1 .. 2 : (<<a>> \o <<b>>)[i] = <<a, b>>[i]
        BY <2>1
    <2> QED BY <2>1, <2>2, <2>3, SeqEqual
<1>3. (<<a>> \o <<b>>) \o w = <<a>> \o (<<b>> \o w)
    BY <1>1, ConcatAssociative
<1>4. <<>> \o w = w /\ <<a>> \o <<>> = <<a>> /\ <<b>> \o <<>> = <<b>>
    BY <1>1, ConcatEmptySeq
<1> QED BY <1>1, <1>2, <1>3, <1>4 DEF Put

\* A clean up to be done, and a block to be erased, are in one place of the list.
LEMMA TasksIn ==
    ASSUME NEW a \in Tasks, NEW w \in Seq(Tasks)
    PROVE  /\ CleaningIn(Put(a, w)) <=> a.what = "cleanup" \/ CleaningIn(w)
           /\ a.what \in {"dirty", "erase"} => TargetsIn(Put(a, w)) = TargetsIn(w) \cup {a.x}
           /\ a.what \notin {"dirty", "erase"} => TargetsIn(Put(a, w)) = TargetsIn(w)
<1> DEFINE u == Put(a, w)
<1>1. /\ u \in Seq(Tasks) /\ Len(u) = 1 + Len(w)
      /\ \A i \in 1 .. 1 + Len(w) : u[i] = IF i = 1 THEN a ELSE w[i - 1]
    BY PutTask
<1>2. Len(w) \in Nat /\ DOMAIN w = 1 .. Len(w) /\ DOMAIN u = 1 .. 1 + Len(w)
    BY <1>1, LenProperties
<1> HIDE DEF u
<1>3. u[1] = a /\ 1 \in DOMAIN u
    BY <1>1, <1>2
<1>4. \A i \in DOMAIN w : i + 1 \in DOMAIN u /\ u[i + 1] = w[i]
    BY <1>1, <1>2
<1>5. \A i \in DOMAIN u : i = 1 \/ (i - 1 \in DOMAIN w /\ u[i] = w[i - 1])
    BY <1>1, <1>2
<1>6. CleaningIn(u) <=> a.what = "cleanup" \/ CleaningIn(w)
    BY <1>3, <1>4, <1>5 DEF CleaningIn
<1>7. \A x : x \in TargetsIn(u) <=> \E i \in DOMAIN u : u[i].what \in {"dirty", "erase"} /\ x = u[i].x
    BY DEF TargetsIn
<1>8. \A x : x \in TargetsIn(w) <=> \E i \in DOMAIN w : w[i].what \in {"dirty", "erase"} /\ x = w[i].x
    BY DEF TargetsIn
<1>9. \A x : x \in TargetsIn(u) <=> x \in TargetsIn(w) \/ (a.what \in {"dirty", "erase"} /\ x = a.x)
    <2> TAKE x
    <2>1. ASSUME x \in TargetsIn(u) PROVE x \in TargetsIn(w) \/ (a.what \in {"dirty", "erase"} /\ x = a.x)
        BY <1>3, <1>5, <1>7, <1>8, <2>1
    <2>2. ASSUME x \in TargetsIn(w) PROVE x \in TargetsIn(u)
        BY <1>4, <1>7, <1>8, <2>2
    <2>3. ASSUME a.what \in {"dirty", "erase"}, x = a.x PROVE x \in TargetsIn(u)
        BY <1>3, <1>7, <2>3
    <2> QED BY <2>1, <2>2, <2>3
<1>10. /\ a.what \in {"dirty", "erase"} => TargetsIn(u) = TargetsIn(w) \cup {a.x}
       /\ a.what \notin {"dirty", "erase"} => TargetsIn(u) = TargetsIn(w)
    BY <1>9
<1> QED BY <1>6, <1>10 DEF u

\* There is nothing in an empty list.
LEMMA NoTasks == ~CleaningIn(<<>>) /\ TargetsIn(<<>>) = {}
BY DEF CleaningIn, TargetsIn

\* A list that is not empty is its head and its tail.
LEMMA WorkIs ==
    ASSUME NEW w \in Seq(Tasks), w # <<>>
    PROVE  w = Put(Head(w), Tail(w)) /\ Head(w) \in Tasks /\ Tail(w) \in Seq(Tasks)
<1>1. /\ Head(w) \in Tasks /\ Tail(w) \in Seq(Tasks) /\ Len(Tail(w)) = Len(w) - 1
      /\ \A i \in 1 .. Len(Tail(w)) : Tail(w)[i] = w[i + 1]
    BY HeadTailProperties
<1>2. Head(w) = w[1] /\ Len(w) \in Nat
    BY LenProperties
<1>3. /\ Put(Head(w), Tail(w)) \in Seq(Tasks) /\ Len(Put(Head(w), Tail(w))) = 1 + Len(Tail(w))
      /\ \A i \in 1 .. 1 + Len(Tail(w)) :
             Put(Head(w), Tail(w))[i] = IF i = 1 THEN Head(w) ELSE Tail(w)[i - 1]
    BY <1>1, PutTask
<1>4. \A i \in 1 .. Len(w) : Put(Head(w), Tail(w))[i] = w[i]
    <2> TAKE i \in 1 .. Len(w)
    <2>1. CASE i = 1
        BY <1>1, <1>2, <1>3, <2>1
    <2>2. CASE i # 1
        <3>1. i - 1 \in 1 .. Len(Tail(w)) /\ i \in 1 .. 1 + Len(Tail(w)) /\ (i - 1) + 1 = i
            BY <1>1, <1>2, <2>2
        <3> QED BY <1>1, <1>3, <2>2, <3>1
    <2> QED BY <2>1, <2>2
<1> QED BY <1>1, <1>2, <1>3, <1>4, SeqEqual

\* The tasks are what they are.
LEMMA TaskIs ==
    /\ \A x, what : Task(what, x).what = what /\ Task(what, x).x = x
    /\ Invalidate \in Tasks /\ Erasing \in Tasks /\ Paging \in Tasks
    /\ Task("unmount", 0) \in Tasks /\ Task("open", 0) \in Tasks /\ Task("cleanup", 0) \in Tasks
    /\ Task("flush", 0) \in Tasks /\ Task("bug", 0) \in Tasks
    /\ \A k \in Keys : Task("write", k) \in Tasks
    /\ \A b \in Blocks : Task("erase", b) \in Tasks /\ Task("dirty", b) \in Tasks
    /\ \A x \in BOOLEAN : Task("close", x) \in Tasks
    /\ <<>> \in Seq(Tasks)
<1>1. \A x, what : Task(what, x).what = what /\ Task(what, x).x = x
    BY DEF Task
<1>2. <<>> \in Seq(Tasks)
    OBVIOUS
<1> QED BY <1>1, <1>2 DEF Task, Tasks, Invalidate, Erasing, Paging

\* A task in front of what may follow it.
LEMMA PutOrdered ==
    ASSUME NEW a \in Tasks, NEW w \in Seq(Tasks), Follows(a, w)
    PROVE  Ordered(Put(a, w))
BY PutTask DEF Ordered

\* What is left when a request ends.
LEMMA EndOrdered ==
    ASSUME NEW w \in Ends
    PROVE  /\ w \in Seq(Tasks) /\ Ordered(w) /\ ~CleaningIn(w) /\ TargetsIn(w) = {}
           /\ w # <<>> => Head(w).what = "unmount"
<1>1. CASE w = <<>>
    BY <1>1, TaskIs, TasksIn, NoTasks DEF Ordered
<1>2. CASE w = Put(Task("unmount", 0), <<>>)
    <2>1. Follows(Task("unmount", 0), <<>>)
        BY DEF Follows, Task
    <2>2. Ordered(w) /\ w \in Seq(Tasks) /\ Head(w) = Task("unmount", 0)
        BY <1>2, <2>1, TaskIs, PutOrdered, PutTask
    <2>3. Task("unmount", 0) \in Tasks /\ <<>> \in Seq(Tasks) /\ Task("unmount", 0).what = "unmount"
        BY TaskIs
    <2>4. ~CleaningIn(w) /\ TargetsIn(w) = {}
        BY <1>2, <2>3, TasksIn, NoTasks
    <2> QED BY <2>2, <2>3, <2>4
<1> QED BY <1>1, <1>2 DEF Ends

\* What is left when a block has been erased.
LEMMA ScanOrdered ==
    ASSUME NEW w \in Scans
    PROVE  /\ w \in Seq(Tasks) /\ Ordered(w) /\ TargetsIn(w) = {}
           /\ w # <<>> => Head(w).what = "cleanup" /\ Tail(w) = Put(Invalidate, <<>>)
           /\ CleaningIn(w) <=> w # <<>>
<1>1. CASE w = <<>>
    BY <1>1, TaskIs, TasksIn, NoTasks DEF Ordered
<1>2. CASE w = Mounting
    <2> DEFINE i == Put(Invalidate, <<>>)
    <2>1. i \in Seq(Tasks) /\ ~CleaningIn(i) /\ TargetsIn(i) = {}
        <3>1. Invalidate \in Tasks /\ <<>> \in Seq(Tasks)
            BY TaskIs
        <3>2. Invalidate.what = "invalidate"
            BY DEF Invalidate, Task
        <3> QED BY <3>1, <3>2, TasksIn, NoTasks, PutTask
    <2>2. Follows(Task("cleanup", 0), i)
        BY DEF Follows, Task
    <2> HIDE DEF i
    <2>3. w = Put(Task("cleanup", 0), i)
        BY <1>2 DEF Mounting, i
    <2>4. Ordered(w) /\ w \in Seq(Tasks) /\ Head(w) = Task("cleanup", 0) /\ Tail(w) = i /\ w # <<>>
        BY <2>1, <2>2, <2>3, TaskIs, PutOrdered, PutTask
    <2>5. CleaningIn(w) /\ TargetsIn(w) = {}
        BY <2>1, <2>3, TaskIs, TasksIn, NoTasks
    <2> QED BY <2>4, <2>5, TaskIs DEF i
<1> QED BY <1>1, <1>2 DEF Scans

\* What follows an invalidation.
LEMMA ChangeOrdered ==
    ASSUME NEW w \in Changes
    PROVE  /\ w \in Seq(Tasks) /\ Ordered(w) /\ w # <<>>
           /\ Head(w).what \in {"write", "erase", "open"}
<1>1. ASSUME NEW k \in Keys, w = Put(Task("write", k), <<>>)
      PROVE  w \in Seq(Tasks) /\ Ordered(w) /\ w # <<>> /\ Head(w) = Task("write", k)
    <2>1. Follows(Task("write", k), <<>>)
        BY DEF Follows, Task
    <2> QED BY <1>1, <2>1, TaskIs, PutOrdered, PutTask
<1>2. ASSUME NEW b \in Blocks, NEW e \in Scans, w = Put(Task("erase", b), e)
      PROVE  w \in Seq(Tasks) /\ Ordered(w) /\ w # <<>> /\ Head(w) = Task("erase", b)
    <2>1. Follows(Task("erase", b), e)
        BY DEF Follows, Task
    <2> QED BY <1>2, <2>1, TaskIs, PutOrdered, PutTask, ScanOrdered
<1>3. ASSUME NEW e \in Ends, w = Put(Task("open", 0), e)
      PROVE  w \in Seq(Tasks) /\ Ordered(w) /\ w # <<>> /\ Head(w) = Task("open", 0)
    <2>1. Follows(Task("open", 0), e)
        BY DEF Follows, Task
    <2> QED BY <1>3, <2>1, TaskIs, PutOrdered, PutTask, EndOrdered
<1> QED BY <1>1, <1>2, <1>3, TaskIs DEF Changes

\* The pages that are left.
LEMMA PagingOrdered ==
    ASSUME NEW e \in Ends
    PROVE  /\ Put(Paging, e) \in Seq(Tasks) /\ Ordered(Put(Paging, e)) /\ Put(Paging, e) # <<>>
           /\ Head(Put(Paging, e)).what = "page" /\ Tail(Put(Paging, e)) = e
           /\ ~CleaningIn(Put(Paging, e)) /\ TargetsIn(Put(Paging, e)) = {}
<1>1. Follows(Paging, e)
    BY DEF Follows, Task, Paging
<1>2. e \in Seq(Tasks) /\ ~CleaningIn(e) /\ TargetsIn(e) = {} /\ Paging \in Tasks
    BY EndOrdered, TaskIs
<1>3. Paging.what = "page"
    BY DEF Paging, Task
<1>4. ~CleaningIn(Put(Paging, e)) /\ TargetsIn(Put(Paging, e)) = {}
    BY <1>2, <1>3, TasksIn, NoTasks
<1> QED BY <1>1, <1>2, <1>3, <1>4, PutOrdered, PutTask

(***************************************************************************)
(* What is on the NAND, and what is left of it.                            *)
(***************************************************************************)
\* A page is of one kind.
LEMMA KindsAre ==
    /\ Erased.kind = "erased" /\ Torn.kind = "torn"
    /\ \A k, t : Data(k, t).kind = "data" /\ Data(k, t).key = k /\ Data(k, t).time = t
BY DEF Erased, Torn, Data

\* The live chunks, page by page.
LEMMA LiveIs ==
    ASSUME NEW f
    PROVE  /\ Live(f) \subseteq Blocks \X Pages
           /\ \A b \in Blocks, p \in Pages :
                 <<b, p>> \in Live(f) <=>
                     /\ IsData(f, b, p)
                     /\ \A c \in Blocks, q \in Pages :
                           IsData(f, c, q) /\ f[c][q].key = f[b][p].key => f[c][q].time <= f[b][p].time
<1>1. DataPages(f) \subseteq Blocks \X Pages
    BY DEF DataPages
<1>2. ASSUME NEW b \in Blocks, NEW p \in Pages
      PROVE  <<b, p>> \in DataPages(f) <=> IsData(f, b, p)
    <2>1. <<b, p>> \in Blocks \X Pages /\ <<b, p>>[1] = b /\ <<b, p>>[2] = p
        OBVIOUS
    <2> QED BY <2>1 DEF DataPages, IsData
<1>3. \A b \in Blocks, p \in Pages : Time(f, <<b, p>>) = f[b][p].time /\ <<b, p>>[1] = b /\ <<b, p>>[2] = p
    BY DEF Time
<1>4. \A y \in Blocks \X Pages : \E c \in Blocks, q \in Pages : y = <<c, q>>
    OBVIOUS
<1>5. ASSUME NEW b \in Blocks, NEW p \in Pages
      PROVE  <<b, p>> \in Live(f) <=>
                     /\ IsData(f, b, p)
                     /\ \A c \in Blocks, q \in Pages :
                           IsData(f, c, q) /\ f[c][q].key = f[b][p].key => f[c][q].time <= f[b][p].time
    <2>1. <<b, p>> \in Live(f) <=>
             /\ <<b, p>> \in DataPages(f)
             /\ \A y \in DataPages(f) : f[y[1]][y[2]].key = f[b][p].key => Time(f, y) <= Time(f, <<b, p>>)
        BY <1>3 DEF Live
    <2>2. ASSUME \A y \in DataPages(f) : f[y[1]][y[2]].key = f[b][p].key => Time(f, y) <= Time(f, <<b, p>>),
                 NEW c \in Blocks, NEW q \in Pages, IsData(f, c, q), f[c][q].key = f[b][p].key
          PROVE  f[c][q].time <= f[b][p].time
        <3>1. <<c, q>> \in DataPages(f)
            BY <1>2, <2>2
        <3>2. <<c, q>>[1] = c /\ <<c, q>>[2] = q
            OBVIOUS
        <3> QED BY <1>3, <2>2, <3>1, <3>2
    <2>3. ASSUME \A c \in Blocks, q \in Pages :
                     IsData(f, c, q) /\ f[c][q].key = f[b][p].key => f[c][q].time <= f[b][p].time,
                 NEW y \in DataPages(f), f[y[1]][y[2]].key = f[b][p].key
          PROVE  Time(f, y) <= Time(f, <<b, p>>)
        <3>1. PICK c \in Blocks, q \in Pages : y = <<c, q>>
            BY <1>1, <1>4
        <3>2. IsData(f, c, q) /\ y[1] = c /\ y[2] = q /\ Time(f, y) = f[c][q].time
            BY <1>2, <1>3, <3>1
        <3> QED BY <1>3, <2>3, <3>2
    <2> QED BY <1>2, <2>1, <2>2, <2>3
<1>6. Live(f) \subseteq Blocks \X Pages
    BY <1>1 DEF Live
<1> QED BY <1>5, <1>6

\* A chunk is live, or a newer one of its object is.
LEMMA SomeIsLive ==
    ASSUME NEW f, Written(f), clock \in Nat, NEW b \in Blocks, NEW p \in Pages, IsData(f, b, p)
    PROVE  \E c \in Blocks, q \in Pages : /\ <<c, q>> \in Live(f) /\ f[c][q].key = f[b][p].key
                                          /\ f[b][p].time <= f[c][q].time
<1> DEFINE Same(c, q) == IsData(f, c, q) /\ f[c][q].key = f[b][p].key
           S == {t \in Nat : \E c \in Blocks, q \in Pages : Same(c, q) /\ f[c][q].time + t = clock}
<1>1. \A c \in Blocks, q \in Pages : IsData(f, c, q) => f[c][q].time \in Nat /\ f[c][q].time <= clock
    BY DEF Written, PageOk, IsData
<1>2. ASSUME NEW c \in Blocks, NEW q \in Pages, Same(c, q)
      PROVE  clock - f[c][q].time \in S
    BY <1>1, <1>2
<1>3. S \subseteq Nat /\ S # {}
    BY <1>2
<1>4. PICK t \in S : \A u \in S : t <= u
    <2> HIDE DEF S
    <2> QED BY <1>3, SmallestIs
<1>5. PICK c \in Blocks, q \in Pages : Same(c, q) /\ f[c][q].time + t = clock
    BY <1>4
<1>6. ASSUME NEW d \in Blocks, NEW r \in Pages, Same(d, r)
      PROVE  f[d][r].time <= f[c][q].time
    <2>1. clock - f[d][r].time \in S
        BY <1>2, <1>6
    <2>2. t <= clock - f[d][r].time
        BY <1>4, <2>1
    <2>3. f[d][r].time \in Nat /\ f[c][q].time \in Nat /\ t \in Nat
        BY <1>1, <1>5, <1>6, <1>4
    <2> QED BY <1>5, <2>2, <2>3
<1>7. <<c, q>> \in Live(f)
    BY <1>5, <1>6, LiveIs
<1>8. f[b][p].time <= f[c][q].time
    BY <1>6
<1> QED BY <1>5, <1>7, <1>8

\* Pages have been erased or spoilt, none of them a live chunk.
Lessened(f, g) ==
    /\ DOMAIN g = Blocks /\ \A b \in Blocks : DOMAIN g[b] = Pages
    /\ \A b \in Blocks, p \in Pages :
           g[b][p] = f[b][p] \/ (g[b][p] \in {Erased, Torn} /\ <<b, p>> \notin Live(f))

\* Nothing is lost with them.
LEMMA LessenedLive ==
    ASSUME NEW f, NEW g, Written(f), clock \in Nat, Lessened(f, g)
    PROVE  Live(g) = Live(f)
<1>1. \A b \in Blocks, p \in Pages : IsData(g, b, p) => g[b][p] = f[b][p] /\ IsData(f, b, p)
    BY KindsAre DEF Lessened, IsData
<1>2. \A b \in Blocks, p \in Pages : <<b, p>> \in Live(f) => g[b][p] = f[b][p] /\ IsData(g, b, p)
    BY LiveIs DEF Lessened, IsData
<1>3. \A b \in Blocks, p \in Pages : IsData(f, b, p) => f[b][p].time \in Nat
    BY DEF Written, PageOk, IsData
<1>4. ASSUME NEW b \in Blocks, NEW p \in Pages, <<b, p>> \in Live(f)
      PROVE  <<b, p>> \in Live(g)
    BY <1>1, <1>2, <1>4, LiveIs
<1>5. ASSUME NEW b \in Blocks, NEW p \in Pages, <<b, p>> \in Live(g)
      PROVE  <<b, p>> \in Live(f)
    <2>1. IsData(g, b, p) /\ IsData(f, b, p) /\ g[b][p] = f[b][p]
        BY <1>1, <1>5, LiveIs
    <2>2. ASSUME NEW c \in Blocks, NEW q \in Pages, IsData(f, c, q), f[c][q].key = f[b][p].key
          PROVE  f[c][q].time <= f[b][p].time
        <3>1. PICK d \in Blocks, r \in Pages : /\ <<d, r>> \in Live(f) /\ f[d][r].key = f[c][q].key
                                               /\ f[c][q].time <= f[d][r].time
            BY <2>2, SomeIsLive
        <3>2. IsData(g, d, r) /\ g[d][r] = f[d][r] /\ IsData(f, d, r)
            BY <1>1, <1>2, <3>1
        <3>3. \A e \in Blocks, u \in Pages :
                  IsData(g, e, u) /\ g[e][u].key = g[b][p].key => g[e][u].time <= g[b][p].time
            BY <1>5, LiveIs
        <3>4. g[d][r].key = g[b][p].key
            BY <2>1, <2>2, <3>1, <3>2
        <3>5. g[d][r].time <= g[b][p].time
            BY <3>2, <3>3, <3>4
        <3> QED BY <1>3, <2>1, <2>2, <3>1, <3>2, <3>5
    <2> QED BY <2>1, <2>2, LiveIs
<1>6. \A x \in Blocks \X Pages : \E b \in Blocks, p \in Pages : x = <<b, p>>
    OBVIOUS
<1>7. Live(f) \subseteq Blocks \X Pages /\ Live(g) \subseteq Blocks \X Pages
    BY LiveIs
<1>8. \A x \in Blocks \X Pages : x \in Live(f) <=> x \in Live(g)
    BY <1>4, <1>5, <1>6
<1> QED BY <1>7, <1>8

\* What is left of the pages of a checkpoint is what was there.
LEMMA LessenedKeeps ==
    ASSUME FlashOk, clock \in Nat, Lessened(flash, flash'), clock' = clock,
           bad' \subseteq Blocks, \A b \in bad', p \in Pages : flash'[b][p] = Torn,
           ~Complete(flash'),
           \A b \in Blocks, p \in Pages :
               IsCk(flash, b, p) /\ flash[b][p].n = 1 =>
                   LET c == flash[b][p].holds.allocationBlock
                   IN c \in Blocks => \A q \in Pages : flash'[c][q] = flash[c][q]
    PROVE  FlashOk' /\ Live(flash') = Live(flash)
<1>1. \A b \in Blocks, p \in Pages : IsData(flash', b, p) => flash'[b][p] = flash[b][p] /\ IsData(flash, b, p)
    BY KindsAre DEF Lessened, IsData
<1>2. \A b \in Blocks, p \in Pages : IsCk(flash', b, p) => flash'[b][p] = flash[b][p] /\ IsCk(flash, b, p)
    BY KindsAre DEF Lessened, IsCk
<1>3. Live(flash') = Live(flash)
    BY LessenedLive DEF FlashOk
<1>4. Written(flash)'
    <2>1. ASSUME NEW b \in Blocks, NEW p \in Pages PROVE PageOk(flash[b][p])'
        <3>1. PageOk(flash[b][p])
            BY DEF FlashOk, Written
        <3>2. CASE flash'[b][p] = flash[b][p]
            BY <3>1, <3>2 DEF PageOk
        <3>3. CASE flash'[b][p] \in {Erased, Torn}
            BY <3>3, KindsAre DEF PageOk
        <3> QED BY <3>2, <3>3 DEF Lessened
    <2> QED BY <2>1 DEF Written, Lessened
<1>5. TimesUnique(flash')
    BY <1>1 DEF FlashOk, TimesUnique
<1>6. PagesUnique(flash')
    BY <1>2 DEF FlashOk, PagesUnique
<1>7. \A b \in Blocks : (HasData(flash', b) => HasData(flash, b)) /\ (HasCk(flash', b) => HasCk(flash, b))
    BY <1>1, <1>2 DEF HasData, HasCk
<1>8. NotMixed(flash')
    BY <1>7 DEF FlashOk, NotMixed
<1>9. Saved(flash)'
    <2> SUFFICES ASSUME NEW b \in Blocks, NEW p \in Pages, IsCk(flash', b, p)
                 PROVE  LET x == flash'[b][p]
                        IN /\ x.n = 1 => p = 1 /\ CountersSaved(flash', x.holds)
                           /\ x.n = 2 => BlocksSaved(flash', x.holds)
                           /\ x.n >= 3 => x.holds.used = Live(flash')
                           /\ x.n = 1 => \A c \in Blocks, q \in Pages :
                                 IsCk(flash', c, q) /\ flash'[c][q].n = 2
                                     => SameSaved(x.holds, flash'[c][q].holds)
        BY DEF Saved
    <2> DEFINE x == flash[b][p]
    <2>1. flash'[b][p] = x /\ IsCk(flash, b, p)
        BY <1>2
    <2>2. /\ x.n = 1 => p = 1 /\ CountersSaved(flash, x.holds)
          /\ x.n = 2 => BlocksSaved(flash, x.holds)
          /\ x.n >= 3 => x.holds.used = Live(flash)
          /\ x.n = 1 => \A c \in Blocks, q \in Pages :
                IsCk(flash, c, q) /\ flash[c][q].n = 2 => SameSaved(x.holds, flash[c][q].holds)
        BY <2>1 DEF FlashOk, Saved
    <2>3. ASSUME x.n = 1 PROVE CountersSaved(flash', x.holds)
        <3>1. CountersSaved(flash, x.holds)
            BY <2>2, <2>3
        <3>2. PICK d : d = x.holds
            OBVIOUS
        <3>3. d.allocationBlock \in Blocks => \A q \in Pages : flash'[d.allocationBlock][q] = flash[d.allocationBlock][q]
            BY <2>1, <2>3, <3>2
        <3> HIDE DEF x
        <3>4. CountersSaved(flash', d)
            BY <3>1, <3>2, <3>3 DEF CountersSaved, HasData, IsData
        <3> QED BY <3>2, <3>4
    <2>4. ASSUME x.n = 2 PROVE BlocksSaved(flash', x.holds)
        BY <1>3, <1>7, <2>2, <2>4 DEF BlocksSaved
    <2>5. ASSUME x.n = 1, NEW c \in Blocks, NEW q \in Pages, IsCk(flash', c, q), flash'[c][q].n = 2
          PROVE  SameSaved(x.holds, flash'[c][q].holds)
        <3>1. IsCk(flash, c, q) /\ flash'[c][q] = flash[c][q]
            BY <1>2, <2>5
        <3> QED BY <2>2, <2>5, <3>1
    <2> QED BY <1>3, <2>1, <2>2, <2>3, <2>4, <2>5
<1> QED BY <1>3, <1>4, <1>5, <1>6, <1>8, <1>9 DEF FlashOk

\* Page p of block b is x now.
Programs(f, g, b, p, x) ==
    /\ DOMAIN g = Blocks /\ \A c \in Blocks : DOMAIN g[c] = Pages
    /\ g[b][p] = x
    /\ \A c \in Blocks, q \in Pages : c # b \/ q # p => g[c][q] = f[c][q]

\* All pages of block b are x now.
Wipes(f, g, b, x) ==
    /\ DOMAIN g = Blocks /\ \A c \in Blocks : DOMAIN g[c] = Pages
    /\ \A q \in Pages : g[b][q] = x
    /\ \A c \in Blocks, q \in Pages : c # b => g[c][q] = f[c][q]

\* Programming a page.
LEMMA ProgramIs ==
    ASSUME NEW f, Written(f), NEW b \in Blocks, NEW p \in Pages, NEW x
    PROVE  Programs(f, [f EXCEPT ![b][p] = x], b, p, x)
BY DEF Written, Programs

\* Erasing or spoiling a block.
LEMMA WipeIs ==
    ASSUME NEW f, Written(f), NEW b \in Blocks
    PROVE  /\ Wipes(f, [f EXCEPT ![b] = ErasedBlock], b, Erased)
           /\ Wipes(f, [f EXCEPT ![b] = TornBlock], b, Torn)
BY DEF Written, Wipes, ErasedBlock, TornBlock

\* A block without live chunks is wiped: pages are lost, no live ones.
LEMMA WipeLessens ==
    ASSUME NEW f, NEW g, NEW b \in Blocks, NEW x \in {Erased, Torn}, Wipes(f, g, b, x),
           \A p \in Pages : <<b, p>> \notin Live(f)
    PROVE  Lessened(f, g)
BY DEF Wipes, Lessened

\* A page that is no live chunk is spoilt.
LEMMA TearLessens ==
    ASSUME NEW f, NEW g, NEW b \in Blocks, NEW p \in Pages, Programs(f, g, b, p, Torn),
           <<b, p>> \notin Live(f)
    PROVE  Lessened(f, g)
BY DEF Programs, Lessened

\* A stream that has lost a page, or was not complete, is not complete.
LEMMA NotComplete ==
    ASSUME NEW f, NEW g, Written(f), PagesUnique(f), Lessened(f, g),
           NEW b \in Blocks, ~IsCk(g, b, 1), Complete(f) => IsCheckpoint(f, b)
    PROVE  ~Complete(g)
<1> SUFFICES ASSUME Complete(g) PROVE FALSE
    OBVIOUS
<1>1. \A c \in Blocks, q \in Pages : IsCk(g, c, q) => g[c][q] = f[c][q] /\ IsCk(f, c, q)
    BY KindsAre DEF Lessened, IsCk
<1>2. Complete(f)
    BY <1>1 DEF Complete, Present
<1>3. IsCk(f, b, 1) /\ 1 \in Pages
    BY <1>2, CheckpointAssumption DEF IsCheckpoint, IsCk, Pages
<1>4. f[b][1].n \in Stream
    BY <1>3 DEF Written, PageOk, IsCk
<1>5. PICK c \in Blocks, q \in Pages : IsCk(g, c, q) /\ g[c][q].n = f[b][1].n
    BY <1>4 DEF Complete, Present
<1>6. IsCk(f, c, q) /\ f[c][q].n = f[b][1].n
    BY <1>1, <1>5
<1>7. c = b /\ q = 1
    BY <1>3, <1>6 DEF PagesUnique
<1> QED BY <1>5, <1>7

\* There is no page of a checkpoint anywhere.
NoPages(f) == \A b \in Blocks, p \in Pages : ~IsCk(f, b, p)

\* A new chunk replaces the older one of its object.
LEMMA DataKeeps ==
    ASSUME FlashOk, clock \in Nat, clock' = clock + 1, bad' = bad, NoPages(flash),
           NEW b \in Blocks, b \notin bad, NEW p \in Pages, NEW k,
           Programs(flash, flash', b, p, Data(k, clock + 1)), flash[b][p] = Erased
    PROVE  /\ FlashOk' /\ NoPages(flash')
           /\ Live(flash') = (Live(flash) \ {x \in Live(flash) : flash[x[1]][x[2]].key = k}) \cup {<<b, p>>}
           /\ \A c \in Blocks : HasData(flash', c) <=> c = b \/ HasData(flash, c)
           /\ <<b, p>> \notin Live(flash)
<1> DEFINE x == Data(k, clock + 1)
<1>1. x.kind = "data" /\ x.key = k /\ x.time = clock + 1
    BY KindsAre
<1> HIDE DEF x
<1>2. flash'[b][p] = x /\ ~IsData(flash, b, p) /\ IsData(flash', b, p)
      /\ \A c \in Blocks, q \in Pages : c # b \/ q # p => flash'[c][q] = flash[c][q]
    BY <1>1, KindsAre DEF Programs, x, IsData
<1>3. \A c \in Blocks, q \in Pages : c # b \/ q # p => (IsData(flash', c, q) <=> IsData(flash, c, q))
    BY <1>2 DEF IsData
<1>4. NoPages(flash')
    BY <1>1, <1>2 DEF NoPages, IsCk
<1>5. \A c \in Blocks, q \in Pages : IsData(flash, c, q) => flash[c][q].time \in Nat /\ flash[c][q].time <= clock
    BY DEF FlashOk, Written, PageOk, IsData
<1>6. Written(flash)'
    <2>1. ASSUME NEW c \in Blocks, NEW q \in Pages PROVE PageOk(flash[c][q])'
        <3>1. PageOk(flash[c][q])
            BY DEF FlashOk, Written
        <3>2. CASE c = b /\ q = p
            BY <1>1, <1>2, <3>2 DEF PageOk
        <3>3. CASE c # b \/ q # p
            BY <1>2, <3>1, <3>3 DEF PageOk
        <3> QED BY <3>2, <3>3
    <2> QED BY <2>1 DEF Written, Programs
<1>7. TimesUnique(flash')
    <2> SUFFICES ASSUME NEW c \in Blocks, NEW d \in Blocks, NEW q \in Pages, NEW r \in Pages,
                        IsData(flash', c, q), IsData(flash', d, r),
                        flash'[c][q].time = flash'[d][r].time
                 PROVE  c = d /\ q = r
        BY DEF TimesUnique
    <2>1. CASE (c = b /\ q = p) \/ (d = b /\ r = p)
        BY <1>1, <1>2, <1>3, <1>5, <2>1
    <2>2. CASE (c # b \/ q # p) /\ (d # b \/ r # p)
        BY <1>2, <1>3, <2>2 DEF FlashOk, TimesUnique
    <2> QED BY <2>1, <2>2
<1>8. PagesUnique(flash') /\ NotMixed(flash') /\ Saved(flash)'
    BY <1>4 DEF NoPages, PagesUnique, NotMixed, HasCk, Saved
<1>9. \A c \in bad, q \in Pages : flash'[c][q] = Torn
    BY <1>2 DEF FlashOk
<1>10. FlashOk'
    BY <1>6, <1>7, <1>8, <1>9 DEF FlashOk
<1>11. <<b, p>> \in Live(flash')
    <2>1. \A c \in Blocks, q \in Pages : IsData(flash', c, q) => flash'[c][q].time <= clock + 1
        BY <1>1, <1>2, <1>3, <1>5
    <2> QED BY <1>1, <1>2, <2>1, LiveIs
<1>12. <<b, p>> \notin Live(flash)
    BY <1>2, LiveIs
<1>13. ASSUME NEW c \in Blocks, NEW q \in Pages, c # b \/ q # p
       PROVE  <<c, q>> \in Live(flash') <=> <<c, q>> \in Live(flash) /\ flash[c][q].key # k
    <2>1. flash'[c][q] = flash[c][q] /\ (IsData(flash', c, q) <=> IsData(flash, c, q))
        BY <1>2, <1>3, <1>13
    <2>2. ASSUME <<c, q>> \in Live(flash')
          PROVE  <<c, q>> \in Live(flash) /\ flash[c][q].key # k
        <3>1. /\ IsData(flash', c, q)
              /\ \A d \in Blocks, r \in Pages :
                    IsData(flash', d, r) /\ flash'[d][r].key = flash'[c][q].key
                        => flash'[d][r].time <= flash'[c][q].time
            BY <2>2, LiveIs
        <3>2. flash[c][q].key # k
            BY <1>1, <1>2, <1>5, <2>1, <3>1
        <3>3. \A d \in Blocks, r \in Pages :
                    IsData(flash, d, r) /\ flash[d][r].key = flash[c][q].key
                        => flash[d][r].time <= flash[c][q].time
            BY <1>2, <1>3, <2>1, <3>1
        <3> QED BY <2>1, <3>1, <3>2, <3>3, LiveIs
    <2>3. ASSUME <<c, q>> \in Live(flash), flash[c][q].key # k
          PROVE  <<c, q>> \in Live(flash')
        <3>1. /\ IsData(flash, c, q)
              /\ \A d \in Blocks, r \in Pages :
                    IsData(flash, d, r) /\ flash[d][r].key = flash[c][q].key
                        => flash[d][r].time <= flash[c][q].time
            BY <2>3, LiveIs
        <3>2. \A d \in Blocks, r \in Pages :
                    IsData(flash', d, r) /\ flash'[d][r].key = flash'[c][q].key
                        => flash'[d][r].time <= flash'[c][q].time
            BY <1>1, <1>2, <1>3, <2>1, <2>3, <3>1
        <3> QED BY <2>1, <3>1, <3>2, LiveIs
    <2> QED BY <2>2, <2>3
<1>14. Live(flash') = (Live(flash) \ {y \in Live(flash) : flash[y[1]][y[2]].key = k}) \cup {<<b, p>>}
    <2> DEFINE R == (Live(flash) \ {y \in Live(flash) : flash[y[1]][y[2]].key = k}) \cup {<<b, p>>}
    <2>1. Live(flash) \subseteq Blocks \X Pages /\ Live(flash') \subseteq Blocks \X Pages
          /\ R \subseteq Blocks \X Pages
        BY LiveIs
    <2>2. ASSUME NEW c \in Blocks, NEW q \in Pages
          PROVE  <<c, q>> \in Live(flash') <=> <<c, q>> \in R
        <3>1. <<c, q>>[1] = c /\ <<c, q>>[2] = q
            OBVIOUS
        <3>2. <<c, q>> = <<b, p>> <=> c = b /\ q = p
            OBVIOUS
        <3> QED BY <1>11, <1>13, <3>1, <3>2
    <2>3. \A y \in Blocks \X Pages : \E c \in Blocks, q \in Pages : y = <<c, q>>
        OBVIOUS
    <2>5. Live(flash') \subseteq Blocks \X Pages
        BY <2>1
    <2> HIDE DEF R
    <2>6. \A y \in Blocks \X Pages : y \in Live(flash') <=> y \in R
        BY <2>2, <2>3
    <2>4. Live(flash') = R
        BY <2>1, <2>5, <2>6
    <2> QED BY <2>4 DEF R
<1>15. \A c \in Blocks : HasData(flash', c) <=> c = b \/ HasData(flash, c)
    BY <1>2, <1>3 DEF HasData
<1> QED BY <1>4, <1>10, <1>12, <1>14, <1>15

(***************************************************************************)
(* What every action starts from, and what most of them leave alone.       *)
(***************************************************************************)
\* The blocks are finitely many.
LEMMA BlocksFinite ==
    /\ IsFiniteSet(Blocks) /\ Cardinality(Blocks) = NBlocks
    /\ \A S \in SUBSET Blocks : IsFiniteSet(S) /\ Cardinality(S) \in 0 .. NBlocks
                                /\ (Cardinality(S) = 0 <=> S = {})
    /\ IsFiniteSet(Blocks \X Pages) /\ Cardinality(Blocks \X Pages) = NBlocks * NChunks
    /\ \A S \in SUBSET (Blocks \X Pages) : IsFiniteSet(S) /\ Cardinality(S) \in 0 .. NBlocks * NChunks
<1>1. /\ IsFiniteSet(Blocks) /\ Cardinality(Blocks) = NBlocks
      /\ IsFiniteSet(Pages) /\ Cardinality(Pages) = NChunks
    <2>1. NBlocks \in Nat /\ NChunks \in Nat
        BY CheckpointAssumption
    <2> QED BY <2>1, FS_Interval DEF Blocks, Pages
<1>2. /\ IsFiniteSet(Blocks \X Pages) /\ Cardinality(Blocks \X Pages) = NBlocks * NChunks
    BY <1>1, FS_Product
<1>3. ASSUME NEW S \in SUBSET Blocks
      PROVE  IsFiniteSet(S) /\ Cardinality(S) \in 0 .. NBlocks /\ (Cardinality(S) = 0 <=> S = {})
    <2>1. IsFiniteSet(S) /\ Cardinality(S) <= NBlocks
        BY <1>1, FS_Subset
    <2>2. Cardinality(S) \in Nat
        BY <2>1, FS_CardinalityType
    <2> QED BY <2>1, <2>2, FS_EmptySet, CheckpointAssumption
<1>4. ASSUME NEW S \in SUBSET (Blocks \X Pages)
      PROVE  IsFiniteSet(S) /\ Cardinality(S) \in 0 .. NBlocks * NChunks
    <2>1. IsFiniteSet(S) /\ Cardinality(S) <= NBlocks * NChunks
        BY <1>2, FS_Subset
    <2>2. Cardinality(S) \in Nat
        BY <2>1, FS_CardinalityType
    <2>3. NBlocks * NChunks \in Nat
        BY CheckpointAssumption
    <2> QED BY <2>1, <2>2, <2>3
<1> QED BY <1>1, <1>2, <1>3, <1>4

\* A task is done only while the device is mounted.
LEMMA DoingIs ==
    ASSUME IInv, NEW x, Doing(x)
    PROVE  /\ mounted /\ DeviceOk /\ FlashOk /\ Bounded
           /\ Head(work) \in Tasks /\ Tail(work) \in Seq(Tasks) /\ work = Put(Head(work), Tail(work))
           /\ Follows(Head(work), Tail(work)) /\ Head(work).what = x
           /\ work # <<>>
           /\ \A y : Doing(y) => y = x
           /\ CleaningUp <=> x = "cleanup" \/ CleaningIn(Tail(work))
           /\ x \in {"dirty", "erase"} => TargetsIn(work) = TargetsIn(Tail(work)) \cup {Head(work).x}
           /\ x \notin {"dirty", "erase"} => TargetsIn(work) = TargetsIn(Tail(work))
<1>1. mounted /\ DeviceOk /\ FlashOk /\ Bounded /\ work # <<>> /\ Head(work).what = x
    BY DEF IInv, Doing
<1>2. Ordered(work)
    BY <1>1 DEF DeviceOk, WorkOk
<1>3. work \in Seq(Tasks) /\ Follows(Head(work), Tail(work))
    BY <1>1, <1>2 DEF Ordered
<1>4. work = Put(Head(work), Tail(work)) /\ Head(work) \in Tasks /\ Tail(work) \in Seq(Tasks)
    BY <1>1, <1>3, WorkIs
<1> DEFINE a == Head(work)
           w == Tail(work)
<1>5. /\ CleaningIn(Put(a, w)) <=> a.what = "cleanup" \/ CleaningIn(w)
      /\ a.what \in {"dirty", "erase"} => TargetsIn(Put(a, w)) = TargetsIn(w) \cup {a.x}
      /\ a.what \notin {"dirty", "erase"} => TargetsIn(Put(a, w)) = TargetsIn(w)
    BY <1>4, TasksIn
<1>6. Put(a, w) = work
    BY <1>4
<1>7. \A y : Doing(y) => y = x
    BY <1>1 DEF Doing
<1> HIDE DEF a, w
<1>8. /\ CleaningUp <=> x = "cleanup" \/ CleaningIn(w)
      /\ x \in {"dirty", "erase"} => TargetsIn(work) = TargetsIn(w) \cup {a.x}
      /\ x \notin {"dirty", "erase"} => TargetsIn(work) = TargetsIn(w)
    BY <1>1, <1>5, <1>6 DEF CleaningUp, a
<1> QED BY <1>1, <1>3, <1>4, <1>7, <1>8 DEF a, w

\* The NAND, the blocks and the chunk bits are as they were, and as far as the
\* scan is concerned nothing has changed.
Still ==
    /\ UNCHANGED <<flash, bad, clock, mounted, crashes, faults>>
    /\ requests' \in 0 .. MaxRequests
    /\ dev'.state = dev.state /\ dev'.used = dev.used
    /\ dev'.allocationBlock = dev.allocationBlock /\ dev'.allocationPage = dev.allocationPage
    /\ CleaningUp' <=> CleaningUp

\* What is left to show of such a step.
LEMMA StillOk ==
    ASSUME IInv, mounted, Still, DeviceTyped', CountersOk', WorkOk', StreamOk'
    PROVE  IInv'
<1>1. FlashOk /\ Bounded /\ DeviceOk
    BY DEF IInv
<1>2. FlashOk'
    <2>1. FlashOk' <=> FlashOk
        BY DEF Still, FlashOk, Written, PageOk, Saved, TimesUnique, PagesUnique, NotMixed, BlocksFinal
    <2> QED BY <1>1, <2>1
<1>3. Bounded'
    BY <1>1 DEF Still, Bounded
<1>4. (dev.used = Live(flash))' /\ BlocksOk'
    BY <1>1 DEF Still, DeviceOk, BlocksOk, HasData, HasCk, IsCheckpoint, AllErased
<1>5. AllocationOk'
    BY <1>1 DEF Still, DeviceOk, AllocationOk
<1>6. mounted'
    BY DEF Still
<1> QED BY <1>2, <1>3, <1>4, <1>5, <1>6 DEF IInv, DeviceOk

\* What is to be done next.
LEMMA NowIs ==
    ASSUME NEW w, Ordered(w), work' = w
    PROVE  /\ Ordered(work)' /\ (CleaningUp' <=> CleaningIn(w)) /\ TargetsIn(work)' = TargetsIn(w)
           /\ \A x : Doing(x)' <=> w # <<>> /\ Head(w).what = x
           /\ Head(work)' = Head(w) /\ Tail(work)' = Tail(w)
BY DEF CleaningUp, Doing, Ordered, CleaningIn, TargetsIn

\* A change is no page to be written.
LEMMA ChangesAreNoPages ==
    \A w \in Changes \cup {<<>>} :
        /\ w \notin Pagings /\ w \in Seq(Tasks) /\ Ordered(w)
        /\ w # <<>> => Head(w).what \in {"write", "erase", "open"}
<1>1. \A w \in Changes : w \in Seq(Tasks) /\ Ordered(w) /\ w # <<>> /\ Head(w).what \in {"write", "erase", "open"}
    BY ChangeOrdered
<1>2. \A w \in Pagings : w # <<>> /\ Head(w).what = "page"
    BY PagingOrdered DEF Pagings
<1>3. <<>> \in Seq(Tasks) /\ Ordered(<<>>)
    BY TaskIs DEF Ordered
<1> QED BY <1>1, <1>2, <1>3

(***************************************************************************)
(* The steps that leave the NAND alone.                                    *)
(***************************************************************************)
LEMMA InvalidateKeeps == IInv /\ InvalidateCheckpoint => IInv'
<1> SUFFICES ASSUME IInv, InvalidateCheckpoint PROVE IInv'
    OBVIOUS
<1>1. Doing("invalidate")
    BY DEF InvalidateCheckpoint
<1>2. /\ mounted /\ DeviceOk /\ FlashOk /\ Bounded /\ Tail(work) \in Seq(Tasks)
      /\ Tail(work) \in Changes \cup {<<>>}
      /\ (CleaningUp <=> CleaningIn(Tail(work))) /\ TargetsIn(work) = TargetsIn(Tail(work))
      /\ \A y : Doing(y) => y = "invalidate"
    <2>1. Follows(Head(work), Tail(work)) /\ Head(work).what = "invalidate"
        BY <1>1, DoingIs
    <2>2. Tail(work) \in Changes \cup {<<>>}
        BY <2>1 DEF Follows
    <2> QED BY <1>1, <2>2, DoingIs
<1>3. PICK w : w = Tail(work)
    OBVIOUS
<1>4. /\ w \notin Pagings /\ w \in Seq(Tasks) /\ Ordered(w)
      /\ w # <<>> => Head(w).what \in {"write", "erase", "open"}
    BY <1>2, <1>3, ChangesAreNoPages
<1>5. DeviceTyped /\ CountersOk /\ WorkOk /\ StreamOk
    BY <1>2 DEF DeviceOk
<1>6. UNCHANGED <<flash, bad, ck, mounted, clock, bounds>>
    BY DEF InvalidateCheckpoint
<1>7. /\ DeviceTyped' /\ dev'.state = dev.state /\ dev'.used = dev.used
      /\ dev'.allocationBlock = dev.allocationBlock /\ dev'.allocationPage = dev.allocationPage
      /\ dev'.nErasedBlocks = dev.nErasedBlocks /\ dev'.nFreeChunks = dev.nFreeChunks
      /\ dev'.blocksInCheckpoint = dev.blocksInCheckpoint
    BY <1>5, <1>6 DEF InvalidateCheckpoint, DeviceTyped
<1>8. Checkpoints' = Checkpoints /\ InState(dev, "checkpoint")' = InState(dev, "checkpoint")
      /\ Cardinality(InState(dev, "empty"))' = Cardinality(InState(dev, "empty"))
      /\ Usable(dev.state, dev.used)' = Usable(dev.state, dev.used)
    BY <1>7 DEF Checkpoints, InState, Usable
<1>9. dev.blocksInCheckpoint = Checkpoints /\ ~Streaming /\ (Complete(flash) => AllBegun)
    BY <1>2, <1>5 DEF CountersOk, StreamOk, Streaming
<1>10. (Complete(flash) => AllBegun)'
    BY <1>6, <1>7, <1>9 DEF AllBegun, IsCheckpoint, Complete, Present, IsCk
<1>11. CASE IsStale
    <2>1. Follows(Erasing, w) /\ Erasing \in Tasks /\ Erasing.what = "erasecheckpoint"
        BY <1>2, <1>3, TaskIs DEF Follows, Task, Erasing
    <2>2. work' = Put(Erasing, w)
        BY <1>3, <1>4, <1>11, TaskIs, ListsAre DEF InvalidateCheckpoint, Then, Erasing
    <2>3. Ordered(Put(Erasing, w)) /\ Head(Put(Erasing, w)) = Erasing /\ Tail(Put(Erasing, w)) = w
          /\ Put(Erasing, w) # <<>>
        BY <1>4, <2>1, PutOrdered, PutTask
    <2>4. (CleaningIn(Put(Erasing, w)) <=> CleaningIn(w)) /\ TargetsIn(Put(Erasing, w)) = TargetsIn(w)
        BY <1>4, <2>1, TasksIn
    <2>5. /\ Ordered(work)' /\ (CleaningUp' <=> CleaningUp) /\ TargetsIn(work)' = TargetsIn(work)
          /\ \A x : Doing(x)' <=> x = "erasecheckpoint"
          /\ Tail(work)' = w
        BY <1>2, <1>3, <2>1, <2>2, <2>3, <2>4, NowIs
    <2>6. WorkOk'
        BY <1>5, <1>7, <2>5 DEF WorkOk, PagesOf
    <2>7. CountersOk'
        BY <1>5, <1>7, <1>8, <1>9, <2>5 DEF CountersOk, Streaming
    <2>8. StreamOk'
        <3>2. ~Doing("page")'
            BY <2>5
        <3>3. w \notin Pagings
            BY <1>4
        <3>4. Tail(work)' = w
            BY <2>5
        <3>1. ~Doing("page")' /\ ~(Tail(work)' \in Pagings)
            BY <3>2, <3>3, <3>4
        <3> QED BY <1>10, <3>1 DEF StreamOk
    <2>9. Still
        BY <1>2, <1>6, <1>7, <2>5 DEF Still, bounds, Bounded
    <2> QED BY <1>2, <1>7, <2>6, <2>7, <2>8, <2>9, StillOk
<1>12. CASE ~IsStale
    <2>1. InState(dev, "checkpoint") = {}
        <3>1. InState(dev, "checkpoint") \in SUBSET Blocks /\ ~(dev.blocksInCheckpoint > 0)
            BY <1>12 DEF InState, IsStale
        <3>2. Cardinality(InState(dev, "checkpoint")) = 0
            BY <1>9, <3>1, BlocksFinite DEF Checkpoints
        <3> QED BY <3>1, <3>2, BlocksFinite
    <2>2. work' = w
        BY <1>3, <1>4, <1>12, TaskIs, ListsAre DEF InvalidateCheckpoint, Then
    <2>3. /\ Ordered(work)' /\ (CleaningUp' <=> CleaningUp) /\ TargetsIn(work)' = TargetsIn(work)
          /\ \A x : Doing(x)' => x \in {"write", "erase", "open"}
        BY <1>2, <1>3, <1>4, <2>2, NowIs
    <2>4. WorkOk'
        BY <1>5, <1>7, <1>8, <2>1, <2>3 DEF WorkOk, PagesOf
    <2>5. CountersOk'
        BY <1>5, <1>7, <1>8, <1>9, <2>3 DEF CountersOk, Streaming
    <2>6. StreamOk'
        BY <1>10, <2>3 DEF StreamOk
    <2>7. Still
        BY <1>2, <1>6, <1>7, <2>3 DEF Still, bounds, Bounded
    <2> QED BY <1>2, <1>7, <2>4, <2>5, <2>6, <2>7, StillOk
<1> QED BY <1>11, <1>12

(***************************************************************************)
(* Erasing.                                                                *)
(***************************************************************************)
\* One block more or less.
LEMMA CountOne ==
    ASSUME NEW S \in SUBSET Blocks, NEW T \in SUBSET Blocks, NEW b \in Blocks, S \ {b} = T \ {b}
    PROVE  Cardinality(T) = Cardinality(S) - (IF b \in S THEN 1 ELSE 0) + (IF b \in T THEN 1 ELSE 0)
<1>1. \A R \in SUBSET Blocks :
          /\ Cardinality(R \ {b}) = IF b \in R THEN Cardinality(R) - 1 ELSE Cardinality(R)
          /\ Cardinality(R) \in Nat
    <2> TAKE R \in SUBSET Blocks
    <2>1. IsFiniteSet(R) /\ Cardinality(R) \in Nat
        BY BlocksFinite
    <2> QED BY <2>1, FS_RemoveElement
<1>2. Cardinality(S \ {b}) = Cardinality(T \ {b})
    OBVIOUS
<1> QED BY <1>1, <1>2

\* The blocks of a state.
BlocksIn(s, w) == {c \in Blocks : s[c] = w}

\* The state of one block changes.
LEMMA StateCounts ==
    ASSUME NEW s \in [Blocks -> States], NEW b \in Blocks, NEW v \in States,
           NEW t, t = [s EXCEPT ![b] = v], NEW w
    PROVE  Cardinality(BlocksIn(t, w))
               = Cardinality(BlocksIn(s, w)) - (IF s[b] = w THEN 1 ELSE 0) + (IF v = w THEN 1 ELSE 0)
<1>1. t[b] = v /\ \A c \in Blocks : c # b => t[c] = s[c]
    OBVIOUS
<1> DEFINE S == BlocksIn(s, w)
           T == BlocksIn(t, w)
<1>2. S \in SUBSET Blocks /\ T \in SUBSET Blocks /\ (b \in S <=> s[b] = w) /\ (b \in T <=> v = w)
    BY <1>1 DEF BlocksIn
<1>3. S \ {b} = T \ {b}
    BY <1>1 DEF BlocksIn
<1> HIDE DEF S, T
<1>4. Cardinality(T) = Cardinality(S) - (IF b \in S THEN 1 ELSE 0) + (IF b \in T THEN 1 ELSE 0)
    BY <1>2, <1>3, CountOne
<1> QED BY <1>2, <1>4 DEF S, T

\* A block becomes usable, or is so no more.
LEMMA UsableCounts ==
    ASSUME NEW s \in [Blocks -> States], NEW b \in Blocks, NEW v \in States,
           NEW t, t = [s EXCEPT ![b] = v]
    PROVE  Cardinality({c \in Blocks : t[c] # "dead"})
               = Cardinality({c \in Blocks : s[c] # "dead"}) - (IF s[b] # "dead" THEN 1 ELSE 0)
                                                              + (IF v # "dead" THEN 1 ELSE 0)
<1>1. t[b] = v /\ \A c \in Blocks : c # b => t[c] = s[c]
    OBVIOUS
<1> DEFINE S == {c \in Blocks : s[c] # "dead"}
           T == {c \in Blocks : t[c] # "dead"}
<1>2. S \in SUBSET Blocks /\ T \in SUBSET Blocks /\ (b \in S <=> s[b] # "dead") /\ (b \in T <=> v # "dead")
    BY <1>1
<1>3. S \ {b} = T \ {b}
    BY <1>1
<1> HIDE DEF S, T
<1>4. Cardinality(T) = Cardinality(S) - (IF b \in S THEN 1 ELSE 0) + (IF b \in T THEN 1 ELSE 0)
    BY <1>2, <1>3, CountOne
<1> QED BY <1>2, <1>4 DEF S, T

\* A block that may be wiped: it holds no live chunk, a checkpoint that is
\* complete loses its page to it, and it is not where the saved device goes on.
MayGo(b) ==
    /\ \A p \in Pages : <<b, p>> \notin Live(flash)
    /\ Complete(flash) => IsCheckpoint(flash, b)
    /\ \A c \in Blocks, p \in Pages :
           IsCk(flash, c, p) /\ flash[c][p].n = 1 => flash[c][p].holds.allocationBlock # b

\* The blocks of the checkpoint are such, when it is not being written,
LEMMA CheckpointMayGo ==
    ASSUME IInv, mounted, ~Doing("page"), NEW b \in InState(dev, "checkpoint")
    PROVE  b \in Blocks /\ dev.state[b] = "checkpoint" /\ MayGo(b)
<1>1. b \in Blocks /\ dev.state[b] = "checkpoint"
    BY DEF InState
<1>2. DeviceOk /\ FlashOk
    BY DEF IInv
<1>3. ~HasData(flash, b)
    BY <1>1, <1>2 DEF DeviceOk, BlocksOk
<1>4. \A p \in Pages : <<b, p>> \notin Live(flash)
    BY <1>1, <1>3, LiveIs DEF HasData
<1>5. Complete(flash) => IsCheckpoint(flash, b)
    BY <1>1, <1>2 DEF DeviceOk, StreamOk, AllBegun
<1>6. ASSUME NEW c \in Blocks, NEW p \in Pages, IsCk(flash, c, p), flash[c][p].n = 1
      PROVE  flash[c][p].holds.allocationBlock # b
    <2>1. CountersSaved(flash, flash[c][p].holds)
        BY <1>2, <1>6 DEF FlashOk, Saved
    <2>2. PICK d : d = flash[c][p].holds
        OBVIOUS
    <2>3. d.allocationBlock # NoBlock => HasData(flash, d.allocationBlock)
        BY <2>1, <2>2 DEF CountersSaved
    <2>4. b # NoBlock
        BY <1>1, CheckpointAssumption DEF Blocks, NoBlock
    <2> QED BY <1>3, <2>2, <2>3, <2>4
<1> QED BY <1>1, <1>4, <1>5, <1>6 DEF MayGo

\* and so is a block without live chunks when there is no checkpoint.
LEMMA TargetMayGo ==
    ASSUME IInv, mounted, InState(dev, "checkpoint") = {}, NEW b \in Blocks, PagesOf(dev.used, b) = {}
    PROVE  MayGo(b)
<1>1. DeviceOk /\ FlashOk
    BY DEF IInv
<1>2. \A p \in Pages : <<b, p>> \notin Live(flash)
    <2>1. \A p \in Pages : <<b, p>>[1] = b
        OBVIOUS
    <2> QED BY <1>1, <2>1 DEF DeviceOk, PagesOf
<1>3. \A c \in Blocks : ~IsCheckpoint(flash, c)
    BY <1>1 DEF DeviceOk, BlocksOk, InState
<1>4. \A c \in Blocks, p \in Pages : ~(IsCk(flash, c, p) /\ flash[c][p].n = 1)
    BY <1>1, <1>3 DEF FlashOk, Saved, IsCheckpoint, IsCk
<1>5. 1 \in Stream
    BY CheckpointAssumption DEF Stream
<1>6. ~Complete(flash)
    BY <1>4, <1>5 DEF Complete, Present
<1> QED BY <1>2, <1>4, <1>6 DEF MayGo

\* What is left on the NAND when such a block is wiped.
LEMMA WipeKeeps ==
    ASSUME FlashOk, clock \in Nat, clock' = clock, NEW b \in Blocks, MayGo(b), NEW x \in {Erased, Torn},
           Wipes(flash, flash', b, x),
           bad' = bad \/ (x = Torn /\ bad' = bad \cup {b}), x = Erased => b \notin bad
    PROVE  /\ FlashOk' /\ Live(flash') = Live(flash) /\ ~Complete(flash')
           /\ \A c \in Blocks : /\ HasData(flash', c) => c # b /\ HasData(flash, c)
                                /\ HasCk(flash', c) => c # b /\ HasCk(flash, c)
                                /\ IsCheckpoint(flash', c) => c # b /\ IsCheckpoint(flash, c)
                                /\ c # b => \A p \in Pages : flash'[c][p] = flash[c][p]
           /\ x = Erased => AllErased(flash', b)
<1>1. Lessened(flash, flash')
    BY WipeLessens DEF MayGo
<1>2. 1 \in Pages
    BY CheckpointAssumption DEF Pages
<1>3. \A p \in Pages : flash'[b][p] = x /\ ~IsCk(flash', b, p) /\ ~IsData(flash', b, p)
    BY KindsAre DEF Wipes, IsCk, IsData
<1>4. ~Complete(flash')
    <2>1. ~IsCk(flash', b, 1) /\ (Complete(flash) => IsCheckpoint(flash, b))
        BY <1>2, <1>3 DEF MayGo
    <2>2. Written(flash) /\ PagesUnique(flash)
        BY DEF FlashOk
    <2> QED BY <1>1, <2>1, <2>2, NotComplete
<1>5. \A c \in bad', p \in Pages : flash'[c][p] = Torn
    <2> TAKE c \in bad', p \in Pages
    <2>1. CASE c = b
        BY <1>3, <2>1 DEF FlashOk
    <2>2. CASE c # b
        <3>1. c \in bad /\ c \in Blocks /\ flash[c][p] = Torn
            BY <2>2 DEF FlashOk
        <3> QED BY <2>2, <3>1 DEF Wipes
    <2> QED BY <2>1, <2>2
<1>6. bad' \subseteq Blocks
    BY DEF FlashOk
<1>7. ASSUME NEW c \in Blocks, NEW p \in Pages, IsCk(flash, c, p), flash[c][p].n = 1
      PROVE  LET a == flash[c][p].holds.allocationBlock
             IN a \in Blocks => \A q \in Pages : flash'[a][q] = flash[a][q]
    <2>1. PICK a : a = flash[c][p].holds.allocationBlock
        OBVIOUS
    <2>2. a # b
        BY <1>7, <2>1 DEF MayGo
    <2>3. a \in Blocks => \A q \in Pages : flash'[a][q] = flash[a][q]
        BY <2>2 DEF Wipes
    <2> QED BY <2>1, <2>3
<1>8. FlashOk' /\ Live(flash') = Live(flash)
    BY <1>1, <1>4, <1>5, <1>6, <1>7, LessenedKeeps
<1>9. \A c \in Blocks, p \in Pages : c # b => flash'[c][p] = flash[c][p]
    BY DEF Wipes
<1>10. \A c \in Blocks : /\ HasData(flash', c) => c # b /\ HasData(flash, c)
                         /\ HasCk(flash', c) => c # b /\ HasCk(flash, c)
                         /\ IsCheckpoint(flash', c) => c # b /\ IsCheckpoint(flash, c)
    BY <1>2, <1>3, <1>9 DEF HasData, HasCk, IsData, IsCk, IsCheckpoint
<1>11. x = Erased => AllErased(flash', b)
    BY <1>3 DEF AllErased
<1> QED BY <1>4, <1>8, <1>9, <1>10, <1>11

\* What the device knows of it.
LEMMA ErasedDevice ==
    ASSUME IInv, mounted, NEW b \in Blocks, MayGo(b), dev.state[b] \in {"checkpoint", "full"},
           NEW s \in {"empty", "dead"},
           Wipes(flash, flash', b, IF s = "empty" THEN Erased ELSE Torn),
           bad' = IF s = "empty" THEN bad ELSE bad \cup {b}, clock' = clock,
           dev'.state = [dev.state EXCEPT ![b] = s], dev'.used = dev.used,
           dev'.allocationBlock = dev.allocationBlock, dev'.allocationPage = dev.allocationPage,
           CleaningUp' <=> CleaningUp
    PROVE  /\ FlashOk' /\ (dev.used = Live(flash))' /\ BlocksOk' /\ AllocationOk' /\ ~Complete(flash')
           /\ \A w \in States :
                 Cardinality(InState(dev, w)') = Cardinality(InState(dev, w))
                     - (IF dev.state[b] = w THEN 1 ELSE 0) + (IF s = w THEN 1 ELSE 0)
           /\ Usable(dev.state, dev.used)' =
                  IF s = "empty" THEN Usable(dev.state, dev.used) ELSE Usable(dev.state, dev.used) - NChunks
<1>1. FlashOk /\ DeviceOk /\ clock \in Nat /\ dev.state \in [Blocks -> States]
    BY DEF IInv, Bounded, DeviceOk, DeviceTyped
<1>2. BlocksOk /\ AllocationOk /\ dev.used = Live(flash)
    BY <1>1 DEF DeviceOk
<1>3. PICK x : x = IF s = "empty" THEN Erased ELSE Torn
    OBVIOUS
<1>4. /\ x \in {Erased, Torn} /\ Wipes(flash, flash', b, x)
      /\ bad' = bad \/ (x = Torn /\ bad' = bad \cup {b})
      /\ x = Erased <=> s = "empty"
    BY <1>3, KindsAre
<1>5. b \notin bad
    BY <1>2 DEF BlocksOk
<1>6. /\ FlashOk' /\ Live(flash') = Live(flash) /\ ~Complete(flash')
      /\ \A c \in Blocks : /\ HasData(flash', c) => c # b /\ HasData(flash, c)
                           /\ HasCk(flash', c) => c # b /\ HasCk(flash, c)
                           /\ IsCheckpoint(flash', c) => c # b /\ IsCheckpoint(flash, c)
                           /\ c # b => \A p \in Pages : flash'[c][p] = flash[c][p]
      /\ x = Erased => AllErased(flash', b)
    BY <1>1, <1>4, <1>5, WipeKeeps
<1>7. dev'.state[b] = s /\ \A c \in Blocks : c # b => dev'.state[c] = dev.state[c]
    BY <1>1
<1>8. BlocksOk'
    <2>1. ASSUME NEW c \in Blocks
          PROVE  /\ HasData(flash', c) => dev'.state[c] \in {"allocating", "full"}
                 /\ HasCk(flash', c) => dev'.state[c] = "checkpoint" \/ (CleaningUp' /\ dev'.state[c] = "full")
                 /\ IsCheckpoint(flash', c) => dev'.state[c] = "checkpoint"
                 /\ dev'.state[c] = "empty" => AllErased(flash', c)
                 /\ c \in bad' => dev'.state[c] = "dead"
        <3>1. CASE c = b
            BY <1>4, <1>5, <1>6, <1>7, <3>1
        <3>2. CASE c # b
            <4>1. dev'.state[c] = dev.state[c] /\ (c \in bad' => c \in bad)
                BY <1>4, <1>7, <3>2
            <4>2. AllErased(flash, c) => AllErased(flash', c)
                BY <1>6, <3>2 DEF AllErased
            <4> QED BY <1>2, <1>6, <4>1, <4>2 DEF BlocksOk
        <3> QED BY <3>1, <3>2
    <2> QED BY <2>1 DEF BlocksOk
<1>9. AllocationOk'
    <2>1. \A c \in Blocks : dev'.state[c] = "allocating" => c = dev'.allocationBlock
        BY <1>2, <1>7 DEF AllocationOk
    <2>2. PICK a : a = dev.allocationBlock
        OBVIOUS
    <2>3. ASSUME a # NoBlock
          PROVE  /\ dev'.state[a] = "allocating" /\ HasData(flash', a)
                 /\ ~CleaningUp => /\ dev.allocationPage \in 1 .. NChunks - 1
                                   /\ \A p \in Pages : p > dev.allocationPage => flash'[a][p] = Erased
        <3>1. /\ dev.state[a] = "allocating" /\ HasData(flash, a)
              /\ ~CleaningUp => /\ dev.allocationPage \in 1 .. NChunks - 1
                                /\ \A p \in Pages : p > dev.allocationPage => flash[a][p] = Erased
            BY <1>2, <2>2, <2>3 DEF AllocationOk
        <3>2. a \in Blocks /\ a # b
            BY <1>1, <2>2, <2>3, <3>1 DEF DeviceOk, DeviceTyped
        <3>3. \A p \in Pages : flash'[a][p] = flash[a][p]
            BY <1>6, <3>2
        <3>4. HasData(flash', a)
            BY <3>1, <3>3 DEF HasData, IsData
        <3> QED BY <1>7, <3>1, <3>2, <3>3, <3>4
    <2> QED BY <2>1, <2>2, <2>3 DEF AllocationOk
<1>10. \A w \in States :
           Cardinality(InState(dev, w)') = Cardinality(InState(dev, w))
               - (IF dev.state[b] = w THEN 1 ELSE 0) + (IF s = w THEN 1 ELSE 0)
    <2>1. s \in States
        BY DEF States
    <2>2. ASSUME NEW w \in States
          PROVE  Cardinality(BlocksIn(dev'.state, w))
                     = Cardinality(BlocksIn(dev.state, w)) - (IF dev.state[b] = w THEN 1 ELSE 0)
                                                           + (IF s = w THEN 1 ELSE 0)
        BY <1>1, <2>1, StateCounts
    <2>3. \A w : InState(dev, w)' = BlocksIn(dev'.state, w) /\ InState(dev, w) = BlocksIn(dev.state, w)
        BY DEF InState, BlocksIn
    <2> QED BY <2>2, <2>3
<1>11. Usable(dev.state, dev.used)' =
           IF s = "empty" THEN Usable(dev.state, dev.used) ELSE Usable(dev.state, dev.used) - NChunks
    <2> DEFINE n == Cardinality({c \in Blocks : dev.state[c] # "dead"})
               m == Cardinality({c \in Blocks : dev'.state[c] # "dead"})
    <2>1. m = IF s = "empty" THEN n ELSE n - 1
        <3>1. s \in States
            BY DEF States
        <3>2. m = n - (IF dev.state[b] # "dead" THEN 1 ELSE 0) + (IF s # "dead" THEN 1 ELSE 0)
            BY <1>1, <3>1, UsableCounts
        <3>3. n \in Nat
            BY BlocksFinite
        <3> QED BY <3>2, <3>3
    <2>2. n \in Nat /\ NChunks \in Nat /\ Cardinality(dev.used) \in Nat
        <3>1. dev.used \in SUBSET (Blocks \X Pages)
            BY <1>1 DEF DeviceOk, DeviceTyped
        <3> QED BY <3>1, BlocksFinite, CheckpointAssumption
    <2> HIDE DEF n, m
    <2>3. NChunks * (n - 1) = NChunks * n - NChunks
        BY <2>2
    <2>4. Usable(dev.state, dev.used) = NChunks * n - Cardinality(dev.used)
          /\ Usable(dev.state, dev.used)' = NChunks * m - Cardinality(dev.used)
        BY DEF Usable, n, m
    <2> QED BY <2>1, <2>2, <2>3, <2>4
<1> QED BY <1>2, <1>6, <1>8, <1>9, <1>10, <1>11

\* A block of the checkpoint holds no live chunk: whether it is erased or fails,
\* the counters follow, and no stream is complete without it.
LEMMA EraseCheckpointKeeps == IInv /\ EraseCheckpoint /\ ~BadKeepsData => IInv'
<1> SUFFICES ASSUME IInv, EraseCheckpoint, ~BadKeepsData PROVE IInv'
    OBVIOUS
<1>1. Doing("erasecheckpoint")
    BY DEF EraseCheckpoint
<1>2. /\ mounted /\ DeviceOk /\ FlashOk /\ Bounded /\ Tail(work) \in Seq(Tasks) /\ Ordered(work)
      /\ Tail(work) \in Changes \cup Pagings \cup {<<>>}
      /\ (CleaningUp <=> CleaningIn(Tail(work))) /\ TargetsIn(work) = TargetsIn(Tail(work))
      /\ \A y : Doing(y) => y = "erasecheckpoint"
    <2>1. Follows(Head(work), Tail(work)) /\ Head(work).what = "erasecheckpoint"
        BY <1>1, DoingIs
    <2>2. Tail(work) \in Changes \cup Pagings \cup {<<>>}
        BY <2>1 DEF Follows
    <2>3. mounted /\ DeviceOk
        BY <1>1, DoingIs
    <2>4. Ordered(work)
        BY <2>3 DEF DeviceOk, WorkOk
    <2> QED BY <1>1, <2>2, <2>4, DoingIs
<1>3. PICK w : w = Tail(work)
    OBVIOUS
<1>4. DeviceTyped /\ BlocksOk /\ CountersOk /\ WorkOk /\ StreamOk
    BY <1>2 DEF DeviceOk
<1>5. UNCHANGED <<ck, mounted, clock, requests, crashes>>
    BY DEF EraseCheckpoint
<1>6. PICK b : b = Lowest(InState(dev, "checkpoint"))
    OBVIOUS
<1>7. InState(dev, "checkpoint") \in SUBSET Blocks /\ InState(dev, "checkpoint") \subseteq Nat
    BY CheckpointAssumption DEF InState, Blocks
<1>8. CASE b = NoBlock
    <2>1. InState(dev, "checkpoint") = {}
        BY <1>6, <1>7, <1>8, LowestIs
    <2>2. Checkpoints = 0
        BY <1>7, <2>1, BlocksFinite DEF Checkpoints
    <2>3. dev' = [dev EXCEPT !.blocksInCheckpoint = 0] /\ work' = Tail(work) /\ UNCHANGED <<flash, bad, faults>>
        BY <1>6, <1>8 DEF EraseCheckpoint, Done
    <2>4. /\ DeviceTyped' /\ dev'.state = dev.state /\ dev'.used = dev.used
          /\ dev'.allocationBlock = dev.allocationBlock /\ dev'.allocationPage = dev.allocationPage
          /\ dev'.nErasedBlocks = dev.nErasedBlocks /\ dev'.nFreeChunks = dev.nFreeChunks
          /\ dev'.blocksInCheckpoint = 0
        <3>1. 0 \in 0 .. NBlocks
            BY CheckpointAssumption
        <3> QED BY <1>4, <1>5, <2>3, <3>1 DEF DeviceTyped
    <2>5. Checkpoints' = Checkpoints /\ InState(dev, "checkpoint")' = InState(dev, "checkpoint")
          /\ Cardinality(InState(dev, "empty"))' = Cardinality(InState(dev, "empty"))
          /\ Usable(dev.state, dev.used)' = Usable(dev.state, dev.used)
        BY <2>4 DEF Checkpoints, InState, Usable
    <2>6. /\ Ordered(w) /\ (w # <<>> => Head(w).what \in {"write", "erase", "open", "page"})
          /\ w \in Pagings => ~CleaningIn(w)
          /\ w \notin Pagings => ~(w # <<>> /\ Head(w).what = "page")
        <3>1. ASSUME w \in Pagings
              PROVE  Ordered(w) /\ ~CleaningIn(w) /\ Head(w).what = "page"
            BY <3>1, PagingOrdered DEF Pagings
        <3>2. ASSUME w \in Changes \cup {<<>>}
              PROVE  w \notin Pagings /\ Ordered(w) /\ (w # <<>> => Head(w).what \in {"write", "erase", "open"})
            BY <3>2, ChangesAreNoPages
        <3> QED BY <1>2, <1>3, <3>1, <3>2
    <2>7. /\ Ordered(work)' /\ (CleaningUp' <=> CleaningUp) /\ TargetsIn(work)' = TargetsIn(work)
          /\ \A x : Doing(x)' <=> w # <<>> /\ Head(w).what = x
        BY <1>2, <1>3, <2>3, <2>6, NowIs
    <2>8. WorkOk'
        BY <1>4, <2>1, <2>4, <2>5, <2>7 DEF WorkOk, PagesOf
    <2>9. CountersOk'
        <3>1. dev.nErasedBlocks = Cardinality(InState(dev, "empty")) /\ dev.nFreeChunks = Usable(dev.state, dev.used)
            <4>1. ~Streaming /\ NChunks * 0 = 0
                BY <1>2, CheckpointAssumption DEF Streaming
            <4>2. /\ dev.nErasedBlocks = Cardinality(InState(dev, "empty")) + 0 /\ dev.nErasedBlocks \in Int
                  /\ dev.nFreeChunks = Usable(dev.state, dev.used) - 0 /\ dev.nFreeChunks \in Int
                BY <1>4, <2>2, <4>1 DEF CountersOk, DeviceTyped
            <4>3. Cardinality(InState(dev, "empty")) \in Int /\ Usable(dev.state, dev.used) \in Int
                <5>1. InState(dev, "empty") \in SUBSET Blocks /\ {c \in Blocks : dev.state[c] # "dead"} \in SUBSET Blocks
                      /\ dev.used \in SUBSET (Blocks \X Pages)
                    BY <1>4 DEF InState, DeviceTyped
                <5>2. \A n, m \in Nat : NChunks * n - m \in Int
                    BY CheckpointAssumption
                <5> QED BY <5>1, <5>2, BlocksFinite DEF Usable
            <4> QED BY <4>2, <4>3
        <3>2. dev'.nErasedBlocks + 0 = dev'.nErasedBlocks /\ dev'.nFreeChunks - 0 = dev'.nFreeChunks
            BY <1>4, <2>4 DEF DeviceTyped
        <3>3. /\ Checkpoints' = 0 /\ NChunks * 0 = 0
              /\ dev'.nErasedBlocks = Cardinality(InState(dev, "empty"))'
              /\ dev'.nFreeChunks = Usable(dev.state, dev.used)'
            BY <2>2, <2>4, <2>5, <3>1, CheckpointAssumption
        <3> QED BY <2>4, <3>2, <3>3 DEF CountersOk
    <2>10. StreamOk'
        <3>1. AllBegun'
            BY <2>1, <2>5 DEF AllBegun, InState
        <3>2. ~Doing("erasecheckpoint")'
            BY <2>6, <2>7
        <3>3. ASSUME Doing("page")' PROVE PagesOk'
            <4>1. w \in Pagings
                BY <2>6, <2>7, <3>3
            <4>2. ck.page = 0 /\ ck.currentBlock = NoBlock
                BY <1>1, <1>3, <1>4, <4>1 DEF StreamOk
            <4>3. ~CleaningUp
                BY <1>2, <1>3, <2>6, <4>1
            <4>4. \A c \in Blocks, p \in Pages : ~IsCk(flash, c, p)
                BY <1>4, <2>1, <4>3 DEF BlocksOk, HasCk, InState
            <4>5. \A c \in Blocks, p \in Pages : ~IsCk(flash', c, p)
                BY <2>3, <4>4
            <4>6. 0 < StreamPages
                BY CheckpointAssumption
            <4> QED BY <1>5, <3>1, <4>2, <4>5, <4>6 DEF PagesOk
        <3> QED BY <3>1, <3>2, <3>3 DEF StreamOk
    <2>11. Still
        BY <1>2, <1>5, <2>3, <2>4, <2>7 DEF Still, Bounded
    <2> QED BY <1>2, <2>4, <2>8, <2>9, <2>10, <2>11, StillOk
<1>9. CASE b # NoBlock
    <2>1. b \in InState(dev, "checkpoint")
        BY <1>6, <1>7, <1>9, LowestIs
    <2>2. b \in Blocks /\ dev.state[b] = "checkpoint" /\ MayGo(b)
        BY <1>2, <2>1, CheckpointMayGo
    <2>3. PICK s \in {"empty", "dead"} :
              /\ Wipes(flash, flash', b, IF s = "empty" THEN Erased ELSE Torn)
              /\ bad' = IF s = "empty" THEN bad ELSE bad \cup {b}
              /\ faults' \in 0 .. MaxFaults
              /\ IF s = "empty"
                 THEN dev' = [dev EXCEPT !.state[b] = "empty", !.nErasedBlocks = @ + 1,
                                         !.nFreeChunks = @ + NChunks]
                 ELSE dev' = [dev EXCEPT !.state[b] = "dead"]
        <3>1. CASE /\ Erase(b)
                   /\ dev' = [dev EXCEPT !.state[b] = "empty", !.nErasedBlocks = @ + 1,
                                         !.nFreeChunks = @ + NChunks]
            <4>1. Wipes(flash, flash', b, Erased)
                BY <1>2, <2>2, <3>1, WipeIs DEF Erase, FlashOk
            <4>2. bad' = bad /\ faults' \in 0 .. MaxFaults
                BY <1>2, <3>1 DEF Erase, Bounded
            <4> QED BY <3>1, <4>1, <4>2
        <3>2. CASE EraseFails(b) /\ dev' = [dev EXCEPT !.state[b] = "dead"]
            <4>1. flash' = [flash EXCEPT ![b] = TornBlock] /\ bad' = bad \cup {b}
                BY <3>2 DEF EraseFails
            <4>2. Wipes(flash, flash', b, Torn)
                BY <1>2, <2>2, <4>1, WipeIs DEF FlashOk
            <4>3. faults' \in 0 .. MaxFaults
                BY <1>2, <3>2, CheckpointAssumption DEF EraseFails, Fault, Bounded
            <4>4. "dead" # "empty"
                OBVIOUS
            <4> QED BY <3>2, <4>1, <4>2, <4>3, <4>4
        <3> QED BY <1>6, <1>9, <3>1, <3>2 DEF EraseCheckpoint
    <2>4. work' = work
        BY <1>6, <1>9 DEF EraseCheckpoint
    <2>5. /\ Ordered(work)' /\ (CleaningUp' <=> CleaningUp) /\ TargetsIn(work)' = TargetsIn(work)
          /\ \A x : Doing(x)' <=> Doing(x)
          /\ Tail(work)' = Tail(work)
        BY <1>2, <2>4 DEF CleaningUp, Doing, Ordered, CleaningIn, TargetsIn
    <2>6. /\ dev'.state = [dev.state EXCEPT ![b] = s] /\ dev'.used = dev.used
          /\ dev'.allocationBlock = dev.allocationBlock /\ dev'.allocationPage = dev.allocationPage
          /\ dev'.nErasedBlocks = IF s = "empty" THEN dev.nErasedBlocks + 1 ELSE dev.nErasedBlocks
          /\ dev'.nFreeChunks = IF s = "empty" THEN dev.nFreeChunks + NChunks ELSE dev.nFreeChunks
          /\ DeviceTyped'
        <3>1. s \in States /\ dev.state \in [Blocks -> States]
              /\ dev.nErasedBlocks + 1 \in Int /\ dev.nFreeChunks + NChunks \in Int
            BY <1>4, CheckpointAssumption DEF States, DeviceTyped
        <3>2. [dev.state EXCEPT ![b] = s] \in [Blocks -> States]
            BY <3>1
        <3>3. CASE s = "empty"
            BY <1>4, <1>5, <2>3, <3>1, <3>2, <3>3 DEF DeviceTyped
        <3>4. CASE s = "dead"
            <4>1. dev' = [dev EXCEPT !.state[b] = "dead"]
                BY <2>3, <3>4
            <4> QED BY <1>4, <1>5, <3>1, <3>2, <3>4, <4>1 DEF DeviceTyped
        <3> QED BY <3>3, <3>4
    <2>7. /\ FlashOk' /\ (dev.used = Live(flash))' /\ BlocksOk' /\ AllocationOk' /\ ~Complete(flash')
          /\ \A v \in States :
                 Cardinality(InState(dev, v)') = Cardinality(InState(dev, v))
                     - (IF dev.state[b] = v THEN 1 ELSE 0) + (IF s = v THEN 1 ELSE 0)
          /\ Usable(dev.state, dev.used)' =
                 IF s = "empty" THEN Usable(dev.state, dev.used) ELSE Usable(dev.state, dev.used) - NChunks
        BY <1>2, <1>5, <2>2, <2>3, <2>5, <2>6, ErasedDevice
    <2>8. CountersOk'
        <3>1. ~Streaming /\ ~Streaming' /\ Doing("erasecheckpoint")'
            BY <1>1, <1>2, <2>5 DEF Streaming
        <3>2. /\ Cardinality(InState(dev, "empty")') = Cardinality(InState(dev, "empty")) + (IF s = "empty" THEN 1 ELSE 0)
              /\ Checkpoints' = Checkpoints - 1
            <4>1. /\ Cardinality(InState(dev, "empty")') = Cardinality(InState(dev, "empty"))
                         - (IF dev.state[b] = "empty" THEN 1 ELSE 0) + (IF s = "empty" THEN 1 ELSE 0)
                  /\ Cardinality(InState(dev, "checkpoint")') = Cardinality(InState(dev, "checkpoint"))
                         - (IF dev.state[b] = "checkpoint" THEN 1 ELSE 0) + (IF s = "checkpoint" THEN 1 ELSE 0)
                BY <2>7 DEF States
            <4>2. Cardinality(InState(dev, "empty")) \in Nat /\ Cardinality(InState(dev, "checkpoint")) \in Nat
                BY BlocksFinite DEF InState
            <4> QED BY <2>2, <4>1, <4>2 DEF Checkpoints
        <3>3. Checkpoints \in Nat /\ NChunks \in Nat /\ Cardinality(InState(dev, "empty")) \in Nat
              /\ Usable(dev.state, dev.used) \in Int
            <4>1. Cardinality(InState(dev, "empty")) \in Nat /\ Cardinality(InState(dev, "checkpoint")) \in Nat
                BY BlocksFinite DEF InState
            <4>2. Cardinality(dev.used) \in Nat /\ Cardinality({c \in Blocks : dev.state[c] # "dead"}) \in Nat
                BY <1>4, BlocksFinite DEF DeviceTyped
            <4>3. \A n, m \in Nat : NChunks * n - m \in Int
                BY CheckpointAssumption
            <4> QED BY <4>1, <4>2, <4>3, CheckpointAssumption DEF Checkpoints, Usable
        <3>4. NChunks * (Checkpoints - 1) = NChunks * Checkpoints - NChunks /\ NChunks * Checkpoints \in Int
            BY <3>3
        <3>5. /\ dev.nErasedBlocks = Cardinality(InState(dev, "empty")) + 0
              /\ dev.nFreeChunks = Usable(dev.state, dev.used) - NChunks * Checkpoints
            BY <1>4, <3>1 DEF CountersOk
        <3>6. /\ dev'.nErasedBlocks = Cardinality(InState(dev, "empty")') + 0
              /\ dev'.nFreeChunks = Usable(dev.state, dev.used)' - NChunks * Checkpoints'
            <4>1. CASE s = "empty"
                <5>1. /\ dev'.nErasedBlocks = dev.nErasedBlocks + 1 /\ dev'.nFreeChunks = dev.nFreeChunks + NChunks
                      /\ Usable(dev.state, dev.used)' = Usable(dev.state, dev.used)
                      /\ Cardinality(InState(dev, "empty")') = Cardinality(InState(dev, "empty")) + 1
                    BY <2>6, <2>7, <3>2, <4>1
                <5> QED BY <3>2, <3>3, <3>4, <3>5, <5>1
            <4>2. CASE s = "dead"
                <5>1. /\ dev'.nErasedBlocks = dev.nErasedBlocks /\ dev'.nFreeChunks = dev.nFreeChunks
                      /\ Usable(dev.state, dev.used)' = Usable(dev.state, dev.used) - NChunks
                      /\ Cardinality(InState(dev, "empty")') = Cardinality(InState(dev, "empty")) + 0
                    BY <2>6, <2>7, <3>2, <4>2
                <5> QED BY <3>2, <3>3, <3>4, <3>5, <5>1
            <4> QED BY <4>1, <4>2
        <3> QED BY <3>1, <3>6 DEF CountersOk
    <2>9. WorkOk'
        <3>1. \A c \in TargetsIn(work) : c \in Blocks /\ dev.state[c] = "full" /\ PagesOf(dev.used, c) = {}
            BY <1>4 DEF WorkOk
        <3>2. \A c \in TargetsIn(work) : c # b /\ dev'.state[c] = "full"
            <4>1. dev.state \in [Blocks -> States]
                BY <1>4 DEF DeviceTyped
            <4> QED BY <2>2, <2>6, <3>1, <4>1
        <3>3. \A x : Doing(x)' => x = "erasecheckpoint"
            BY <1>2, <2>5
        <3> QED BY <2>5, <2>6, <3>1, <3>2, <3>3 DEF WorkOk, PagesOf
    <2>10. StreamOk'
        BY <1>2, <1>4, <1>5, <2>5, <2>7 DEF StreamOk
    <2>11. Bounded' /\ mounted'
        BY <1>2, <1>5, <2>3 DEF Bounded
    <2> QED BY <2>6, <2>7, <2>8, <2>9, <2>10, <2>11 DEF IInv, DeviceOk
<1> QED BY <1>8, <1>9

\* The counts are numbers.
LEMMA CountsAreNumbers ==
    ASSUME DeviceTyped
    PROVE  /\ Checkpoints \in Nat /\ \A w : Cardinality(InState(dev, w)) \in Nat
           /\ Usable(dev.state, dev.used) \in Int /\ NChunks \in Nat
           /\ \A n \in Int : NChunks * n \in Int /\ NChunks * (n - 1) = NChunks * n - NChunks
                             /\ NChunks * (n + 1) = NChunks * n + NChunks
           /\ NChunks * 0 = 0
<1>1. \A w : InState(dev, w) \in SUBSET Blocks
    BY DEF InState
<1>2. \A w : Cardinality(InState(dev, w)) \in Nat
    BY <1>1, BlocksFinite
<1>3. Cardinality(dev.used) \in Nat /\ Cardinality({c \in Blocks : dev.state[c] # "dead"}) \in Nat
    BY BlocksFinite DEF DeviceTyped
<1>4. NChunks \in Nat
    BY CheckpointAssumption
<1>5. \A n, m \in Nat : NChunks * n - m \in Int
    BY <1>4
<1>6. Usable(dev.state, dev.used) \in Int
    BY <1>3, <1>5 DEF Usable
<1>7. \A n \in Int : NChunks * n \in Int /\ NChunks * (n - 1) = NChunks * n - NChunks
                     /\ NChunks * (n + 1) = NChunks * n + NChunks
    BY <1>4
<1>8. NChunks * 0 = 0
    BY <1>4
<1> QED BY <1>2, <1>4, <1>6, <1>7, <1>8 DEF Checkpoints

\* A block that is erased is full of deleted chunks, and there is no checkpoint
\* that could still call it full.
LEMMA EraseBlockKeeps == IInv /\ EraseBlock /\ ~BadKeepsData => IInv'
<1> SUFFICES ASSUME IInv, EraseBlock, ~BadKeepsData PROVE IInv'
    OBVIOUS
<1>1. Doing("erase")
    BY DEF EraseBlock
<1>2. PICK b : b = Head(work).x
    OBVIOUS
<1>3. /\ mounted /\ DeviceOk /\ FlashOk /\ Bounded
      /\ b \in Blocks /\ Tail(work) \in Scans
      /\ (CleaningUp <=> CleaningIn(Tail(work))) /\ b \in TargetsIn(work)
      /\ \A y : Doing(y) => y = "erase"
    <2>1. Follows(Head(work), Tail(work)) /\ Head(work).what = "erase"
        BY <1>1, DoingIs
    <2>2. Tail(work) \in Scans /\ b \in Blocks
        BY <1>2, <2>1 DEF Follows
    <2> QED BY <1>1, <1>2, <2>2, DoingIs
<1>4. DeviceTyped /\ CountersOk /\ WorkOk /\ StreamOk
    BY <1>3 DEF DeviceOk
<1>5. dev.state[b] = "full" /\ PagesOf(dev.used, b) = {} /\ InState(dev, "checkpoint") = {}
    <2>1. \A c \in TargetsIn(work) : dev.state[c] = "full" /\ PagesOf(dev.used, c) = {}
        BY <1>4 DEF WorkOk
    <2> QED BY <1>1, <1>3, <1>4, <2>1 DEF WorkOk
<1>6. MayGo(b)
    BY <1>3, <1>5, TargetMayGo
<1>7. UNCHANGED <<ck, mounted, clock, requests, crashes>> /\ work' = Tail(work)
    BY DEF EraseBlock, Done
<1>8. PICK s \in {"empty", "dead"} :
          /\ Wipes(flash, flash', b, IF s = "empty" THEN Erased ELSE Torn)
          /\ bad' = IF s = "empty" THEN bad ELSE bad \cup {b}
          /\ faults' \in 0 .. MaxFaults
          /\ IF s = "empty"
             THEN dev' = [dev EXCEPT !.state[b] = "empty", !.nErasedBlocks = @ + 1]
             ELSE dev' = [dev EXCEPT !.state[b] = "dead", !.nFreeChunks = @ - NChunks]
    <2>1. CASE Erase(b) /\ dev' = [dev EXCEPT !.state[b] = "empty", !.nErasedBlocks = @ + 1]
        <3>1. Wipes(flash, flash', b, Erased)
            BY <1>3, <2>1, WipeIs DEF Erase, FlashOk
        <3>2. bad' = bad /\ faults' \in 0 .. MaxFaults
            BY <1>3, <2>1 DEF Erase, Bounded
        <3> QED BY <2>1, <3>1, <3>2
    <2>2. CASE EraseFails(b) /\ dev' = [dev EXCEPT !.state[b] = "dead", !.nFreeChunks = @ - NChunks]
        <3>1. flash' = [flash EXCEPT ![b] = TornBlock] /\ bad' = bad \cup {b}
            BY <2>2 DEF EraseFails
        <3>2. Wipes(flash, flash', b, Torn)
            BY <1>3, <3>1, WipeIs DEF FlashOk
        <3>3. faults' \in 0 .. MaxFaults
            BY <1>3, <2>2, CheckpointAssumption DEF EraseFails, Fault, Bounded
        <3>4. "dead" # "empty"
            OBVIOUS
        <3> QED BY <2>2, <3>1, <3>2, <3>3, <3>4
    <2> QED BY <1>2, <2>1, <2>2 DEF EraseBlock
<1>9. /\ Ordered(work)' /\ (CleaningUp' <=> CleaningUp) /\ TargetsIn(work)' = {}
      /\ \A x : Doing(x)' => x = "cleanup"
    <2>1. PICK w : w = Tail(work)
        OBVIOUS
    <2>2. /\ Ordered(w) /\ TargetsIn(w) = {} /\ (w # <<>> => Head(w).what = "cleanup")
        BY <1>3, <2>1, ScanOrdered
    <2> QED BY <1>3, <1>7, <2>1, <2>2, NowIs
<1>10. /\ dev'.state = [dev.state EXCEPT ![b] = s] /\ dev'.used = dev.used
       /\ dev'.allocationBlock = dev.allocationBlock /\ dev'.allocationPage = dev.allocationPage
       /\ dev'.nErasedBlocks = IF s = "empty" THEN dev.nErasedBlocks + 1 ELSE dev.nErasedBlocks
       /\ dev'.nFreeChunks = IF s = "empty" THEN dev.nFreeChunks ELSE dev.nFreeChunks - NChunks
       /\ dev'.blocksInCheckpoint = dev.blocksInCheckpoint
       /\ DeviceTyped'
    <2>1. s \in States /\ dev.state \in [Blocks -> States]
          /\ dev.nErasedBlocks + 1 \in Int /\ dev.nFreeChunks - NChunks \in Int
        BY <1>4, CheckpointAssumption DEF States, DeviceTyped
    <2>2. [dev.state EXCEPT ![b] = s] \in [Blocks -> States]
        BY <2>1
    <2>3. CASE s = "empty"
        BY <1>4, <1>7, <1>8, <2>1, <2>2, <2>3 DEF DeviceTyped
    <2>4. CASE s = "dead"
        <3>1. dev' = [dev EXCEPT !.state[b] = "dead", !.nFreeChunks = @ - NChunks]
            BY <1>8, <2>4
        <3> QED BY <1>4, <1>7, <2>1, <2>2, <2>4, <3>1 DEF DeviceTyped
    <2> QED BY <2>3, <2>4
<1>11. /\ FlashOk' /\ (dev.used = Live(flash))' /\ BlocksOk' /\ AllocationOk' /\ ~Complete(flash')
       /\ \A v \in States :
              Cardinality(InState(dev, v)') = Cardinality(InState(dev, v))
                  - (IF dev.state[b] = v THEN 1 ELSE 0) + (IF s = v THEN 1 ELSE 0)
       /\ Usable(dev.state, dev.used)' =
              IF s = "empty" THEN Usable(dev.state, dev.used) ELSE Usable(dev.state, dev.used) - NChunks
    BY <1>3, <1>5, <1>6, <1>7, <1>8, <1>9, <1>10, ErasedDevice
<1>12. CountersOk'
    <2>1. ~Streaming /\ ~Streaming' /\ ~Doing("erasecheckpoint")
        BY <1>3, <1>9 DEF Streaming
    <2>2. /\ Checkpoints \in Nat /\ \A w : Cardinality(InState(dev, w)) \in Nat
          /\ Usable(dev.state, dev.used) \in Int /\ NChunks \in Nat
          /\ \A n \in Int : NChunks * n \in Int
        BY <1>4, CountsAreNumbers
    <2>3. /\ Cardinality(InState(dev, "empty")') = Cardinality(InState(dev, "empty")) + (IF s = "empty" THEN 1 ELSE 0)
          /\ Checkpoints' = Checkpoints
        <3>1. /\ Cardinality(InState(dev, "empty")') = Cardinality(InState(dev, "empty"))
                     - (IF dev.state[b] = "empty" THEN 1 ELSE 0) + (IF s = "empty" THEN 1 ELSE 0)
              /\ Cardinality(InState(dev, "checkpoint")') = Cardinality(InState(dev, "checkpoint"))
                     - (IF dev.state[b] = "checkpoint" THEN 1 ELSE 0) + (IF s = "checkpoint" THEN 1 ELSE 0)
            BY <1>11 DEF States
        <3>2. Cardinality(InState(dev, "empty")) \in Nat /\ Cardinality(InState(dev, "checkpoint")) \in Nat
            BY <2>2
        <3> QED BY <1>5, <3>1, <3>2 DEF Checkpoints
    <2>4. /\ dev.nErasedBlocks = Cardinality(InState(dev, "empty")) + 0
          /\ dev.nFreeChunks = Usable(dev.state, dev.used) - NChunks * Checkpoints
          /\ dev.blocksInCheckpoint = Checkpoints
        BY <1>4, <2>1 DEF CountersOk
    <2>5. NChunks * Checkpoints \in Int /\ Cardinality(InState(dev, "empty")) \in Nat
        BY <2>2
    <2>6. /\ dev'.nErasedBlocks = Cardinality(InState(dev, "empty")') + 0
          /\ dev'.nFreeChunks = Usable(dev.state, dev.used)' - NChunks * Checkpoints'
        <3>1. CASE s = "empty"
            <4>1. /\ dev'.nErasedBlocks = dev.nErasedBlocks + 1 /\ dev'.nFreeChunks = dev.nFreeChunks
                  /\ Usable(dev.state, dev.used)' = Usable(dev.state, dev.used)
                  /\ Cardinality(InState(dev, "empty")') = Cardinality(InState(dev, "empty")) + 1
                BY <1>10, <1>11, <2>3, <3>1
            <4> QED BY <2>2, <2>3, <2>4, <2>5, <4>1
        <3>2. CASE s = "dead"
            <4>1. /\ dev'.nErasedBlocks = dev.nErasedBlocks /\ dev'.nFreeChunks = dev.nFreeChunks - NChunks
                  /\ Usable(dev.state, dev.used)' = Usable(dev.state, dev.used) - NChunks
                  /\ Cardinality(InState(dev, "empty")') = Cardinality(InState(dev, "empty")) + 0
                BY <1>10, <1>11, <2>3, <3>2
            <4> QED BY <2>2, <2>3, <2>4, <2>5, <4>1
        <3> QED BY <3>1, <3>2
    <2> QED BY <1>10, <2>1, <2>3, <2>4, <2>6 DEF CountersOk
<1>13. WorkOk'
    BY <1>9 DEF WorkOk
<1>14. StreamOk'
    <2>1. ~Doing("page")' /\ ~Doing("erasecheckpoint")'
        BY <1>9
    <2> QED BY <1>11, <2>1 DEF StreamOk
<1>15. Bounded' /\ mounted'
    BY <1>3, <1>7, <1>8 DEF Bounded
<1> QED BY <1>10, <1>11, <1>12, <1>13, <1>14, <1>15 DEF IInv, DeviceOk

(***************************************************************************)
(* Steps that only go on with the list.                                    *)
(***************************************************************************)
\* The device and the stream are as they were.
LEMMA SameDevice ==
    ASSUME IInv, mounted, Still, dev' = dev, ck' = ck, WorkOk',
           ~Doing("page")', ~Doing("erasecheckpoint")', ~Doing("page"), ~Doing("erasecheckpoint"),
           (Streaming' <=> Streaming) \/ Checkpoints = 0
    PROVE  IInv'
<1>1. DeviceTyped /\ CountersOk /\ StreamOk
    BY DEF IInv, DeviceOk
<1>2. DeviceTyped'
    BY <1>1 DEF DeviceTyped
<1>3. Checkpoints' = Checkpoints
      /\ Cardinality(InState(dev, "empty"))' = Cardinality(InState(dev, "empty"))
      /\ Usable(dev.state, dev.used)' = Usable(dev.state, dev.used)
    BY DEF Checkpoints, InState, Usable
<1>4. CountersOk'
    <2>1. CASE Streaming' <=> Streaming
        BY <1>1, <1>3, <2>1 DEF CountersOk
    <2>2. CASE Checkpoints = 0
        <3>1. NChunks * 0 = 0 /\ Cardinality(InState(dev, "empty")) \in Nat
              /\ Usable(dev.state, dev.used) \in Int
            BY <1>1, CountsAreNumbers
        <3>2. dev.nErasedBlocks = Cardinality(InState(dev, "empty")) + 0
              /\ dev.nFreeChunks = Usable(dev.state, dev.used) - 0
            BY <1>1, <2>2, <3>1 DEF CountersOk
        <3>3. dev'.nErasedBlocks = Cardinality(InState(dev, "empty"))' + 0
              /\ dev'.nFreeChunks = Usable(dev.state, dev.used)' - 0
            BY <1>3, <3>2
        <3> QED BY <1>1, <1>3, <2>2, <3>1, <3>3 DEF CountersOk
    <2> QED BY <2>1, <2>2
<1>5. flash' = flash
    BY DEF Still
<1>6. StreamOk'
    BY <1>1, <1>5 DEF StreamOk, AllBegun, IsCheckpoint, Complete, Present, IsCk
<1> QED BY <1>2, <1>4, <1>6, StillOk

\* The checkpoint is invalidated before a block is erased.
LEMMA BecameDirtyKeeps == IInv /\ BecameDirty => IInv'
<1> SUFFICES ASSUME IInv, BecameDirty PROVE IInv'
    OBVIOUS
<1>1. Doing("dirty")
    BY DEF BecameDirty
<1>2. PICK b : b = Head(work).x
    OBVIOUS
<1>3. PICK w : w = Tail(work)
    OBVIOUS
<1>4. /\ mounted /\ DeviceOk /\ Bounded /\ b \in Blocks /\ w \in Scans
      /\ (CleaningUp <=> CleaningIn(w)) /\ TargetsIn(work) = TargetsIn(w) \cup {b}
      /\ \A y : Doing(y) => y = "dirty"
    <2>1. Follows(Head(work), Tail(work)) /\ Head(work).what = "dirty"
        BY <1>1, DoingIs
    <2>2. w \in Scans /\ b \in Blocks
        BY <1>2, <1>3, <2>1 DEF Follows
    <2> QED BY <1>1, <1>2, <1>3, <2>2, DoingIs
<1>5. w \in Seq(Tasks) /\ TargetsIn(w) = {}
    BY <1>4, ScanOrdered
<1>6. Task("erase", b) \in Tasks /\ Task("erase", b).what = "erase" /\ Task("erase", b).x = b
      /\ Invalidate \in Tasks /\ Invalidate.what = "invalidate"
    BY <1>4, TaskIs DEF Invalidate, Task
<1>7. PICK u : u = Put(Task("erase", b), w)
    OBVIOUS
<1>8. u \in Changes /\ u \in Seq(Tasks) /\ (CleaningIn(u) <=> CleaningIn(w)) /\ TargetsIn(u) = {b}
    <2>1. u \in Changes
        BY <1>4, <1>7 DEF Changes
    <2>2. (CleaningIn(u) <=> CleaningIn(w)) /\ TargetsIn(u) = TargetsIn(w) \cup {b}
        BY <1>5, <1>6, <1>7, TasksIn
    <2> QED BY <1>5, <2>1, <2>2, ChangeOrdered
<1>9. work' = Put(Invalidate, u) /\ UNCHANGED <<flash, bad, dev, ck, mounted, clock, bounds>>
    <2>1. work' = <<Invalidate, Task("erase", b)>> \o w
        BY <1>2, <1>3 DEF BecameDirty, Then
    <2> QED BY <1>5, <1>6, <1>7, <2>1, ListsAre DEF BecameDirty
<1>10. /\ Ordered(Put(Invalidate, u)) /\ Put(Invalidate, u) # <<>> /\ Head(Put(Invalidate, u)) = Invalidate
       /\ (CleaningIn(Put(Invalidate, u)) <=> CleaningIn(u)) /\ TargetsIn(Put(Invalidate, u)) = TargetsIn(u)
    <2>1. Follows(Invalidate, u)
        BY <1>6, <1>8 DEF Follows
    <2> QED BY <1>6, <1>8, <2>1, PutOrdered, PutTask, TasksIn
<1>11. /\ Ordered(work)' /\ (CleaningUp' <=> CleaningUp) /\ TargetsIn(work)' = TargetsIn(work)
       /\ \A x : Doing(x)' <=> x = "invalidate"
    BY <1>4, <1>5, <1>6, <1>8, <1>9, <1>10, NowIs
<1>12. WorkOk'
    BY <1>4, <1>9, <1>11 DEF DeviceOk, WorkOk
<1>13. Still
    BY <1>4, <1>9, <1>11 DEF Still, bounds, Bounded
<1>14. ~Streaming' /\ ~Streaming /\ ~Doing("page")' /\ ~Doing("erasecheckpoint")'
       /\ ~Doing("page") /\ ~Doing("erasecheckpoint")
    BY <1>4, <1>11 DEF Streaming
<1> QED BY <1>4, <1>9, <1>12, <1>13, <1>14, SameDevice

\* Nothing follows a write.
LEMMA LastIs ==
    ASSUME NEW a, NEW w, Follows(a, w), a.what \in {"unmount", "write", "bug"}
    PROVE  w = <<>>
BY DEF Follows

\* A write that finds no space changes nothing.
LEMMA NoSpaceKeeps == IInv /\ NoSpace => IInv'
<1> SUFFICES ASSUME IInv, NoSpace PROVE IInv'
    OBVIOUS
<1>1. Doing("write")
    BY DEF NoSpace
<1>2. PICK w : w = Tail(work)
    OBVIOUS
<1>3. /\ mounted /\ DeviceOk /\ Bounded /\ w = <<>>
      /\ (CleaningUp <=> CleaningIn(w)) /\ TargetsIn(work) = TargetsIn(w)
      /\ \A y : Doing(y) => y = "write"
    <2>1. Follows(Head(work), w) /\ Head(work).what \in {"unmount", "write", "bug"}
        BY <1>1, <1>2, DoingIs
    <2>2. w = <<>>
        BY <2>1, LastIs
    <2> QED BY <1>1, <1>2, <2>2, DoingIs
<1>9. work' = w /\ UNCHANGED <<flash, bad, dev, ck, mounted, clock, bounds>>
    BY <1>2 DEF NoSpace, Done
<1>4. Ordered(w)
    BY <1>3, TaskIs DEF Ordered
<1>5. Ordered(work)' /\ (CleaningUp' <=> CleaningUp) /\ TargetsIn(work)' = TargetsIn(work) /\ \A x : ~Doing(x)'
    BY <1>3, <1>4, <1>9, NowIs
<1>6. WorkOk'
    BY <1>3, <1>5, <1>9 DEF DeviceOk, WorkOk
<1>7. Still
    BY <1>3, <1>5, <1>9 DEF Still, bounds, Bounded
<1>8. ~Streaming' /\ ~Streaming /\ ~Doing("page")' /\ ~Doing("erasecheckpoint")'
      /\ ~Doing("page") /\ ~Doing("erasecheckpoint")
    BY <1>3, <1>5 DEF Streaming
<1> QED BY <1>3, <1>6, <1>7, <1>8, <1>9, SameDevice

\* The stream is closed next.
LEMMA CloseOrdered ==
    ASSUME NEW e \in Ends, NEW x \in BOOLEAN, NEW w, w = Put(Task("close", x), e)
    PROVE  /\ w \in Seq(Tasks) /\ Ordered(w) /\ w # <<>> /\ Head(w) = Task("close", x)
           /\ Head(w).what = "close" /\ ~CleaningIn(w) /\ TargetsIn(w) = {}
<1>1. Task("close", x) \in Tasks /\ Task("close", x).what = "close" /\ Task("close", x).x = x
    BY TaskIs
<1>2. e \in Seq(Tasks) /\ ~CleaningIn(e) /\ TargetsIn(e) = {}
    BY EndOrdered
<1>3. Follows(Task("close", x), e)
    BY DEF Follows, Task
<1>4. ~CleaningIn(w) /\ TargetsIn(w) = {}
    BY <1>1, <1>2, TasksIn
<1> QED BY <1>1, <1>2, <1>3, <1>4, PutOrdered, PutTask

\* Nothing is programmed for what an earlier stream has left.
LEMMA FlushLeftKeeps == IInv /\ FlushLeft => IInv'
<1> SUFFICES ASSUME IInv, FlushLeft PROVE IInv'
    OBVIOUS
<1>1. Doing("flush")
    BY DEF FlushLeft
<1>2. PICK e \in Ends : Tail(work) = Put(Task("close", FALSE), e)
    <2>1. Follows(Head(work), Tail(work)) /\ Head(work).what = "flush"
        BY <1>1, DoingIs
    <2> QED BY <2>1 DEF Follows
<1>3. PICK w : w = Tail(work)
    OBVIOUS
<1>4. /\ mounted /\ DeviceOk /\ Bounded
      /\ (CleaningUp <=> CleaningIn(w)) /\ TargetsIn(work) = TargetsIn(w)
      /\ \A y : Doing(y) => y = "flush"
    BY <1>1, <1>3, DoingIs
<1>5. /\ w \in Seq(Tasks) /\ Ordered(w) /\ w # <<>> /\ Head(w).what = "close"
      /\ ~CleaningIn(w) /\ TargetsIn(w) = {}
    BY <1>2, <1>3, CloseOrdered
<1>6. InState(dev, "checkpoint") = {}
    BY <1>1, <1>4 DEF DeviceOk, WorkOk
<1>7. Checkpoints = 0
    <2>1. InState(dev, "checkpoint") \in SUBSET Blocks
        BY DEF InState
    <2> QED BY <1>6, <2>1, BlocksFinite DEF Checkpoints
<1>8. UNCHANGED <<flash, bad, dev, ck, mounted, clock, bounds>>
    BY DEF FlushLeft
<1>9. /\ Ordered(work)' /\ ~CleaningUp' /\ TargetsIn(work)' = {}
      /\ \A x : Doing(x)' => x \in {"close", "bug"}
    <2>1. CASE work' = w
        BY <1>5, <2>1, NowIs
    <2>2. CASE work' = <<Task("bug", 0)>>
        <3>1. Task("bug", 0) \in Tasks /\ Task("bug", 0).what = "bug" /\ <<>> \in Seq(Tasks)
            BY TaskIs
        <3>2. PICK u : u = Put(Task("bug", 0), <<>>)
            OBVIOUS
        <3>3. work' = u
            BY <2>2, <3>1, <3>2, ListsAre
        <3>4. Follows(Task("bug", 0), <<>>)
            BY DEF Follows, Task
        <3>5. Ordered(u) /\ Head(u) = Task("bug", 0) /\ ~CleaningIn(u) /\ TargetsIn(u) = {}
            BY <3>1, <3>2, <3>4, PutOrdered, PutTask, TasksIn, NoTasks
        <3> QED BY <3>1, <3>3, <3>5, NowIs
    <2> QED BY <1>3, <2>1, <2>2 DEF FlushLeft, Done
<1>10. WorkOk'
    BY <1>6, <1>8, <1>9 DEF WorkOk
<1>11. Still
    BY <1>4, <1>5, <1>8, <1>9 DEF Still, bounds, Bounded
<1>12. ~Doing("page")' /\ ~Doing("erasecheckpoint")' /\ ~Doing("page") /\ ~Doing("erasecheckpoint")
    BY <1>4, <1>9
<1> QED BY <1>4, <1>7, <1>8, <1>10, <1>11, <1>12, SameDevice

\* Closing the stream subtracts the blocks it has taken from both counters.
LEMMA CloseKeeps == IInv /\ Close => IInv'
<1> SUFFICES ASSUME IInv, Close PROVE IInv'
    OBVIOUS
<1>1. Doing("close")
    BY DEF Close
<1>2. PICK w : w = Tail(work)
    OBVIOUS
<1>3. PICK x : x = Head(work).x
    OBVIOUS
<1>4. /\ mounted /\ DeviceOk /\ Bounded /\ w \in Ends /\ x \in BOOLEAN
      /\ (CleaningUp <=> CleaningIn(w)) /\ TargetsIn(work) = TargetsIn(w)
      /\ \A y : Doing(y) => y = "close"
    <2>1. Follows(Head(work), Tail(work)) /\ Head(work).what = "close"
        BY <1>1, DoingIs
    <2>2. Tail(work) \in Ends /\ Head(work).x \in BOOLEAN
        BY <2>1 DEF Follows
    <2> QED BY <1>1, <1>2, <1>3, <2>2, DoingIs
<1>5. Ordered(w) /\ ~CleaningIn(w) /\ TargetsIn(w) = {} /\ (w # <<>> => Head(w).what = "unmount")
    BY <1>4, EndOrdered
<1>6. /\ work' = w /\ UNCHANGED <<flash, bad, mounted, clock, bounds>>
      /\ dev' = [Closed(dev) EXCEPT !.isCheckpointed = x] /\ ck' = [ck EXCEPT !.buffer = FALSE]
    BY <1>2, <1>3 DEF Close, Done
<1>7. DeviceTyped /\ CountersOk /\ StreamOk
    BY <1>4 DEF DeviceOk
<1>8. /\ Checkpoints \in Nat /\ Cardinality(InState(dev, "empty")) \in Nat
      /\ Usable(dev.state, dev.used) \in Int /\ NChunks \in Nat /\ NChunks * Checkpoints \in Int
    <2>1. /\ Checkpoints \in Nat /\ Cardinality(InState(dev, "empty")) \in Nat
          /\ Usable(dev.state, dev.used) \in Int /\ NChunks \in Nat
        BY <1>7, CountsAreNumbers
    <2> QED BY <2>1
<1>9. /\ dev.nErasedBlocks = Cardinality(InState(dev, "empty")) + Checkpoints
      /\ dev.nFreeChunks = Usable(dev.state, dev.used) - 0 /\ dev.blocksInCheckpoint = Checkpoints
    <2>1. Streaming /\ ~Doing("erasecheckpoint")
        BY <1>1, <1>4 DEF Streaming
    <2> QED BY <1>7, <2>1 DEF CountersOk
<1>10. /\ dev'.state = dev.state /\ dev'.used = dev.used
       /\ dev'.allocationBlock = dev.allocationBlock /\ dev'.allocationPage = dev.allocationPage
       /\ dev'.nErasedBlocks = dev.nErasedBlocks - dev.blocksInCheckpoint
       /\ dev'.nFreeChunks = dev.nFreeChunks - dev.blocksInCheckpoint * NChunks
       /\ dev'.blocksInCheckpoint = dev.blocksInCheckpoint
       /\ DeviceTyped'
    <2>1. dev.nErasedBlocks - dev.blocksInCheckpoint \in Int
          /\ dev.nFreeChunks - dev.blocksInCheckpoint * NChunks \in Int
        BY <1>7, <1>8 DEF DeviceTyped
    <2> QED BY <1>4, <1>6, <1>7, <2>1 DEF DeviceTyped, Closed
<1>11. Checkpoints' = Checkpoints
       /\ Cardinality(InState(dev, "empty"))' = Cardinality(InState(dev, "empty"))
       /\ Usable(dev.state, dev.used)' = Usable(dev.state, dev.used)
    BY <1>10 DEF Checkpoints, InState, Usable
<1>12. /\ Ordered(work)' /\ ~CleaningUp' /\ TargetsIn(work)' = {}
       /\ \A y : Doing(y)' => y = "unmount"
    BY <1>5, <1>6, NowIs
<1>13. CountersOk'
    <2>1. ~Streaming'
        BY <1>12 DEF Streaming
    <2>2. /\ dev'.nErasedBlocks = Cardinality(InState(dev, "empty"))' + 0
          /\ dev'.nFreeChunks = Usable(dev.state, dev.used)' - NChunks * Checkpoints'
        BY <1>8, <1>9, <1>10, <1>11
    <2> QED BY <1>9, <1>10, <1>11, <2>1, <2>2 DEF CountersOk
<1>14. WorkOk'
    BY <1>12 DEF WorkOk
<1>15. StreamOk'
    <2>1. Complete(flash) => AllBegun
        BY <1>4, <1>7 DEF StreamOk
    <2>2. Complete(flash') => AllBegun'
        BY <1>6, <1>10, <2>1 DEF AllBegun, IsCheckpoint, Complete, Present, IsCk
    <2>3. ~Doing("page")' /\ ~Doing("erasecheckpoint")'
        BY <1>12
    <2> QED BY <2>2, <2>3 DEF StreamOk
<1>16. Still
    BY <1>4, <1>5, <1>6, <1>10, <1>12 DEF Still, bounds, Bounded
<1> QED BY <1>4, <1>10, <1>13, <1>14, <1>15, <1>16, StillOk

\* The stream starts with no block of a checkpoint left.
LEMMA OpenKeeps == IInv /\ Open => IInv'
<1> SUFFICES ASSUME IInv, Open PROVE IInv'
    OBVIOUS
<1>1. Doing("open")
    BY DEF Open
<1>2. PICK e : e = Tail(work)
    OBVIOUS
<1>3. /\ mounted /\ DeviceOk /\ Bounded /\ e \in Ends
      /\ (CleaningUp <=> CleaningIn(e)) /\ TargetsIn(work) = TargetsIn(e)
      /\ \A y : Doing(y) => y = "open"
    <2>1. Follows(Head(work), Tail(work)) /\ Head(work).what = "open"
        BY <1>1, DoingIs
    <2>2. Tail(work) \in Ends
        BY <2>1 DEF Follows
    <2> QED BY <1>1, <1>2, <2>2, DoingIs
<1>4. e \in Seq(Tasks) /\ ~CleaningIn(e) /\ TargetsIn(e) = {}
    BY <1>3, EndOrdered
<1>5. UNCHANGED <<flash, bad, dev, mounted, clock, bounds>>
    BY DEF Open
<1>6. DeviceTyped /\ CountersOk /\ StreamOk
    BY <1>3 DEF DeviceOk
<1>7. InState(dev, "checkpoint") = {} /\ Checkpoints = 0
    <2>1. InState(dev, "checkpoint") = {}
        BY <1>1, <1>3 DEF DeviceOk, WorkOk
    <2>2. InState(dev, "checkpoint") \in SUBSET Blocks
        BY DEF InState
    <2> QED BY <2>1, <2>2, BlocksFinite DEF Checkpoints
<1>8. /\ Checkpoints' = 0 /\ InState(dev, "checkpoint")' = {}
      /\ Cardinality(InState(dev, "empty"))' = Cardinality(InState(dev, "empty"))
      /\ Usable(dev.state, dev.used)' = Usable(dev.state, dev.used)
    BY <1>5, <1>7 DEF Checkpoints, InState, Usable
<1>9. AllBegun'
    BY <1>8 DEF AllBegun, InState
<1>10. CountersOk'
    <2>1. NChunks * 0 = 0 /\ Cardinality(InState(dev, "empty")) \in Nat
          /\ Usable(dev.state, dev.used) \in Int
        BY <1>6, CountsAreNumbers
    <2>2. ~Streaming /\ ~Doing("erasecheckpoint")
        BY <1>3 DEF Streaming
    <2>3. /\ dev.nErasedBlocks = Cardinality(InState(dev, "empty")) + 0
          /\ dev.nFreeChunks = Usable(dev.state, dev.used) - 0 /\ dev.blocksInCheckpoint = 0
        BY <1>6, <1>7, <2>1, <2>2 DEF CountersOk
    <2>4. /\ dev'.nErasedBlocks = Cardinality(InState(dev, "empty"))' + 0
          /\ dev'.nFreeChunks = Usable(dev.state, dev.used)' - 0 /\ dev'.blocksInCheckpoint = 0
        BY <1>5, <1>8, <2>3
    <2> QED BY <1>8, <2>1, <2>4 DEF CountersOk
<1>11. CASE SpaceOk
    <2>1. PICK w : w = Put(Paging, e)
        OBVIOUS
    <2>2. /\ w \in Pagings /\ w \in Seq(Tasks) /\ ~CleaningIn(w) /\ TargetsIn(w) = {}
          /\ Erasing \in Tasks /\ Paging \in Tasks /\ Erasing.what = "erasecheckpoint"
        BY <1>3, <2>1, PagingOrdered, TaskIs DEF Pagings, Erasing, Task
    <2>3. work' = Put(Erasing, w)
        <3>1. work' = <<Erasing, Paging>> \o e
            BY <1>2, <1>11 DEF Open, Then, Erasing, Paging
        <3> QED BY <1>4, <2>1, <2>2, <3>1, ListsAre
    <2>4. /\ Ordered(Put(Erasing, w)) /\ Put(Erasing, w) # <<>> /\ Head(Put(Erasing, w)) = Erasing
          /\ Tail(Put(Erasing, w)) = w /\ ~CleaningIn(Put(Erasing, w)) /\ TargetsIn(Put(Erasing, w)) = {}
        <3>1. Follows(Erasing, w)
            BY <2>2 DEF Follows
        <3> QED BY <2>2, <3>1, PutOrdered, PutTask, TasksIn
    <2>5. /\ Ordered(work)' /\ ~CleaningUp' /\ TargetsIn(work)' = {}
          /\ \A y : Doing(y)' => y = "erasecheckpoint"
        BY <2>2, <2>3, <2>4, NowIs
    <2>6. ck' = [forWriting |-> TRUE, buffer |-> TRUE, offset |-> FALSE,
                 currentBlock |-> NoBlock, currentChunk |-> 0, nextBlock |-> 1,
                 page |-> 0, sum |-> <<>>]
        BY <1>11 DEF Open
    <2>7. DeviceTyped'
        <3>1. 0 \in 0 .. NChunks /\ 0 \in 0 .. StreamPages /\ 1 \in Int
            BY CheckpointAssumption
        <3> QED BY <1>5, <1>6, <2>6, <3>1 DEF DeviceTyped
    <2>8. WorkOk'
        BY <2>5 DEF WorkOk
    <2>9. StreamOk'
        <3>1. ~Doing("page")' /\ (ck.page = 0)' /\ (ck.currentBlock = NoBlock)'
            BY <2>5, <2>6
        <3> QED BY <1>9, <3>1 DEF StreamOk
    <2>10. Still
        BY <1>3, <1>4, <1>5, <2>5 DEF Still, bounds, Bounded
    <2> QED BY <1>3, <1>10, <2>7, <2>8, <2>9, <2>10, StillOk
<1>12. CASE ~SpaceOk
    <2>1. PICK w : w = Put(Task("close", FALSE), e)
        OBVIOUS
    <2>2. /\ w \in Seq(Tasks) /\ Ordered(w) /\ w # <<>> /\ Head(w).what = "close"
          /\ ~CleaningIn(w) /\ TargetsIn(w) = {}
        BY <1>3, <2>1, CloseOrdered
    <2>3. Task("flush", 0) \in Tasks /\ Task("close", FALSE) \in Tasks /\ Task("flush", 0).what = "flush"
        BY TaskIs
    <2>4. PICK u : u = Put(Task("flush", 0), w)
        OBVIOUS
    <2>5. work' = u \/ work' = w
        BY <1>2, <1>4, <1>12, <2>1, <2>3, <2>4, ListsAre DEF Open, Then
    <2>6. /\ Ordered(u) /\ u # <<>> /\ Head(u).what = "flush" /\ ~CleaningIn(u) /\ TargetsIn(u) = {}
        <3>1. Follows(Task("flush", 0), w)
            BY <1>3, <2>1 DEF Follows, Task
        <3>2. Ordered(u) /\ u # <<>> /\ Head(u) = Task("flush", 0)
            BY <2>2, <2>3, <2>4, <3>1, PutOrdered, PutTask
        <3>3. ~CleaningIn(u) /\ TargetsIn(u) = {}
            BY <2>2, <2>3, <2>4, TasksIn
        <3> QED BY <2>3, <3>2, <3>3
    <2>7. /\ Ordered(work)' /\ ~CleaningUp' /\ TargetsIn(work)' = {}
          /\ \A y : Doing(y)' => y \in {"flush", "close"}
        BY <2>2, <2>5, <2>6, NowIs
    <2>8. ck' = [ck EXCEPT !.forWriting = TRUE]
        BY <1>12 DEF Open
    <2>9. DeviceTyped'
        BY <1>5, <1>6, <2>8 DEF DeviceTyped
    <2>10. WorkOk'
        BY <1>8, <2>7 DEF WorkOk
    <2>11. StreamOk'
        <3>1. ~Doing("page")' /\ ~Doing("erasecheckpoint")'
            BY <2>7
        <3> QED BY <1>9, <3>1 DEF StreamOk
    <2>12. Still
        BY <1>3, <1>4, <1>5, <2>7 DEF Still, bounds, Bounded
    <2> QED BY <1>3, <1>10, <2>9, <2>10, <2>11, <2>12, StillOk
<1> QED BY <1>11, <1>12

\* What is on the NAND is as good as it was.
LEMMA SameFlash ==
    ASSUME FlashOk, flash' = flash, bad' = bad, clock' = clock
    PROVE  FlashOk'
BY DEF FlashOk, Written, PageOk, Saved, TimesUnique, PagesUnique, NotMixed, BlocksFinal

\* What the NAND says does not depend on the device that is forgotten.
LEMMA UnmountKeeps == IInv /\ Unmount => IInv'
<1> SUFFICES ASSUME IInv, Unmount PROVE IInv'
    OBVIOUS
<1>1. UNCHANGED <<flash, bad, clock, bounds>> /\ FlashOk /\ Bounded
    BY DEF Unmount, IInv
<1>2. FlashOk'
    BY <1>1, SameFlash
<1>3. mounted' = FALSE /\ work' = <<>> /\ dev' = NoDevice /\ ck' = NoStream
    BY DEF Unmount, Forget
<1>4. Bounded'
    BY <1>1, <1>3 DEF Bounded, bounds
<1> QED BY <1>2, <1>3, <1>4 DEF IInv

\* What is asked for begins with an invalidation.
LEMMA AskKeeps ==
    ASSUME IInv, NEW w \in Seq(Tasks), ~CleaningIn(w), TargetsIn(w) = {},
           NEW list, (w \in Changes /\ list = Put(Invalidate, w)) \/ (w \in Ends /\ list = w), Ask(list)
    PROVE  IInv'
<1>1. mounted /\ work = <<>> /\ DeviceOk /\ Bounded
    BY DEF Ask, Idle, IInv
<1>2. ~CleaningUp /\ TargetsIn(work) = {} /\ \A x : ~Doing(x)
    BY <1>1, NoTasks DEF CleaningUp, Doing
<1>3. UNCHANGED <<flash, bad, dev, ck, mounted, clock, crashes, faults>> /\ work' = list
      /\ requests' \in 0 .. MaxRequests
    BY <1>1, CheckpointAssumption DEF Ask, Bounded
<1>4. /\ Ordered(work)' /\ ~CleaningUp' /\ TargetsIn(work)' = {}
      /\ \A x : Doing(x)' => x \in {"invalidate", "unmount"}
    <2>1. CASE w \in Ends /\ list = w
        <3>1. Ordered(w) /\ (w # <<>> => Head(w).what = "unmount")
            BY <2>1, EndOrdered
        <3> QED BY <1>3, <2>1, <3>1, NowIs
    <2>2. CASE w \in Changes /\ list = Put(Invalidate, w)
        <3>1. Invalidate \in Tasks /\ Invalidate.what = "invalidate"
            BY TaskIs DEF Invalidate, Task
        <3>2. Follows(Invalidate, w)
            BY <2>2, <3>1 DEF Follows
        <3>3. Ordered(list) /\ list # <<>> /\ Head(list) = Invalidate
            BY <2>2, <3>1, <3>2, PutOrdered, PutTask
        <3>4. ~CleaningIn(list) /\ TargetsIn(list) = {}
            BY <2>2, <3>1, <3>2, TasksIn
        <3> QED BY <1>3, <3>1, <3>3, <3>4, NowIs
    <2> QED BY <2>1, <2>2
<1>5. WorkOk'
    BY <1>4 DEF WorkOk
<1>6. Still
    BY <1>1, <1>2, <1>3, <1>4 DEF Still
<1>7. ~Streaming' /\ ~Streaming /\ ~Doing("page")' /\ ~Doing("erasecheckpoint")'
      /\ ~Doing("page") /\ ~Doing("erasecheckpoint")
    BY <1>2, <1>4 DEF Streaming
<1> QED BY <1>1, <1>3, <1>5, <1>6, <1>7, SameDevice

\* A request is taken when nothing else is to be done.
LEMMA RequestsKeep == IInv /\ ((\E k \in Keys : BeginWrite(k)) \/ BeginSave \/ BeginUnmount) => IInv'
<1>1. /\ Invalidate \in Tasks /\ <<>> \in Seq(Tasks)
      /\ Task("open", 0) \in Tasks /\ Task("open", 0).what = "open"
      /\ Task("unmount", 0) \in Tasks
    BY TaskIs
<1>2. ASSUME IInv, NEW k \in Keys, BeginWrite(k) PROVE IInv'
    <2>1. Task("write", k) \in Tasks /\ Task("write", k).what = "write"
        BY TaskIs
    <2>2. PICK w : w = Put(Task("write", k), <<>>)
        OBVIOUS
    <2>3. w \in Changes
        BY <2>2 DEF Changes
    <2>4. w \in Seq(Tasks) /\ ~CleaningIn(w) /\ TargetsIn(w) = {}
        BY <1>1, <2>1, <2>2, TasksIn, NoTasks, PutTask
    <2>5. <<Invalidate, Task("write", k)>> = Put(Invalidate, w)
        BY <1>1, <2>1, <2>2, ListsAre
    <2>6. Ask(Put(Invalidate, w))
        BY <1>2, <2>5 DEF BeginWrite
    <2> QED BY <1>2, <2>3, <2>4, <2>6, AskKeeps
<1>3. ASSUME NEW e \in Ends, NEW w, w = Put(Task("open", 0), e)
      PROVE  w \in Seq(Tasks) /\ w \in Changes /\ ~CleaningIn(w) /\ TargetsIn(w) = {}
    <2>1. e \in Seq(Tasks) /\ ~CleaningIn(e) /\ TargetsIn(e) = {}
        BY EndOrdered
    <2>2. w \in Changes
        BY <1>3 DEF Changes
    <2> QED BY <1>1, <1>3, <2>1, <2>2, TasksIn, PutTask
<1>4. PICK u : u = Put(Task("unmount", 0), <<>>)
    OBVIOUS
<1>5. u \in Ends /\ <<>> \in Ends /\ u \in Seq(Tasks) /\ <<Task("unmount", 0)>> = u
    BY <1>1, <1>4, ListsAre, EndOrdered DEF Ends
<1>6. ASSUME IInv, NEW e \in Ends,
             Ask(IF dev.isCheckpointed THEN e ELSE Put(Invalidate, Put(Task("open", 0), e)))
      PROVE  IInv'
    <2>1. CASE dev.isCheckpointed
        <3>1. Ask(e)
            BY <1>6, <2>1
        <3>2. e \in Seq(Tasks) /\ ~CleaningIn(e) /\ TargetsIn(e) = {}
            BY EndOrdered
        <3> QED BY <1>6, <3>1, <3>2, AskKeeps
    <2>2. CASE ~dev.isCheckpointed
        <3>1. PICK w : w = Put(Task("open", 0), e)
            OBVIOUS
        <3>2. Ask(Put(Invalidate, w))
            BY <1>6, <2>2, <3>1
        <3>3. w \in Seq(Tasks) /\ w \in Changes /\ ~CleaningIn(w) /\ TargetsIn(w) = {}
            BY <1>3, <3>1
        <3> QED BY <1>6, <3>2, <3>3, AskKeeps
    <2> QED BY <2>1, <2>2
<1>7. ASSUME IInv, BeginSave PROVE IInv'
    <2>1. <<Invalidate, Task("open", 0)>> = Put(Invalidate, Put(Task("open", 0), <<>>))
        BY <1>1, ListsAre
    <2>2. Ask(IF dev.isCheckpointed THEN <<>> ELSE Put(Invalidate, Put(Task("open", 0), <<>>)))
        BY <1>7, <2>1 DEF BeginSave, SaveTasks
    <2> QED BY <1>5, <1>6, <1>7, <2>2
<1>8. ASSUME IInv, BeginUnmount PROVE IInv'
    <2>1. /\ <<Invalidate, Task("open", 0)>> \o u = Put(Invalidate, Put(Task("open", 0), u))
          /\ <<>> \o u = u
        BY <1>1, <1>5, ListsAre
    <2>2. PICK list : list = SaveTasks \o u
        OBVIOUS
    <2>3. list = IF dev.isCheckpointed THEN u ELSE Put(Invalidate, Put(Task("open", 0), u))
        <3>1. CASE dev.isCheckpointed
            BY <2>1, <2>2, <3>1 DEF SaveTasks
        <3>2. CASE ~dev.isCheckpointed
            BY <2>1, <2>2, <3>2 DEF SaveTasks
        <3> QED BY <3>1, <3>2
    <2>4. Ask(list)
        <3>1. Ask(SaveTasks \o <<Task("unmount", 0)>>)
            BY <1>8 DEF BeginUnmount
        <3>2. SaveTasks \o <<Task("unmount", 0)>> = list
            BY <1>5, <2>2
        <3> QED BY <3>1, <3>2
    <2> QED BY <1>5, <1>6, <1>8, <2>3, <2>4
<1> QED BY <1>2, <1>7, <1>8

\* The end of the scan gives up the allocation block, or has a block without live
\* chunks erased.
LEMMA CleanUpKeeps == IInv /\ CleanUp => IInv'
<1> SUFFICES ASSUME IInv, CleanUp PROVE IInv'
    OBVIOUS
<1>1. Doing("cleanup")
    BY DEF CleanUp
<1>2. PICK w : w = Tail(work)
    OBVIOUS
<1>3. /\ mounted /\ DeviceOk /\ FlashOk /\ Bounded /\ w = Put(Invalidate, <<>>)
      /\ CleaningUp /\ TargetsIn(work) = TargetsIn(w)
      /\ \A y : Doing(y) => y = "cleanup"
    <2>1. Follows(Head(work), w) /\ Head(work).what = "cleanup"
        BY <1>1, <1>2, DoingIs
    <2>2. w = Put(Invalidate, <<>>)
        BY <2>1 DEF Follows
    <2> QED BY <1>1, <1>2, <2>2, DoingIs
<1>4. Invalidate \in Tasks /\ Invalidate.what = "invalidate" /\ <<>> \in Seq(Tasks)
      /\ Task("cleanup", 0) \in Tasks /\ Task("cleanup", 0).what = "cleanup"
    BY TaskIs DEF Invalidate, Task
<1>5. /\ w \in Seq(Tasks) /\ Ordered(w) /\ w # <<>> /\ Head(w) = Invalidate
      /\ ~CleaningIn(w) /\ TargetsIn(w) = {}
    <2>1. Follows(Invalidate, <<>>)
        BY <1>4 DEF Follows
    <2>2. ~CleaningIn(w) /\ TargetsIn(w) = {}
        BY <1>3, <1>4, TasksIn, NoTasks
    <2> QED BY <1>3, <1>4, <2>1, <2>2, PutOrdered, PutTask
<1>6. DeviceTyped /\ dev.used = Live(flash) /\ BlocksOk /\ AllocationOk /\ CountersOk /\ StreamOk
    BY <1>3 DEF DeviceOk
<1> DEFINE Dirty == {c \in InState(dev, "full") : PagesOf(dev.used, c) = {}}
<1>7. Dirty \subseteq Nat /\ Dirty \subseteq Blocks
    BY CheckpointAssumption DEF InState, Blocks
<1>8. PICK b : b = Lowest(Dirty)
    OBVIOUS
<1>9. UNCHANGED <<flash, bad, ck, mounted, clock, bounds>>
    BY DEF CleanUp
<1>10. CASE b # NoBlock
    <2>1. b \in Dirty
        BY <1>7, <1>8, <1>10, LowestIs
    <2>2. b \in Blocks /\ dev.state[b] = "full" /\ PagesOf(dev.used, b) = {}
        BY <2>1 DEF InState
    <2>3. work' = <<Task("dirty", b), Task("cleanup", 0)>> \o w /\ dev' = dev
        BY <1>2, <1>8, <1>10 DEF CleanUp, Then
    <2>4. Task("dirty", b) \in Tasks /\ Task("dirty", b).what = "dirty" /\ Task("dirty", b).x = b
        BY <2>2, TaskIs
    <2>5. PICK u : u = Put(Task("cleanup", 0), w)
        OBVIOUS
    <2>6. u \in Scans /\ work' = Put(Task("dirty", b), u)
        BY <1>3, <1>4, <1>5, <2>3, <2>4, <2>5, ListsAre DEF Scans, Mounting
    <2>7. u \in Seq(Tasks) /\ TargetsIn(u) = {} /\ CleaningIn(u)
        BY <1>4, <1>5, <2>5, <2>6, PutTask, ScanOrdered
    <2>8. PICK v : v = Put(Task("dirty", b), u)
        OBVIOUS
    <2>9. Ordered(v) /\ v # <<>> /\ Head(v) = Task("dirty", b)
        <3>1. Follows(Task("dirty", b), u)
            BY <2>2, <2>6 DEF Follows, Task
        <3> QED BY <2>4, <2>7, <2>8, <3>1, PutOrdered, PutTask
    <2>10. CleaningIn(v) /\ TargetsIn(v) = {b}
        BY <2>4, <2>7, <2>8, TasksIn
    <2>11. /\ Ordered(work)' /\ CleaningUp' /\ TargetsIn(work)' = {b}
           /\ \A x : Doing(x)' => x = "dirty"
        BY <2>4, <2>6, <2>8, <2>9, <2>10, NowIs
    <2>12. WorkOk'
        BY <2>2, <2>3, <2>11 DEF WorkOk
    <2>13. Still
        BY <1>3, <1>9, <2>3, <2>11 DEF Still, bounds, Bounded
    <2>14. ~Streaming' /\ ~Streaming /\ ~Doing("page")' /\ ~Doing("erasecheckpoint")'
           /\ ~Doing("page") /\ ~Doing("erasecheckpoint")
        BY <1>3, <2>11 DEF Streaming
    <2> QED BY <1>3, <1>9, <2>3, <2>12, <2>13, <2>14, SameDevice
<1>11. CASE b = NoBlock
    <2>1. Dirty = {}
        BY <1>7, <1>8, <1>11, LowestIs
    <2>2. work' = w /\ dev' = RestSkipped
        BY <1>2, <1>8, <1>11 DEF CleanUp, Done
    <2>3. /\ Ordered(work)' /\ ~CleaningUp' /\ TargetsIn(work)' = {}
          /\ \A x : Doing(x)' => x = "invalidate"
        BY <1>4, <1>5, <2>2, NowIs
    <2>4. \A c \in Blocks : dev.state[c] = "full" => HasData(flash, c)
        <3> SUFFICES ASSUME NEW c \in Blocks, dev.state[c] = "full" PROVE HasData(flash, c)
            OBVIOUS
        <3>1. PICK x \in dev.used : x[1] = c
            BY <2>1 DEF InState, PagesOf
        <3>2. dev.used \subseteq Blocks \X Pages
            BY <1>6, LiveIs
        <3>3. x = <<c, x[2]>> /\ x[2] \in Pages
            BY <3>1, <3>2
        <3> QED BY <1>6, <3>1, <3>3, LiveIs DEF HasData
    <2>5. \A c \in Blocks : HasCk(flash, c) => dev.state[c] = "checkpoint"
        BY <1>3, <1>6, <2>4 DEF BlocksOk, FlashOk, NotMixed
    <2>6. PICK a : a = dev.allocationBlock
        OBVIOUS
    <2>7. a # NoBlock => a \in Blocks /\ dev.state[a] = "allocating" /\ HasData(flash, a)
        BY <1>6, <2>6 DEF AllocationOk, DeviceTyped
    <2>8. /\ dev'.state = (IF a = NoBlock THEN dev.state ELSE [dev.state EXCEPT ![a] = "full"])
          /\ dev'.used = dev.used /\ dev'.nErasedBlocks = dev.nErasedBlocks
          /\ dev'.nFreeChunks = dev.nFreeChunks /\ dev'.blocksInCheckpoint = dev.blocksInCheckpoint
          /\ dev'.allocationBlock = NoBlock /\ DeviceTyped'
        <3>1. CASE a = NoBlock
            BY <1>6, <1>9, <2>2, <2>6, <3>1 DEF RestSkipped, DeviceTyped
        <3>2. CASE a # NoBlock
            <4>1. dev' = [dev EXCEPT !.state[a] = "full", !.allocationBlock = NoBlock, !.allocationPage = 0]
                BY <2>2, <2>6, <3>2 DEF RestSkipped
            <4>2. [dev.state EXCEPT ![a] = "full"] \in [Blocks -> States]
                <5>1. dev.state \in [Blocks -> States] /\ "full" \in States
                    BY <1>6 DEF DeviceTyped, States
                <5> QED BY <5>1
            <4>3. 0 \in 0 .. NChunks
                BY CheckpointAssumption
            <4> QED BY <1>6, <1>9, <3>2, <4>1, <4>2, <4>3 DEF DeviceTyped
        <3> QED BY <3>1, <3>2
    <2>9. \A c \in Blocks : dev'.state[c] = IF c = a THEN "full" ELSE dev.state[c]
        <3>1. dev.state \in [Blocks -> States] /\ NoBlock \notin Blocks
            BY <1>6, CheckpointAssumption DEF DeviceTyped, NoBlock, Blocks
        <3> QED BY <2>7, <2>8, <3>1
    <2>10. BlocksOk'
        <3>1. ASSUME NEW c \in Blocks
              PROVE  /\ HasData(flash', c) => dev'.state[c] \in {"allocating", "full"}
                     /\ HasCk(flash', c) => dev'.state[c] = "checkpoint"
                     /\ IsCheckpoint(flash', c) => dev'.state[c] = "checkpoint"
                     /\ dev'.state[c] = "empty" => AllErased(flash', c)
                     /\ c \in bad' => dev'.state[c] = "dead"
            <4>1. /\ HasData(flash, c) => dev.state[c] \in {"allocating", "full"}
                  /\ HasCk(flash, c) => dev.state[c] = "checkpoint"
                  /\ IsCheckpoint(flash, c) => dev.state[c] = "checkpoint"
                  /\ dev.state[c] = "empty" => AllErased(flash, c)
                  /\ c \in bad => dev.state[c] = "dead"
                BY <1>6, <2>5 DEF BlocksOk
            <4>2. c = a => dev.state[c] = "allocating"
                BY <2>7, CheckpointAssumption DEF NoBlock, Blocks
            <4>3. flash' = flash /\ bad' = bad
                BY <1>9
            <4> QED BY <2>9, <4>1, <4>2, <4>3
        <3> QED BY <3>1 DEF BlocksOk
    <2>11. AllocationOk'
        <3>1. \A c \in Blocks : dev'.state[c] # "allocating"
            BY <1>6, <2>6, <2>9 DEF AllocationOk
        <3> QED BY <2>8, <3>1 DEF AllocationOk
    <2>12. /\ InState(dev, "empty")' = InState(dev, "empty")
           /\ InState(dev, "checkpoint")' = InState(dev, "checkpoint")
           /\ {c \in Blocks : dev'.state[c] # "dead"} = {c \in Blocks : dev.state[c] # "dead"}
        <3>1. a \in Blocks => dev.state[a] = "allocating"
            BY <2>7, CheckpointAssumption DEF NoBlock, Blocks
        <3> QED BY <2>9, <3>1 DEF InState
    <2>13. Checkpoints' = Checkpoints /\ Usable(dev.state, dev.used)' = Usable(dev.state, dev.used)
        BY <2>8, <2>12 DEF Checkpoints, Usable
    <2>14. CountersOk'
        <3>1. ~Streaming /\ ~Streaming' /\ ~Doing("erasecheckpoint")
            BY <1>3, <2>3 DEF Streaming
        <3> QED BY <1>6, <2>8, <2>12, <2>13, <3>1 DEF CountersOk
    <2>15. WorkOk'
        BY <2>3 DEF WorkOk
    <2>16. StreamOk'
        <3>1. \A c \in Blocks : dev'.state[c] = "checkpoint" => dev.state[c] = "checkpoint"
            BY <2>9
        <3>2. Complete(flash) => AllBegun
            BY <1>3, <1>6 DEF StreamOk
        <3>3. Complete(flash') => AllBegun'
            BY <1>9, <3>1, <3>2 DEF AllBegun
        <3>4. ~Doing("page")' /\ ~Doing("erasecheckpoint")'
            BY <2>3
        <3> QED BY <3>3, <3>4 DEF StreamOk
    <2>17. FlashOk' /\ mounted' /\ Bounded' /\ (dev.used = Live(flash))'
        BY <1>3, <1>6, <1>9, <2>8, SameFlash DEF bounds, Bounded
    <2> QED BY <2>8, <2>10, <2>11, <2>14, <2>15, <2>16, <2>17 DEF IInv, DeviceOk
<1> QED BY <1>10, <1>11

(***************************************************************************)
(* Power fails.                                                            *)
(***************************************************************************)
\* A page that held no live chunk is spoilt, and no checkpoint was complete.
LEMMA TearKeeps ==
    ASSUME FlashOk, clock \in Nat, clock' = clock, bad' = bad, NEW b \in Blocks, NEW p \in Pages,
           Programs(flash, flash', b, p, Torn), <<b, p>> \notin Live(flash), ~Complete(flash),
           \A c \in Blocks, q \in Pages :
               IsCk(flash, c, q) /\ flash[c][q].n = 1 => flash[c][q].holds.allocationBlock # b
    PROVE  FlashOk' /\ Live(flash') = Live(flash) /\ ~Complete(flash')
<1>1. Lessened(flash, flash')
    BY TearLessens
<1>2. ~Complete(flash')
    <2>1. \A c \in Blocks, q \in Pages : IsCk(flash', c, q) => flash'[c][q] = flash[c][q] /\ IsCk(flash, c, q)
        BY <1>1, KindsAre DEF Lessened, IsCk
    <2> QED BY <2>1 DEF Complete, Present
<1>3. \A c \in bad', q \in Pages : flash'[c][q] = Torn
    <2> TAKE c \in bad', q \in Pages
    <2>1. c \in Blocks /\ flash[c][q] = Torn
        BY DEF FlashOk
    <2> QED BY <2>1 DEF Programs
<1>4. ASSUME NEW c \in Blocks, NEW q \in Pages, IsCk(flash, c, q), flash[c][q].n = 1
      PROVE  LET a == flash[c][q].holds.allocationBlock
             IN a \in Blocks => \A r \in Pages : flash'[a][r] = flash[a][r]
    <2>1. PICK a : a = flash[c][q].holds.allocationBlock
        OBVIOUS
    <2>2. a # b
        BY <1>4, <2>1
    <2>3. a \in Blocks => \A r \in Pages : flash'[a][r] = flash[a][r]
        BY <2>2 DEF Programs
    <2> QED BY <2>1, <2>3
<1>5. bad' \subseteq Blocks
    BY DEF FlashOk
<1> QED BY <1>1, <1>2, <1>3, <1>4, <1>5, LessenedKeeps

\* A block without data is not where the saved device goes on.
LEMMA NotAllocated ==
    ASSUME FlashOk, NEW b \in Blocks, ~HasData(flash, b)
    PROVE  /\ \A p \in Pages : <<b, p>> \notin Live(flash)
           /\ \A c \in Blocks, q \in Pages :
                 IsCk(flash, c, q) /\ flash[c][q].n = 1 => flash[c][q].holds.allocationBlock # b
<1>1. \A p \in Pages : <<b, p>> \notin Live(flash)
    BY LiveIs DEF HasData
<1>2. ASSUME NEW c \in Blocks, NEW p \in Pages, IsCk(flash, c, p), flash[c][p].n = 1
      PROVE  flash[c][p].holds.allocationBlock # b
    <2>1. CountersSaved(flash, flash[c][p].holds)
        BY <1>2 DEF FlashOk, Saved
    <2>2. PICK d : d = flash[c][p].holds
        OBVIOUS
    <2>3. d.allocationBlock # NoBlock => HasData(flash, d.allocationBlock)
        BY <2>1, <2>2 DEF CountersSaved
    <2>4. b # NoBlock
        BY CheckpointAssumption DEF Blocks, NoBlock
    <2> QED BY <2>2, <2>3, <2>4
<1> QED BY <1>1, <1>2

\* Without checkpoint blocks there is no first page, and with the stream not
\* written to its end it is not complete.
LEMMA NoFirstPage ==
    ASSUME IInv, mounted, InState(dev, "checkpoint") = {}
    PROVE  (\A c \in Blocks, p \in Pages : ~(IsCk(flash, c, p) /\ flash[c][p].n = 1)) /\ ~Complete(flash)
<1>1. DeviceOk /\ FlashOk
    BY DEF IInv
<1>2. \A c \in Blocks : ~IsCheckpoint(flash, c)
    BY <1>1 DEF DeviceOk, BlocksOk, InState
<1>3. \A c \in Blocks, p \in Pages : ~(IsCk(flash, c, p) /\ flash[c][p].n = 1)
    BY <1>1, <1>2 DEF FlashOk, Saved, IsCheckpoint, IsCk
<1>4. ~Complete(flash)
    BY <1>3, CheckpointAssumption DEF Complete, Present, Stream
<1> QED BY <1>3, <1>4

\* While the stream is written its last page is missing.
LEMMA NotWritten ==
    ASSUME IInv, Doing("page")
    PROVE  ~Complete(flash)
<1>1. PagesOk
    BY DoingIs DEF DeviceOk, StreamOk
<1>2. StreamPages \in Stream /\ StreamPages \in Int /\ ck.page < StreamPages
    BY <1>1, CheckpointAssumption DEF PagesOk, Stream
<1>3. \A b \in Blocks, p \in Pages : IsCk(flash, b, p) => flash[b][p].n <= ck.page
    BY <1>1 DEF PagesOk
<1>4. ck.page \in Int
    BY DoingIs DEF DeviceOk, DeviceTyped
<1>5. ASSUME Complete(flash) PROVE FALSE
    <2>2. Present(flash, StreamPages)
        BY <1>2, <1>5 DEF Complete
    <2>1. PICK b \in Blocks, p \in Pages : IsCk(flash, b, p) /\ flash[b][p].n = StreamPages
        BY <2>2 DEF Present
    <2> QED BY <1>2, <1>3, <1>4, <2>1
<1> QED BY <1>5

\* Where the next chunk goes is erased.
LEMMA NextIsErased ==
    ASSUME IInv, Doing("write"), NEW b \in AllocationBlocks,
           NEW p, p = IF dev.allocationBlock = NoBlock THEN 1 ELSE dev.allocationPage + 1
    PROVE  /\ b \in Blocks /\ p \in Pages /\ flash[b][p] = Erased
           /\ \A q \in Pages : q >= p => flash[b][q] = Erased
           /\ IF dev.allocationBlock = NoBlock THEN dev.state[b] = "empty"
              ELSE b = dev.allocationBlock /\ dev.state[b] = "allocating" /\ p > 1
           /\ ~CleaningUp /\ InState(dev, "checkpoint") = {}
<1>1. PICK w : w = Tail(work)
    OBVIOUS
<1>2. mounted /\ DeviceOk /\ (CleaningUp <=> CleaningIn(w)) /\ w = <<>>
    <2>1. Follows(Head(work), w) /\ Head(work).what \in {"unmount", "write", "bug"}
        BY <1>1, DoingIs
    <2>2. w = <<>>
        BY <2>1, LastIs
    <2> QED BY <1>1, <2>2, DoingIs
<1>3. ~CleaningUp
    BY <1>2, NoTasks
<1>4. InState(dev, "checkpoint") = {}
    BY <1>2 DEF DeviceOk, WorkOk
<1>5. BlocksOk /\ AllocationOk /\ DeviceTyped
    BY <1>2 DEF DeviceOk
<1>6. CASE dev.allocationBlock = NoBlock
    <2>1. b \in Blocks /\ dev.state[b] = "empty"
        BY <1>6 DEF AllocationBlocks, InState
    <2>2. AllErased(flash, b) /\ p \in Pages
        BY <1>5, <1>6, <2>1, CheckpointAssumption DEF BlocksOk, Pages
    <2> QED BY <1>3, <1>4, <1>6, <2>1, <2>2 DEF AllErased
<1>7. CASE dev.allocationBlock # NoBlock
    <2>1. b = dev.allocationBlock /\ p = dev.allocationPage + 1
        BY <1>7 DEF AllocationBlocks
    <2>2. PICK n : n = dev.allocationPage
        OBVIOUS
    <2>3. /\ b \in Blocks /\ dev.state[b] = "allocating" /\ n \in 1 .. NChunks - 1
          /\ \A q \in Pages : q > n => flash[b][q] = Erased
        BY <1>3, <1>5, <1>7, <2>1, <2>2 DEF AllocationOk, DeviceTyped
    <2>4. p \in Pages /\ p > n /\ p > 1 /\ \A q \in Pages : q >= p => q > n
        BY <2>1, <2>2, <2>3, CheckpointAssumption DEF Pages
    <2> QED BY <1>3, <1>4, <1>7, <2>1, <2>3, <2>4
<1> QED BY <1>6, <1>7

\* Where the next page of the checkpoint goes there are no data.
LEMMA NextPageIs ==
    ASSUME IInv, Doing("page"), NEW b, b = IF ck.currentBlock = NoBlock THEN NextErased ELSE ck.currentBlock,
           b # NoBlock, NEW p, p = IF ck.currentBlock = NoBlock THEN 1 ELSE ck.currentChunk + 1
    PROVE  /\ b \in Blocks /\ p \in Pages /\ ~HasData(flash, b)
           /\ IF ck.currentBlock = NoBlock THEN dev.state[b] = "empty" /\ AllErased(flash, b)
              ELSE dev.state[b] = "checkpoint" /\ p > 1
           /\ ~CleaningUp /\ TargetsIn(work) = {}
           /\ b \notin bad
<1>1. mounted /\ DeviceOk
    BY DoingIs
<1>2. BlocksOk /\ DeviceTyped /\ PagesOk
    BY <1>1 DEF DeviceOk, StreamOk
<1>3. ~CleaningUp /\ TargetsIn(work) = {}
    <2>1. PICK e : e = Tail(work)
        OBVIOUS
    <2>2. e \in Ends
        <3>1. Follows(Head(work), e) /\ Head(work).what = "page"
            BY <2>1, DoingIs
        <3> QED BY <3>1 DEF Follows
    <2>3. ~CleaningIn(e) /\ TargetsIn(e) = {}
        BY <2>2, EndOrdered
    <2>4. (CleaningUp <=> CleaningIn(e)) /\ TargetsIn(work) = TargetsIn(e)
        BY <2>1, DoingIs
    <2> QED BY <2>3, <2>4
<1>4. CASE ck.currentBlock = NoBlock
    <2>1. {c \in InState(dev, "empty") : c >= ck.nextBlock} \subseteq Nat
        BY CheckpointAssumption DEF InState, Blocks
    <2>2. b \in {c \in InState(dev, "empty") : c >= ck.nextBlock}
        BY <1>4, <2>1, LowestIs DEF NextErased
    <2>3. b \in Blocks /\ dev.state[b] = "empty" /\ p \in Pages
        BY <1>4, <2>2, CheckpointAssumption DEF InState, Pages
    <2> QED BY <1>2, <1>3, <1>4, <2>3 DEF BlocksOk
<1>5. CASE ck.currentBlock # NoBlock
    <2>1. PICK n : n = ck.currentChunk
        OBVIOUS
    <2>2. b \in Blocks /\ dev.state[b] = "checkpoint" /\ n \in 1 .. NChunks - 1 /\ p = n + 1
        BY <1>2, <1>5, <2>1 DEF PagesOk, DeviceTyped
    <2>3. p \in Pages /\ p > 1
        BY <2>2, CheckpointAssumption DEF Pages
    <2> QED BY <1>2, <1>3, <1>5, <2>2, <2>3 DEF BlocksOk
<1> QED BY <1>4, <1>5

\* Power fails: what is torn held no live chunk, and the checkpoint it belongs to,
\* or whose blocks it follows, is not complete.
LEMMA CrashKeeps == IInv /\ Crash => IInv'
<1> SUFFICES ASSUME IInv, Crash PROVE IInv'
    OBVIOUS
<1>1. mounted /\ FlashOk /\ Bounded /\ DeviceOk
    BY DEF Crash, IInv
<1>2. /\ mounted' = FALSE /\ work' = <<>> /\ dev' = NoDevice /\ ck' = NoStream
      /\ UNCHANGED <<bad, clock, requests, faults>> /\ crashes' \in 0 .. MaxCrashes
    BY <1>1, CheckpointAssumption DEF Crash, Forget, Bounded
<1>3. Bounded'
    BY <1>1, <1>2 DEF Bounded
<1>4. clock \in Nat /\ Written(flash)
    BY <1>1 DEF Bounded, FlashOk
<1>5. FlashOk'
    <2>1. CASE flash' = flash
        BY <1>1, <1>2, <2>1, SameFlash
    <2>2. ASSUME NEW b \in Blocks, MayGo(b), flash' = [flash EXCEPT ![b] = TornBlock]
          PROVE  FlashOk'
        <3>1. Wipes(flash, flash', b, Torn)
            BY <1>4, <2>2, WipeIs
        <3>2. Torn \in {Erased, Torn} /\ Torn # Erased
            BY KindsAre
        <3> QED BY <1>1, <1>2, <1>4, <2>2, <3>1, <3>2, WipeKeeps
    <2>3. CASE Doing("erase") /\ flash' = [flash EXCEPT ![Head(work).x] = TornBlock]
        <3>1. PICK b : b = Head(work).x
            OBVIOUS
        <3>2. b \in Blocks
            <4>1. Follows(Head(work), Tail(work)) /\ Head(work).what = "erase"
                BY <2>3, DoingIs
            <4> QED BY <3>1, <4>1 DEF Follows
        <3>3. InState(dev, "checkpoint") = {}
            BY <1>1, <2>3 DEF DeviceOk, WorkOk
        <3>4. b \in TargetsIn(work)
            BY <2>3, <3>1, DoingIs
        <3>5. PagesOf(dev.used, b) = {}
            BY <1>1, <3>4 DEF DeviceOk, WorkOk
        <3>6. MayGo(b)
            BY <1>1, <3>2, <3>3, <3>5, TargetMayGo
        <3> QED BY <2>2, <2>3, <3>1, <3>2, <3>6
    <2>4. CASE /\ Doing("erasecheckpoint") /\ InState(dev, "checkpoint") # {}
               /\ flash' = [flash EXCEPT ![Lowest(InState(dev, "checkpoint"))] = TornBlock]
        <3>1. PICK b : b = Lowest(InState(dev, "checkpoint"))
            OBVIOUS
        <3>2. InState(dev, "checkpoint") \subseteq Nat
            BY CheckpointAssumption DEF InState, Blocks
        <3>3. b \in InState(dev, "checkpoint")
            BY <2>4, <3>1, <3>2, LowestIs
        <3>4. ~Doing("page")
            <4>1. \A y : Doing(y) => y = "erasecheckpoint"
                BY <2>4, DoingIs
            <4> QED BY <4>1
        <3>5. b \in Blocks /\ MayGo(b)
            BY <1>1, <3>3, <3>4, CheckpointMayGo
        <3> QED BY <2>2, <2>4, <3>1, <3>5
    <2>5. ASSUME NEW b \in Blocks, NEW p \in Pages, flash' = TornPage(b, p),
                 <<b, p>> \notin Live(flash), ~Complete(flash),
                 \A c \in Blocks, q \in Pages :
                     IsCk(flash, c, q) /\ flash[c][q].n = 1 => flash[c][q].holds.allocationBlock # b
          PROVE  FlashOk'
        <3>1. Programs(flash, flash', b, p, Torn)
            BY <1>4, <2>5, ProgramIs DEF TornPage
        <3> QED BY <1>1, <1>2, <1>4, <2>5, <3>1, TearKeeps
    <2>6. ASSUME Doing("write"), NEW b \in AllocationBlocks,
                 flash' = TornPage(b, IF dev.allocationBlock = NoBlock THEN 1 ELSE dev.allocationPage + 1)
          PROVE  FlashOk'
        <3>1. PICK p : p = IF dev.allocationBlock = NoBlock THEN 1 ELSE dev.allocationPage + 1
            OBVIOUS
        <3>2. b \in Blocks /\ p \in Pages /\ flash[b][p] = Erased /\ InState(dev, "checkpoint") = {}
            BY <2>6, <3>1, NextIsErased
        <3>3. <<b, p>> \notin Live(flash)
            BY <3>2, KindsAre, LiveIs DEF IsData
        <3>4. /\ \A c \in Blocks, q \in Pages : ~(IsCk(flash, c, q) /\ flash[c][q].n = 1)
              /\ ~Complete(flash)
            BY <1>1, <3>2, NoFirstPage
        <3> QED BY <2>5, <2>6, <3>1, <3>2, <3>3, <3>4
    <2>7. ASSUME Doing("page"), NEW b, b = IF ck.currentBlock = NoBlock THEN NextErased ELSE ck.currentBlock,
                 b # NoBlock, NEW p, p = IF ck.currentBlock = NoBlock THEN 1 ELSE ck.currentChunk + 1,
                 flash' = TornPage(b, p)
          PROVE  FlashOk'
        <3>1. b \in Blocks /\ p \in Pages /\ ~HasData(flash, b)
            BY <2>7, NextPageIs
        <3>2. /\ \A q \in Pages : <<b, q>> \notin Live(flash)
              /\ \A c \in Blocks, q \in Pages :
                    IsCk(flash, c, q) /\ flash[c][q].n = 1 => flash[c][q].holds.allocationBlock # b
            BY <1>1, <3>1, NotAllocated
        <3>3. ~Complete(flash)
            BY <2>7, NotWritten
        <3> QED BY <2>5, <2>7, <3>1, <3>2, <3>3
    <2>8. \/ flash' = flash
          \/ Doing("erase") /\ flash' = [flash EXCEPT ![Head(work).x] = TornBlock]
          \/ /\ Doing("erasecheckpoint") /\ InState(dev, "checkpoint") # {}
             /\ flash' = [flash EXCEPT ![Lowest(InState(dev, "checkpoint"))] = TornBlock]
          \/ /\ Doing("write")
             /\ \E b \in AllocationBlocks :
                   flash' = TornPage(b, IF dev.allocationBlock = NoBlock THEN 1 ELSE dev.allocationPage + 1)
          \/ Doing("page") /\ ck.currentBlock # NoBlock /\ flash' = TornPage(ck.currentBlock, ck.currentChunk + 1)
          \/ /\ Doing("page") /\ ck.currentBlock = NoBlock /\ NextErased # NoBlock
             /\ flash' = TornPage(NextErased, 1)
        BY Zenon DEF Crash, Interrupted
    <2>9. CASE Doing("page") /\ ck.currentBlock # NoBlock /\ flash' = TornPage(ck.currentBlock, ck.currentChunk + 1)
        BY <2>7, <2>9
    <2>10. CASE /\ Doing("page") /\ ck.currentBlock = NoBlock /\ NextErased # NoBlock
                /\ flash' = TornPage(NextErased, 1)
        BY <2>7, <2>10
    <2> QED BY <2>1, <2>3, <2>4, <2>6, <2>8, <2>9, <2>10
<1> QED BY <1>2, <1>3, <1>5 DEF IInv

(***************************************************************************)
(* A chunk is written.                                                     *)
(***************************************************************************)
LEMMA WriteKeeps == IInv /\ Write => IInv'
<1> SUFFICES ASSUME IInv, Write PROVE IInv'
    OBVIOUS
<1>1. Doing("write")
    BY DEF Write
<1> DEFINE w == Tail(work)
           k == Head(work).x
           p == IF dev.allocationBlock = NoBlock THEN 1 ELSE dev.allocationPage + 1
           s == IF p = NChunks THEN "full" ELSE "allocating"
           old == {x \in dev.used : flash[x[1]][x[2]].key = k}
           used(b) == (dev.used \ old) \cup {<<b, p>>}
           emptied(b) == {x[1] : x \in {y \in old : y[1] # b /\ PagesOf(used(b), y[1]) = {}}}
<1>5. PICK b \in AllocationBlocks :
          /\ flash' = [flash EXCEPT ![b][p] = Data(k, clock + 1)]
          /\ clock' = clock + 1
          /\ dev' = [dev EXCEPT
                !.used = used(b),
                !.state[b] = s,
                !.nErasedBlocks = IF p = 1 THEN @ - 1 ELSE @,
                !.nFreeChunks = @ - 1 + Cardinality(old),
                !.allocationBlock = IF p = NChunks THEN NoBlock ELSE b,
                !.allocationPage = IF p = NChunks THEN 0 ELSE p]
          /\ work' = (IF emptied(b) = {} THEN <<>> ELSE <<Task("dirty", Lowest(emptied(b)))>>) \o w
          /\ UNCHANGED <<bad, ck, mounted, bounds>>
    BY DEF Write, Then
<1>2. w = Tail(work) /\ k = Head(work).x
    OBVIOUS
<1>4. p = IF dev.allocationBlock = NoBlock THEN 1 ELSE dev.allocationPage + 1
    OBVIOUS
<1>18. s \in {"full", "allocating"} /\ s = IF p = NChunks THEN "full" ELSE "allocating"
    OBVIOUS
<1> HIDE DEF w, k, p, s
<1>6. /\ mounted /\ DeviceOk /\ FlashOk /\ Bounded /\ w = <<>>
      /\ \A y : Doing(y) => y = "write"
    <2>1. Follows(Head(work), w) /\ Head(work).what \in {"unmount", "write", "bug"}
        BY <1>1, <1>2, DoingIs
    <2>2. w = <<>>
        BY <2>1, LastIs
    <2> QED BY <1>1, <2>2, DoingIs
<1>7. DeviceTyped /\ dev.used = Live(flash) /\ BlocksOk /\ AllocationOk /\ CountersOk /\ WorkOk
    BY <1>6 DEF DeviceOk
<1>8. /\ b \in Blocks /\ p \in Pages /\ flash[b][p] = Erased
      /\ \A q \in Pages : q >= p => flash[b][q] = Erased
      /\ IF dev.allocationBlock = NoBlock THEN dev.state[b] = "empty"
         ELSE b = dev.allocationBlock /\ dev.state[b] = "allocating" /\ p > 1
      /\ ~CleaningUp /\ InState(dev, "checkpoint") = {}
    BY <1>1, <1>4, NextIsErased
<1>9. NoBlock \notin Blocks /\ b # NoBlock
    BY <1>8, CheckpointAssumption DEF NoBlock, Blocks
<1>10. p = 1 <=> dev.allocationBlock = NoBlock
    BY <1>4, <1>8
<1>11. NoPages(flash)
    BY <1>7, <1>8 DEF BlocksOk, NoPages, HasCk, InState
<1>12. b \notin bad
    BY <1>7, <1>8 DEF BlocksOk
<1>13. Programs(flash, flash', b, p, Data(k, clock + 1))
    BY <1>5, <1>6, <1>8, ProgramIs DEF FlashOk
<1>14. /\ FlashOk' /\ NoPages(flash')
       /\ Live(flash') = (Live(flash) \ {x \in Live(flash) : flash[x[1]][x[2]].key = k}) \cup {<<b, p>>}
       /\ \A c \in Blocks : HasData(flash', c) <=> c = b \/ HasData(flash, c)
       /\ <<b, p>> \notin Live(flash)
    <2>1. clock \in Nat /\ clock' = clock + 1 /\ bad' = bad
        BY <1>5, <1>6 DEF Bounded
    <2> QED BY <1>6, <1>8, <1>11, <1>12, <1>13, <2>1, DataKeeps
<1>15. Live(flash') = used(b)
    BY <1>7, <1>14
<1>16. old \subseteq dev.used /\ dev.used \subseteq Blocks \X Pages /\ used(b) \subseteq Blocks \X Pages
    BY <1>7, <1>8 DEF DeviceTyped
<1>17. Cardinality(used(b)) = Cardinality(dev.used) - Cardinality(old) + 1
       /\ Cardinality(old) \in Nat /\ Cardinality(dev.used) \in Nat
    <2>1. IsFiniteSet(dev.used) /\ IsFiniteSet(old) /\ Cardinality(old) \in Nat /\ Cardinality(dev.used) \in Nat
        BY <1>16, BlocksFinite
    <2>2. dev.used \cap old = old
        BY <1>16
    <2>3. Cardinality(dev.used \ old) = Cardinality(dev.used) - Cardinality(old) /\ IsFiniteSet(dev.used \ old)
        BY <2>1, <2>2, FS_Difference
    <2>4. <<b, p>> \notin dev.used \ old
        BY <1>7, <1>14
    <2>5. Cardinality((dev.used \ old) \cup {<<b, p>>}) = Cardinality(dev.used \ old) + 1
        BY <2>3, <2>4, FS_AddElement
    <2> QED BY <2>1, <2>3, <2>5
<1> HIDE DEF old, used
<1>19. /\ dev'.state = [dev.state EXCEPT ![b] = s] /\ dev'.used = used(b)
       /\ dev'.nErasedBlocks = (IF p = 1 THEN dev.nErasedBlocks - 1 ELSE dev.nErasedBlocks)
       /\ dev'.nFreeChunks = dev.nFreeChunks - 1 + Cardinality(old)
       /\ dev'.allocationBlock = (IF p = NChunks THEN NoBlock ELSE b)
       /\ dev'.allocationPage = (IF p = NChunks THEN 0 ELSE p)
       /\ dev'.blocksInCheckpoint = dev.blocksInCheckpoint
       /\ DeviceTyped'
    <2>1. s \in States /\ dev.state \in [Blocks -> States]
          /\ dev.nErasedBlocks - 1 \in Int /\ dev.nFreeChunks - 1 + Cardinality(old) \in Int
        BY <1>7, <1>17, <1>18 DEF States, DeviceTyped
    <2>2. [dev.state EXCEPT ![b] = s] \in [Blocks -> States]
        BY <2>1
    <2>3. (IF p = NChunks THEN 0 ELSE p) \in 0 .. NChunks
        BY <1>8, CheckpointAssumption DEF Pages
    <2> QED BY <1>5, <1>7, <1>8, <1>16, <2>1, <2>2, <2>3 DEF DeviceTyped
<1>20. \A c \in Blocks : dev'.state[c] = IF c = b THEN s ELSE dev.state[c]
    BY <1>7, <1>8, <1>19 DEF DeviceTyped
<1>21. \A c \in Blocks, q \in Pages : c # b \/ q # p => flash'[c][q] = flash[c][q]
    BY <1>13 DEF Programs
<1>22. \A c \in Blocks : ~HasCk(flash', c) /\ ~IsCheckpoint(flash', c)
    BY <1>14, CheckpointAssumption DEF NoPages, HasCk, IsCheckpoint, IsCk, Pages
<1>23. BlocksOk'
    <2>1. ASSUME NEW c \in Blocks
          PROVE  /\ HasData(flash', c) => dev'.state[c] \in {"allocating", "full"}
                 /\ dev'.state[c] = "empty" => AllErased(flash', c)
                 /\ c \in bad' => dev'.state[c] = "dead"
        <3>1. CASE c = b
            BY <1>5, <1>12, <1>18, <1>20, <3>1
        <3>2. CASE c # b
            <4>1. dev'.state[c] = dev.state[c] /\ (HasData(flash', c) => HasData(flash, c))
                BY <1>14, <1>20, <3>2
            <4>2. AllErased(flash, c) => AllErased(flash', c)
                BY <1>21, <3>2 DEF AllErased
            <4> QED BY <1>5, <1>7, <4>1, <4>2 DEF BlocksOk
        <3> QED BY <3>1, <3>2
    <2> QED BY <1>22, <2>1 DEF BlocksOk
<1>24. \A c \in Blocks : c # b => dev'.state[c] # "allocating"
    BY <1>7, <1>8, <1>9, <1>20 DEF AllocationOk
<1>25. AllocationOk'
    <2>1. CASE p = NChunks
        <3>1. \A c \in Blocks : dev'.state[c] # "allocating"
            BY <1>8, <1>18, <1>20, <1>24, <2>1
        <3>2. dev'.allocationBlock = NoBlock
            BY <1>19, <2>1
        <3> QED BY <3>1, <3>2 DEF AllocationOk
    <2>2. CASE p # NChunks
        <3>1. dev'.allocationBlock = b /\ dev'.allocationPage = p /\ dev'.state[b] = "allocating"
            BY <1>8, <1>18, <1>19, <1>20, <2>2
        <3>2. HasData(flash', b) /\ p \in 1 .. NChunks - 1
            BY <1>8, <1>14, <2>2, CheckpointAssumption DEF Pages
        <3>3. \A q \in Pages : q > p => flash'[b][q] = Erased
            <4> TAKE q \in Pages
            <4>1. p \in Int /\ q \in Int
                BY <1>8 DEF Pages
            <4>2. q > p => q # p /\ q >= p
                BY <4>1
            <4> QED BY <1>8, <1>21, <4>2
        <3> QED BY <1>24, <3>1, <3>2, <3>3 DEF AllocationOk
    <2> QED BY <2>1, <2>2
<1>26. InState(dev, "checkpoint")' = {} /\ Checkpoints' = 0 /\ Checkpoints = 0
    <2>1. InState(dev, "checkpoint")' = {}
        BY <1>8, <1>18, <1>20 DEF InState
    <2>2. {} \in SUBSET Blocks
        OBVIOUS
    <2> QED BY <1>8, <2>1, <2>2, BlocksFinite DEF Checkpoints
<1>27. /\ TargetsIn(work)' \subseteq {d \in Blocks : dev'.state[d] = "full" /\ PagesOf(dev'.used, d) = {}}
       /\ Ordered(work)' /\ ~CleaningUp' /\ \A x : Doing(x)' => x = "dirty"
    <2>1. <<>> \in Seq(Tasks) /\ Ordered(<<>>)
        BY TaskIs DEF Ordered
    <2>2. CASE emptied(b) = {}
        <3>2. w \in Seq(Tasks)
            BY <1>1, <1>2, DoingIs
        <3>3. <<>> \o w = w
            BY <3>2, ConcatEmptySeq
        <3>1. work' = w
            BY <1>5, <2>2, <3>3
        <3> QED BY <1>6, <2>1, <3>1, NowIs, NoTasks
    <2>3. CASE emptied(b) # {}
        <3>1. PICK d : d = Lowest(emptied(b))
            OBVIOUS
        <3>2. \A e \in emptied(b) : e \in Blocks /\ e # b /\ HasData(flash, e) /\ PagesOf(used(b), e) = {}
            <4> SUFFICES ASSUME NEW e \in emptied(b)
                         PROVE  e \in Blocks /\ e # b /\ HasData(flash, e) /\ PagesOf(used(b), e) = {}
                OBVIOUS
            <4>1. PICK y \in old : e = y[1] /\ y[1] # b /\ PagesOf(used(b), y[1]) = {}
                OBVIOUS
            <4>2. y \in Live(flash) /\ y \in Blocks \X Pages
                BY <1>7, <1>16, <4>1
            <4>3. y = <<e, y[2]>> /\ e \in Blocks /\ y[2] \in Pages
                BY <4>1, <4>2
            <4>4. HasData(flash, e)
                BY <4>2, <4>3, LiveIs DEF HasData
            <4> QED BY <4>1, <4>3, <4>4
        <3>3. emptied(b) \subseteq Nat
            BY <3>2, CheckpointAssumption DEF Blocks
        <3> HIDE DEF emptied
        <3>4. d \in emptied(b)
            BY <2>3, <3>1, <3>3, LowestIs
        <3>5. d \in Blocks /\ d # b /\ HasData(flash, d) /\ PagesOf(used(b), d) = {}
            BY <3>2, <3>4
        <3>6. dev.state[d] = "full"
            BY <1>7, <1>8, <1>9, <3>5 DEF BlocksOk, AllocationOk
        <3>7. Task("dirty", d) \in Tasks /\ Task("dirty", d).what = "dirty" /\ Task("dirty", d).x = d
            BY <3>5, TaskIs
        <3>8. PICK u : u = Put(Task("dirty", d), w)
            OBVIOUS
        <3>9. work' = u
            BY <1>5, <1>6, <2>1, <2>3, <3>1, <3>7, <3>8, ListsAre
        <3>10. Ordered(u) /\ u # <<>> /\ Head(u) = Task("dirty", d) /\ ~CleaningIn(u) /\ TargetsIn(u) = {d}
            <4>1. Follows(Task("dirty", d), w) /\ w \in Seq(Tasks)
                BY <1>6, <2>1, <3>5, <3>7 DEF Follows, Scans
            <4>2. ~CleaningIn(w) /\ TargetsIn(w) = {}
                BY <1>6, NoTasks
            <4>3. ~CleaningIn(u) /\ TargetsIn(u) = {d}
                BY <3>7, <3>8, <4>1, <4>2, TasksIn
            <4> QED BY <3>7, <3>8, <4>1, <4>3, PutOrdered, PutTask
        <3>11. dev'.state[d] = "full" /\ PagesOf(dev'.used, d) = {}
            BY <1>19, <1>20, <3>5, <3>6
        <3> QED BY <3>5, <3>7, <3>9, <3>10, <3>11, NowIs
    <2> QED BY <2>2, <2>3
<1>28. CountersOk'
    <2>1. /\ Cardinality(InState(dev, "empty")) \in Nat /\ Usable(dev.state, dev.used) \in Int
          /\ NChunks * 0 = 0
        BY <1>7, CountsAreNumbers
    <2>2. ~Streaming /\ ~Streaming' /\ ~Doing("erasecheckpoint")
        BY <1>6, <1>27 DEF Streaming
    <2>3. /\ dev.nErasedBlocks = Cardinality(InState(dev, "empty")) + 0
          /\ dev.nFreeChunks = Usable(dev.state, dev.used) - 0 /\ dev.blocksInCheckpoint = 0
        BY <1>7, <1>26, <2>1, <2>2 DEF CountersOk
    <2>4. dev.state \in [Blocks -> States] /\ s \in States
        BY <1>7, <1>18 DEF DeviceTyped, States
    <2>5. Cardinality(InState(dev, "empty")') = Cardinality(InState(dev, "empty")) - (IF p = 1 THEN 1 ELSE 0)
        <3>1. Cardinality(BlocksIn(dev'.state, "empty"))
                  = Cardinality(BlocksIn(dev.state, "empty")) - (IF dev.state[b] = "empty" THEN 1 ELSE 0)
                                                              + (IF s = "empty" THEN 1 ELSE 0)
            BY <1>8, <1>19, <2>4, StateCounts
        <3>2. InState(dev, "empty")' = BlocksIn(dev'.state, "empty") /\ InState(dev, "empty") = BlocksIn(dev.state, "empty")
            BY DEF InState, BlocksIn
        <3>3. s # "empty" /\ (dev.state[b] = "empty" <=> p = 1)
            BY <1>8, <1>10, <1>18
        <3> QED BY <2>1, <3>1, <3>2, <3>3
    <2>6. Usable(dev.state, dev.used)' = Usable(dev.state, dev.used) - 1 + Cardinality(old)
        <3> DEFINE n == Cardinality({c \in Blocks : dev.state[c] # "dead"})
                   m == Cardinality({c \in Blocks : dev'.state[c] # "dead"})
        <3>1. n \in Nat
            BY BlocksFinite
        <3>2. m = n - (IF dev.state[b] # "dead" THEN 1 ELSE 0) + (IF s # "dead" THEN 1 ELSE 0)
            BY <1>8, <1>19, <2>4, UsableCounts
        <3>3. dev.state[b] # "dead" /\ s # "dead"
            BY <1>8, <1>18
        <3>4. Usable(dev.state, dev.used) = NChunks * n - Cardinality(dev.used)
              /\ Usable(dev.state, dev.used)' = NChunks * m - Cardinality(used(b))
            BY <1>19 DEF Usable
        <3> HIDE DEF n, m
        <3>5. m = n /\ NChunks * n \in Int
            BY <3>1, <3>2, <3>3, CheckpointAssumption
        <3> QED BY <1>17, <3>4, <3>5
    <2>7. /\ dev'.nErasedBlocks = Cardinality(InState(dev, "empty")') + 0
          /\ dev'.nFreeChunks = Usable(dev.state, dev.used)' - 0
        BY <1>17, <1>19, <2>1, <2>3, <2>5, <2>6
    <2> QED BY <1>19, <1>26, <2>1, <2>2, <2>3, <2>7 DEF CountersOk
<1>29. WorkOk'
    BY <1>27 DEF WorkOk
<1>30. StreamOk'
    <2>1. AllBegun'
        BY <1>26 DEF AllBegun, InState
    <2>2. ~Doing("page")' /\ ~Doing("erasecheckpoint")'
        BY <1>27
    <2> QED BY <2>1, <2>2 DEF StreamOk
<1>31. Bounded' /\ mounted' /\ (dev.used = Live(flash))'
    BY <1>5, <1>6, <1>15, <1>19 DEF Bounded, bounds
<1> QED BY <1>14, <1>19, <1>23, <1>25, <1>28, <1>29, <1>30, <1>31 DEF IInv, DeviceOk

(***************************************************************************)
(* A page of the checkpoint is written.                                    *)
(***************************************************************************)
\* The same data are the same live chunks.
LEMMA SameData ==
    ASSUME NEW f, NEW g,
           \A b \in Blocks, p \in Pages : /\ IsData(g, b, p) <=> IsData(f, b, p)
                                          /\ IsData(f, b, p) => g[b][p] = f[b][p]
    PROVE  Live(g) = Live(f)
<1>1. ASSUME NEW b \in Blocks, NEW p \in Pages
      PROVE  <<b, p>> \in Live(f) <=> <<b, p>> \in Live(g)
    <2>1. ASSUME <<b, p>> \in Live(f) PROVE <<b, p>> \in Live(g)
        <3>1. /\ IsData(f, b, p)
              /\ \A c \in Blocks, q \in Pages :
                    IsData(f, c, q) /\ f[c][q].key = f[b][p].key => f[c][q].time <= f[b][p].time
            BY <2>1, LiveIs
        <3>2. /\ IsData(g, b, p)
              /\ \A c \in Blocks, q \in Pages :
                    IsData(g, c, q) /\ g[c][q].key = g[b][p].key => g[c][q].time <= g[b][p].time
            BY <3>1
        <3> QED BY <3>2, LiveIs
    <2>2. ASSUME <<b, p>> \in Live(g) PROVE <<b, p>> \in Live(f)
        <3>1. /\ IsData(g, b, p)
              /\ \A c \in Blocks, q \in Pages :
                    IsData(g, c, q) /\ g[c][q].key = g[b][p].key => g[c][q].time <= g[b][p].time
            BY <2>2, LiveIs
        <3>2. /\ IsData(f, b, p)
              /\ \A c \in Blocks, q \in Pages :
                    IsData(f, c, q) /\ f[c][q].key = f[b][p].key => f[c][q].time <= f[b][p].time
            BY <3>1
        <3> QED BY <3>2, LiveIs
    <2> QED BY <2>1, <2>2
<1>2. \A x \in Blocks \X Pages : \E b \in Blocks, p \in Pages : x = <<b, p>>
    OBVIOUS
<1>3. \A x \in Blocks \X Pages : x \in Live(f) <=> x \in Live(g)
    BY <1>1, <1>2
<1>4. Live(f) \subseteq Blocks \X Pages /\ Live(g) \subseteq Blocks \X Pages
    BY LiveIs
<1> QED BY <1>3, <1>4

\* When page i is there, and all before it, each block of the checkpoint has
\* its first page.
LEMMA BegunThen ==
    ASSUME IInv, Doing("page"), NEW b \in Blocks, NEW p \in Pages, NEW x,
           Programs(flash, flash', b, p, x), x.kind = "ck" => x.n = ck.page + 1,
           p > 1 => dev.state[b] = "checkpoint",
           \A j \in 1 .. ck.page + 1 : Present(flash', j)
    PROVE  \A c \in Blocks : dev.state[c] = "checkpoint" \/ c = b => IsCheckpoint(flash', c)
<1>1. PagesOk /\ DeviceTyped
    BY DoingIs DEF DeviceOk, StreamOk
<1>2. PICK i : i = ck.page
    OBVIOUS
<1>3. i \in Nat
    BY <1>1, <1>2, CheckpointAssumption DEF DeviceTyped
<1>4. \A c \in Blocks, q \in Pages : c # b \/ q # p => flash'[c][q] = flash[c][q]
    BY DEF Programs
<1>5. \A c \in Blocks, q \in Pages : IsCk(flash, c, q) => flash[c][q].n <= i
    BY <1>1, <1>2 DEF PagesOk
<1>6. ASSUME NEW j \in 1 .. i PROVE Present(flash, j)
    <2>1. j \in 1 .. i + 1 /\ j # i + 1
        BY <1>3
    <2>2. PICK c \in Blocks, q \in Pages : IsCk(flash', c, q) /\ flash'[c][q].n = j
        BY <1>2, <2>1 DEF Present
    <2>3. c # b \/ q # p
        BY <1>2, <2>1, <2>2 DEF Programs, IsCk
    <2>4. IsCk(flash, c, q) /\ flash[c][q].n = j
        BY <1>4, <2>2, <2>3 DEF IsCk
    <2> QED BY <2>4 DEF Present
<1>7. AllBegun
    BY <1>1, <1>2, <1>6 DEF PagesOk
<1>8. x.kind = "ck"
    <2>1. i + 1 \in 1 .. i + 1
        BY <1>3
    <2>2. PICK c \in Blocks, q \in Pages : IsCk(flash', c, q) /\ flash'[c][q].n = i + 1
        BY <1>2, <2>1 DEF Present
    <2>3. CASE c = b /\ q = p
        BY <2>2, <2>3 DEF Programs, IsCk
    <2>4. CASE c # b \/ q # p
        <3>1. flash[c][q].n <= i /\ flash[c][q].n = i + 1
            BY <1>4, <1>5, <2>2, <2>4 DEF IsCk
        <3> QED BY <1>3, <3>1
    <2> QED BY <2>3, <2>4
<1>9. 1 \in Pages /\ (p # 1 => p > 1)
    BY CheckpointAssumption DEF Pages
<1>10. ASSUME NEW c \in Blocks, dev.state[c] = "checkpoint" \/ c = b
       PROVE  IsCheckpoint(flash', c)
    <2>1. CASE c = b /\ p = 1
        BY <1>8, <2>1 DEF IsCheckpoint, Programs
    <2>2. CASE c # b \/ p # 1
        <3>1. dev.state[c] = "checkpoint"
            BY <1>9, <1>10, <2>2
        <3>2. IsCheckpoint(flash, c)
            BY <1>7, <3>1 DEF AllBegun
        <3>3. flash'[c][1] = flash[c][1]
            BY <1>4, <1>9, <2>2
        <3> QED BY <3>2, <3>3 DEF IsCheckpoint
    <2> QED BY <2>1, <2>2
<1> QED BY <1>10

\* The first two pages are of the same device.
LEMMA SavedAreSame ==
    ASSUME IInv, Doing("page")
    PROVE  SameSaved(SavedCounters, SavedBlocks)
<1>1. DeviceTyped /\ AllocationOk /\ CountersOk /\ Streaming
    BY DoingIs DEF DeviceOk, Streaming
<1>2. /\ dev.nErasedBlocks = Cardinality(InState(dev, "empty")) + Checkpoints
      /\ dev.nFreeChunks = Usable(dev.state, dev.used) - 0
    BY <1>1 DEF CountersOk
<1>3. Usable(dev.state, dev.used) \in Int
    BY <1>1, CountsAreNumbers
<1>4. Cardinality({b \in Blocks : dev.state[b] \in {"empty", "checkpoint"}})
          = Cardinality(InState(dev, "empty")) + Checkpoints
    <2>1. /\ IsFiniteSet(InState(dev, "empty")) /\ IsFiniteSet(InState(dev, "checkpoint"))
          /\ Cardinality(InState(dev, "empty")) \in Nat /\ Cardinality(InState(dev, "checkpoint")) \in Nat
        BY BlocksFinite DEF InState
    <2>2. InState(dev, "empty") \cap InState(dev, "checkpoint") = {}
        BY DEF InState
    <2>3. Cardinality(InState(dev, "empty") \cup InState(dev, "checkpoint"))
              = Cardinality(InState(dev, "empty")) + Cardinality(InState(dev, "checkpoint")) - 0
        <3>1. Cardinality({}) = 0
            BY FS_EmptySet
        <3> QED BY <2>1, <2>2, <3>1, FS_Union
    <2>4. {b \in Blocks : dev.state[b] \in {"empty", "checkpoint"}}
              = InState(dev, "empty") \cup InState(dev, "checkpoint")
        <3> DEFINE R == InState(dev, "empty") \cup InState(dev, "checkpoint")
        <3>2. \A c : c \in R <=> c \in Blocks /\ dev.state[c] \in {"empty", "checkpoint"}
            BY DEF InState
        <3> HIDE DEF R
        <3>3. {b \in Blocks : dev.state[b] \in {"empty", "checkpoint"}} = R
            BY <3>2, Zenon
        <3> QED BY <3>3 DEF R
    <2>5. Cardinality(InState(dev, "empty") \cup InState(dev, "checkpoint"))
              = Cardinality(InState(dev, "empty")) + Checkpoints
        BY <2>1, <2>3 DEF Checkpoints
    <2> QED BY <2>4, <2>5, Zenon
<1>5. /\ SavedCounters.nErasedBlocks = dev.nErasedBlocks /\ SavedCounters.nFreeChunks = dev.nFreeChunks
      /\ SavedCounters.allocationBlock = dev.allocationBlock
      /\ SavedBlocks.state = dev.state /\ SavedBlocks.used = dev.used
    BY DEF SavedCounters, SavedBlocks
<1>6. /\ \A b \in Blocks : dev.state[b] = "allocating" => b = dev.allocationBlock
      /\ dev.allocationBlock # NoBlock => dev.state[dev.allocationBlock] = "allocating"
    BY <1>1 DEF AllocationOk
<1>7. dev.nFreeChunks = Usable(dev.state, dev.used)
    BY <1>2, <1>3
<1> HIDE DEF SavedCounters, SavedBlocks
<1> QED BY <1>2, <1>4, <1>5, <1>6, <1>7 DEF SameSaved

\* The page that is written says what the device is, and the others still do.
LEMMA PageKeeps ==
    ASSUME IInv, Doing("page"), NEW b, b = IF ck.currentBlock = NoBlock THEN NextErased ELSE ck.currentBlock,
           b # NoBlock, NEW p, p = IF ck.currentBlock = NoBlock THEN 1 ELSE ck.currentChunk + 1,
           NEW x, x.kind = "ck", x.n = ck.page + 1, x.holds = Holds(ck.page + 1),
           Programs(flash, flash', b, p, x), bad' = bad, clock' = clock
    PROVE  FlashOk' /\ Live(flash') = Live(flash)
<1>1. /\ DeviceOk /\ FlashOk /\ PagesOk /\ DeviceTyped /\ BlocksOk /\ AllocationOk /\ dev.used = Live(flash)
    BY DoingIs DEF DeviceOk, StreamOk
<1>2. /\ b \in Blocks /\ p \in Pages /\ ~HasData(flash, b) /\ ~CleaningUp /\ b \notin bad
      /\ IF ck.currentBlock = NoBlock THEN dev.state[b] = "empty" /\ AllErased(flash, b)
         ELSE dev.state[b] = "checkpoint" /\ p > 1
    BY NextPageIs
<1>3. PICK i : i = ck.page + 1
    OBVIOUS
<1>4. i \in Stream /\ i \in Nat /\ i - 1 = ck.page /\ i >= 1
    BY <1>1, <1>3, CheckpointAssumption DEF PagesOk, DeviceTyped, Stream
<1>5. flash'[b][p] = x /\ \A c \in Blocks, q \in Pages : c # b \/ q # p => flash'[c][q] = flash[c][q]
    BY DEF Programs
<1>6. \A c \in Blocks, q \in Pages : IsCk(flash, c, q) => flash[c][q].n < i /\ flash[c][q].n \in Stream
    BY <1>1, <1>3, <1>4 DEF PagesOk, FlashOk, Written, PageOk, IsCk, Stream
<1>7. \A c \in Blocks, q \in Pages : /\ IsData(flash', c, q) <=> IsData(flash, c, q)
                                     /\ IsData(flash, c, q) => flash'[c][q] = flash[c][q]
    BY <1>2, <1>5 DEF IsData, HasData
<1>8. Live(flash') = Live(flash)
    BY <1>7, SameData
<1>9. \A c \in Blocks : HasData(flash', c) <=> HasData(flash, c)
    BY <1>7 DEF HasData
<1>10. \A c \in Blocks, q \in Pages :
          IsCk(flash', c, q) <=> (c = b /\ q = p) \/ ((c # b \/ q # p) /\ IsCk(flash, c, q))
    BY <1>2, <1>5 DEF IsCk
<1>11. \A c \in Blocks : HasCk(flash', c) => c = b \/ HasCk(flash, c)
    BY <1>10 DEF HasCk
<1>12. Written(flash)'
    <2>1. ASSUME NEW c \in Blocks, NEW q \in Pages PROVE PageOk(flash[c][q])'
        <3>1. PageOk(flash[c][q])
            BY <1>1 DEF FlashOk, Written
        <3>2. CASE c = b /\ q = p
            BY <1>3, <1>4, <1>5, <3>2 DEF PageOk
        <3>3. CASE c # b \/ q # p
            BY <1>5, <3>1, <3>3 DEF PageOk
        <3> QED BY <3>2, <3>3
    <2> QED BY <2>1 DEF Written, Programs
<1>13. TimesUnique(flash')
    BY <1>1, <1>7 DEF FlashOk, TimesUnique
<1>14. PagesUnique(flash')
    <2> SUFFICES ASSUME NEW c \in Blocks, NEW d \in Blocks, NEW q \in Pages, NEW r \in Pages,
                        IsCk(flash', c, q), IsCk(flash', d, r), flash'[c][q].n = flash'[d][r].n
                 PROVE  c = d /\ q = r
        BY DEF PagesUnique
    <2>1. CASE c = b /\ q = p /\ d = b /\ r = p
        BY <2>1
    <2>2. CASE c = b /\ q = p /\ (d # b \/ r # p)
        <3>1. flash'[c][q].n = i /\ flash'[d][r].n < i /\ flash'[d][r].n \in Stream
            BY <1>3, <1>5, <1>6, <1>10, <2>2
        <3> QED BY <1>4, <3>1 DEF Stream
    <2>3. CASE (c # b \/ q # p) /\ d = b /\ r = p
        <3>1. flash'[d][r].n = i /\ flash'[c][q].n < i /\ flash'[c][q].n \in Stream
            BY <1>3, <1>5, <1>6, <1>10, <2>3
        <3> QED BY <1>4, <3>1 DEF Stream
    <2>4. CASE (c # b \/ q # p) /\ (d # b \/ r # p)
        BY <1>1, <1>5, <1>10, <2>4 DEF FlashOk, PagesUnique
    <2> QED BY <2>1, <2>2, <2>3, <2>4
<1>15. NotMixed(flash')
    BY <1>1, <1>2, <1>9, <1>11 DEF FlashOk, NotMixed
<1>16. \A c \in bad', q \in Pages : flash'[c][q] = Torn
    BY <1>1, <1>2, <1>5 DEF FlashOk
<1>32. SameSaved(SavedCounters, SavedBlocks)
    BY SavedAreSame, Zenon
<1>17. ASSUME NEW d, CountersSaved(flash, d) PROVE CountersSaved(flash', d)
    <2>1. ASSUME d.allocationBlock # NoBlock
          PROVE  /\ d.allocationPage \in 1 .. NChunks - 1 /\ HasData(flash', d.allocationBlock)
                 /\ \A q \in Pages : q > d.allocationPage => flash'[d.allocationBlock][q] = Erased
        <3>1. PICK a : a = d.allocationBlock
            OBVIOUS
        <3>2. /\ a \in Blocks /\ d.allocationPage \in 1 .. NChunks - 1 /\ HasData(flash, a)
              /\ \A q \in Pages : q > d.allocationPage => flash[a][q] = Erased
            BY <1>17, <2>1, <3>1 DEF CountersSaved
        <3>3. a # b
            BY <1>2, <3>2
        <3> QED BY <1>5, <1>9, <3>1, <3>2, <3>3
    <2> QED BY <1>17, <2>1 DEF CountersSaved
<1>18. CountersSaved(flash, SavedCounters)
    <2>1. PICK d : d = SavedCounters
        OBVIOUS
    <2>2. /\ d.nErasedBlocks = dev.nErasedBlocks /\ d.nFreeChunks = dev.nFreeChunks
          /\ d.allocationBlock = dev.allocationBlock /\ d.allocationPage = dev.allocationPage
        BY <2>1 DEF SavedCounters
    <2>3. CountersSaved(flash, d)
        BY <1>1, <1>2, <2>2 DEF CountersSaved, DeviceTyped, AllocationOk
    <2> QED BY <2>1, <2>3
<1>19. BlocksSaved(flash', SavedBlocks)
    <2>1. SavedBlocks.state = dev.state /\ SavedBlocks.used = dev.used
        BY DEF SavedBlocks
    <2>2. dev.state \in [Blocks -> States] /\ dev.used = Live(flash')
        BY <1>1, <1>8 DEF DeviceTyped
    <2>3. \A c \in Blocks : /\ HasData(flash', c) => dev.state[c] \in {"allocating", "full"}
                            /\ HasCk(flash', c) => dev.state[c] \in {"empty", "checkpoint"}
        BY <1>1, <1>2, <1>9, <1>11 DEF BlocksOk
    <2> HIDE DEF SavedBlocks
    <2> QED BY <2>1, <2>2, <2>3 DEF BlocksSaved
<1>20. ASSUME NEW c \in Blocks, NEW q \in Pages, IsCk(flash', c, q), c # b \/ q # p
       PROVE  flash'[c][q] = flash[c][q] /\ IsCk(flash, c, q) /\ flash[c][q].n < i /\ flash[c][q].n \in Stream
    BY <1>5, <1>6, <1>10, <1>20
<1>21. i = 1 => p = 1
    BY <1>1, <1>3, <1>4 DEF PagesOk
<1>22. Holds(i) = (IF i = 1 THEN SavedCounters
                   ELSE IF i = 2 THEN SavedBlocks
                   ELSE IF i < StreamPages THEN SavedObjects
                   ELSE [used |-> dev.used, sum |-> ck.sum])
    BY DEF Holds
<1>23. x.n = i /\ x.holds = Holds(i)
    BY <1>3
<1>24. 1 # 2 /\ ~(1 >= 3) /\ ~(2 >= 3) /\ StreamPages >= 3 /\ StreamPages \in Nat
    BY CheckpointAssumption
<1>25. ASSUME NEW c \in Blocks, NEW q \in Pages, IsCk(flash', c, q), flash'[c][q].n = 1
       PROVE  q = 1 /\ CountersSaved(flash', flash'[c][q].holds) /\ flash'[c][q].holds = SavedCounters
    <2>1. CASE c = b /\ q = p
        <3>1. i = 1 /\ flash'[c][q] = x
            BY <1>5, <1>23, <1>25, <2>1
        <3>2. flash'[c][q].holds = SavedCounters
            BY <1>22, <1>23, <3>1
        <3> QED BY <1>17, <1>18, <1>21, <2>1, <3>1, <3>2
    <2>2. CASE c # b \/ q # p
        <3>1. flash'[c][q] = flash[c][q] /\ IsCk(flash, c, q)
            BY <1>20, <1>25, <2>2
        <3>2. q = 1 /\ CountersSaved(flash, flash[c][q].holds)
            BY <1>1, <1>25, <3>1 DEF FlashOk, Saved
        <3>3. flash[c][q].holds = SavedCounters
            BY <1>1, <1>25, <3>1 DEF PagesOk
        <3> QED BY <1>17, <3>1, <3>2, <3>3
    <2> QED BY <2>1, <2>2
<1>26. ASSUME NEW c \in Blocks, NEW q \in Pages, IsCk(flash', c, q), flash'[c][q].n >= 3
       PROVE  flash'[c][q].holds.used = Live(flash')
    <2>1. CASE c = b /\ q = p
        <3>1. flash'[c][q] = x /\ i >= 3
            BY <1>5, <1>23, <1>26, <2>1
        <3>2. i # 1 /\ i # 2
            BY <1>4, <3>1
        <3>3. Holds(i).used = dev.used
            <4>1. CASE i < StreamPages
                BY <1>22, <3>2, <4>1 DEF SavedObjects
            <4>2. CASE ~(i < StreamPages)
                BY <1>22, <3>2, <4>2
            <4> QED BY <4>1, <4>2
        <3> QED BY <1>1, <1>8, <1>23, <3>1, <3>3
    <2>2. CASE c # b \/ q # p
        <3>1. flash'[c][q] = flash[c][q] /\ IsCk(flash, c, q)
            BY <1>20, <1>26, <2>2
        <3> QED BY <1>1, <1>8, <1>26, <3>1 DEF FlashOk, Saved
    <2> QED BY <2>1, <2>2
<1>27. ASSUME Complete(flash')
       PROVE  i = StreamPages /\ \A c \in Blocks : dev.state[c] = "checkpoint" \/ c = b => IsCheckpoint(flash', c)
    <2>1. StreamPages \in Stream /\ \A j \in 1 .. i : j \in Stream
        BY <1>4, <1>24 DEF Stream
    <2>2. PICK d \in Blocks, q \in Pages : IsCk(flash', d, q) /\ flash'[d][q].n = StreamPages
        BY <1>27, <2>1 DEF Complete, Present
    <2>3. i = StreamPages
        <3>1. CASE d = b /\ q = p
            BY <1>5, <1>23, <2>2, <3>1
        <3>2. CASE d # b \/ q # p
            <4>1. StreamPages < i
                BY <1>20, <2>2, <3>2
            <4> QED BY <1>4, <1>24, <4>1 DEF Stream
        <3> QED BY <3>1, <3>2
    <2>4. \A j \in 1 .. ck.page + 1 : Present(flash', j)
        BY <1>3, <1>27, <2>1 DEF Complete
    <2>5. p > 1 => dev.state[b] = "checkpoint"
        BY <1>2
    <2>6. \A c \in Blocks : dev.state[c] = "checkpoint" \/ c = b => IsCheckpoint(flash', c)
        BY <1>2, <2>4, <2>5, BegunThen
    <2> QED BY <2>3, <2>6
<1>28. ASSUME NEW c \in Blocks, NEW q \in Pages, IsCk(flash', c, q), flash'[c][q].n = 2
       PROVE  /\ BlocksSaved(flash', flash'[c][q].holds)
              /\ Complete(flash') => BlocksFinal(flash, flash[c][q].holds)'
              /\ SameSaved(SavedCounters, flash'[c][q].holds) \/ (flash'[c][q] = flash[c][q] /\ IsCk(flash, c, q))
    <2>1. CASE c = b /\ q = p
        <3>1. flash'[c][q] = x /\ i = 2
            BY <1>5, <1>23, <1>28, <2>1
        <3>2. flash'[c][q].holds = SavedBlocks
            BY <1>22, <1>23, <3>1
        <3>3. ~Complete(flash')
            BY <1>24, <1>27, <3>1
        <3>4. SameSaved(SavedCounters, SavedBlocks)
            BY <1>32
        <3> QED BY <1>19, <3>2, <3>3, <3>4
    <2>2. CASE c # b \/ q # p
        <3>1. flash'[c][q] = flash[c][q] /\ IsCk(flash, c, q)
            BY <1>20, <1>28, <2>2
        <3>2. PICK s : s = flash[c][q].holds
            OBVIOUS
        <3>3. BlocksSaved(flash, s)
            BY <1>1, <1>28, <3>1, <3>2 DEF FlashOk, Saved
        <3>4. \A d \in Blocks : \/ s.state[d] = dev.state[d]
                                \/ s.state[d] = "empty" /\ dev.state[d] = "checkpoint"
            BY <1>1, <1>28, <3>1, <3>2 DEF PagesOk
        <3>5. BlocksSaved(flash', s)
            <4>1. \A d \in Blocks : HasCk(flash', d) => s.state[d] \in {"empty", "checkpoint"}
                BY <1>2, <1>11, <3>3, <3>4 DEF BlocksSaved
            <4> QED BY <1>8, <1>9, <3>3, <4>1 DEF BlocksSaved
        <3>6. ASSUME Complete(flash')
              PROVE  \A d \in Blocks :
                        /\ s.state[d] = "empty" => AllErased(flash', d) \/ IsCheckpoint(flash', d)
                        /\ s.state[d] = "checkpoint" => IsCheckpoint(flash', d)
                        /\ d \in bad' => s.state[d] = "dead"
            <4>1. \A d \in Blocks : dev.state[d] = "checkpoint" \/ d = b => IsCheckpoint(flash', d)
                BY <1>27, <3>6
            <4>2. ASSUME NEW d \in Blocks
                  PROVE  /\ s.state[d] = "empty" => AllErased(flash', d) \/ IsCheckpoint(flash', d)
                         /\ s.state[d] = "checkpoint" => IsCheckpoint(flash', d)
                         /\ d \in bad' => s.state[d] = "dead"
                <5>1. d # b => (AllErased(flash, d) => AllErased(flash', d))
                    BY <1>5 DEF AllErased
                <5>2. dev.state[d] = "empty" => AllErased(flash, d)
                    BY <1>1 DEF BlocksOk
                <5>3. d \in bad' => dev.state[d] = "dead" /\ s.state[d] = "dead"
                    BY <1>1, <3>4 DEF BlocksOk
                <5>4. s.state[d] = "empty" => AllErased(flash', d) \/ IsCheckpoint(flash', d)
                    BY <3>4, <4>1, <5>1, <5>2
                <5>5. s.state[d] = "checkpoint" => IsCheckpoint(flash', d)
                    BY <3>4, <4>1
                <5> QED BY <5>3, <5>4, <5>5
            <4> QED BY <4>2
        <3>7. ASSUME Complete(flash') PROVE BlocksFinal(flash, flash[c][q].holds)'
            <4>1. (flash[c][q].holds)' = s
                BY <3>1, <3>2
            <4> QED BY <3>6, <3>7, <4>1 DEF BlocksFinal
        <3> QED BY <3>1, <3>2, <3>5, <3>7
    <2> QED BY <2>1, <2>2
<1>29. ASSUME NEW c \in Blocks, NEW q \in Pages, IsCk(flash', c, q), flash'[c][q].n = 1,
              NEW d \in Blocks, NEW r \in Pages, IsCk(flash', d, r), flash'[d][r].n = 2
       PROVE  SameSaved(flash'[c][q].holds, flash'[d][r].holds)
    <2>1. flash'[c][q].holds = SavedCounters
        BY <1>25, <1>29
    <2>2. CASE SameSaved(SavedCounters, flash'[d][r].holds)
        BY <2>1, <2>2
    <2>3. CASE flash'[d][r] = flash[d][r] /\ IsCk(flash, d, r)
        <3>1. flash'[c][q] = flash[c][q] /\ IsCk(flash, c, q)
            <4>1. CASE c # b \/ q # p
                BY <1>20, <1>29, <4>1
            <4>2. CASE c = b /\ q = p
                <5>1. i = 1
                    BY <1>5, <1>23, <1>29, <4>2
                <5>2. flash[d][r].n < 1 /\ flash[d][r].n = 2
                    BY <1>6, <1>29, <2>3, <5>1
                <5> QED BY <5>2
            <4> QED BY <4>1, <4>2
        <3> QED BY <1>1, <1>29, <2>3, <3>1 DEF FlashOk, Saved
    <2> QED BY <1>28, <1>29, <2>2, <2>3
<1>30. Saved(flash)'
    <2> SUFFICES ASSUME NEW c \in Blocks, NEW q \in Pages, IsCk(flash', c, q)
                 PROVE  (/\ flash[c][q].n = 1 => q = 1 /\ CountersSaved(flash, flash[c][q].holds)
                         /\ flash[c][q].n = 2 =>
                               /\ BlocksSaved(flash, flash[c][q].holds)
                               /\ Complete(flash) => BlocksFinal(flash, flash[c][q].holds)
                         /\ flash[c][q].n >= 3 => flash[c][q].holds.used = Live(flash)
                         /\ flash[c][q].n = 1 => \A d \in Blocks, r \in Pages :
                              IsCk(flash, d, r) /\ flash[d][r].n = 2
                                  => SameSaved(flash[c][q].holds, flash[d][r].holds))'
        BY Zenon DEF Saved
    <2>1. (flash[c][q].n = 1 => q = 1 /\ CountersSaved(flash, flash[c][q].holds))'
        BY <1>25
    <2>2. (flash[c][q].n = 2 => /\ BlocksSaved(flash, flash[c][q].holds)
                                /\ Complete(flash) => BlocksFinal(flash, flash[c][q].holds))'
        BY <1>28
    <2>3. (flash[c][q].n >= 3 => flash[c][q].holds.used = Live(flash))'
        BY <1>26
    <2>4. (flash[c][q].n = 1 => \A d \in Blocks, r \in Pages :
              IsCk(flash, d, r) /\ flash[d][r].n = 2
                  => SameSaved(flash[c][q].holds, flash[d][r].holds))'
        BY <1>29
    <2> QED BY <2>1, <2>2, <2>3, <2>4
<1>31. bad' \subseteq Blocks
    BY <1>1 DEF FlashOk
<1> QED BY <1>8, <1>12, <1>13, <1>14, <1>15, <1>16, <1>30, <1>31 DEF FlashOk

\* A page of the stream is written, or there is no block to write it to; the block
\* that is begun is taken from the erased ones and counted when the stream is
\* closed.
LEMMA WritePageKeeps == IInv /\ WritePage => IInv'
<1> SUFFICES ASSUME IInv, WritePage PROVE IInv'
    OBVIOUS
<1>1. Doing("page")
    BY DEF WritePage
<1>2. PICK b : b = IF ck.currentBlock = NoBlock THEN NextErased ELSE ck.currentBlock
    OBVIOUS
<1>3. PICK p : p = IF ck.currentBlock = NoBlock THEN 1 ELSE ck.currentChunk + 1
    OBVIOUS
<1>4. PICK i : i = ck.page + 1
    OBVIOUS
<1>5. PICK next : next = IF ck.currentBlock = NoBlock THEN b + 1 ELSE ck.nextBlock
    OBVIOUS
<1>6. PICK w : w = Tail(work)
    OBVIOUS
<1>7. /\ mounted /\ DeviceOk /\ FlashOk /\ Bounded /\ w \in Ends
      /\ \A y : Doing(y) => y = "page"
    <2>1. Follows(Head(work), w) /\ Head(work).what = "page"
        BY <1>1, <1>6, DoingIs
    <2>2. w \in Ends
        BY <2>1 DEF Follows
    <2> QED BY <1>1, <2>2, DoingIs
<1>8. /\ DeviceTyped /\ dev.used = Live(flash) /\ BlocksOk /\ AllocationOk /\ CountersOk /\ WorkOk
      /\ StreamOk /\ PagesOk
    BY <1>1, <1>7 DEF DeviceOk, StreamOk
<1>9. i \in Stream /\ i \in Nat /\ i - 1 = ck.page /\ i >= 1 /\ StreamPages \in Nat
    BY <1>4, <1>8, CheckpointAssumption DEF PagesOk, DeviceTyped, Stream
<1>10. ~Complete(flash)
    BY <1>1, NotWritten
<1>11. /\ w \in Seq(Tasks) /\ ~CleaningIn(w) /\ TargetsIn(w) = {}
       /\ ~CleaningUp
    <2>1. w \in Seq(Tasks) /\ ~CleaningIn(w) /\ TargetsIn(w) = {}
        BY <1>7, EndOrdered
    <2>2. CleaningUp <=> CleaningIn(w)
        <3>1. CleaningUp <=> "page" = "cleanup" \/ CleaningIn(Tail(work))
            BY <1>1, DoingIs
        <3> QED BY <1>6, <3>1
    <2> QED BY <2>1, <2>2
<1>12. CASE b = NoBlock
    <2>1. /\ ck' = [ck EXCEPT !.nextBlock = NoBlock, !.offset = TRUE]
          /\ work' = <<Task("close", FALSE)>> \o w
          /\ UNCHANGED <<flash, bad, dev, mounted, clock, bounds>>
        BY <1>2, <1>6, <1>12 DEF WritePage, Then
    <2>2. PICK u : u = Put(Task("close", FALSE), w)
        OBVIOUS
    <2>3. Ordered(u) /\ u # <<>> /\ Head(u).what = "close" /\ ~CleaningIn(u) /\ TargetsIn(u) = {}
        BY <1>7, <2>2, CloseOrdered
    <2>4. work' = u
        BY <1>11, <2>1, <2>2, TaskIs, ListsAre
    <2>5. /\ Ordered(work)' /\ ~CleaningUp' /\ TargetsIn(work)' = {}
          /\ \A y : Doing(y)' <=> y = "close"
        BY <2>3, <2>4, NowIs
    <2>6. DeviceTyped'
        <3>1. NoBlock \in Int
            BY DEF NoBlock
        <3> QED BY <1>8, <2>1, <3>1 DEF DeviceTyped
    <2>7. WorkOk'
        BY <2>5 DEF WorkOk
    <2>8. CountersOk'
        <3>1. Streaming /\ Streaming' /\ ~Doing("erasecheckpoint")
            BY <1>1, <1>7, <2>5 DEF Streaming
        <3>2. Checkpoints' = Checkpoints /\ InState(dev, "empty")' = InState(dev, "empty")
              /\ Usable(dev.state, dev.used)' = Usable(dev.state, dev.used)
            BY <2>1 DEF Checkpoints, InState, Usable
        <3>3. /\ dev'.nErasedBlocks = dev.nErasedBlocks /\ dev'.nFreeChunks = dev.nFreeChunks
              /\ dev'.blocksInCheckpoint = dev.blocksInCheckpoint
            BY <2>1
        <3> QED BY <1>8, <3>1, <3>2, <3>3 DEF CountersOk
    <2>9. StreamOk'
        <3>1. ~Complete(flash)'
            BY <1>10, <2>1 DEF Complete, Present, IsCk
        <3>2. ~Doing("page")' /\ ~Doing("erasecheckpoint")'
            BY <2>5
        <3> QED BY <3>1, <3>2 DEF StreamOk
    <2>10. Still
        BY <1>7, <1>11, <2>1, <2>5 DEF Still, bounds, Bounded
    <2> QED BY <1>7, <2>6, <2>7, <2>8, <2>9, <2>10, StillOk
<1>13. CASE b # NoBlock
    <2>1. PICK x : x = [kind |-> "ck", n |-> i, next |-> Hint(next), holds |-> Holds(i)]
        OBVIOUS
    <2>2. /\ Flush(b, p, next, x)
          /\ ck' = [ck EXCEPT !.page = i, !.sum = Append(@, Holds(i)),
                              !.nextBlock = next,
                              !.currentBlock = IF p = NChunks THEN NoBlock ELSE b,
                              !.currentChunk = p % NChunks]
          /\ work' = (IF i = StreamPages THEN <<Task("close", TRUE)>> ELSE <<Task("page", 0)>>) \o w
        BY <1>2, <1>3, <1>4, <1>5, <1>6, <1>13, <2>1, Zenon DEF WritePage, Then
    <2>3. /\ b \in Blocks /\ p \in Pages /\ ~HasData(flash, b) /\ b \notin bad
          /\ IF ck.currentBlock = NoBlock THEN dev.state[b] = "empty" /\ AllErased(flash, b)
             ELSE dev.state[b] = "checkpoint" /\ p > 1
        BY <1>1, <1>2, <1>3, <1>13, NextPageIs
    <2>4. /\ dev' = (IF p = 1 THEN [dev EXCEPT !.state[b] = "checkpoint", !.blocksInCheckpoint = @ + 1]
                     ELSE dev)
          /\ UNCHANGED <<bad, mounted, clock, requests, crashes>>
        BY <2>2 DEF Flush
    <2>5. PICK y : y \in {x, Torn} /\ flash' = [flash EXCEPT ![b][p] = y]
        BY <2>2 DEF Flush
    <2>6. faults' \in 0 .. MaxFaults
        BY <1>7, <2>2, CheckpointAssumption DEF Flush, Fault, Bounded
    <2>7. Programs(flash, flash', b, p, y)
        BY <1>7, <2>3, <2>5, ProgramIs DEF FlashOk
    <2>8. x.kind = "ck" /\ x.n = i /\ x.holds = Holds(i) /\ Torn.kind = "torn"
        BY <2>1 DEF Torn
    <2>9. FlashOk' /\ Live(flash') = Live(flash)
        <3>1. CASE y = x
            BY <1>1, <1>2, <1>3, <1>4, <1>13, <2>4, <2>7, <2>8, <3>1, PageKeeps
        <3>2. CASE y = Torn
            <4>1. /\ <<b, p>> \notin Live(flash)
                  /\ \A c \in Blocks, q \in Pages :
                        IsCk(flash, c, q) /\ flash[c][q].n = 1 => flash[c][q].holds.allocationBlock # b
                BY <1>7, <2>3, NotAllocated
            <4>2. clock \in Nat /\ clock' = clock /\ bad' = bad
                BY <1>7, <2>4 DEF Bounded
            <4> QED BY <1>7, <1>10, <2>3, <2>7, <3>2, <4>1, <4>2, TearKeeps
        <3> QED BY <2>5, <3>1, <3>2
    <2>10. /\ flash'[b][p] = y /\ \A c \in Blocks, q \in Pages : c # b \/ q # p => flash'[c][q] = flash[c][q]
           /\ y.kind # "data"
        BY <2>5, <2>7, <2>8 DEF Programs
    <2>11. \A c \in Blocks : HasData(flash', c) <=> HasData(flash, c)
        BY <2>3, <2>10 DEF HasData, IsData
    <2>12. \A c \in Blocks : c # b => /\ HasCk(flash', c) <=> HasCk(flash, c)
                                      /\ IsCheckpoint(flash', c) <=> IsCheckpoint(flash, c)
                                      /\ AllErased(flash', c) <=> AllErased(flash, c)
        <3>1. 1 \in Pages
            BY CheckpointAssumption DEF Pages
        <3> QED BY <2>10, <3>1 DEF HasCk, IsCk, IsCheckpoint, AllErased
    <2>13. p = 1 <=> ck.currentBlock = NoBlock
        BY <1>3, <2>3
    <2>14. /\ dev'.state = [dev.state EXCEPT ![b] = "checkpoint"] /\ dev'.used = dev.used
           /\ dev'.nErasedBlocks = dev.nErasedBlocks /\ dev'.nFreeChunks = dev.nFreeChunks
           /\ dev'.allocationBlock = dev.allocationBlock /\ dev'.allocationPage = dev.allocationPage
           /\ dev'.blocksInCheckpoint = (IF p = 1 THEN dev.blocksInCheckpoint + 1 ELSE dev.blocksInCheckpoint)
           /\ dev'.isCheckpointed = dev.isCheckpointed
           /\ dev' = [state |-> dev'.state, used |-> dev'.used, nErasedBlocks |-> dev'.nErasedBlocks,
                      nFreeChunks |-> dev'.nFreeChunks, allocationBlock |-> dev'.allocationBlock,
                      allocationPage |-> dev'.allocationPage, blocksInCheckpoint |-> dev'.blocksInCheckpoint,
                      isCheckpointed |-> dev'.isCheckpointed]
        <3>1. CASE p = 1
            BY <1>8, <2>4, <3>1 DEF DeviceTyped
        <3>2. CASE p # 1
            <4>1. dev.state \in [Blocks -> States] /\ dev.state[b] = "checkpoint"
                BY <1>8, <2>3, <2>13, <3>2 DEF DeviceTyped
            <4>2. [dev.state EXCEPT ![b] = "checkpoint"] = dev.state
                BY <4>1
            <4> QED BY <1>8, <2>4, <3>2, <4>2 DEF DeviceTyped
        <3> QED BY <3>1, <3>2
    <2>15. \A c \in Blocks : dev'.state[c] = IF c = b THEN "checkpoint" ELSE dev.state[c]
        BY <1>8, <2>14 DEF DeviceTyped
    <2>16. dev.state \in [Blocks -> States] /\ "checkpoint" \in States
        BY <1>8 DEF DeviceTyped, States
    <2>17. Streaming /\ ~Doing("erasecheckpoint")
        BY <1>1, <1>7 DEF Streaming
    <2>18. /\ Cardinality(InState(dev, "empty")) \in Nat /\ Checkpoints \in Nat /\ Checkpoints' \in 0 .. NBlocks
           /\ Usable(dev.state, dev.used) \in Int /\ NChunks \in Nat
        <3>1. InState(dev, "checkpoint")' \in SUBSET Blocks
            BY DEF InState
        <3>2. Checkpoints' \in 0 .. NBlocks
            BY <3>1, BlocksFinite DEF Checkpoints
        <3> QED BY <1>8, <3>2, CountsAreNumbers
    <2>19. /\ Checkpoints' = Checkpoints + (IF p = 1 THEN 1 ELSE 0)
           /\ Cardinality(InState(dev, "empty")') = Cardinality(InState(dev, "empty")) - (IF p = 1 THEN 1 ELSE 0)
        <3>1. /\ Cardinality(BlocksIn(dev'.state, "empty"))
                    = Cardinality(BlocksIn(dev.state, "empty")) - (IF dev.state[b] = "empty" THEN 1 ELSE 0)
                                                                + (IF "checkpoint" = "empty" THEN 1 ELSE 0)
              /\ Cardinality(BlocksIn(dev'.state, "checkpoint"))
                    = Cardinality(BlocksIn(dev.state, "checkpoint")) - (IF dev.state[b] = "checkpoint" THEN 1 ELSE 0)
                                                                     + (IF "checkpoint" = "checkpoint" THEN 1 ELSE 0)
            BY <2>3, <2>14, <2>16, StateCounts
        <3>2. \A v : InState(dev, v)' = BlocksIn(dev'.state, v) /\ InState(dev, v) = BlocksIn(dev.state, v)
            BY DEF InState, BlocksIn
        <3>3. /\ Checkpoints = Cardinality(BlocksIn(dev.state, "checkpoint"))
              /\ Checkpoints' = Cardinality(BlocksIn(dev'.state, "checkpoint"))
              /\ InState(dev, "empty")' = BlocksIn(dev'.state, "empty") /\ InState(dev, "empty") = BlocksIn(dev.state, "empty")
            BY <3>2 DEF Checkpoints
        <3>4. p = 1 => dev.state[b] = "empty"
            BY <2>3, <2>13
        <3>5. p # 1 => dev.state[b] = "checkpoint"
            BY <2>3, <2>13
        <3>6. CASE p = 1
            BY <2>18, <3>1, <3>3, <3>4, <3>6
        <3>7. CASE p # 1
            BY <2>18, <3>1, <3>3, <3>5, <3>7
        <3> QED BY <3>6, <3>7
    <2>20. Usable(dev.state, dev.used)' = Usable(dev.state, dev.used)
        <3>1. \A c \in Blocks : dev'.state[c] # "dead" <=> dev.state[c] # "dead"
            BY <2>3, <2>15
        <3>2. {c \in Blocks : dev'.state[c] # "dead"} = {c \in Blocks : dev.state[c] # "dead"}
            BY <3>1
        <3> QED BY <2>14, <3>2 DEF Usable
    <2>21. dev.blocksInCheckpoint = Checkpoints /\ dev'.blocksInCheckpoint = Checkpoints'
        <3>1. dev.blocksInCheckpoint = Checkpoints
            BY <1>8, <2>17 DEF CountersOk
        <3>2. CASE p = 1
            BY <2>14, <2>19, <3>1, <3>2
        <3>3. CASE p # 1
            BY <2>14, <2>18, <2>19, <3>1, <3>3
        <3> QED BY <3>1, <3>2, <3>3
    <2>22. NoBlock \notin Blocks /\ NoBlock \in Int /\ b \in Int /\ next \in Int
        <3>1. NoBlock \notin Blocks /\ NoBlock \in Int /\ b \in Int
            BY <2>3, CheckpointAssumption DEF NoBlock, Blocks
        <3> QED BY <1>5, <1>8, <3>1 DEF DeviceTyped
    <2>23. ck'.page = i /\ ck'.nextBlock = next
           /\ ck'.currentBlock = (IF p = NChunks THEN NoBlock ELSE b) /\ ck'.currentChunk = p % NChunks
           /\ ck' = [forWriting |-> ck'.forWriting, buffer |-> ck'.buffer, offset |-> ck'.offset,
                     currentBlock |-> ck'.currentBlock, currentChunk |-> ck'.currentChunk,
                     nextBlock |-> ck'.nextBlock, page |-> ck'.page, sum |-> ck'.sum]
        BY <1>8, <2>2 DEF DeviceTyped
    <2>24. /\ p % NChunks \in 0 .. NChunks - 1
           /\ p # NChunks => p % NChunks = p /\ p \in 1 .. NChunks - 1
        <3>1. p \in Nat /\ p >= 1 /\ p <= NChunks /\ NChunks \in Nat /\ NChunks > 0
            BY <2>3, CheckpointAssumption DEF Pages
        <3> QED BY <3>1
    <2>25. DeviceTyped'
        <3>1. dev'.state \in [Blocks -> States]
            BY <2>14, <2>16
        <3>2. dev'.blocksInCheckpoint \in 0 .. NBlocks
            BY <2>18, <2>21
        <3>3. dev' \in [state : [Blocks -> States], used : SUBSET (Blocks \X Pages),
                        nErasedBlocks : Int, nFreeChunks : Int,
                        allocationBlock : Blocks \cup {NoBlock}, allocationPage : 0 .. NChunks,
                        blocksInCheckpoint : 0 .. NBlocks, isCheckpointed : BOOLEAN]
            BY <1>8, <2>14, <3>1, <3>2 DEF DeviceTyped
        <3>4. /\ ck'.currentBlock \in Blocks \cup {NoBlock} /\ ck'.currentChunk \in 0 .. NChunks
              /\ ck'.nextBlock \in Int /\ ck'.page \in 0 .. StreamPages
            <4>1. ck'.currentBlock \in Blocks \cup {NoBlock}
                BY <2>3, <2>23
            <4>2. ck'.currentChunk \in 0 .. NChunks
                BY <2>18, <2>23, <2>24
            <4>3. ck'.page \in 0 .. StreamPages
                BY <1>9, <2>23 DEF Stream
            <4> QED BY <2>22, <2>23, <4>1, <4>2, <4>3
        <3> QED BY <2>23, <3>3, <3>4 DEF DeviceTyped
    <2>26. BlocksOk'
        <3> SUFFICES ASSUME NEW c \in Blocks
                     PROVE  /\ HasData(flash', c) => dev'.state[c] \in {"allocating", "full"}
                            /\ HasCk(flash', c) => dev'.state[c] = "checkpoint"
                            /\ IsCheckpoint(flash', c) => dev'.state[c] = "checkpoint"
                            /\ dev'.state[c] = "empty" => AllErased(flash', c)
                            /\ c \in bad' => dev'.state[c] = "dead"
            BY DEF BlocksOk
        <3>1. CASE c = b
            BY <2>3, <2>4, <2>11, <2>15, <3>1
        <3>2. CASE c # b
            BY <1>8, <1>11, <2>4, <2>11, <2>12, <2>15, <3>2 DEF BlocksOk
        <3> QED BY <3>1, <3>2
    <2>27. AllocationOk'
        <3>1. PICK a : a = dev.allocationBlock
            OBVIOUS
        <3>2. /\ \A c \in Blocks : dev.state[c] = "allocating" => c = a
              /\ a # NoBlock => /\ a \in Blocks /\ dev.state[a] = "allocating" /\ HasData(flash, a)
                                /\ dev.allocationPage \in 1 .. NChunks - 1
                                /\ \A q \in Pages : q > dev.allocationPage => flash[a][q] = Erased
            BY <1>8, <1>11, <3>1 DEF AllocationOk, DeviceTyped
        <3>3. \A c \in Blocks : dev'.state[c] = "allocating" => c = a
            BY <2>15, <3>2
        <3>4. a # NoBlock => a # b
            BY <2>3, <3>2
        <3>5. a # NoBlock => /\ dev'.state[a] = "allocating" /\ HasData(flash', a)
                             /\ \A q \in Pages : q > dev.allocationPage => flash'[a][q] = Erased
            BY <2>10, <2>11, <2>15, <3>2, <3>4
        <3>6. dev'.allocationBlock = a /\ dev'.allocationPage = dev.allocationPage
            BY <2>14, <3>1
        <3> QED BY <3>2, <3>3, <3>5, <3>6 DEF AllocationOk
    <2>28. PICK u : u = Put(IF i = StreamPages THEN Task("close", TRUE) ELSE Paging, w)
        OBVIOUS
    <2>29. /\ Ordered(u) /\ u # <<>> /\ ~CleaningIn(u) /\ TargetsIn(u) = {}
           /\ Head(u).what = IF i = StreamPages THEN "close" ELSE "page"
        <3>1. CASE i = StreamPages
            BY <1>7, <2>28, <3>1, CloseOrdered
        <3>2. CASE i # StreamPages
            BY <1>7, <2>28, <3>2, PagingOrdered
        <3> QED BY <3>1, <3>2
    <2>30. work' = u
        <3>1. Task("close", TRUE) \in Tasks /\ Paging \in Tasks /\ Paging = Task("page", 0)
            BY TaskIs DEF Paging
        <3>2. CASE i = StreamPages
            BY <1>11, <2>2, <2>28, <3>1, <3>2, ListsAre
        <3>3. CASE i # StreamPages
            BY <1>11, <2>2, <2>28, <3>1, <3>3, ListsAre
        <3> QED BY <3>2, <3>3
    <2>31. /\ Ordered(work)' /\ ~CleaningUp' /\ TargetsIn(work)' = {}
           /\ \A z : Doing(z)' <=> z = IF i = StreamPages THEN "close" ELSE "page"
        BY <2>29, <2>30, NowIs
    <2>32. WorkOk'
        BY <2>31 DEF WorkOk
    <2>33. CountersOk'
        <3>1. Streaming' /\ ~Doing("erasecheckpoint")'
            BY <2>31 DEF Streaming
        <3>2. /\ dev.nErasedBlocks = Cardinality(InState(dev, "empty")) + Checkpoints
              /\ dev.nFreeChunks = Usable(dev.state, dev.used) - 0
            BY <1>8, <2>17 DEF CountersOk
        <3>3. dev'.nErasedBlocks = Cardinality(InState(dev, "empty")') + Checkpoints'
            BY <2>14, <2>18, <2>19, <3>2
        <3>4. dev'.nFreeChunks = Usable(dev.state, dev.used)' - 0
            BY <2>14, <2>20, <3>2
        <3> QED BY <2>21, <3>1, <3>3, <3>4 DEF CountersOk
    <2>34. ASSUME \A j \in 1 .. ck.page + 1 : Present(flash', j) PROVE AllBegun'
        <3>1. p > 1 => dev.state[b] = "checkpoint"
            BY <2>3, <2>13, <2>24
        <3>2. y.kind = "ck" => y.n = ck.page + 1
            BY <1>4, <2>5, <2>8
        <3>3. \A c \in Blocks : dev.state[c] = "checkpoint" \/ c = b => IsCheckpoint(flash', c)
            BY <1>1, <2>3, <2>7, <2>34, <3>1, <3>2, BegunThen
        <3> QED BY <2>15, <3>3 DEF AllBegun
    <2>35. Complete(flash') => AllBegun'
        <3>1. \A j \in 1 .. ck.page + 1 : j \in Stream
            BY <1>4, <1>9 DEF Stream
        <3> QED BY <2>34, <3>1 DEF Complete
    <2>36. SavedCounters' = SavedCounters
        BY <2>14 DEF SavedCounters
    <2>37. i # StreamPages => PagesOk'
        <3> SUFFICES ASSUME i # StreamPages PROVE PagesOk'
            OBVIOUS
        <3>1. ck'.page < StreamPages
            BY <1>9, <2>23 DEF Stream
        <3>2. ck'.currentBlock # NoBlock => /\ ck'.page >= 1 /\ ck'.currentChunk \in 1 .. NChunks - 1
                                            /\ dev'.state[ck'.currentBlock] = "checkpoint"
            BY <1>9, <2>3, <2>15, <2>23, <2>24
        <3>3. ASSUME NEW c \in Blocks, NEW q \in Pages, IsCk(flash', c, q)
              PROVE  /\ flash'[c][q].n <= i
                     /\ flash'[c][q].n = 1 => flash'[c][q].holds = SavedCounters
                     /\ flash'[c][q].n = 2 =>
                            \A d \in Blocks : LET was == flash'[c][q].holds.state[d]
                                              IN \/ was = dev'.state[d]
                                                 \/ was = "empty" /\ dev'.state[d] = "checkpoint"
            <4>1. CASE c = b /\ q = p
                <5>1. flash'[c][q] = x
                    BY <2>5, <2>8, <2>10, <3>3, <4>1 DEF IsCk
                <5>2. flash'[c][q].n = i /\ flash'[c][q].holds = Holds(i)
                    BY <2>8, <5>1
                <5>3. i = 1 => Holds(i) = SavedCounters
                    BY DEF Holds
                <5>4. i = 2 => \A d \in Blocks : Holds(i).state[d] = dev.state[d]
                    BY DEF Holds, SavedBlocks
                <5>5. \A d \in Blocks : \/ dev.state[d] = dev'.state[d]
                                        \/ dev.state[d] = "empty" /\ dev'.state[d] = "checkpoint"
                    BY <2>3, <2>15
                <5> QED BY <1>9, <5>2, <5>3, <5>4, <5>5
            <4>2. CASE c # b \/ q # p
                <5>1. flash'[c][q] = flash[c][q] /\ IsCk(flash, c, q)
                    BY <2>10, <3>3, <4>2 DEF IsCk
                <5>2. PICK z : z = flash[c][q]
                    OBVIOUS
                <5>3. /\ z.n <= ck.page /\ z.n \in Int
                      /\ z.n = 1 => z.holds = SavedCounters
                      /\ z.n = 2 => \A d \in Blocks : \/ z.holds.state[d] = dev.state[d]
                                                      \/ z.holds.state[d] = "empty" /\ dev.state[d] = "checkpoint"
                    BY <1>7, <1>8, <5>1, <5>2 DEF PagesOk, FlashOk, Written, PageOk, IsCk, Stream
                <5>4. z.n <= i
                    BY <1>9, <5>3
                <5>5. \A d \in Blocks : dev.state[d] = "checkpoint" => dev'.state[d] = "checkpoint"
                    BY <2>15
                <5>6. \A d \in Blocks : dev.state[d] = dev'.state[d]
                                        \/ (dev.state[d] = "empty" /\ dev'.state[d] = "checkpoint")
                    BY <2>3, <2>15
                <5>7. z.n = 2 => \A d \in Blocks : \/ z.holds.state[d] = dev'.state[d]
                                                   \/ z.holds.state[d] = "empty" /\ dev'.state[d] = "checkpoint"
                    BY <5>3, <5>5, <5>6
                <5> QED BY <5>1, <5>2, <5>3, <5>4, <5>7
            <4> QED BY <4>1, <4>2
        <3>4. (\A j \in 1 .. i : Present(flash', j)) => AllBegun'
            BY <1>4, <2>34
        <3> QED BY <2>23, <2>36, <3>1, <3>2, <3>3, <3>4 DEF PagesOk
    <2>38. StreamOk'
        <3>1. Doing("page")' => PagesOk'
            BY <2>31, <2>37
        <3>2. ~Doing("erasecheckpoint")'
            BY <2>31
        <3> QED BY <2>35, <3>1, <3>2 DEF StreamOk
    <2>39. Bounded' /\ mounted' /\ dev'.used = Live(flash')
        BY <1>7, <1>8, <2>4, <2>6, <2>9, <2>14 DEF Bounded
    <2> QED BY <2>9, <2>25, <2>26, <2>27, <2>32, <2>33, <2>38, <2>39 DEF IInv, DeviceOk
<1> QED BY <1>12, <1>13

(***************************************************************************)
(* Mounting.                                                               *)
(***************************************************************************)
\* The n-th block of the stream, when "at" are the ones before it.
NextFound(f, at, n) ==
    IF n > MaxCheckpointBlocks THEN NoBlock
    ELSE IF n = 1 THEN FindFrom(f, 1)
    ELSE IF at[n - 1] = NoBlock THEN NoBlock
    ELSE FindFrom(f, f[at[n - 1]][1].next)

\* There is such a list of blocks, of any length.
LEMMA ListExists ==
    ASSUME NEW f, NEW m \in Nat
    PROVE  \E at : at = [n \in 1 .. m |-> NextFound(f, at, n)]
<1> DEFINE Is(l) == \E at : at = [n \in 1 .. l |-> NextFound(f, at, n)]
           S == {l \in Nat : ~Is(l)}
<1>1. Is(0)
    <2>1. 1 .. 0 = {}
        OBVIOUS
    <2>2. PICK g : g = [n \in 1 .. 0 |-> NextFound(f, <<>>, n)]
        OBVIOUS
    <2>3. g = [n \in 1 .. 0 |-> NextFound(f, g, n)]
        BY <2>1, <2>2
    <2> QED BY <2>3
<1>2. ASSUME NEW l \in Nat, Is(l) PROVE Is(l + 1)
    <2>1. PICK g : g = [n \in 1 .. l |-> NextFound(f, g, n)]
        BY <1>2
    <2>2. PICK h : h = [n \in 1 .. l + 1 |-> IF n = l + 1 THEN NextFound(f, g, n) ELSE g[n]]
        OBVIOUS
    <2>3. \A n \in 1 .. l : h[n] = g[n]
        BY <2>2
    <2>4. ASSUME NEW n \in 1 .. l + 1 PROVE NextFound(f, h, n) = NextFound(f, g, n)
        <3>1. CASE n = 1
            BY <3>1 DEF NextFound
        <3>2. CASE n # 1
            <4>1. n - 1 \in 1 .. l
                BY <3>2
            <4>2. h[n - 1] = g[n - 1]
                BY <2>3, <4>1
            <4> QED BY <4>2 DEF NextFound
        <3> QED BY <3>1, <3>2
    <2>5. ASSUME NEW n \in 1 .. l + 1 PROVE h[n] = NextFound(f, h, n)
        <3>1. CASE n = l + 1
            BY <2>2, <2>4, <3>1
        <3>2. CASE n # l + 1
            <4>1. n \in 1 .. l
                BY <3>2
            <4>2. h[n] = g[n] /\ g[n] = NextFound(f, g, n)
                BY <2>1, <2>3, <4>1
            <4> QED BY <2>4, <4>2
        <3> QED BY <3>1, <3>2
    <2>6. h = [n \in 1 .. l + 1 |-> NextFound(f, h, n)]
        BY <2>2, <2>5
    <2> QED BY <2>6
<1>3. S \subseteq Nat /\ \A l \in Nat : l \in S <=> ~Is(l)
    OBVIOUS
<1> HIDE DEF Is, S
<1>4. ASSUME S # {} PROVE FALSE
    <2>1. PICK l \in S : \A k \in S : l <= k
        BY <1>3, <1>4, SmallestIs
    <2>2. l \in Nat /\ ~Is(l) /\ l # 0
        BY <1>1, <1>3, <2>1
    <2>3. l - 1 \in Nat /\ ~(l <= l - 1) /\ (l - 1) + 1 = l
        BY <2>2
    <2>4. Is(l - 1)
        BY <1>3, <2>1, <2>3
    <2>5. Is((l - 1) + 1)
        BY <1>2, <2>3, <2>4
    <2> QED BY <2>2, <2>3, <2>5
<1>5. Is(m)
    BY <1>3, <1>4
<1> QED BY <1>5 DEF Is

\* The blocks that are found, each from the one before it.
LEMMA FoundIs ==
    ASSUME NEW f
    PROVE  \A n \in 1 .. StreamPages : Found(f)[n] = NextFound(f, Found(f), n)
<1>1. Found(f) = CHOOSE at : at = [n \in 1 .. StreamPages |->
                     IF n > MaxCheckpointBlocks THEN NoBlock
                     ELSE IF n = 1 THEN FindFrom(f, 1)
                     ELSE IF at[n - 1] = NoBlock THEN NoBlock
                     ELSE FindFrom(f, f[at[n - 1]][1].next)]
    BY Zenon DEF Found
<1>2. Found(f) = CHOOSE at : at = [n \in 1 .. StreamPages |-> NextFound(f, at, n)]
    BY <1>1, Zenon DEF NextFound
<1>3. \E at : at = [n \in 1 .. StreamPages |-> NextFound(f, at, n)]
    BY ListExists, CheckpointAssumption
<1>4. Found(f) = [n \in 1 .. StreamPages |-> NextFound(f, Found(f), n)]
    BY <1>2, <1>3, Zenon
<1> QED BY <1>4

\* They are blocks of the checkpoint.
LEMMA FoundAre ==
    ASSUME NEW f, NEW n \in 1 .. StreamPages
    PROVE  /\ Found(f)[n] \in Blocks \cup {NoBlock}
           /\ Found(f)[n] # NoBlock => Found(f)[n] \in Blocks /\ IsCheckpoint(f, Found(f)[n])
<1>1. \A from : FindFrom(f, from) = NoBlock
                \/ (FindFrom(f, from) \in Blocks /\ IsCheckpoint(f, FindFrom(f, from)))
    <2> TAKE from
    <2>1. PICK S : S = {b \in Blocks : b >= from /\ IsCheckpoint(f, b)}
        OBVIOUS
    <2>2. S \subseteq Nat /\ \A b \in S : b \in Blocks /\ IsCheckpoint(f, b)
        BY <2>1, CheckpointAssumption DEF Blocks
    <2>3. FindFrom(f, from) = Lowest(S)
        BY <2>1 DEF FindFrom
    <2> QED BY <2>2, <2>3, LowestIs
<1>2. PICK x : x = Found(f)[n]
    OBVIOUS
<1>3. x = NoBlock \/ \E from : x = FindFrom(f, from)
    BY <1>2, FoundIs DEF NextFound
<1>4. x = NoBlock \/ (x \in Blocks /\ IsCheckpoint(f, x))
    BY <1>1, <1>3
<1> QED BY <1>2, <1>4

\* Quotients and remainders.
LEMMA Quotients ==
    ASSUME NEW n \in Nat, n > 0, NEW j \in Nat
    PROVE  j \div n \in Nat /\ j \div n <= j /\ j % n \in 0 .. n - 1
OBVIOUS

\* Where page i of the stream is looked for.
LEMMA PlaceIs ==
    ASSUME NEW i \in Stream
    PROVE  BlockOf(i) \in 1 .. StreamPages /\ PageOf(i) \in Pages
<1>1. /\ i \in Nat /\ i >= 1 /\ i <= StreamPages /\ StreamPages \in Nat /\ NChunks \in Nat /\ NChunks > 0
    BY CheckpointAssumption DEF Stream
<1>2. PICK j : j = i - 1
    OBVIOUS
<1>3. j \in Nat
    BY <1>1, <1>2
<1>4. j \div NChunks \in Nat /\ j \div NChunks <= j /\ j % NChunks \in 0 .. NChunks - 1
    BY <1>1, <1>3, Quotients
<1>5. j \div NChunks + 1 \in 1 .. StreamPages
    BY <1>1, <1>2, <1>4
<1>6. (j % NChunks) + 1 \in 1 .. NChunks
    BY <1>1, <1>4
<1> QED BY <1>2, <1>5, <1>6 DEF BlockOf, PageOf, Pages

\* Where reading leaves the stream.
LEMMA LeftIs ==
    ASSUME NEW f, NEW l, l = LeftByReading(f)
    PROVE  /\ l = [forWriting |-> l.forWriting, buffer |-> l.buffer, offset |-> l.offset,
                   currentBlock |-> l.currentBlock, currentChunk |-> l.currentChunk,
                   nextBlock |-> l.nextBlock, page |-> l.page, sum |-> l.sum]
           /\ l.currentBlock \in Blocks \cup {NoBlock} /\ l.currentChunk \in 0 .. NChunks
           /\ l.nextBlock \in Int /\ l.page \in 0 .. StreamPages
<1>1. PICK wrong : wrong = Lowest({i \in Stream : ~IsPage(f, i)})
    OBVIOUS
<1>2. PICK end : end = IF wrong = NoBlock THEN StreamPages ELSE wrong
    OBVIOUS
<1>3. PICK b : b = Found(f)[BlockOf(end)]
    OBVIOUS
<1>4. l = [forWriting |-> FALSE, buffer |-> FALSE,
           offset |-> wrong = NoBlock \/ b = NoBlock,
           currentBlock |-> IF PageOf(end) = NChunks THEN NoBlock ELSE b,
           currentChunk |-> IF b = NoBlock THEN 0 ELSE PageOf(end),
           nextBlock |-> IF b = NoBlock THEN NoBlock ELSE b + 1,
           page |-> end, sum |-> <<>>]
    BY <1>1, <1>2, <1>3 DEF LeftByReading
<1>5. end \in Stream
    <2>1. PICK S : S = {i \in Stream : ~IsPage(f, i)}
        OBVIOUS
    <2>2. S \subseteq Nat /\ S \subseteq Stream
        BY <2>1, CheckpointAssumption DEF Stream
    <2>3. wrong = NoBlock \/ wrong \in S
        BY <1>1, <2>1, <2>2, LowestIs
    <2>4. StreamPages \in Stream
        BY CheckpointAssumption DEF Stream
    <2> QED BY <1>2, <2>2, <2>3, <2>4
<1>6. BlockOf(end) \in 1 .. StreamPages /\ PageOf(end) \in Pages
    BY <1>5, PlaceIs
<1>7. b \in Blocks \cup {NoBlock}
    BY <1>3, <1>6, FoundAre
<1>8. PageOf(end) \in 0 .. NChunks /\ 0 \in 0 .. NChunks /\ end \in 0 .. StreamPages
    BY <1>5, <1>6, CheckpointAssumption DEF Pages, Stream
<1>9. NoBlock \in Int /\ \A c \in Blocks : c + 1 \in Int
    BY CheckpointAssumption DEF NoBlock, Blocks
<1>10. /\ l.currentBlock = (IF PageOf(end) = NChunks THEN NoBlock ELSE b)
       /\ l.currentChunk = (IF b = NoBlock THEN 0 ELSE PageOf(end))
       /\ l.nextBlock = (IF b = NoBlock THEN NoBlock ELSE b + 1) /\ l.page = end
    BY <1>4
<1>11. l = [forWriting |-> l.forWriting, buffer |-> l.buffer, offset |-> l.offset,
            currentBlock |-> l.currentBlock, currentChunk |-> l.currentChunk,
            nextBlock |-> l.nextBlock, page |-> l.page, sum |-> l.sum]
    BY <1>4
<1> QED BY <1>7, <1>8, <1>9, <1>10, <1>11

\* What is restored is what the NAND says: the blocks the stream was read from
\* are the blocks of the checkpoint, and the rest is as it was saved.
LEMMA RestoredIs ==
    ASSUME FlashOk, Restorable(flash), NEW r, r = Restored(flash)
    PROVE  /\ r.state \in [Blocks -> States] /\ r.used = Live(flash)
           /\ StreamPage(flash, 2).holds.used = r.used
           /\ r.nErasedBlocks \in Int /\ r.nFreeChunks \in Int
           /\ r.allocationBlock \in Blocks \cup {NoBlock} /\ r.allocationPage \in 0 .. NChunks
           /\ r.blocksInCheckpoint \in 0 .. NBlocks /\ r.isCheckpointed = TRUE
           /\ r = [state |-> r.state, used |-> r.used, nErasedBlocks |-> r.nErasedBlocks,
                   nFreeChunks |-> r.nFreeChunks, allocationBlock |-> r.allocationBlock,
                   allocationPage |-> r.allocationPage, blocksInCheckpoint |-> r.blocksInCheckpoint,
                   isCheckpointed |-> r.isCheckpointed]
           /\ \A b \in Blocks : /\ HasData(flash, b) => r.state[b] \in {"allocating", "full"}
                                /\ HasCk(flash, b) => r.state[b] = "checkpoint"
                                /\ r.state[b] = "checkpoint" => IsCheckpoint(flash, b)
                                /\ r.state[b] = "empty" => AllErased(flash, b)
                                /\ b \in bad => r.state[b] = "dead"
                                /\ r.state[b] = "allocating" => b = r.allocationBlock
           /\ r.allocationBlock # NoBlock =>
                  /\ r.state[r.allocationBlock] = "allocating" /\ HasData(flash, r.allocationBlock)
                  /\ r.allocationPage \in 1 .. NChunks - 1
                  /\ \A p \in Pages : p > r.allocationPage => flash[r.allocationBlock][p] = Erased
           /\ r.nErasedBlocks = Cardinality(InState(r, "empty"))
           /\ r.blocksInCheckpoint = Cardinality(InState(r, "checkpoint"))
           /\ r.nFreeChunks = Usable(r.state, r.used) - NChunks * Cardinality(InState(r, "checkpoint"))
<1>1. 1 \in Stream /\ 2 \in Stream /\ StreamPages \in Stream /\ StreamPages >= 3 /\ 1 \in Pages
    BY CheckpointAssumption DEF Stream, Pages
<1>2. ASSUME NEW i \in Stream
      PROVE  \E b \in Blocks, p \in Pages :
                 /\ b = Found(flash)[BlockOf(i)] /\ IsCk(flash, b, p) /\ flash[b][p].n = i
                 /\ StreamPage(flash, i) = flash[b][p] /\ IsCheckpoint(flash, b)
    <2>1. StreamPage(flash, i).kind = "ck" /\ StreamPage(flash, i).n = i
        BY DEF Restorable, IsPage
    <2>2. BlockOf(i) \in 1 .. StreamPages /\ PageOf(i) \in Pages
        BY PlaceIs
    <2>3. PICK b : b = Found(flash)[BlockOf(i)]
        OBVIOUS
    <2>4. StreamPage(flash, i) = IF b = NoBlock THEN Erased ELSE flash[b][PageOf(i)]
        BY <2>3 DEF StreamPage
    <2>5. b # NoBlock
        BY <2>1, <2>4 DEF Erased
    <2>6. b \in Blocks /\ IsCheckpoint(flash, b)
        BY <2>2, <2>3, <2>5, FoundAre
    <2> QED BY <2>1, <2>2, <2>3, <2>4, <2>5, <2>6 DEF IsCk
<1>3. Complete(flash)
    BY <1>2 DEF Complete, Present
<1>4. PICK d : d = StreamPage(flash, 1).holds
    OBVIOUS
<1>5. PICK s : s = StreamPage(flash, 2).holds
    OBVIOUS
<1>6. PICK o : o = StreamPage(flash, StreamPages).holds
    OBVIOUS
<1>7. PICK list : list = {Found(flash)[BlockOf(i)] : i \in Stream}
    OBVIOUS
<1>8. PICK n : n = Cardinality(list)
    OBVIOUS
<1>9. r = [state |-> ListedAreCheckpoint(s.state, list),
           used |-> o.used,
           nErasedBlocks |-> d.nErasedBlocks - n,
           nFreeChunks |-> d.nFreeChunks - n * NChunks,
           allocationBlock |-> d.allocationBlock,
           allocationPage |-> d.allocationPage,
           blocksInCheckpoint |-> n,
           isCheckpointed |-> TRUE]
    BY <1>4, <1>5, <1>6, <1>7, <1>8 DEF Restored
<1>10. PICK c1 \in Blocks, p1 \in Pages : IsCk(flash, c1, p1) /\ flash[c1][p1].n = 1 /\ d = flash[c1][p1].holds
    BY <1>1, <1>2, <1>4
<1>11. PICK c2 \in Blocks, p2 \in Pages : IsCk(flash, c2, p2) /\ flash[c2][p2].n = 2 /\ s = flash[c2][p2].holds
    BY <1>1, <1>2, <1>5
<1>12. PICK c3 \in Blocks, p3 \in Pages :
          IsCk(flash, c3, p3) /\ flash[c3][p3].n = StreamPages /\ o = flash[c3][p3].holds
    BY <1>1, <1>2, <1>6
<1>13. CountersSaved(flash, d) /\ SameSaved(d, s)
    BY <1>10, <1>11 DEF FlashOk, Saved
<1>14. BlocksSaved(flash, s) /\ BlocksFinal(flash, s)
    BY <1>3, <1>11 DEF FlashOk, Saved
<1>15. o.used = Live(flash)
    BY <1>1, <1>12 DEF FlashOk, Saved
<1>16. ASSUME NEW b \in Blocks PROVE HasCk(flash, b) => b \in list
    <2> SUFFICES ASSUME HasCk(flash, b) PROVE b \in list
        OBVIOUS
    <2>1. PICK p \in Pages : IsCk(flash, b, p)
        BY DEF HasCk
    <2>2. PICK i : i = flash[b][p].n
        OBVIOUS
    <2>3. i \in Stream
        BY <2>1, <2>2 DEF FlashOk, Written, PageOk, IsCk
    <2>4. PICK c \in Blocks, q \in Pages :
              c = Found(flash)[BlockOf(i)] /\ IsCk(flash, c, q) /\ flash[c][q].n = i
        BY <1>2, <2>3
    <2>5. b = c
        BY <2>1, <2>2, <2>4 DEF FlashOk, PagesUnique
    <2> QED BY <1>7, <2>3, <2>4, <2>5
<1>17. \A b \in list : b \in Blocks /\ IsCheckpoint(flash, b)
    BY <1>2, <1>7
<1>18. \A b \in Blocks : /\ b \in list <=> HasCk(flash, b)
                         /\ b \in list <=> IsCheckpoint(flash, b)
    BY <1>1, <1>16, <1>17 DEF HasCk, IsCk, IsCheckpoint
<1>19. /\ r.state = ListedAreCheckpoint(s.state, list) /\ r.used = o.used
       /\ r.nErasedBlocks = d.nErasedBlocks - n /\ r.nFreeChunks = d.nFreeChunks - n * NChunks
       /\ r.allocationBlock = d.allocationBlock /\ r.allocationPage = d.allocationPage
       /\ r.blocksInCheckpoint = n /\ r.isCheckpointed = TRUE
    BY <1>9
<1>20. PICK t : t = ListedAreCheckpoint(s.state, list)
    OBVIOUS
<1>21. /\ t = [b \in Blocks |-> IF b \in list /\ s.state[b] = "empty" THEN "checkpoint" ELSE s.state[b]]
       /\ s.state \in [Blocks -> States] /\ "checkpoint" \in States
    BY <1>14, <1>20 DEF ListedAreCheckpoint, BlocksSaved, States
<1>22. t \in [Blocks -> States]
    BY <1>21
<1>23. \A b \in Blocks : t[b] = IF b \in list /\ s.state[b] = "empty" THEN "checkpoint" ELSE s.state[b]
    BY <1>21
<1>24. \A b \in Blocks : /\ HasData(flash, b) => s.state[b] \in {"allocating", "full"}
                         /\ HasCk(flash, b) => s.state[b] \in {"empty", "checkpoint"}
    BY <1>14 DEF BlocksSaved
<1>25. \A b \in Blocks : /\ s.state[b] = "empty" => AllErased(flash, b) \/ IsCheckpoint(flash, b)
                         /\ s.state[b] = "checkpoint" => IsCheckpoint(flash, b)
                         /\ b \in bad => s.state[b] = "dead"
    BY <1>14 DEF BlocksFinal
<1>26. \A b \in Blocks : /\ HasData(flash, b) => t[b] \in {"allocating", "full"}
                         /\ HasCk(flash, b) => t[b] = "checkpoint"
                         /\ t[b] = "checkpoint" <=> b \in list
                         /\ t[b] = "empty" => AllErased(flash, b)
                         /\ b \in bad => t[b] = "dead"
                         /\ t[b] = "empty" <=> s.state[b] \in {"empty", "checkpoint"} /\ b \notin list
                         /\ t[b] = "dead" <=> s.state[b] = "dead"
                         /\ t[b] = "allocating" <=> s.state[b] = "allocating"
    <2> TAKE b \in Blocks
    <2>1. CASE b \in list
        <3>1. HasCk(flash, b) /\ IsCheckpoint(flash, b) /\ s.state[b] \in {"empty", "checkpoint"}
            BY <1>18, <1>24, <2>1
        <3>2. t[b] = "checkpoint"
            BY <1>23, <2>1, <3>1
        <3>3. b \notin bad /\ ~HasData(flash, b)
            BY <1>24, <1>25, <3>1
        <3> QED BY <2>1, <3>1, <3>2, <3>3
    <2>2. CASE b \notin list
        <3>1. t[b] = s.state[b] /\ ~HasCk(flash, b) /\ ~IsCheckpoint(flash, b)
            BY <1>18, <1>23, <2>2
        <3>2. s.state[b] # "checkpoint" /\ (s.state[b] = "empty" => AllErased(flash, b))
              /\ (b \in bad => s.state[b] = "dead")
              /\ (HasData(flash, b) => s.state[b] \in {"allocating", "full"})
            BY <1>24, <1>25, <3>1
        <3> QED BY <2>2, <3>1, <3>2
    <2> QED BY <2>1, <2>2
<1>27. list \in SUBSET Blocks
    BY <1>17
<1>28. /\ d.nErasedBlocks = Cardinality({b \in Blocks : s.state[b] \in {"empty", "checkpoint"}})
       /\ d.nFreeChunks = Usable(s.state, s.used)
       /\ \A b \in Blocks : s.state[b] = "allocating" => b = d.allocationBlock
       /\ d.allocationBlock # NoBlock => s.state[d.allocationBlock] = "allocating"
    BY <1>13, Zenon DEF SameSaved
<1>29. /\ IsFiniteSet(list) /\ n \in 0 .. NBlocks /\ n \in Nat
    BY <1>8, <1>27, BlocksFinite, CheckpointAssumption
<1>30. r.blocksInCheckpoint = Cardinality(InState(r, "checkpoint"))
    <2>1. {b \in Blocks : t[b] = "checkpoint"} = list
        BY <1>26, <1>27
    <2>2. InState(r, "checkpoint") = {b \in Blocks : t[b] = "checkpoint"}
        BY <1>19, <1>20 DEF InState
    <2> QED BY <1>8, <1>19, <2>1, <2>2
<1>31. r.nErasedBlocks = Cardinality(InState(r, "empty"))
    <2>1. PICK S : S = {b \in Blocks : s.state[b] \in {"empty", "checkpoint"}}
        OBVIOUS
    <2>2. \A b : b \in S <=> b \in Blocks /\ s.state[b] \in {"empty", "checkpoint"}
        BY <2>1
    <2>3. S \in SUBSET Blocks
        BY <2>2
    <2>4. IsFiniteSet(S) /\ Cardinality(S) \in Nat
        BY <2>3, BlocksFinite
    <2>5. S \cap list = list
        <3>1. \A b \in list : b \in S
            BY <1>18, <1>24, <1>27, <2>2
        <3> QED BY <3>1
    <2>6. Cardinality(S \ list) = Cardinality(S) - n
        BY <1>8, <2>4, <2>5, FS_Difference
    <2>7. PICK E : E = InState(r, "empty")
        OBVIOUS
    <2>8. \A b : b \in E <=> b \in Blocks /\ t[b] = "empty"
        BY <1>19, <1>20, <2>7 DEF InState
    <2>9. E = S \ list
        BY <1>26, <2>2, <2>8
    <2>10. d.nErasedBlocks = Cardinality(S)
        BY <1>28, <2>1, Zenon
    <2> QED BY <1>19, <2>6, <2>7, <2>9, <2>10
<1>32. s.used = Live(flash)
    BY <1>14 DEF BlocksSaved
<1>33. r.nFreeChunks = Usable(r.state, r.used) - NChunks * Cardinality(InState(r, "checkpoint"))
    <2>1. {b \in Blocks : t[b] # "dead"} = {b \in Blocks : s.state[b] # "dead"}
        BY <1>26
    <2>2. Usable(r.state, r.used) = d.nFreeChunks
        BY <1>15, <1>19, <1>20, <1>28, <1>32, <2>1 DEF Usable
    <2>3. n * NChunks = NChunks * n
        BY <1>29, CheckpointAssumption
    <2> QED BY <1>19, <1>30, <2>2, <2>3
<1>34. /\ d.allocationBlock \in Blocks \cup {NoBlock} /\ d.allocationPage \in 0 .. NChunks
       /\ d.nErasedBlocks \in Int /\ d.nFreeChunks \in Int
    BY <1>13 DEF CountersSaved
<1>35. r.allocationBlock # NoBlock =>
           /\ r.state[r.allocationBlock] = "allocating" /\ HasData(flash, r.allocationBlock)
           /\ r.allocationPage \in 1 .. NChunks - 1
           /\ \A p \in Pages : p > r.allocationPage => flash[r.allocationBlock][p] = Erased
    <2>1. PICK a : a = d.allocationBlock
        OBVIOUS
    <2>2. a # NoBlock => /\ d.allocationPage \in 1 .. NChunks - 1 /\ HasData(flash, a)
                         /\ \A p \in Pages : p > d.allocationPage => flash[a][p] = Erased
        BY <1>13, <2>1 DEF CountersSaved
    <2>3. a # NoBlock => t[a] = "allocating"
        BY <1>26, <1>28, <1>34, <2>1
    <2> QED BY <1>19, <1>20, <2>1, <2>2, <2>3
<1>36. r.nErasedBlocks \in Int /\ r.nFreeChunks \in Int
    <2>1. n * NChunks \in Int
        BY <1>29, CheckpointAssumption
    <2> QED BY <1>19, <1>29, <1>34, <2>1
<1>37. r = [state |-> r.state, used |-> r.used, nErasedBlocks |-> r.nErasedBlocks,
            nFreeChunks |-> r.nFreeChunks, allocationBlock |-> r.allocationBlock,
            allocationPage |-> r.allocationPage, blocksInCheckpoint |-> r.blocksInCheckpoint,
            isCheckpointed |-> r.isCheckpointed]
    BY <1>9
<1>38. r.state = t /\ r.used = Live(flash) /\ StreamPage(flash, 2).holds.used = r.used
    BY <1>5, <1>15, <1>19, <1>20, <1>32
<1>39. \A b \in Blocks : /\ HasData(flash, b) => t[b] \in {"allocating", "full"}
                         /\ HasCk(flash, b) => t[b] = "checkpoint"
                         /\ t[b] = "checkpoint" => IsCheckpoint(flash, b)
                         /\ t[b] = "empty" => AllErased(flash, b)
                         /\ b \in bad => t[b] = "dead"
                         /\ t[b] = "allocating" => b = d.allocationBlock
    BY <1>18, <1>26, <1>28
<1> QED BY <1>19, <1>22, <1>29, <1>30, <1>31, <1>33, <1>34, <1>35, <1>36, <1>37, <1>38, <1>39

\* Free chunks, counted block by block and all in one.
LEMMA FreeIs ==
    ASSUME NEW d, d.state \in [Blocks -> States], d.used \subseteq Blocks \X Pages,
           \A x \in d.used : d.state[x[1]] \in {"allocating", "full"}
    PROVE  FreeChunks(d) = Usable(d.state, d.used) - NChunks * Cardinality(InState(d, "checkpoint"))
<1>1. PICK live : live = InState(d, "allocating") \cup InState(d, "full")
    OBVIOUS
<1>2. \A b : b \in live <=> b \in Blocks /\ d.state[b] \in {"allocating", "full"}
    BY <1>1 DEF InState
<1>3. PICK L : L = InState(d, "empty") \cup live
    OBVIOUS
<1>4. PICK C : C = InState(d, "checkpoint")
    OBVIOUS
<1>5. PICK U : U = {b \in Blocks : d.state[b] # "dead"}
    OBVIOUS
<1>6. /\ \A b : b \in L <=> b \in Blocks /\ d.state[b] \in {"empty", "allocating", "full"}
      /\ \A b : b \in C <=> b \in Blocks /\ d.state[b] = "checkpoint"
      /\ \A b : b \in U <=> b \in Blocks /\ d.state[b] # "dead"
    BY <1>2, <1>3, <1>4, <1>5 DEF InState
<1>7. \A b \in Blocks : d.state[b] \in {"empty", "allocating", "full", "checkpoint", "dead"}
    BY DEF States
<1>8. U \cap C = C /\ L = U \ C /\ U \in SUBSET Blocks /\ C \in SUBSET Blocks
    BY <1>6, <1>7
<1>9. /\ IsFiniteSet(U) /\ Cardinality(U) \in Nat /\ Cardinality(C) \in Nat
    BY <1>8, BlocksFinite
<1>10. Cardinality(L) = Cardinality(U) - Cardinality(C)
    BY <1>8, <1>9, FS_Difference
<1>11. {x \in d.used : x[1] \in live} = d.used
    BY <1>2
<1>12. FreeChunks(d) = NChunks * Cardinality(L) - Cardinality(d.used)
    BY <1>1, <1>3, <1>11 DEF FreeChunks
<1>13. Usable(d.state, d.used) = NChunks * Cardinality(U) - Cardinality(d.used)
    BY <1>5 DEF Usable
<1>14. Cardinality(d.used) \in Nat /\ NChunks \in Nat
    BY BlocksFinite, CheckpointAssumption
<1>15. PICK u \in Nat, c \in Nat : u = Cardinality(U) /\ c = Cardinality(C)
    BY <1>9
<1>16. NChunks * (u - c) = NChunks * u - NChunks * c /\ NChunks * u \in Int /\ NChunks * c \in Int
    BY <1>14
<1> QED BY <1>4, <1>10, <1>12, <1>13, <1>14, <1>15, <1>16

\* What a scan makes of the NAND.
LEMMA ScannedIs ==
    ASSUME FlashOk, NEW r, r = Scanned(flash)
    PROVE  /\ r \in [state : [Blocks -> States], used : SUBSET (Blocks \X Pages),
                     nErasedBlocks : Int, nFreeChunks : Int,
                     allocationBlock : Blocks \cup {NoBlock}, allocationPage : 0 .. NChunks,
                     blocksInCheckpoint : 0 .. NBlocks, isCheckpointed : BOOLEAN]
           /\ r.used = Live(flash)
           /\ \A b \in Blocks : /\ HasData(flash, b) => r.state[b] \in {"allocating", "full"}
                                /\ HasCk(flash, b) => r.state[b] \in {"checkpoint", "full"}
                                /\ IsCheckpoint(flash, b) <=> r.state[b] = "checkpoint"
                                /\ r.state[b] = "empty" => AllErased(flash, b)
                                /\ b \in bad => r.state[b] = "dead"
                                /\ r.state[b] = "allocating" => b = r.allocationBlock
           /\ r.allocationBlock # NoBlock =>
                  r.state[r.allocationBlock] = "allocating" /\ HasData(flash, r.allocationBlock)
           /\ r.nErasedBlocks = Cardinality(InState(r, "empty"))
           /\ r.blocksInCheckpoint = Cardinality(InState(r, "checkpoint"))
           /\ r.nFreeChunks = Usable(r.state, r.used) - NChunks * Cardinality(InState(r, "checkpoint"))
<1>1. PICK d : d = [state |-> [b \in Blocks |-> ScannedState(flash, b)], used |-> Live(flash)]
    OBVIOUS
<1>2. PICK at : at = Lowest(InState(d, "allocating"))
    OBVIOUS
<1>3. r = [state |-> d.state, used |-> d.used,
           nErasedBlocks |-> Cardinality(InState(d, "empty")),
           nFreeChunks |-> FreeChunks(d),
           allocationBlock |-> at,
           allocationPage |-> IF at = NoBlock THEN 0 ELSE Cardinality(Programmed(flash, at)),
           blocksInCheckpoint |-> Cardinality(InState(d, "checkpoint")),
           isCheckpointed |-> FALSE]
    BY <1>1, <1>2 DEF Scanned
<1>4. d.used = Live(flash) /\ \A b \in Blocks : d.state[b] = ScannedState(flash, b)
    BY <1>1
<1>5. \A b \in Blocks : ScannedState(flash, b) \in States
    BY DEF ScannedState, States
<1>6. d.state \in [Blocks -> States]
    BY <1>1, <1>5
<1>7. 1 \in Pages /\ Erased.kind = "erased" /\ Torn.kind = "torn"
    BY CheckpointAssumption DEF Pages, Erased, Torn
<1>8. ASSUME NEW b \in Blocks, b \in bad PROVE ~HasData(flash, b) /\ ~HasCk(flash, b) /\ ~IsCheckpoint(flash, b)
    <2>1. \A p \in Pages : flash[b][p] = Torn
        BY <1>8 DEF FlashOk
    <2> QED BY <1>7, <2>1 DEF HasData, HasCk, IsData, IsCk, IsCheckpoint
<1>9. \A b \in Blocks : IsCheckpoint(flash, b) => HasCk(flash, b)
    BY <1>7 DEF IsCheckpoint, HasCk, IsCk
<1>10. \A b \in Blocks : HasData(flash, b) \/ HasCk(flash, b) => Programmed(flash, b) # {}
    BY <1>7 DEF HasData, HasCk, IsData, IsCk, Programmed
<1>11. \A b \in Blocks : Programmed(flash, b) = {} => AllErased(flash, b)
    BY DEF Programmed, AllErased
<1>12. ASSUME NEW b \in Newest(flash)
       PROVE  /\ b \in Blocks /\ HasData(flash, b)
              /\ \E p \in Pages : /\ IsData(flash, b, p)
                                  /\ \A c \in Blocks, q \in Pages :
                                        IsData(flash, c, q) => flash[c][q].time <= flash[b][p].time
    <2>1. PICK x \in DataPages(flash) :
              /\ b = x[1]
              /\ \A z \in DataPages(flash) : Time(flash, z) <= Time(flash, x)
        BY DEF Newest
    <2>2. x \in Blocks \X Pages /\ flash[x[1]][x[2]].kind = "data"
        BY <2>1 DEF DataPages
    <2>3. PICK p \in Pages : p = x[2]
        BY <2>2
    <2>4. b \in Blocks /\ IsData(flash, b, p) /\ Time(flash, x) = flash[b][p].time
        BY <2>1, <2>2, <2>3 DEF IsData, Time
    <2>5. ASSUME NEW c \in Blocks, NEW q \in Pages, IsData(flash, c, q)
          PROVE  flash[c][q].time <= flash[b][p].time
        <3>1. <<c, q>> \in DataPages(flash) /\ Time(flash, <<c, q>>) = flash[c][q].time
            BY <2>5 DEF DataPages, IsData, Time
        <3> QED BY <2>1, <2>4, <3>1
    <2> QED BY <2>4, <2>5 DEF HasData
<1>13. ASSUME NEW b \in Newest(flash), NEW c \in Newest(flash) PROVE b = c
    <2>1. PICK p \in Pages : /\ IsData(flash, b, p)
                             /\ \A e \in Blocks, q \in Pages :
                                   IsData(flash, e, q) => flash[e][q].time <= flash[b][p].time
        BY <1>12
    <2>2. PICK q \in Pages : /\ IsData(flash, c, q)
                             /\ \A e \in Blocks, s \in Pages :
                                   IsData(flash, e, s) => flash[e][s].time <= flash[c][q].time
        BY <1>12
    <2>3. b \in Blocks /\ c \in Blocks
        BY <1>12
    <2>4. flash[b][p].time <= flash[c][q].time /\ flash[c][q].time <= flash[b][p].time
        BY <2>1, <2>2, <2>3
    <2>5. flash[b][p].time \in Nat /\ flash[c][q].time \in Nat
        BY <2>1, <2>2, <2>3 DEF FlashOk, Written, PageOk, IsData
    <2>6. flash[b][p].time = flash[c][q].time
        BY <2>4, <2>5
    <2> QED BY <2>1, <2>2, <2>3, <2>6 DEF FlashOk, TimesUnique
<1>14. \A b \in Blocks : /\ b \in bad => d.state[b] = "dead"
                         /\ d.state[b] = "dead" => b \in bad
                         /\ IsCheckpoint(flash, b) <=> d.state[b] = "checkpoint"
                         /\ d.state[b] = "empty" => Programmed(flash, b) = {}
                         /\ d.state[b] = "allocating" => b \in Newest(flash)
                         /\ HasData(flash, b) => d.state[b] \in {"allocating", "full"}
                         /\ HasCk(flash, b) => d.state[b] \in {"checkpoint", "full"}
    <2> TAKE b \in Blocks
    <2>1. d.state[b] = IF b \in bad THEN "dead"
                       ELSE IF IsCheckpoint(flash, b) THEN "checkpoint"
                       ELSE IF Programmed(flash, b) = {} THEN "empty"
                       ELSE IF b \in Newest(flash) /\ Cardinality(Programmed(flash, b)) < NChunks
                            THEN "allocating" ELSE "full"
        BY <1>4 DEF ScannedState
    <2>2. ~(HasData(flash, b) /\ HasCk(flash, b))
        BY DEF FlashOk, NotMixed
    <2>3. CASE b \in bad
        BY <1>8, <2>1, <2>3
    <2>4. CASE b \notin bad /\ IsCheckpoint(flash, b)
        BY <1>9, <2>1, <2>2, <2>4
    <2>5. CASE b \notin bad /\ ~IsCheckpoint(flash, b) /\ Programmed(flash, b) = {}
        BY <1>10, <2>1, <2>5
    <2>6. CASE b \notin bad /\ ~IsCheckpoint(flash, b) /\ Programmed(flash, b) # {}
        <3>1. d.state[b] \in {"allocating", "full"} /\ (d.state[b] = "allocating" => b \in Newest(flash))
            BY <2>1, <2>6
        <3>2. HasCk(flash, b) => d.state[b] = "full"
            BY <1>12, <2>2, <3>1
        <3> QED BY <2>6, <3>1, <3>2
    <2> QED BY <2>3, <2>4, <2>5, <2>6
<1>15. InState(d, "allocating") \subseteq Nat
    BY CheckpointAssumption DEF InState, Blocks
<1>16. at # NoBlock => at \in Blocks /\ d.state[at] = "allocating" /\ HasData(flash, at)
    <2>1. at # NoBlock => at \in InState(d, "allocating")
        BY <1>2, <1>15, LowestIs
    <2> QED BY <1>12, <1>14, <2>1 DEF InState
<1>17. \A b \in Blocks : d.state[b] = "allocating" => b = at
    <2> SUFFICES ASSUME NEW b \in Blocks, d.state[b] = "allocating" PROVE b = at
        OBVIOUS
    <2>1. b \in InState(d, "allocating")
        BY DEF InState
    <2>2. at \in InState(d, "allocating")
        BY <1>2, <1>15, <2>1, LowestIs
    <2>3. at \in Newest(flash) /\ b \in Newest(flash)
        BY <1>14, <2>1, <2>2 DEF InState
    <2> QED BY <1>13, <2>3
<1>18. (IF at = NoBlock THEN 0 ELSE Cardinality(Programmed(flash, at))) \in 0 .. NChunks
    <2>1. IsFiniteSet(Pages) /\ Cardinality(Pages) = NChunks /\ NChunks \in Nat
        BY FS_Interval, CheckpointAssumption DEF Pages
    <2>2. Programmed(flash, at) \subseteq Pages
        BY DEF Programmed
    <2>3. IsFiniteSet(Programmed(flash, at)) /\ Cardinality(Programmed(flash, at)) <= NChunks
        BY <2>1, <2>2, FS_Subset
    <2>4. Cardinality(Programmed(flash, at)) \in Nat
        BY <2>3, FS_CardinalityType
    <2> QED BY <2>1, <2>3, <2>4
<1>19. d.used \subseteq Blocks \X Pages
    BY <1>4, LiveIs
<1>20. \A x \in d.used : d.state[x[1]] \in {"allocating", "full"}
    <2> TAKE x \in d.used
    <2>1. PICK b \in Blocks, p \in Pages : x = <<b, p>>
        BY <1>19
    <2>2. HasData(flash, b)
        BY <1>4, <2>1, LiveIs DEF HasData
    <2> QED BY <1>14, <2>1, <2>2
<1>21. FreeChunks(d) = Usable(d.state, d.used) - NChunks * Cardinality(InState(d, "checkpoint"))
    BY <1>6, <1>19, <1>20, FreeIs
<1>22. \A v : Cardinality(InState(d, v)) \in 0 .. NBlocks
    <2> TAKE v
    <2>1. InState(d, v) \in SUBSET Blocks
        BY DEF InState
    <2> QED BY <2>1, BlocksFinite
<1>23. Usable(d.state, d.used) \in Int /\ NChunks * Cardinality(InState(d, "checkpoint")) \in Int
    <2>1. PICK U : U = {b \in Blocks : d.state[b] # "dead"}
        OBVIOUS
    <2>2. U \in SUBSET Blocks
        BY <2>1
    <2>3. Cardinality(U) \in Nat /\ Cardinality(d.used) \in Nat /\ Cardinality(InState(d, "checkpoint")) \in Nat
        BY <1>19, <1>22, <2>2, BlocksFinite, CheckpointAssumption
    <2>4. Usable(d.state, d.used) = NChunks * Cardinality(U) - Cardinality(d.used)
        BY <2>1 DEF Usable
    <2>5. NChunks * Cardinality(U) \in Int /\ NChunks * Cardinality(InState(d, "checkpoint")) \in Int
        BY <2>3, CheckpointAssumption
    <2> QED BY <2>3, <2>4, <2>5
<1>24. /\ r.state = d.state /\ r.used = d.used /\ r.allocationBlock = at
       /\ r.nErasedBlocks = Cardinality(InState(d, "empty")) /\ r.nFreeChunks = FreeChunks(d)
       /\ r.blocksInCheckpoint = Cardinality(InState(d, "checkpoint"))
    BY <1>3
<1>25. \A v : InState(r, v) = InState(d, v)
    BY <1>24 DEF InState
<1>26. /\ at \in Blocks \cup {NoBlock} /\ FreeChunks(d) \in Int
       /\ Cardinality(InState(d, "empty")) \in Int /\ Cardinality(InState(d, "checkpoint")) \in 0 .. NBlocks
    <2>1. FreeChunks(d) \in Int
        BY <1>21, <1>23
    <2>2. Cardinality(InState(d, "empty")) \in 0 .. NBlocks /\ Cardinality(InState(d, "checkpoint")) \in 0 .. NBlocks
        BY <1>22
    <2> QED BY <1>16, <2>1, <2>2
<1>27. r \in [state : [Blocks -> States], used : SUBSET (Blocks \X Pages),
              nErasedBlocks : Int, nFreeChunks : Int,
              allocationBlock : Blocks \cup {NoBlock}, allocationPage : 0 .. NChunks,
              blocksInCheckpoint : 0 .. NBlocks, isCheckpointed : BOOLEAN]
    BY <1>3, <1>6, <1>18, <1>19, <1>26
<1>28. \A b \in Blocks : /\ HasData(flash, b) => r.state[b] \in {"allocating", "full"}
                         /\ HasCk(flash, b) => r.state[b] \in {"checkpoint", "full"}
                         /\ IsCheckpoint(flash, b) <=> r.state[b] = "checkpoint"
                         /\ r.state[b] = "empty" => AllErased(flash, b)
                         /\ b \in bad => r.state[b] = "dead"
                         /\ r.state[b] = "allocating" => b = r.allocationBlock
    BY <1>11, <1>14, <1>17, <1>24
<1>29. r.allocationBlock # NoBlock =>
           r.state[r.allocationBlock] = "allocating" /\ HasData(flash, r.allocationBlock)
    BY <1>16, <1>24
<1>30. /\ r.nErasedBlocks = Cardinality(InState(r, "empty"))
       /\ r.blocksInCheckpoint = Cardinality(InState(r, "checkpoint"))
    BY <1>24, <1>25
<1>31. r.nFreeChunks = Usable(r.state, r.used) - NChunks * Cardinality(InState(r, "checkpoint"))
    BY <1>21, <1>24, <1>25
<1> QED BY <1>4, <1>24, <1>27, <1>28, <1>29, <1>30, <1>31

\* The device after mounting is that of the NAND.
LEMMA MountKeeps == IInv /\ Mount => IInv'
<1> SUFFICES ASSUME IInv, Mount PROVE IInv'
    OBVIOUS
<1>1. FlashOk /\ Bounded
    BY DEF IInv
<1>2. mounted' = TRUE /\ ck' = LeftByReading(flash) /\ UNCHANGED <<flash, bad, clock, bounds>>
    BY DEF Mount
<1>3. FlashOk'
    BY <1>1, <1>2, SameFlash
<1>4. Bounded'
    BY <1>1, <1>2 DEF Bounded, bounds
<1>5. PICK l : l = LeftByReading(flash)
    OBVIOUS
<1>6. ck' = l /\ /\ l = [forWriting |-> l.forWriting, buffer |-> l.buffer, offset |-> l.offset,
                         currentBlock |-> l.currentBlock, currentChunk |-> l.currentChunk,
                         nextBlock |-> l.nextBlock, page |-> l.page, sum |-> l.sum]
                 /\ l.currentBlock \in Blocks \cup {NoBlock} /\ l.currentChunk \in 0 .. NChunks
                 /\ l.nextBlock \in Int /\ l.page \in 0 .. StreamPages
    BY <1>2, <1>5, LeftIs
<1>7. CASE Restorable(flash)
    <2>1. PICK r : r = Restored(flash)
        OBVIOUS
    <2>2. dev' = r /\ work' = <<>>
        BY <1>7, <2>1 DEF Mount
    <2>3. /\ r.state \in [Blocks -> States] /\ r.used = Live(flash)
          /\ r.nErasedBlocks \in Int /\ r.nFreeChunks \in Int
          /\ r.allocationBlock \in Blocks \cup {NoBlock} /\ r.allocationPage \in 0 .. NChunks
          /\ r.blocksInCheckpoint \in 0 .. NBlocks /\ r.isCheckpointed = TRUE
          /\ r = [state |-> r.state, used |-> r.used, nErasedBlocks |-> r.nErasedBlocks,
                  nFreeChunks |-> r.nFreeChunks, allocationBlock |-> r.allocationBlock,
                  allocationPage |-> r.allocationPage, blocksInCheckpoint |-> r.blocksInCheckpoint,
                  isCheckpointed |-> r.isCheckpointed]
        BY <1>1, <1>7, <2>1, RestoredIs
    <2>4. /\ \A b \in Blocks : /\ HasData(flash, b) => r.state[b] \in {"allocating", "full"}
                               /\ HasCk(flash, b) => r.state[b] = "checkpoint"
                               /\ r.state[b] = "checkpoint" => IsCheckpoint(flash, b)
                               /\ r.state[b] = "empty" => AllErased(flash, b)
                               /\ b \in bad => r.state[b] = "dead"
                               /\ r.state[b] = "allocating" => b = r.allocationBlock
          /\ r.allocationBlock # NoBlock =>
                 /\ r.state[r.allocationBlock] = "allocating" /\ HasData(flash, r.allocationBlock)
                 /\ r.allocationPage \in 1 .. NChunks - 1
                 /\ \A p \in Pages : p > r.allocationPage => flash[r.allocationBlock][p] = Erased
        BY <1>1, <1>7, <2>1, RestoredIs
    <2>5. /\ r.nErasedBlocks = Cardinality(InState(r, "empty"))
          /\ r.blocksInCheckpoint = Cardinality(InState(r, "checkpoint"))
          /\ r.nFreeChunks = Usable(r.state, r.used) - NChunks * Cardinality(InState(r, "checkpoint"))
        BY <1>1, <1>7, <2>1, RestoredIs
    <2>6. <<>> \in Seq(Tasks) /\ Ordered(<<>>)
        BY TaskIs DEF Ordered
    <2>7. Ordered(work)' /\ ~CleaningUp' /\ TargetsIn(work)' = {} /\ \A x : ~Doing(x)'
        BY <2>2, <2>6, NowIs, NoTasks
    <2>8. DeviceTyped'
        <3>1. r.used \in SUBSET (Blocks \X Pages)
            BY <2>3, LiveIs
        <3>2. r \in [state : [Blocks -> States], used : SUBSET (Blocks \X Pages),
                     nErasedBlocks : Int, nFreeChunks : Int,
                     allocationBlock : Blocks \cup {NoBlock}, allocationPage : 0 .. NChunks,
                     blocksInCheckpoint : 0 .. NBlocks, isCheckpointed : BOOLEAN]
            BY <2>3, <3>1
        <3> QED BY <1>6, <2>2, <3>2 DEF DeviceTyped
    <2>9. (dev.used = Live(flash))'
        BY <1>2, <2>2, <2>3
    <2>10. BlocksOk'
        <3>1. 1 \in Pages
            BY CheckpointAssumption DEF Pages
        <3>2. \A b \in Blocks : IsCheckpoint(flash, b) => r.state[b] = "checkpoint"
            BY <2>4, <3>1 DEF IsCheckpoint, HasCk, IsCk
        <3>3. flash' = flash /\ bad' = bad
            BY <1>2
        <3> QED BY <2>2, <2>4, <3>2, <3>3 DEF BlocksOk
    <2>11. AllocationOk'
        <3>1. flash' = flash
            BY <1>2
        <3> QED BY <2>2, <2>4, <3>1 DEF AllocationOk
    <2>12. CountersOk'
        <3>1. ~Streaming'
            BY <2>7 DEF Streaming
        <3>2. /\ InState(dev, "empty")' = InState(r, "empty") /\ InState(dev, "checkpoint")' = InState(r, "checkpoint")
              /\ Checkpoints' = Cardinality(InState(r, "checkpoint"))
              /\ Usable(dev.state, dev.used)' = Usable(r.state, r.used)
            BY <2>2 DEF InState, Checkpoints, Usable
        <3>3. InState(r, "empty") \in SUBSET Blocks
            BY DEF InState
        <3>4. Cardinality(InState(r, "empty")) \in Nat
            BY <3>3, BlocksFinite
        <3>5. Cardinality(InState(r, "empty")) = Cardinality(InState(r, "empty")) + 0
            BY <3>4
        <3> QED BY <2>2, <2>5, <3>1, <3>2, <3>5 DEF CountersOk
    <2>13. WorkOk'
        BY <2>7 DEF WorkOk
    <2>14. StreamOk'
        <3>1. AllBegun'
            BY <1>2, <2>2, <2>4 DEF AllBegun, IsCheckpoint
        <3> QED BY <2>7, <3>1 DEF StreamOk
    <2> QED BY <1>2, <1>3, <1>4, <2>8, <2>9, <2>10, <2>11, <2>12, <2>13, <2>14 DEF IInv, DeviceOk
<1>8. CASE ~Restorable(flash)
    <2>1. PICK r : r = Scanned(flash)
        OBVIOUS
    <2>2. dev' = r /\ work' = <<Task("cleanup", 0), Invalidate>>
        BY <1>8, <2>1 DEF Mount
    <2>3. /\ r \in [state : [Blocks -> States], used : SUBSET (Blocks \X Pages),
                    nErasedBlocks : Int, nFreeChunks : Int,
                    allocationBlock : Blocks \cup {NoBlock}, allocationPage : 0 .. NChunks,
                    blocksInCheckpoint : 0 .. NBlocks, isCheckpointed : BOOLEAN]
          /\ r.used = Live(flash)
        BY <1>1, <2>1, ScannedIs
    <2>4. /\ \A b \in Blocks : /\ HasData(flash, b) => r.state[b] \in {"allocating", "full"}
                               /\ HasCk(flash, b) => r.state[b] \in {"checkpoint", "full"}
                               /\ IsCheckpoint(flash, b) <=> r.state[b] = "checkpoint"
                               /\ r.state[b] = "empty" => AllErased(flash, b)
                               /\ b \in bad => r.state[b] = "dead"
                               /\ r.state[b] = "allocating" => b = r.allocationBlock
          /\ r.allocationBlock # NoBlock =>
                 r.state[r.allocationBlock] = "allocating" /\ HasData(flash, r.allocationBlock)
        BY <1>1, <2>1, ScannedIs
    <2>5. /\ r.nErasedBlocks = Cardinality(InState(r, "empty"))
          /\ r.blocksInCheckpoint = Cardinality(InState(r, "checkpoint"))
          /\ r.nFreeChunks = Usable(r.state, r.used) - NChunks * Cardinality(InState(r, "checkpoint"))
        BY <1>1, <2>1, ScannedIs
    <2>6. PICK w : w = Mounting
        OBVIOUS
    <2>7. w \in Scans /\ w # <<>>
        <3>1. Task("cleanup", 0) \in Tasks /\ Put(Invalidate, <<>>) \in Seq(Tasks)
            BY TaskIs, PutTask
        <3> QED BY <2>6, <3>1, PutTask DEF Scans, Mounting
    <2>8. /\ w \in Seq(Tasks) /\ Ordered(w) /\ TargetsIn(w) = {} /\ Head(w).what = "cleanup" /\ CleaningIn(w)
        BY <2>7, ScanOrdered
    <2>9. work' = w
        <3>1. Task("cleanup", 0) \in Tasks /\ Invalidate \in Tasks /\ <<>> \in Seq(Tasks)
            BY TaskIs
        <3> QED BY <2>2, <2>6, <3>1, ListsAre DEF Mounting
    <2>10. Ordered(work)' /\ CleaningUp' /\ TargetsIn(work)' = {} /\ \A x : Doing(x)' <=> x = "cleanup"
        BY <2>7, <2>8, <2>9, NowIs
    <2>11. DeviceTyped'
        BY <1>6, <2>2, <2>3 DEF DeviceTyped
    <2>12. (dev.used = Live(flash))'
        BY <1>2, <2>2, <2>3
    <2>13. BlocksOk'
        <3>1. flash' = flash /\ bad' = bad
            BY <1>2
        <3> QED BY <2>2, <2>4, <2>10, <3>1 DEF BlocksOk
    <2>14. AllocationOk'
        <3>1. flash' = flash
            BY <1>2
        <3> QED BY <2>2, <2>4, <2>10, <3>1 DEF AllocationOk
    <2>15. CountersOk'
        <3>1. ~Streaming'
            BY <2>10 DEF Streaming
        <3>2. /\ InState(dev, "empty")' = InState(r, "empty") /\ InState(dev, "checkpoint")' = InState(r, "checkpoint")
              /\ Checkpoints' = Cardinality(InState(r, "checkpoint"))
              /\ Usable(dev.state, dev.used)' = Usable(r.state, r.used)
            BY <2>2 DEF InState, Checkpoints, Usable
        <3>3. InState(r, "empty") \in SUBSET Blocks
            BY DEF InState
        <3>4. Cardinality(InState(r, "empty")) \in Nat
            BY <3>3, BlocksFinite
        <3>5. Cardinality(InState(r, "empty")) = Cardinality(InState(r, "empty")) + 0
            BY <3>4
        <3> QED BY <2>2, <2>5, <3>1, <3>2, <3>5 DEF CountersOk
    <2>16. WorkOk'
        BY <2>10 DEF WorkOk
    <2>17. StreamOk'
        <3>1. AllBegun'
            BY <1>2, <2>2, <2>4 DEF AllBegun, IsCheckpoint
        <3> QED BY <2>10, <3>1 DEF StreamOk
    <2> QED BY <1>2, <1>3, <1>4, <2>11, <2>12, <2>13, <2>14, <2>15, <2>16, <2>17 DEF IInv, DeviceOk
<1> QED BY <1>7, <1>8

(***************************************************************************)
(* The theorems.                                                           *)
(***************************************************************************)
\* A NAND that has never been written.
LEMMA InitHolds == Init => IInv
<1> SUFFICES ASSUME Init PROVE IInv
    OBVIOUS
<1>1. \A b \in Blocks, p \in Pages : flash[b][p] = Erased
    BY DEF Init, ErasedBlock
<1>2. Erased.kind = "erased"
    BY DEF Erased
<1>3. \A b \in Blocks, p \in Pages : ~IsData(flash, b, p) /\ ~IsCk(flash, b, p)
    BY <1>1, <1>2 DEF IsData, IsCk
<1>4. Written(flash)
    BY <1>1, <1>2 DEF Written, PageOk, Init, ErasedBlock
<1>5. TimesUnique(flash) /\ PagesUnique(flash) /\ NotMixed(flash) /\ Saved(flash)
    BY <1>3, Zenon DEF TimesUnique, PagesUnique, NotMixed, Saved, HasData
<1>6. FlashOk
    BY <1>4, <1>5 DEF FlashOk, Init
<1>7. Bounded
    <2>1. 0 \in 0 .. MaxRequests /\ 0 \in 0 .. MaxCrashes /\ 0 \in 0 .. MaxFaults /\ 0 \in Nat
        BY CheckpointAssumption
    <2>2. requests = 0 /\ crashes = 0 /\ faults = 0 /\ clock = 0 /\ mounted = FALSE
        BY DEF Init
    <2> QED BY <2>1, <2>2 DEF Bounded
<1> QED BY <1>6, <1>7 DEF IInv, Init

\* The steps together.
LEMMA StepKeeps == ~BadKeepsData /\ IInv /\ [Next]_vars => IInv'
<1> SUFFICES ASSUME ~BadKeepsData, IInv, [Next]_vars PROVE IInv'
    OBVIOUS
<1>1. CASE UNCHANGED vars
    <2>1. UNCHANGED <<flash, bad, dev, ck, mounted, work, clock, requests, crashes, faults>>
        BY <1>1 DEF vars, bounds
    <2>2. FlashOk /\ Bounded
        BY DEF IInv
    <2>3. FlashOk' /\ Bounded'
        BY <2>1, <2>2, SameFlash DEF Bounded
    <2>4. ~mounted => ~mounted' /\ (dev = NoDevice /\ ck = NoStream /\ work = <<>>)'
        BY <2>1 DEF IInv
    <2>5. mounted => IInv'
        <3>1. DeviceOk => DeviceOk'
            BY <2>1 DEF DeviceOk, DeviceTyped, BlocksOk, AllocationOk, CountersOk, WorkOk, StreamOk, PagesOk,
                        HasData, HasCk, IsData, IsCk, IsCheckpoint, AllErased, CleaningUp, Checkpoints, InState,
                        Streaming, Doing, AllBegun, Complete, Present, SavedCounters
        <3> QED BY <2>1, <2>3, <3>1 DEF IInv
    <2> QED BY <2>3, <2>4, <2>5 DEF IInv
<1>2. CASE Next
    BY <1>2, InvalidateKeeps, EraseCheckpointKeeps, BecameDirtyKeeps, EraseBlockKeeps, WriteKeeps, NoSpaceKeeps,
       OpenKeeps, WritePageKeeps, FlushLeftKeeps, CloseKeeps, UnmountKeeps, CleanUpKeeps, MountKeeps,
       RequestsKeep, CrashKeeps DEF Next, Step
<1> QED BY <1>1, <1>2

\* Every live chunk is in a block of data.
LEMMA LiveBlocks ==
    ASSUME IInv, mounted
    PROVE  /\ dev.state \in [Blocks -> States] /\ dev.used \subseteq Blocks \X Pages
           /\ \A x \in dev.used : dev.state[x[1]] \in {"allocating", "full"}
<1>1. FlashOk /\ DeviceTyped /\ BlocksOk /\ dev.used = Live(flash)
    BY DEF IInv, DeviceOk
<1>2. dev.state \in [Blocks -> States] /\ dev.used \subseteq Blocks \X Pages
    BY <1>1 DEF DeviceTyped
<1>3. \A x \in dev.used : dev.state[x[1]] \in {"allocating", "full"}
    <2> TAKE x \in dev.used
    <2>1. PICK b \in Blocks, p \in Pages : x = <<b, p>>
        BY <1>2
    <2>2. HasData(flash, b)
        BY <1>1, <2>1, LiveIs DEF HasData
    <2> QED BY <1>1, <2>1, <2>2 DEF BlocksOk
<1> QED BY <1>2, <1>3

\* The counters stay within the size of the device.
LEMMA CountersInRange ==
    ASSUME IInv, mounted
    PROVE  dev.nErasedBlocks \in 0 .. NBlocks /\ dev.nFreeChunks \in 0 .. NBlocks * NChunks
<1>1. DeviceTyped /\ CountersOk
    BY DEF IInv, DeviceOk
<1>2. PICK E, C, U, L :
          /\ E = InState(dev, "empty") /\ C = InState(dev, "checkpoint")
          /\ U = {b \in Blocks : dev.state[b] # "dead"}
          /\ L = {b \in Blocks : dev.state[b] \in {"allocating", "full"}}
    OBVIOUS
<1>3. /\ \A b : b \in E <=> b \in Blocks /\ dev.state[b] = "empty"
      /\ \A b : b \in C <=> b \in Blocks /\ dev.state[b] = "checkpoint"
      /\ \A b : b \in U <=> b \in Blocks /\ dev.state[b] # "dead"
      /\ \A b : b \in L <=> b \in Blocks /\ dev.state[b] \in {"allocating", "full"}
    BY <1>2 DEF InState
<1>4. /\ E \in SUBSET Blocks /\ C \in SUBSET Blocks /\ U \in SUBSET Blocks /\ L \in SUBSET Blocks
      /\ E \cup C \in SUBSET Blocks /\ E \cap C = {} /\ U \cap C = C /\ L \subseteq U \ C
    BY <1>3
<1>5. /\ IsFiniteSet(E) /\ IsFiniteSet(C) /\ IsFiniteSet(U) /\ IsFiniteSet(L) /\ IsFiniteSet(U \ C)
      /\ Cardinality(E) \in 0 .. NBlocks /\ Cardinality(C) \in 0 .. NBlocks /\ Cardinality(U) \in 0 .. NBlocks
      /\ Cardinality(L) \in 0 .. NBlocks /\ Cardinality(E \cup C) \in 0 .. NBlocks
    <2>1. U \ C \in SUBSET Blocks
        BY <1>4
    <2> QED BY <1>4, <2>1, BlocksFinite
<1>6. Cardinality(E \cup C) = Cardinality(E) + Cardinality(C)
    <2>1. Cardinality({}) = 0
        BY FS_EmptySet
    <2> QED BY <1>4, <1>5, <2>1, FS_Union
<1>7. Cardinality(L) <= Cardinality(U) - Cardinality(C)
    <2>1. Cardinality(L) <= Cardinality(U \ C)
        BY <1>4, <1>5, FS_Subset
    <2>2. Cardinality(U \ C) = Cardinality(U) - Cardinality(C)
        BY <1>4, <1>5, FS_Difference
    <2> QED BY <2>1, <2>2
<1>8. Cardinality(dev.used) \in Nat /\ Cardinality(dev.used) <= NChunks * Cardinality(L)
    <2>1. IsFiniteSet(Pages) /\ Cardinality(Pages) = NChunks /\ NChunks \in Nat
        BY FS_Interval, CheckpointAssumption DEF Pages
    <2>2. IsFiniteSet(L \X Pages) /\ Cardinality(L \X Pages) = Cardinality(L) * NChunks
        BY <1>5, <2>1, FS_Product
    <2>3. dev.used \subseteq L \X Pages
        <3>1. dev.used \subseteq Blocks \X Pages /\ \A x \in dev.used : dev.state[x[1]] \in {"allocating", "full"}
            BY LiveBlocks
        <3> QED BY <1>3, <3>1
    <2>4. IsFiniteSet(dev.used) /\ Cardinality(dev.used) <= Cardinality(L) * NChunks
        BY <2>2, <2>3, FS_Subset
    <2>5. Cardinality(dev.used) \in Nat
        BY <2>4, FS_CardinalityType
    <2>6. Cardinality(L) * NChunks = NChunks * Cardinality(L)
        BY <1>5, <2>1
    <2> QED BY <2>4, <2>5, <2>6
<1>9. Checkpoints = Cardinality(C) /\ Usable(dev.state, dev.used) = NChunks * Cardinality(U) - Cardinality(dev.used)
    BY <1>2 DEF Checkpoints, Usable
<1>10. dev.nErasedBlocks \in 0 .. NBlocks
    BY <1>1, <1>2, <1>5, <1>6, <1>9 DEF CountersOk
<1>11. dev.nFreeChunks = NChunks * Cardinality(U) - Cardinality(dev.used) - (IF Streaming THEN 0 ELSE NChunks * Cardinality(C))
    BY <1>1, <1>9 DEF CountersOk
<1>12. PICK u \in Nat, c \in Nat, l \in Nat, m \in Nat :
           /\ u = Cardinality(U) /\ c = Cardinality(C) /\ l = Cardinality(L) /\ m = Cardinality(dev.used)
           /\ u <= NBlocks /\ l <= u - c /\ m <= NChunks * l
    BY <1>5, <1>7, <1>8
<1>13. /\ NChunks \in Nat /\ NBlocks \in Nat
       /\ NChunks * u <= NBlocks * NChunks /\ NChunks * l <= NChunks * u - NChunks * c
       /\ NChunks * u \in Nat /\ NChunks * c \in Nat /\ NChunks * l \in Nat /\ NBlocks * NChunks \in Nat
    <2>1. NChunks \in Nat /\ NBlocks \in Nat
        BY CheckpointAssumption
    <2>2. NChunks * (u - c) = NChunks * u - NChunks * c
        BY <2>1
    <2>3. \A i, j, k \in Nat : i <= j => k * i <= k * j
        OBVIOUS
    <2>4. NChunks * u <= NChunks * NBlocks /\ NChunks * NBlocks = NBlocks * NChunks
        BY <1>12, <2>1, <2>3
    <2>5. u - c \in Nat
        BY <1>12
    <2>6. NChunks * l <= NChunks * (u - c)
        BY <1>12, <2>1, <2>3, <2>5
    <2> QED BY <2>1, <2>2, <2>4, <2>6
<1>14. dev.nFreeChunks = NChunks * u - m - (IF Streaming THEN 0 ELSE NChunks * c)
    BY <1>11, <1>12
<1>15. dev.nFreeChunks \in 0 .. NBlocks * NChunks
    <2>1. CASE Streaming
        BY <1>12, <1>13, <1>14, <2>1
    <2>2. CASE ~Streaming
        BY <1>12, <1>13, <1>14, <2>2
    <2> QED BY <2>1, <2>2
<1> QED BY <1>10, <1>15

\* What the invariant says of the properties.
LEMMA InvImplies == IInv => TypeOK /\ ErasedIsErased /\ CountersAgree /\ CheckpointIsTrue
<1> SUFFICES ASSUME IInv PROVE TypeOK /\ ErasedIsErased /\ CountersAgree /\ CheckpointIsTrue
    OBVIOUS
<1>1. FlashOk /\ Bounded
    BY DEF IInv
<1>2. TypeOK
    <2>1. \A b \in Blocks, p \in Pages : flash[b][p].kind \in {"erased", "torn", "data", "ck"}
        BY <1>1 DEF FlashOk, Written, PageOk
    <2>2. bad \subseteq Blocks /\ mounted \in BOOLEAN
        BY <1>1 DEF FlashOk, Bounded
    <2>3. /\ dev.state \in [Blocks -> States] /\ dev.used \subseteq Blocks \X Pages
          /\ dev.nErasedBlocks \in 0 .. NBlocks /\ dev.nFreeChunks \in 0 .. NBlocks * NChunks
          /\ dev.allocationBlock \in Blocks \cup {NoBlock} /\ dev.allocationPage \in 0 .. NChunks
          /\ dev.blocksInCheckpoint \in 0 .. NBlocks /\ dev.isCheckpointed \in BOOLEAN
          /\ ck.currentBlock \in Blocks \cup {NoBlock} /\ ck.page \in 0 .. StreamPages
        <3>1. CASE mounted
            <4>1. DeviceTyped
                BY <3>1 DEF IInv, DeviceOk
            <4>2. dev.nErasedBlocks \in 0 .. NBlocks /\ dev.nFreeChunks \in 0 .. NBlocks * NChunks
                BY <3>1, CountersInRange
            <4> QED BY <4>1, <4>2 DEF DeviceTyped
        <3>2. CASE ~mounted
            <4>1. dev = NoDevice /\ ck = NoStream
                BY <3>2 DEF IInv
            <4>2. "empty" \in States /\ NBlocks * NChunks \in Nat
                BY CheckpointAssumption DEF States
            <4>3. /\ dev.state = [b \in Blocks |-> "empty"] /\ dev.used = {} /\ dev.nErasedBlocks = 0
                  /\ dev.nFreeChunks = 0 /\ dev.allocationBlock = NoBlock /\ dev.allocationPage = 0
                  /\ dev.blocksInCheckpoint = 0 /\ dev.isCheckpointed = FALSE
                  /\ ck.currentBlock = NoBlock /\ ck.page = 0
                BY <4>1 DEF NoDevice, NoStream
            <4>4. dev.state \in [Blocks -> States]
                BY <4>2, <4>3
            <4>5. /\ 0 \in 0 .. NBlocks /\ 0 \in 0 .. NBlocks * NChunks /\ 0 \in 0 .. NChunks
                  /\ 0 \in 0 .. StreamPages
                BY <4>2, CheckpointAssumption
            <4> QED BY <4>3, <4>4, <4>5
        <3> QED BY <3>1, <3>2
    <2>4. requests \in 0 .. MaxRequests /\ crashes \in 0 .. MaxCrashes /\ faults \in 0 .. MaxFaults
        BY <1>1 DEF Bounded
    <2> QED BY <2>1, <2>2, <2>3, <2>4 DEF TypeOK
<1>3. ErasedIsErased
    BY DEF ErasedIsErased, IInv, DeviceOk, BlocksOk, InState, Programmed, AllErased
<1>4. CountersAgree
    <2> SUFFICES ASSUME Idle
                 PROVE  /\ dev.nErasedBlocks = Cardinality(InState(dev, "empty"))
                        /\ dev.blocksInCheckpoint = Cardinality(InState(dev, "checkpoint"))
                        /\ dev.nFreeChunks = FreeChunks(dev)
        BY DEF CountersAgree
    <2>1. mounted /\ ~Streaming /\ ~Doing("erasecheckpoint") /\ DeviceTyped /\ CountersOk
        BY DEF Idle, IInv, DeviceOk, Streaming, Doing
    <2>2. FreeChunks(dev) = Usable(dev.state, dev.used) - NChunks * Cardinality(InState(dev, "checkpoint"))
        <3>1. PICK d : d = dev
            OBVIOUS
        <3>2. /\ d.state \in [Blocks -> States] /\ d.used \subseteq Blocks \X Pages
              /\ \A x \in d.used : d.state[x[1]] \in {"allocating", "full"}
            BY <2>1, <3>1, LiveBlocks
        <3>3. FreeChunks(d) = Usable(d.state, d.used) - NChunks * Cardinality(InState(d, "checkpoint"))
            BY <3>2, FreeIs
        <3> QED BY <3>1, <3>3
    <2>3. Cardinality(InState(dev, "empty")) \in Nat
        BY <2>1, CountsAreNumbers
    <2> QED BY <2>1, <2>2, <2>3 DEF CountersOk, Checkpoints
<1>5. CheckpointIsTrue
    <2> SUFFICES ASSUME Restorable(flash), NEW d, d = Restored(flash)
                 PROVE  /\ d.used = Live(flash) /\ StreamPage(flash, 2).holds.used = d.used
                        /\ \A b \in InState(d, "empty") : Programmed(flash, b) = {}
                        /\ \A x \in DataPages(flash) : d.state[x[1]] \in {"allocating", "full"}
                        /\ d.allocationBlock # NoBlock =>
                               \A p \in Pages : p > d.allocationPage => flash[d.allocationBlock][p] = Erased
        BY Zenon DEF CheckpointIsTrue
    <2>1. /\ d.used = Live(flash) /\ StreamPage(flash, 2).holds.used = d.used
          /\ \A b \in Blocks : /\ HasData(flash, b) => d.state[b] \in {"allocating", "full"}
                               /\ d.state[b] = "empty" => AllErased(flash, b)
          /\ d.allocationBlock # NoBlock =>
                 \A p \in Pages : p > d.allocationPage => flash[d.allocationBlock][p] = Erased
        BY <1>1, RestoredIs
    <2>2. \A b \in InState(d, "empty") : Programmed(flash, b) = {}
        BY <2>1 DEF InState, Programmed, AllErased
    <2>3. \A x \in DataPages(flash) : x[1] \in Blocks /\ HasData(flash, x[1])
        BY DEF DataPages, HasData, IsData
    <2> QED BY <2>1, <2>2, <2>3
<1> QED BY <1>2, <1>3, <1>4, <1>5

\* Every state is one of the invariant.
LEMMA Invariance == ASSUME ~BadKeepsData PROVE Spec => []IInv
<1>1. Init => IInv
    BY InitHolds
<1>2. IInv /\ [Next]_vars => IInv'
    BY StepKeeps
<1> QED BY <1>1, <1>2, PTL DEF Spec

\* The variables stay within their types, and the counters of the device between
\* none and all of its blocks and chunks, through saves, mounts, failed erasures
\* and power failures (yaffs2_CheckpointClose, yaffs2_ScanBackwards).
THEOREM Types == ASSUME ~BadKeepsData PROVE Spec => []TypeOK
BY Invariance, InvImplies, PTL

\* The device never takes a block for empty that has been written, so no chunk is
\* programmed twice, whether the state came from a checkpoint or from a scan
\* (yaffs2_CheckpointRestore, yaffs_AllocateChunk).
THEOREM ErasedIsErasedAlways == ASSUME ~BadKeepsData PROVE Spec => []ErasedIsErased
BY Invariance, InvImplies, PTL

\* Between requests nErasedBlocks, nFreeChunks and blocksInCheckpoint are what the
\* states of the blocks and the chunk bits add up to, after any sequence of saves,
\* invalidations, mounts and failures (yaffs2_CheckpointClose and the restore
\* subtract the blocks of the checkpoint, yaffs2_CheckpointErase adds them again).
THEOREM CountersAlwaysAgree == ASSUME ~BadKeepsData PROVE Spec => []CountersAgree
BY Invariance, InvImplies, PTL

\* Whenever power fails, a checkpoint that could be restored says what a scan of
\* the NAND would find: it was erased before anything it tells of was changed
\* (yaffs2_InvalidateCheckpoint).
THEOREM CheckpointAlwaysTrue == ASSUME ~BadKeepsData PROVE Spec => []CheckpointIsTrue
BY Invariance, InvImplies, PTL
=============================================================================
