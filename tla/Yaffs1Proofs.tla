---------------------------- MODULE Yaffs1Proofs ----------------------------
(***************************************************************************)
(* A yaffs1 device keeps what was answered, proved for every number of     *)
(* blocks, chunks and keys, and for any number of writes, losses of power, *)
(* flips and failed erasures.                                              *)
(***************************************************************************)
EXTENDS Yaffs1, FiniteSetTheorems, TLAPS

(***************************************************************************)
(* What is on the device.                                                  *)
(***************************************************************************)
Columns == 0 .. NChunks - 1
PageOk(p) ==
    /\ p = [state |-> p.state, key |-> p.key, serial |-> p.serial, data |-> p.data,
            flip |-> p.flip, deleted |-> p.deleted]
    /\ p.state \in {"erased", "torn", "written"}
    /\ p.state = "erased" => p = Erased
    /\ p.state = "written" =>
           p.key \in Keys /\ p.serial \in 0 .. 3 /\ p.flip \in FlippedBits \cup {0} /\ p.deleted \in BOOLEAN

\* A block is programmed from its first page on.
NandOk ==
    /\ DOMAIN nand = Blocks
    /\ \A b \in Blocks : DOMAIN nand[b] = Columns /\ \A c \in Columns : PageOk(nand[b][c])
    /\ \A b \in Blocks, c, d \in Columns : c <= d /\ nand[b][c] = Erased => nand[b][d] = Erased
AllErased(b) == \A c \in Columns : nand[b][c] = Erased

\* The tags of a page are read as they were written, whichever bit has flipped.
TagsCorrect ==
    \A key \in Keys, s \in 0 .. 3, flip \in FlippedBits \cup {0} :
        TagsRead[key][s][flip] = [result |-> "read", key |-> key, serial |-> s]

\* A page a scan takes for a chunk of a key.
IsCopy(page, key) == At(page).state = "written" /\ ~At(page).deleted /\ At(page).key = key

(***************************************************************************)
(* What the device knows.                                                  *)
(***************************************************************************)
Deleting == todo # <<>> /\ Head(todo).op = "delete"
Erasing == todo # <<>> /\ Head(todo).op = "erase"
Pending == IF Deleting THEN {Head(todo).page} ELSE {}
Tasks == {<<>>} \cup {<<DeleteOf(page)>> : page \in Pages} \cup {<<EraseOf(b)>> : b \in Blocks}

Typed ==
    /\ mode \in {"up", "scan", "down"} /\ bad \subseteq Blocks /\ used \subseteq Pages
    /\ map \in [Keys -> Pages \cup {None}] /\ serial \in [Objects -> 0 .. 3]
    /\ alloc \in Pages \cup {None} /\ finder \in 0 .. NBlocks
    /\ gc \in 0 .. NBlocks /\ left \in 0 .. MaxCopies /\ writes \in 0 .. MaxWrites
    /\ saved \in [Keys -> 0 .. writes] /\ free \in Int /\ todo \in Tasks
    /\ state \in [Blocks -> {"EMPTY", "ALLOCATING", "FULL", "COLLECTING", "DEAD", "NEEDS_SCANNING", "UNKNOWN"}]
    /\ pos \in Nat \X Nat

\* A chunk that is in use is the one of its key, or about to be deleted.
MapOk ==
    \A key \in Keys :
        map[key] # None =>
            /\ IsCopy(map[key], key) /\ map[key] \in used /\ map[key] \notin Pending
            /\ IsHeader(key) => serial[key[1]] = At(map[key]).serial
UsedOk ==
    /\ \A page \in used : At(page).state = "written" /\ (page \in Pending \/ \E key \in Keys : map[key] = page)
    /\ Pending \subseteq used

\* The blocks whose pages are counted.
Settled == {b \in Blocks : state[b] \in {"EMPTY", "ALLOCATING", "FULL", "COLLECTING"}}
Collecting == \E b \in Blocks : state[b] = "COLLECTING"

DownOk == /\ todo = <<>> /\ used = {} /\ alloc = None /\ gc = 0
          /\ \A key \in Keys : map[key] = None
          /\ \A b \in Blocks : state[b] = "UNKNOWN"

\* While the device is mounted.
BlocksOk ==
    /\ \A b \in Blocks : /\ state[b] = "DEAD" <=> b \in bad
                         /\ state[b] = "EMPTY" => AllErased(b)
                         /\ state[b] = "DEAD" => UsedIn(b) = {}
    /\ Erasing => UsedIn(Head(todo).page[1]) = {}

UpOk ==
    /\ \A b \in Blocks : state[b] \notin {"NEEDS_SCANNING", "UNKNOWN"}
    /\ alloc # None => /\ state[alloc[1]] = "ALLOCATING" /\ At(alloc) = Erased
                       /\ \A c \in Columns : c < alloc[2] => nand[alloc[1]][c] # Erased
    /\ \A b \in Blocks : /\ state[b] = "ALLOCATING" => alloc # None /\ alloc[1] = b
                         /\ state[b] = "COLLECTING" => gc = b
    /\ gc # 0 => state[gc] \in {"FULL", "COLLECTING"}
    /\ Erasing => state[Head(todo).page[1]] \in {"FULL", "COLLECTING"}
    /\ Deleting => ~Collecting

Visited(page) == page[1] < pos[1] \/ (page[1] = pos[1] /\ page[2] < pos[2])
InBlock == pos[1] \in Blocks /\ state[pos[1]] = "NEEDS_SCANNING"
\* The pages of the block that is scanned which are counted so far.
Part == IF mode = "scan" /\ InBlock THEN pos[2] ELSE 0
FreeOk == free = NChunks * Cardinality(Settled) + Part - Cardinality(used)
ScanOk ==
    /\ \A b \in Blocks : /\ state[b] \in {"EMPTY", "NEEDS_SCANNING", "FULL", "DEAD"}
                         /\ b < pos[1] => state[b] # "NEEDS_SCANNING"
                         /\ b > pos[1] => state[b] # "FULL"
    /\ alloc = None /\ gc = 0 /\ pos[1] >= 1 /\ pos[2] <= NChunks
    /\ \A page \in used : Visited(page)
    /\ pos[1] \in Blocks /\ state[pos[1]] = "FULL" =>
           \A c \in Columns : c >= pos[2] => nand[pos[1]][c] = Erased
    /\ Deleting => InBlock
    /\ Erasing => state[Head(todo).page[1]] = "FULL" /\ Head(todo).page[1] < pos[1]

TInv ==
    /\ NandOk /\ Typed /\ MapOk /\ UsedOk /\ FreeOk
    /\ mode = "down" => DownOk
    /\ mode # "down" => BlocksOk
    /\ mode = "up" => UpOk
    /\ mode = "scan" => ScanOk

(***************************************************************************)
(* The copies.                                                             *)
(***************************************************************************)
\* The copies of a key that a scan would meet.
Copies(key) == {page \in Pages : page[1] \notin bad /\ IsCopy(page, key)}
Follows(old, new) == (At(old).serial + 1) % 4 = At(new).serial

\* There are two at most, and the newer one is what was answered.
Durable(key) ==
    IF Copies(key) = {} THEN saved[key] = 0
    ELSE \E new \in Copies(key) :
             /\ At(new).data = saved[key]
             /\ \A old \in Copies(key) : old = new \/ Follows(old, new)
             /\ \A old, other \in Copies(key) : old = new \/ other = new \/ old = other

\* While the device is up, the other one goes with its block or is marked next.
Going(page) == page \in Pending \/ (state[page[1]] = "COLLECTING" /\ page \notin used)
Known(key) ==
    /\ map[key] = None => Copies(key) = {}
    /\ map[key] # None =>
           /\ At(map[key]).data = saved[key] /\ map[key] \in Copies(key)
           /\ \A page \in Copies(key) :
                 page = map[key] \/ (Going(page) /\ state[map[key][1]] # "COLLECTING")
Collected ==
    Collecting => /\ todo = <<>> => Cardinality(UsedIn(gc)) <= left
                  /\ Erasing => Head(todo).page[1] = gc

\* While it is scanned, of those that were met.
Met(key) ==
    /\ \A page \in Copies(key) : Visited(page) => page = map[key] \/ page \in Pending
    /\ \A page \in Pending : page \in Copies(key) => map[key] # None /\ Follows(page, map[key])

CInv ==
    /\ \A key \in Keys : Durable(key)
    /\ mode = "up" => Collected /\ \A key \in Keys : Known(key)
    /\ mode = "scan" => \A key \in Keys : Met(key)

(***************************************************************************)
(* Pages.                                                                  *)
(***************************************************************************)
\* Numbers of blocks and chunks.
LEMMA Numbers ==
    /\ NBlocks \in Nat /\ NBlocks >= 1 /\ NChunks \in Nat /\ NChunks >= 1
    /\ MaxCopies \in Nat /\ MaxCopies >= 1 /\ MaxCopies <= NChunks /\ MaxWrites \in Nat
    /\ None \notin Pages /\ Keys \subseteq (Nat \ {0}) \X Nat
    /\ \A b \in Blocks : b \in Nat /\ b >= 1 /\ b <= NBlocks /\ b # 0
    /\ \A c \in Columns : c \in Nat /\ c < NChunks
    /\ 0 \in Columns
BY Yaffs1Assumption DEF Blocks, Columns

\* A page is a block and a column.
LEMMA PagesAre ==
    /\ \A page \in Pages : page[1] \in Blocks /\ page[2] \in Columns /\ page = <<page[1], page[2]>>
    /\ \A b \in Blocks, c \in Columns : <<b, c>> \in Pages
BY DEF Pages, Columns

\* A key is an object and a chunk; the header of an object is one key.
LEMMA KeysAre ==
    ASSUME NEW key \in Keys
    PROVE  /\ key = <<key[1], key[2]>> /\ key[1] \in Objects
           /\ \A other \in Keys : IsHeader(key) /\ IsHeader(other) /\ key[1] = other[1] => key = other
<1>1. \A k \in Keys : k = <<k[1], k[2]>>
    BY Numbers
<1> QED BY <1>1 DEF Objects, IsHeader

\* The values of a page.
LEMMA ValuesAre ==
    /\ PageOk(Erased) /\ PageOk(Torn) /\ Torn # Erased
    /\ Erased.state = "erased" /\ Torn.state = "torn"
    /\ \A key \in Keys, s \in 0 .. 3 : \A n, p :
           p = Written(key, s, n) =>
              /\ PageOk(p) /\ p # Erased /\ p.state = "written" /\ p.key = key /\ p.serial = s
              /\ p.data = n /\ p.deleted = FALSE
    /\ \A p : PageOk(p) => (p.state = "erased" <=> p = Erased)
<1>1. Erased.state = "erased"
    BY DEF Erased
<1>2. Torn = [state |-> "torn", key |-> None, serial |-> 0, data |-> 0, flip |-> 0, deleted |-> FALSE]
    <2>1. PICK e : e = Erased
        OBVIOUS
    <2>2. e = [state |-> "erased", key |-> None, serial |-> 0, data |-> 0, flip |-> 0, deleted |-> FALSE]
        BY <2>1 DEF Erased
    <2>3. Torn = [e EXCEPT !.state = "torn"]
        BY <2>1 DEF Torn
    <2> QED BY <2>2, <2>3
<1>3. PageOk(Torn) /\ Torn.state = "torn"
    BY <1>2 DEF PageOk
<1>4. PageOk(Erased)
    BY DEF Erased, PageOk
<1>5. Torn # Erased
    BY <1>1, <1>3
<1>6. ASSUME NEW key \in Keys, NEW s \in 0 .. 3, NEW n, NEW p, p = Written(key, s, n)
      PROVE  /\ PageOk(p) /\ p # Erased /\ p.state = "written" /\ p.key = key /\ p.serial = s
             /\ p.data = n /\ p.deleted = FALSE
    <2>1. p.state = "written" /\ p.key = key /\ p.serial = s /\ p.data = n /\ p.deleted = FALSE /\ p.flip = 0
        BY <1>6 DEF Written
    <2>2. p # Erased
        BY <1>1, <2>1
    <2>3. PageOk(p)
        BY <1>6, <2>1 DEF PageOk, Written
    <2> QED BY <2>1, <2>2, <2>3
<1>7. \A p : PageOk(p) => (p.state = "erased" <=> p = Erased)
    <2> SUFFICES ASSUME NEW p, PageOk(p) PROVE p.state = "erased" <=> p = Erased
        OBVIOUS
    <2>1. p.state = "erased" => p = Erased
        BY DEF PageOk
    <2> QED BY <1>1, <2>1
<1> QED BY <1>1, <1>3, <1>4, <1>5, <1>6, <1>7

\* Reading a page of which the tags are right.
LEMMA ReadIs ==
    ASSUME TagsCorrect, NEW page, PageOk(At(page))
    PROVE  /\ Read(page).result = "erased" <=> At(page) = Erased
           /\ Read(page).result = "read" <=> At(page).state = "written" /\ ~At(page).deleted
           /\ At(page).state = "written" => Read(page).key = At(page).key /\ Read(page).serial = At(page).serial
           /\ Read(page).result \in {"erased", "unfixed", "read", "deleted"}
<1>1. PICK p : p = At(page)
    OBVIOUS
<1>2. p.state \in {"erased", "torn", "written"} /\ (p.state = "erased" <=> p = Erased)
    <2>1. PageOk(p)
        BY <1>1
    <2>2. p.state \in {"erased", "torn", "written"}
        BY <2>1 DEF PageOk
    <2>3. p.state = "erased" <=> p = Erased
        BY <2>1, ValuesAre
    <2> QED BY <2>2, <2>3
<1>3. CASE p.state = "erased"
    <2>1. Read(page).result = "erased"
        BY <1>1, <1>3 DEF Read, Unfixed
    <2> QED BY <1>1, <1>2, <1>3, <2>1
<1>4. CASE p.state = "torn"
    <2>1. Read(page) = Unfixed
        BY <1>1, <1>4 DEF Read
    <2>2. Read(page).result = "unfixed"
        BY <2>1 DEF Unfixed
    <2> QED BY <1>1, <1>2, <1>4, <2>2
<1>5. CASE p.state = "written"
    <2>1. p.key \in Keys /\ p.serial \in 0 .. 3 /\ p.flip \in FlippedBits \cup {0} /\ p.deleted \in BOOLEAN
        BY <1>1, <1>5 DEF PageOk
    <2>2. PICK tags : tags = TagsRead[p.key][p.serial][p.flip]
        OBVIOUS
    <2>3. tags = [result |-> "read", key |-> p.key, serial |-> p.serial]
        BY <2>1, <2>2 DEF TagsCorrect
    <2>4. Read(page) = IF p.deleted /\ tags.result = "read" THEN [tags EXCEPT !.result = "deleted"] ELSE tags
        BY <1>1, <1>5, <2>2 DEF Read
    <2>5. p # Erased
        BY <1>5, ValuesAre
    <2> QED BY <1>1, <1>5, <2>1, <2>3, <2>4, <2>5
<1> QED BY <1>2, <1>3, <1>4, <1>5

\* A page is programmed.
LEMMA PutIs ==
    ASSUME NandOk, NEW page \in Pages, NEW x, Put(page, x)
    PROVE  /\ \A q \in Pages : At(q)' = IF q = page THEN x ELSE At(q)
           /\ \A b \in Blocks, c \in Columns : nand'[b][c] = IF <<b, c>> = page THEN x ELSE nand[b][c]
           /\ DOMAIN nand' = Blocks /\ \A b \in Blocks : DOMAIN nand'[b] = Columns
<1>1. DOMAIN nand = Blocks /\ \A b \in Blocks : DOMAIN nand[b] = Columns
    BY DEF NandOk
<1>2. page[1] \in Blocks /\ page[2] \in Columns /\ page = <<page[1], page[2]>>
    BY PagesAre
<1>3. nand' = [nand EXCEPT ![page[1]][page[2]] = x]
    BY DEF Put
<1>4. \A b \in Blocks, c \in Columns : nand'[b][c] = IF <<b, c>> = page THEN x ELSE nand[b][c]
    BY <1>1, <1>2, <1>3
<1>5. DOMAIN nand' = Blocks /\ \A b \in Blocks : DOMAIN nand'[b] = Columns
    BY <1>1, <1>3
<1>6. \A q \in Pages : At(q)' = IF q = page THEN x ELSE At(q)
    <2> TAKE q \in Pages
    <2>1. q[1] \in Blocks /\ q[2] \in Columns /\ q = <<q[1], q[2]>>
        BY PagesAre
    <2> QED BY <1>4, <2>1 DEF At
<1> QED BY <1>4, <1>5, <1>6

\* ... behind pages that are programmed.
LEMMA PutKeeps ==
    ASSUME NandOk, NEW page \in Pages, NEW x, PageOk(x), x # Erased, Put(page, x),
           \A c \in Columns : c < page[2] => nand[page[1]][c] # Erased
    PROVE  /\ NandOk'
           /\ \A q \in Pages : At(q)' = IF q = page THEN x ELSE At(q)
           /\ \A b \in Blocks : AllErased(b)' <=> AllErased(b) /\ b # page[1]
           /\ \A b \in Blocks, c \in Columns : nand'[b][c] = Erased => nand[b][c] = Erased
<1>1. page[1] \in Blocks /\ page[2] \in Columns /\ page = <<page[1], page[2]>>
    BY PagesAre
<1>2. \A b \in Blocks, c \in Columns : nand'[b][c] = IF <<b, c>> = page THEN x ELSE nand[b][c]
    BY PutIs
<1>3. DOMAIN nand' = Blocks /\ \A b \in Blocks : DOMAIN nand'[b] = Columns
    BY PutIs
<1>4. \A b \in Blocks, c \in Columns : PageOk(nand'[b][c])
    BY <1>2 DEF NandOk
<1>5. ASSUME NEW b \in Blocks, NEW c \in Columns, NEW d \in Columns, c <= d, nand'[b][c] = Erased
      PROVE  nand'[b][d] = Erased
    <2>1. nand[b][c] = Erased /\ nand[b][d] = Erased
        BY <1>2, <1>5 DEF NandOk
    <2>2. <<b, d>> # page
        <3> SUFFICES ASSUME <<b, d>> = page PROVE FALSE
            OBVIOUS
        <3>1. c # d /\ b = page[1] /\ d = page[2]
            BY <1>2, <1>5
        <3>2. c < d
            BY <1>5, <3>1, Numbers
        <3> QED BY <2>1, <3>1, <3>2
    <2> QED BY <1>2, <2>1, <2>2
<1>6. NandOk'
    BY <1>3, <1>4, <1>5 DEF NandOk, PageOk
<1>7. \A b \in Blocks : AllErased(b)' <=> AllErased(b) /\ b # page[1]
    <2> TAKE b \in Blocks
    <2>1. CASE b = page[1]
        BY <1>1, <1>2, <2>1 DEF AllErased
    <2>2. CASE b # page[1]
        BY <1>1, <1>2, <2>2 DEF AllErased
    <2> QED BY <2>1, <2>2
<1> QED BY <1>2, <1>6, <1>7, PutIs


(***************************************************************************)
(* What is to be done next.                                                *)
(***************************************************************************)
\* There is nothing to do, ...
LEMMA NoTask ==
    /\ todo = <<>> => ~Deleting /\ ~Erasing /\ Pending = {}
    /\ todo' = <<>> => ~Deleting' /\ ~Erasing' /\ Pending' = {}
BY DEF Deleting, Erasing, Pending

\* ... or a chunk is deleted ...
LEMMA DeleteTask ==
    ASSUME NEW page
    PROVE  /\ todo = <<DeleteOf(page)>> =>
                  /\ Deleting /\ ~Erasing /\ Pending = {page}
                  /\ Head(todo).page = page /\ Tail(todo) = <<>> /\ todo # <<>>
           /\ todo' = <<DeleteOf(page)>> =>
                  /\ Deleting' /\ ~Erasing' /\ Pending' = {page}
                  /\ Head(todo').page = page /\ todo' # <<>>
<1>1. ASSUME NEW t, t = <<DeleteOf(page)>>
      PROVE  Head(t).op = "delete" /\ Head(t).page = page /\ Tail(t) = <<>> /\ t # <<>>
    BY <1>1 DEF DeleteOf
<1>2. todo = <<DeleteOf(page)>> => Head(todo).op = "delete" /\ Head(todo).page = page /\ Tail(todo) = <<>> /\ todo # <<>>
    BY <1>1
<1>3. todo' = <<DeleteOf(page)>> => Head(todo').op = "delete" /\ Head(todo').page = page /\ todo' # <<>>
    BY <1>1
<1> QED BY <1>2, <1>3 DEF Deleting, Erasing, Pending

\* ... or a block is erased.
LEMMA EraseTask ==
    ASSUME NEW b
    PROVE  /\ todo = <<EraseOf(b)>> =>
                  /\ Erasing /\ ~Deleting /\ Pending = {}
                  /\ Head(todo).page[1] = b /\ Tail(todo) = <<>> /\ todo # <<>>
           /\ todo' = <<EraseOf(b)>> =>
                  /\ Erasing' /\ ~Deleting' /\ Pending' = {}
                  /\ Head(todo').page[1] = b /\ todo' # <<>>
<1>1. ASSUME NEW t, t = <<EraseOf(b)>>
      PROVE  Head(t).op = "erase" /\ Head(t).page[1] = b /\ Tail(t) = <<>> /\ t # <<>>
    BY <1>1 DEF EraseOf
<1>2. todo = <<EraseOf(b)>> => Head(todo).op = "erase" /\ Head(todo).page[1] = b /\ Tail(todo) = <<>> /\ todo # <<>>
    BY <1>1
<1>3. todo' = <<EraseOf(b)>> => Head(todo').op = "erase" /\ Head(todo').page[1] = b /\ todo' # <<>>
    BY <1>1
<1> QED BY <1>2, <1>3 DEF Deleting, Erasing, Pending

\* There is nothing else.
LEMMA TaskIs ==
    ASSUME todo \in Tasks
    PROVE  /\ todo # <<>> /\ Head(todo).op = "delete" => \E page \in Pages : todo = <<DeleteOf(page)>>
           /\ todo # <<>> /\ Head(todo).op = "erase" => \E b \in Blocks : todo = <<EraseOf(b)>>
<1>1. \A page \in Pages : todo = <<DeleteOf(page)>> => Head(todo).op = "delete"
    BY DEF DeleteOf
<1>2. \A b \in Blocks : todo = <<EraseOf(b)>> => Head(todo).op = "erase"
    BY DEF EraseOf
<1> QED BY <1>1, <1>2 DEF Tasks

(***************************************************************************)
(* Counting.                                                               *)
(***************************************************************************)
LEMMA Counts ==
    /\ IsFiniteSet(Blocks) /\ Cardinality(Blocks) = NBlocks
    /\ IsFiniteSet(Columns) /\ Cardinality(Columns) = NChunks
    /\ IsFiniteSet(Pages)
    /\ IsFiniteSet(Settled) /\ Cardinality(Settled) \in Nat /\ NChunks * Cardinality(Settled) \in Nat
    /\ used \subseteq Pages => IsFiniteSet(used) /\ Cardinality(used) \in Nat
<1>1. IsFiniteSet(Blocks) /\ Cardinality(Blocks) = NBlocks
    <2>1. 1 \in Int /\ NBlocks \in Int /\ ~ 1 > NBlocks /\ NBlocks - 1 + 1 = NBlocks
        BY Numbers
    <2> QED BY <2>1, FS_Interval DEF Blocks
<1>2. IsFiniteSet(Columns) /\ Cardinality(Columns) = NChunks
    BY FS_Interval, Numbers DEF Columns
<1>3. IsFiniteSet(Pages)
    BY <1>1, <1>2, FS_Product DEF Pages, Columns
<1>4. IsFiniteSet(Settled) /\ Cardinality(Settled) \in Nat
    BY <1>1, FS_Subset, FS_CardinalityType DEF Settled
<1>5. NChunks * Cardinality(Settled) \in Nat
    BY <1>4, Numbers
<1>6. used \subseteq Pages => IsFiniteSet(used) /\ Cardinality(used) \in Nat
    BY <1>3, FS_Subset, FS_CardinalityType
<1> QED BY <1>1, <1>2, <1>3, <1>4, <1>5, <1>6

LEMMA Times == \A n \in Int : NChunks * (n + 1) = NChunks * n + NChunks /\ NChunks * n \in Int
<1> SUFFICES ASSUME NEW n \in Int PROVE NChunks * (n + 1) = NChunks * n + NChunks /\ NChunks * n \in Int
    OBVIOUS
<1>1. NChunks \in Int
    BY Numbers
<1> QED BY <1>1

\* A page joins the pages in use, or leaves them.
LEMMA UsedCounts ==
    ASSUME used \subseteq Pages, NEW page \in Pages
    PROVE  /\ page \notin used => Cardinality(used \cup {page}) = Cardinality(used) + 1
           /\ page \in used => Cardinality(used \ {page}) = Cardinality(used) - 1
BY Counts, FS_AddElement, FS_RemoveElement

\* A block joins the settled ones, or leaves them.
LEMMA SettledCounts ==
    ASSUME NEW b
    PROVE  /\ b \notin Settled => Cardinality(Settled \cup {b}) = Cardinality(Settled) + 1
                                  /\ NChunks * Cardinality(Settled \cup {b}) = NChunks * Cardinality(Settled) + NChunks
           /\ b \in Settled => NChunks * Cardinality(Settled \ {b}) = NChunks * Cardinality(Settled) - NChunks
<1>1. b \notin Settled => Cardinality(Settled \cup {b}) = Cardinality(Settled) + 1
    BY Counts, FS_AddElement
<1>2. b \in Settled => Cardinality(Settled \ {b}) = Cardinality(Settled) - 1
    BY Counts, FS_RemoveElement
<1>3. b \notin Settled => NChunks * Cardinality(Settled \cup {b}) = NChunks * Cardinality(Settled) + NChunks
    BY <1>1, Counts, Times
<1>4. b \in Settled => NChunks * Cardinality(Settled \ {b}) = NChunks * Cardinality(Settled) - NChunks
    <2> SUFFICES ASSUME b \in Settled
                 PROVE  NChunks * Cardinality(Settled \ {b}) = NChunks * Cardinality(Settled) - NChunks
        OBVIOUS
    <2>1. PICK n \in Int : n = Cardinality(Settled) - 1
        BY Counts
    <2>2. NChunks * (n + 1) = NChunks * n + NChunks /\ NChunks * n \in Int
        BY <2>1, Times
    <2>3. n + 1 = Cardinality(Settled) /\ Cardinality(Settled \ {b}) = n
        BY <1>2, <2>1, Counts
    <2> QED BY <2>2, <2>3, Numbers
<1> QED BY <1>1, <1>3, <1>4

(***************************************************************************)
(* Allocating.                                                             *)
(***************************************************************************)
\* The page that is programmed next.
LEMMA NextIs ==
    ASSUME TInv, mode = "up", NEW page \in NextPages
    PROVE  /\ page \in Pages /\ page[1] \in Blocks /\ page[2] \in Columns
           /\ state[page[1]] \in {"EMPTY", "ALLOCATING"} /\ page[1] \notin bad
           /\ At(page) = Erased /\ \A c \in Columns : c < page[2] => nand[page[1]][c] # Erased
           /\ page \notin used /\ page \notin Pending /\ \A key \in Keys : map[key] # page
           /\ alloc # None => page = alloc
           /\ state[page[1]] = "ALLOCATING" => alloc # None
<1>1. CASE alloc # None
    <2>1. page = alloc /\ page \in Pages
        BY <1>1 DEF NextPages, TInv, Typed
    <2>2. page[1] \in Blocks /\ page[2] \in Columns
        BY <2>1, PagesAre
    <2>3. state[page[1]] = "ALLOCATING" /\ At(page) = Erased /\ \A c \in Columns : c < page[2] => nand[page[1]][c] # Erased
        BY <1>1, <2>1 DEF TInv, UpOk
    <2>4. page[1] \notin bad
        BY <2>2, <2>3 DEF TInv, BlocksOk
    <2>5. page \notin used
        BY <2>3, ValuesAre DEF TInv, UsedOk
    <2>6. page \notin Pending /\ \A key \in Keys : map[key] # page
        BY <2>1, <2>5, Numbers DEF TInv, UsedOk, MapOk
    <2> QED BY <1>1, <2>1, <2>2, <2>3, <2>4, <2>5, <2>6
<1>2. CASE alloc = None
    <2>1. PICK b \in Empty : page = <<b, 0>>
        BY <1>2 DEF NextPages, NextEmpty
    <2>2. b \in Blocks /\ state[b] = "EMPTY"
        BY <2>1 DEF Empty
    <2>3. page \in Pages /\ page[1] = b /\ page[2] = 0 /\ 0 \in Columns
        BY <2>1, <2>2, PagesAre, Numbers
    <2>4. AllErased(b) /\ b \notin bad
        BY <2>2 DEF TInv, BlocksOk
    <2>5. At(page) = Erased
        BY <2>3, <2>4 DEF At, AllErased
    <2>6. \A c \in Columns : ~ c < page[2]
        BY <2>3, Numbers DEF Columns
    <2>7. page \notin used
        BY <2>5, ValuesAre DEF TInv, UsedOk
    <2>8. page \notin Pending /\ \A key \in Keys : map[key] # page
        BY <2>3, <2>7, Numbers DEF TInv, UsedOk, MapOk
    <2> QED BY <1>2, <2>2, <2>3, <2>4, <2>5, <2>6, <2>7, <2>8
<1> QED BY <1>1, <1>2

\* The allocation moves on.
LEMMA AllocatedIs ==
    ASSUME TInv, mode = "up", NEW page \in NextPages, NEW a, a = Allocated(page)
    PROVE  /\ a.state = [state EXCEPT ![page[1]] = a.state[page[1]]]
           /\ a.state[page[1]] \in {"FULL", "ALLOCATING"} /\ a.finder = page[1]
           /\ \A b \in Blocks : b # page[1] => a.state[b] = state[b]
           /\ a.alloc \in Pages \cup {None}
           /\ a.alloc = None <=> a.state[page[1]] = "FULL"
           /\ a.alloc # None => /\ a.alloc = <<page[1], page[2] + 1>>
                                /\ a.alloc[1] = page[1] /\ a.alloc[2] = page[2] + 1
                                /\ page[2] + 1 \in Columns
<1>1. page[1] \in Blocks /\ page[2] \in Columns /\ page \in Pages
    BY NextIs
<1>2. DOMAIN state = Blocks
    BY DEF TInv, Typed
<1>3. CASE page[2] = NChunks - 1
    <2>1. a = [state |-> [state EXCEPT ![page[1]] = "FULL"], finder |-> page[1], alloc |-> None]
        BY <1>3 DEF Allocated
    <2>2. a.state = [state EXCEPT ![page[1]] = "FULL"] /\ a.finder = page[1] /\ a.alloc = None
        BY <2>1
    <2>3. a.state[page[1]] = "FULL" /\ \A b \in Blocks : b # page[1] => a.state[b] = state[b]
        BY <1>1, <1>2, <2>2
    <2> QED BY <2>2, <2>3
<1>4. CASE page[2] # NChunks - 1
    <2>1. a = [state |-> [state EXCEPT ![page[1]] = "ALLOCATING"], finder |-> page[1],
               alloc |-> <<page[1], page[2] + 1>>]
        BY <1>4 DEF Allocated
    <2>2. page[2] + 1 \in Columns
        BY <1>1, <1>4, Numbers DEF Columns
    <2>3. /\ a.state = [state EXCEPT ![page[1]] = "ALLOCATING"] /\ a.finder = page[1]
          /\ a.alloc = <<page[1], page[2] + 1>>
        BY <2>1
    <2>4. a.alloc \in Pages /\ a.alloc # None
        BY <1>1, <2>2, <2>3, PagesAre, Numbers
    <2>5. a.state[page[1]] = "ALLOCATING" /\ \A b \in Blocks : b # page[1] => a.state[b] = state[b]
        BY <1>1, <1>2, <2>3
    <2>6. a.alloc[1] = page[1] /\ a.alloc[2] = page[2] + 1
        BY <2>3
    <2> QED BY <2>2, <2>3, <2>4, <2>5, <2>6
<1> QED BY <1>3, <1>4

\* What is programmed next is still erased, behind pages that are not.
LEMMA AllocKeeps ==
    ASSUME TInv, mode = "up", NEW page \in NextPages, NEW x, PageOk(x), x # Erased, Put(page, x),
           alloc' = Allocated(page).alloc
    PROVE  /\ NandOk' /\ alloc' \in Pages \cup {None}
           /\ \A q \in Pages : At(q)' = IF q = page THEN x ELSE At(q)
           /\ \A b \in Blocks : AllErased(b)' <=> AllErased(b) /\ b # page[1]
           /\ alloc' # None => /\ At(alloc)' = Erased /\ alloc'[1] = page[1]
                               /\ \A c \in Columns : c < alloc'[2] => nand'[alloc'[1]][c] # Erased
<1>1. NandOk
    BY DEF TInv
<1>2. /\ page \in Pages /\ page[1] \in Blocks /\ page[2] \in Columns /\ At(page) = Erased
      /\ \A c \in Columns : c < page[2] => nand[page[1]][c] # Erased
    BY NextIs
<1>3. /\ NandOk' /\ \A q \in Pages : At(q)' = IF q = page THEN x ELSE At(q)
      /\ \A b \in Blocks : AllErased(b)' <=> AllErased(b) /\ b # page[1]
    BY <1>1, <1>2, PutKeeps
<1>4. \A b \in Blocks, c \in Columns : nand'[b][c] = IF <<b, c>> = page THEN x ELSE nand[b][c]
    BY <1>1, <1>2, PutIs
<1>5. PICK a : a = Allocated(page)
    OBVIOUS
<1>6. /\ a.alloc \in Pages \cup {None} /\ alloc' = a.alloc
      /\ a.alloc # None => /\ a.alloc[1] = page[1] /\ a.alloc[2] = page[2] + 1
                           /\ page[2] + 1 \in Columns
    BY <1>5, AllocatedIs
<1>7. ASSUME alloc' # None
      PROVE  /\ At(alloc)' = Erased /\ alloc'[1] = page[1]
             /\ \A c \in Columns : c < alloc'[2] => nand'[alloc'[1]][c] # Erased
    <2>1. alloc'[1] = page[1] /\ alloc'[2] = page[2] + 1 /\ page[2] + 1 \in Columns
        BY <1>6, <1>7
    <2>2. page = <<page[1], page[2]>>
        BY <1>2, PagesAre
    <2>3. nand[page[1]][page[2]] = Erased
        BY <1>2 DEF At
    <2>4. page[2] <= page[2] + 1 /\ page[2] # page[2] + 1
        BY <1>2, Numbers
    <2>5. nand[page[1]][page[2] + 1] = Erased
        BY <1>1, <1>2, <2>1, <2>3, <2>4 DEF NandOk
    <2>6. nand'[page[1]][page[2] + 1] = Erased
        BY <1>2, <1>4, <2>1, <2>2, <2>4, <2>5
    <2>7. ASSUME NEW c \in Columns, c < page[2] + 1
          PROVE  nand'[page[1]][c] # Erased
        <3>1. c < page[2] \/ c = page[2]
            BY <1>2, <2>7, Numbers
        <3> QED BY <1>2, <1>4, <2>2, <3>1
    <2> QED BY <2>1, <2>6, <2>7 DEF At
<1> QED BY <1>3, <1>6, <1>7

(***************************************************************************)
(* Writing a chunk.                                                        *)
(***************************************************************************)
\* The chunk that is mapped is found, and says its serial number.
LEMMA FoundIs ==
    ASSUME TagsCorrect, NandOk, Typed, MapOk, NEW key \in Keys
    PROVE  /\ map[key] # None =>
                  /\ map[key] \in Pages /\ Found(key)
                  /\ Read(map[key]).serial = At(map[key]).serial /\ At(map[key]).serial \in 0 .. 3
           /\ map[key] = None => ~Found(key)
           /\ serial[key[1]] \in 0 .. 3
<1>1. serial[key[1]] \in 0 .. 3
    BY KeysAre DEF Typed
<1>2. ASSUME map[key] # None
      PROVE  /\ map[key] \in Pages /\ Found(key)
             /\ Read(map[key]).serial = At(map[key]).serial /\ At(map[key]).serial \in 0 .. 3
    <2>1. PICK page \in Pages : page = map[key]
        BY <1>2 DEF Typed
    <2>2. PageOk(At(page))
        BY <2>1, PagesAre DEF NandOk, At
    <2>3. IsCopy(page, key)
        BY <1>2, <2>1 DEF MapOk
    <2>4. Read(page).result = "read" /\ Read(page).key = key /\ Read(page).serial = At(page).serial
        BY <2>2, <2>3, ReadIs DEF IsCopy
    <2>5. At(page).serial \in 0 .. 3
        BY <2>2, <2>3 DEF PageOk, IsCopy
    <2> QED BY <1>2, <2>1, <2>4, <2>5 DEF Found
<1> QED BY <1>1, <1>2 DEF Found

\* The serial number of the next copy.
LEMMA NextSerialIs ==
    ASSUME TagsCorrect, NandOk, Typed, MapOk, NEW key \in Keys
    PROVE  /\ NextSerial(key) \in 0 .. 3
           /\ map[key] # None => NextSerial(key) = (At(map[key]).serial + 1) % 4
<1>1. serial[key[1]] \in 0 .. 3 /\ (serial[key[1]] + 1) % 4 \in 0 .. 3
    BY FoundIs
<1>2. CASE IsHeader(key)
    <2>1. map[key] # None => serial[key[1]] = At(map[key]).serial
        BY <1>2 DEF MapOk
    <2> QED BY <1>1, <1>2, <2>1 DEF NextSerial
<1>3. CASE ~IsHeader(key) /\ map[key] = None
    BY <1>3, FoundIs DEF NextSerial
<1>4. CASE ~IsHeader(key) /\ map[key] # None
    <2>1. PICK s \in 0 .. 3 : s = At(map[key]).serial
        BY <1>4, FoundIs
    <2>2. NextSerial(key) = (s + 1) % 4
        BY <1>4, <2>1, FoundIs DEF NextSerial
    <2> QED BY <2>1, <2>2
<1> QED BY <1>2, <1>3, <1>4

\* What a write does.
LEMMA WriteIs ==
    ASSUME TagsCorrect, TInv, NEW key \in Keys, Write(key)
    PROVE  /\ mode = "up" /\ mode' = "up" /\ todo = <<>> /\ ~Collecting /\ bad' = bad /\ gc' = gc /\ left' = left
           /\ writes < MaxWrites /\ writes' = writes + 1 /\ saved' = [saved EXCEPT ![key] = writes + 1]
           /\ NextSerial(key) \in 0 .. 3
           /\ map[key] # None => NextSerial(key) = (At(map[key]).serial + 1) % 4 /\ map[key] \in Pages
           /\ serial' = IF IsHeader(key) THEN [serial EXCEPT ![key[1]] = NextSerial(key)] ELSE serial
           /\ todo' = IF map[key] # None THEN <<DeleteOf(map[key])>> ELSE <<>>
           /\ \E page \in NextPages :
                 /\ Put(page, Written(key, NextSerial(key), writes + 1))
                 /\ state' = Allocated(page).state /\ alloc' = Allocated(page).alloc /\ finder' = Allocated(page).finder
                 /\ used' = used \cup {page} /\ free' = free - 1 /\ map' = [map EXCEPT ![key] = page]
           /\ pos' = pos
<1>1. NandOk /\ Typed /\ MapOk
    BY DEF TInv
<1>2. map[key] # None => Found(key) /\ map[key] \in Pages
    BY <1>1, FoundIs
<1>3. ~Collecting
    BY DEF Write, Idle, Collecting
<1>4. NextSerial(key) \in 0 .. 3 /\ (map[key] # None => NextSerial(key) = (At(map[key]).serial + 1) % 4)
    BY <1>1, NextSerialIs
<1> QED BY <1>2, <1>3, <1>4 DEF Write, Idle

LEMMA WriteTypes ==
    ASSUME TagsCorrect, TInv, NEW key \in Keys, Write(key)
    PROVE  TInv'
<1>1. /\ mode = "up" /\ mode' = "up" /\ todo = <<>> /\ ~Collecting /\ bad' = bad /\ gc' = gc /\ left' = left
      /\ writes < MaxWrites /\ writes' = writes + 1 /\ saved' = [saved EXCEPT ![key] = writes + 1]
      /\ NextSerial(key) \in 0 .. 3 /\ pos' = pos
      /\ map[key] # None => map[key] \in Pages
      /\ serial' = IF IsHeader(key) THEN [serial EXCEPT ![key[1]] = NextSerial(key)] ELSE serial
      /\ todo' = IF map[key] # None THEN <<DeleteOf(map[key])>> ELSE <<>>
    BY WriteIs
<1>2. PICK page \in NextPages :
         /\ Put(page, Written(key, NextSerial(key), writes + 1))
         /\ state' = Allocated(page).state /\ alloc' = Allocated(page).alloc /\ finder' = Allocated(page).finder
         /\ used' = used \cup {page} /\ free' = free - 1 /\ map' = [map EXCEPT ![key] = page]
    BY WriteIs
<1>3. /\ NandOk /\ Typed /\ MapOk /\ UsedOk /\ FreeOk /\ BlocksOk /\ UpOk
    BY <1>1 DEF TInv
<1>4. /\ page \in Pages /\ page[1] \in Blocks /\ page[2] \in Columns
      /\ state[page[1]] \in {"EMPTY", "ALLOCATING"} /\ page[1] \notin bad
      /\ page \notin used /\ \A k \in Keys : map[k] # page
      /\ alloc # None => page = alloc
      /\ state[page[1]] = "ALLOCATING" => alloc # None
    BY <1>1, NextIs
<1>5. PICK x : x = Written(key, NextSerial(key), writes + 1)
    OBVIOUS
<1>6. /\ PageOk(x) /\ x # Erased /\ x.state = "written" /\ x.key = key /\ x.serial = NextSerial(key)
      /\ x.deleted = FALSE
    BY <1>1, <1>5, ValuesAre
<1>7. /\ NandOk' /\ alloc' \in Pages \cup {None}
      /\ \A q \in Pages : At(q)' = IF q = page THEN x ELSE At(q)
      /\ \A b \in Blocks : AllErased(b)' <=> AllErased(b) /\ b # page[1]
      /\ alloc' # None => /\ At(alloc)' = Erased /\ alloc'[1] = page[1]
                          /\ \A c \in Columns : c < alloc'[2] => nand'[alloc'[1]][c] # Erased
    BY <1>1, <1>2, <1>5, <1>6, AllocKeeps
<1>8. /\ state' = [state EXCEPT ![page[1]] = state'[page[1]]] /\ state'[page[1]] \in {"FULL", "ALLOCATING"}
      /\ finder' = page[1] /\ \A b \in Blocks : b # page[1] => state'[b] = state[b]
      /\ alloc' = None <=> state'[page[1]] = "FULL"
    <2>1. PICK a : a = Allocated(page)
        OBVIOUS
    <2> QED BY <1>1, <1>2, <2>1, AllocatedIs
<1>9. /\ ~Deleting /\ ~Erasing /\ Pending = {} /\ ~Erasing'
      /\ Pending' = IF map[key] # None THEN {map[key]} ELSE {}
    BY <1>1, NoTask, DeleteTask
<1>10. Typed'
    <2>1. todo' \in Tasks
        BY <1>1 DEF Tasks
    <2>2. writes' \in 0 .. MaxWrites /\ saved' \in [Keys -> 0 .. writes']
        BY <1>1, <1>3, Numbers DEF Typed
    <2>3. map' \in [Keys -> Pages \cup {None}] /\ used' \subseteq Pages /\ free' \in Int
        BY <1>2, <1>3, <1>4 DEF Typed
    <2>4. serial' \in [Objects -> 0 .. 3]
        BY <1>1, <1>3, KeysAre DEF Typed
    <2>5. state' \in [Blocks -> {"EMPTY", "ALLOCATING", "FULL", "COLLECTING", "DEAD", "NEEDS_SCANNING", "UNKNOWN"}]
        BY <1>3, <1>4, <1>8 DEF Typed
    <2>6. finder' \in 0 .. NBlocks
        BY <1>4, <1>8, Numbers
    <2> QED BY <1>1, <1>3, <1>7, <2>1, <2>2, <2>3, <2>4, <2>5, <2>6 DEF Typed
<1>11. MapOk'
    <2> SUFFICES ASSUME NEW k \in Keys, map'[k] # None
                 PROVE  /\ IsCopy(map[k], k)' /\ map'[k] \in used' /\ map'[k] \notin Pending'
                        /\ IsHeader(k) => serial'[k[1]] = At(map[k])'.serial
        BY DEF MapOk
    <2>1. CASE k = key
        <3>1. map'[k] = page
            BY <1>2, <1>3, <2>1 DEF Typed
        <3>2. At(map[k])' = x
            BY <1>4, <1>7, <3>1 DEF At
        <3>3. page \notin Pending'
            BY <1>4, <1>9
        <3>4. IsHeader(k) => serial'[k[1]] = NextSerial(key)
            BY <1>1, <1>3, <2>1, KeysAre DEF Typed
        <3> QED BY <1>2, <1>6, <2>1, <3>1, <3>2, <3>3, <3>4 DEF IsCopy
    <2>2. CASE k # key
        <3>1. map'[k] = map[k] /\ map[k] # None /\ map[k] \in Pages
            BY <1>2, <1>3, <2>2 DEF Typed
        <3>2. IsCopy(map[k], k) /\ map[k] \in used /\ (IsHeader(k) => serial[k[1]] = At(map[k]).serial)
            BY <1>3, <3>1 DEF MapOk
        <3>3. At(map[k])' = At(map[k])
            <4>1. At(map[k])' = nand'[map'[k][1]][map'[k][2]]
                BY DEF At
            <4>2. PICK q \in Pages : q = map[k]
                BY <3>1
            <4>3. At(q)' = At(q)
                BY <1>4, <1>7, <4>2
            <4> QED BY <3>1, <4>1, <4>2, <4>3 DEF At
        <3>4. map[key] # None => map[key] # map[k]
            BY <1>3, <2>2, <3>2 DEF MapOk, IsCopy
        <3>5. IsHeader(k) => serial'[k[1]] = serial[k[1]]
            BY <1>1, <1>3, <2>2, KeysAre DEF Typed
        <3> QED BY <1>2, <1>9, <3>1, <3>2, <3>3, <3>4, <3>5 DEF IsCopy
    <2> QED BY <2>1, <2>2
<1>12. UsedOk'
    <2>1. ASSUME NEW p \in used'
          PROVE  At(p)'.state = "written" /\ (p \in Pending' \/ \E k \in Keys : map'[k] = p)
        <3>1. CASE p = page
            BY <1>2, <1>3, <1>4, <1>6, <1>7, <3>1 DEF Typed
        <3>2. CASE p # page
            <4>1. p \in used /\ p \in Pages
                BY <1>2, <1>3, <3>2 DEF Typed
            <4>2. At(p).state = "written" /\ \E k \in Keys : map[k] = p
                BY <1>3, <1>9, <4>1 DEF UsedOk
            <4>3. At(p)' = At(p)
                BY <1>7, <3>2, <4>1
            <4>4. PICK k \in Keys : map[k] = p
                BY <4>2
            <4>5. CASE k = key
                BY <1>9, <4>1, <4>2, <4>3, <4>4, <4>5, Numbers
            <4>6. CASE k # key
                BY <1>2, <1>3, <4>2, <4>3, <4>4, <4>6 DEF Typed
            <4> QED BY <4>5, <4>6
        <3> QED BY <3>1, <3>2
    <2>2. Pending' \subseteq used'
        BY <1>2, <1>3, <1>9 DEF MapOk
    <2> QED BY <2>1, <2>2 DEF UsedOk
<1>13. FreeOk'
    <2>1. Settled' = Settled
        BY <1>4, <1>8 DEF Settled
    <2>2. Cardinality(used') = Cardinality(used) + 1
        BY <1>2, <1>3, <1>4, UsedCounts DEF Typed
    <2>3. Part' = Part /\ Part = 0
        BY <1>1 DEF Part
    <2>4. PICK m \in Int, u \in Int : m = NChunks * Cardinality(Settled) /\ u = Cardinality(used)
        BY <1>3, Counts DEF Typed
    <2>5. free = m - u
        BY <1>3, <2>3, <2>4 DEF FreeOk
    <2>6. NChunks * Cardinality(Settled') = m /\ Cardinality(used') = u + 1 /\ free' = free - 1
        BY <1>2, <2>1, <2>2, <2>4
    <2> QED BY <2>3, <2>4, <2>5, <2>6 DEF FreeOk
<1>14. BlocksOk'
    <2>1. \A b \in Blocks : b # page[1] => UsedIn(b)' = UsedIn(b)
        BY <1>2 DEF UsedIn
    <2>2. ASSUME NEW b \in Blocks
          PROVE  /\ state'[b] = "DEAD" <=> b \in bad'
                 /\ state'[b] = "EMPTY" => AllErased(b)'
                 /\ state'[b] = "DEAD" => UsedIn(b)' = {}
        BY <1>1, <1>3, <1>4, <1>7, <1>8, <2>1 DEF BlocksOk
    <2> QED BY <1>9, <2>2 DEF BlocksOk
<1>15. UpOk'
    <2>1. \A b \in Blocks : /\ state'[b] \notin {"NEEDS_SCANNING", "UNKNOWN"}
                            /\ state'[b] = "COLLECTING" => gc' = b
        BY <1>1, <1>3, <1>8 DEF UpOk
    <2>2. \A b \in Blocks : state'[b] = "ALLOCATING" => alloc' # None /\ alloc'[1] = b
        BY <1>3, <1>4, <1>7, <1>8 DEF UpOk
    <2>3. gc' # 0 => state'[gc'] \in {"FULL", "COLLECTING"}
        BY <1>1, <1>3, <1>4, <1>8, Numbers DEF UpOk, Typed, Blocks
    <2>4. ~Collecting'
        BY <1>1, <1>8 DEF Collecting
    <2> QED BY <1>7, <1>8, <1>9, <2>1, <2>2, <2>3, <2>4 DEF UpOk
<1> QED BY <1>1, <1>7, <1>10, <1>11, <1>12, <1>13, <1>14, <1>15 DEF TInv

(***************************************************************************)
(* Deleting a chunk.                                                       *)
(***************************************************************************)
\* A page that is programmed is programmed again.
LEMMA RewriteKeeps ==
    ASSUME NandOk, NEW page \in Pages, At(page) # Erased, NEW x, PageOk(x), x # Erased, Put(page, x)
    PROVE  /\ NandOk'
           /\ \A q \in Pages : At(q)' = IF q = page THEN x ELSE At(q)
           /\ \A b \in Blocks : AllErased(b)' <=> AllErased(b)
           /\ \A b \in Blocks, c \in Columns : nand'[b][c] = Erased <=> nand[b][c] = Erased
<1>1. page[1] \in Blocks /\ page[2] \in Columns /\ page = <<page[1], page[2]>>
    BY PagesAre
<1>2. \A c \in Columns : c < page[2] => nand[page[1]][c] # Erased
    <2>1. nand[page[1]][page[2]] # Erased
        BY DEF At
    <2>2. \A c \in Columns : c < page[2] => c <= page[2]
        BY <1>1, Numbers
    <2> QED BY <1>1, <2>1, <2>2 DEF NandOk
<1>3. NandOk' /\ \A q \in Pages : At(q)' = IF q = page THEN x ELSE At(q)
    BY <1>2, PutKeeps
<1>4. \A b \in Blocks, c \in Columns : nand'[b][c] = IF <<b, c>> = page THEN x ELSE nand[b][c]
    BY PutIs
<1>5. \A b \in Blocks, c \in Columns : nand'[b][c] = Erased <=> nand[b][c] = Erased
    <2> TAKE b \in Blocks, c \in Columns
    <2>1. CASE <<b, c>> = page
        <3>1. nand[b][c] # Erased
            BY <1>1, <2>1 DEF At
        <3> QED BY <1>4, <2>1, <3>1
    <2>2. CASE <<b, c>> # page
        BY <1>4, <2>2
    <2> QED BY <2>1, <2>2
<1> QED BY <1>3, <1>5 DEF AllErased

\* The chunk of a deletion is in use and mapped no more.
LEMMA DeleteIs ==
    ASSUME TInv, DeleteChunk
    PROVE  \E page \in used :
              /\ page \in Pages /\ page[1] \in Blocks /\ Pending = {page} /\ Deleting /\ ~Erasing /\ Tail(todo) = <<>>
              /\ mode # "down" /\ mode' = mode /\ state[page[1]] # "COLLECTING"
              /\ At(page).state = "written" /\ Put(page, [At(page) EXCEPT !.deleted = TRUE])
              /\ used' = used \ {page} /\ free' = free + 1
              /\ todo' = IF UsedIn(page[1]) = {page} /\ state[page[1]] \notin {"ALLOCATING", "NEEDS_SCANNING"}
                         THEN <<EraseOf(page[1])>> ELSE <<>>
              /\ UNCHANGED <<bad, mode, state, map, serial, alloc, finder, gc, left, pos, saved, writes, bounds>>
<1>1. PICK page \in Pages : todo = <<DeleteOf(page)>>
    BY TaskIs DEF TInv, Typed, DeleteChunk
<1>2. Deleting /\ ~Erasing /\ Pending = {page} /\ Head(todo).page = page /\ Tail(todo) = <<>> /\ todo # <<>>
    BY <1>1, DeleteTask
<1>3. page \in used /\ At(page).state = "written"
    BY <1>2 DEF TInv, UsedOk
<1>4. mode # "down" /\ mode \in {"up", "scan"} /\ page[1] \in Blocks
    BY <1>2, PagesAre DEF TInv, DownOk, Typed
<1>5. state[page[1]] # "COLLECTING"
    <2>1. CASE mode = "up"
        BY <1>2, <1>4, <2>1 DEF TInv, UpOk, Collecting
    <2>2. CASE mode = "scan"
        BY <1>4, <2>2 DEF TInv, ScanOk
    <2> QED BY <1>4, <2>1, <2>2
<1>6. Put(page, [At(page) EXCEPT !.deleted = TRUE])
    BY <1>2, <1>5 DEF DeleteChunk, Marks
<1>7. todo' = IF UsedIn(page[1]) = {page} /\ state[page[1]] \notin {"ALLOCATING", "NEEDS_SCANNING"}
              THEN <<EraseOf(page[1])>> ELSE <<>>
    <2>1. todo' = (IF UsedIn(page[1]) = {page} /\ state[page[1]] \notin {"ALLOCATING", "NEEDS_SCANNING"}
                   THEN <<EraseOf(page[1])>> ELSE <<>>) \o <<>>
        BY <1>2 DEF DeleteChunk
    <2>2. \A e : <<e>> \o <<>> = <<e>>
        OBVIOUS
    <2> QED BY <2>1, <2>2
<1>8. used' = used \ {page} /\ free' = free + 1
    BY <1>2 DEF DeleteChunk
<1> QED BY <1>2, <1>3, <1>4, <1>5, <1>6, <1>7, <1>8 DEF DeleteChunk

\* What a mark leaves of a page.
LEMMA MarkedIs ==
    ASSUME NEW p, PageOk(p), p.state = "written", NEW x, x = [p EXCEPT !.deleted = TRUE]
    PROVE  PageOk(x) /\ x # Erased /\ x.state = "written" /\ x.deleted = TRUE
<1>1. p = [state |-> p.state, key |-> p.key, serial |-> p.serial, data |-> p.data, flip |-> p.flip,
           deleted |-> p.deleted]
    BY DEF PageOk
<1>2. /\ x.state = "written" /\ x.key = p.key /\ x.serial = p.serial /\ x.flip = p.flip /\ x.deleted = TRUE
      /\ x.data = p.data
    BY <1>1
<1>3. x = [state |-> x.state, key |-> x.key, serial |-> x.serial, data |-> x.data, flip |-> x.flip,
           deleted |-> x.deleted]
    BY <1>1
<1>4. x # Erased
    BY <1>2, ValuesAre
<1> QED BY <1>2, <1>3, <1>4 DEF PageOk

\* A block with a chunk in use is neither dead nor empty.
LEMMA UsedBlocks ==
    ASSUME NandOk, UsedOk, BlocksOk, NEW page \in used, page \in Pages
    PROVE  state[page[1]] # "DEAD" /\ state[page[1]] # "EMPTY" /\ At(page) # Erased
<1>1. page[1] \in Blocks /\ page[2] \in Columns
    BY PagesAre
<1>2. At(page) # Erased
    BY ValuesAre DEF UsedOk
<1>3. ~AllErased(page[1])
    BY <1>1, <1>2 DEF AllErased, At
<1>4. page \in UsedIn(page[1])
    BY DEF UsedIn
<1> QED BY <1>1, <1>2, <1>3, <1>4 DEF BlocksOk

LEMMA DeleteTypes ==
    ASSUME TInv, DeleteChunk
    PROVE  TInv'
<1>1. PICK page \in used :
         /\ page \in Pages /\ page[1] \in Blocks /\ Pending = {page} /\ Deleting /\ ~Erasing /\ Tail(todo) = <<>>
         /\ mode # "down" /\ mode' = mode /\ state[page[1]] # "COLLECTING"
         /\ At(page).state = "written" /\ Put(page, [At(page) EXCEPT !.deleted = TRUE])
         /\ used' = used \ {page} /\ free' = free + 1
         /\ todo' = IF UsedIn(page[1]) = {page} /\ state[page[1]] \notin {"ALLOCATING", "NEEDS_SCANNING"}
                    THEN <<EraseOf(page[1])>> ELSE <<>>
         /\ UNCHANGED <<bad, mode, state, map, serial, alloc, finder, gc, left, pos, saved, writes, bounds>>
    BY DeleteIs
<1>2. NandOk /\ Typed /\ MapOk /\ UsedOk /\ FreeOk /\ BlocksOk
    BY <1>1 DEF TInv
<1>3. PICK x : x = [At(page) EXCEPT !.deleted = TRUE]
    OBVIOUS
<1>4. PageOk(At(page))
    BY <1>1, <1>2, PagesAre DEF NandOk, At
<1>5. PageOk(x) /\ x # Erased /\ x.state = "written"
    BY <1>1, <1>3, <1>4, MarkedIs
<1>6. state[page[1]] # "DEAD" /\ state[page[1]] # "EMPTY" /\ At(page) # Erased
    BY <1>1, <1>2, UsedBlocks
<1>7. /\ NandOk' /\ \A q \in Pages : At(q)' = IF q = page THEN x ELSE At(q)
      /\ \A b \in Blocks : AllErased(b)' <=> AllErased(b)
      /\ \A b \in Blocks, c \in Columns : nand'[b][c] = Erased <=> nand[b][c] = Erased
    BY <1>1, <1>2, <1>3, <1>5, <1>6, RewriteKeeps
<1>8. ~Deleting' /\ Pending' = {} /\ (Erasing' => Head(todo').page[1] = page[1] /\ UsedIn(page[1]) = {page}
                                                  /\ state[page[1]] \notin {"ALLOCATING", "NEEDS_SCANNING"})
    BY <1>1, NoTask, EraseTask
<1>9. Typed'
    <2>1. todo' \in Tasks
        BY <1>1 DEF Tasks
    <2> QED BY <1>1, <1>2, <2>1 DEF Typed
<1>10. \A q \in used' : q \in used /\ q \in Pages /\ At(q)' = At(q)
    BY <1>1, <1>2, <1>7 DEF Typed
<1>11. MapOk'
    <2> SUFFICES ASSUME NEW k \in Keys, map[k] # None
                 PROVE  /\ IsCopy(map[k], k)' /\ map[k] \in used' /\ map[k] \notin Pending'
                        /\ IsHeader(k) => serial'[k[1]] = At(map[k])'.serial
        BY <1>1 DEF MapOk
    <2>1. /\ IsCopy(map[k], k) /\ map[k] \in used /\ map[k] # page
          /\ IsHeader(k) => serial[k[1]] = At(map[k]).serial
        BY <1>1, <1>2 DEF MapOk
    <2>2. PICK q : q = map[k]
        OBVIOUS
    <2>3. q \in used' /\ map'[k] = q /\ map[k] = q
        BY <1>1, <2>1, <2>2
    <2>4. At(q)' = At(q)
        BY <1>10, <2>3
    <2> QED BY <1>1, <1>8, <2>1, <2>3, <2>4 DEF IsCopy, At
<1>12. UsedOk'
    <2>1. ASSUME NEW q \in used'
          PROVE  At(q)'.state = "written" /\ \E k \in Keys : map'[k] = q
        <3>1. q \in used /\ q \notin Pending /\ At(q)' = At(q)
            BY <1>1, <1>10
        <3> QED BY <1>1, <1>2, <3>1 DEF UsedOk
    <2> QED BY <1>8, <2>1 DEF UsedOk
<1>13. FreeOk'
    <2>1. Cardinality(used') = Cardinality(used) - 1
        BY <1>1, <1>2, UsedCounts DEF Typed
    <2>2. Settled' = Settled /\ Part' = Part
        BY <1>1 DEF Settled, InBlock, Part
    <2>3. Part \in Nat
        BY <1>2 DEF Typed, Part
    <2> QED BY <1>1, <1>2, <2>1, <2>2, <2>3, Counts DEF FreeOk, Typed
<1>14. BlocksOk'
    <2>1. \A b \in Blocks : UsedIn(b)' = UsedIn(b) \ {page}
        BY <1>1 DEF UsedIn
    <2>2. Erasing' => UsedIn(Head(todo).page[1])' = {}
        BY <1>1, <1>8 DEF UsedIn
    <2>4. \A b \in Blocks : UsedIn(b) = {} => UsedIn(b)' = {}
        BY <2>1
    <2>3. \A b \in Blocks : /\ state'[b] = "DEAD" <=> b \in bad'
                            /\ state'[b] = "EMPTY" => AllErased(b)'
                            /\ state'[b] = "DEAD" => UsedIn(b)' = {}
        BY <1>1, <1>2, <1>7, <2>4 DEF BlocksOk
    <2> QED BY <2>2, <2>3 DEF BlocksOk
<1>15. ASSUME mode = "up" PROVE UpOk'
    <2>1. UpOk
        BY <1>15 DEF TInv
    <2>2. Erasing' => state'[Head(todo').page[1]] \in {"FULL", "COLLECTING"}
        <3>1. state[page[1]] \in {"EMPTY", "ALLOCATING", "FULL", "COLLECTING", "DEAD", "NEEDS_SCANNING", "UNKNOWN"}
            BY <1>1, <1>2 DEF Typed
        <3>2. state[page[1]] # "UNKNOWN"
            BY <1>1, <2>1 DEF UpOk
        <3> QED BY <1>1, <1>6, <1>8, <3>1, <3>2
    <2>3. alloc # None => /\ state'[alloc[1]] = "ALLOCATING" /\ At(alloc)' = Erased
                          /\ \A c \in Columns : c < alloc[2] => nand'[alloc[1]][c] # Erased
        <3> SUFFICES ASSUME alloc # None
                     PROVE  /\ state'[alloc[1]] = "ALLOCATING" /\ At(alloc)' = Erased
                            /\ \A c \in Columns : c < alloc[2] => nand'[alloc[1]][c] # Erased
            OBVIOUS
        <3>1. alloc[1] \in Blocks /\ alloc[2] \in Columns /\ alloc' = alloc
            BY <1>1, <1>2, PagesAre DEF Typed
        <3> QED BY <1>1, <1>7, <2>1, <3>1 DEF UpOk, At
    <2> QED BY <1>1, <1>8, <2>1, <2>2, <2>3 DEF UpOk
<1>16. ASSUME mode = "scan" PROVE ScanOk'
    <2>1. ScanOk
        BY <1>16 DEF TInv
    <2>2. Erasing' => state'[Head(todo').page[1]] = "FULL" /\ Head(todo').page[1] < pos'[1]
        <3> SUFFICES ASSUME Erasing' PROVE state[page[1]] = "FULL" /\ page[1] < pos[1]
            BY <1>1, <1>8
        <3>1. state[page[1]] = "FULL"
            BY <1>1, <1>6, <1>8, <2>1 DEF ScanOk
        <3>2. page[1] # pos[1]
            BY <1>1, <2>1, <3>1 DEF ScanOk, InBlock
        <3> QED BY <1>1, <2>1, <3>1, <3>2 DEF ScanOk, Visited
    <2>3. \A q \in used' : Visited(q)'
        BY <1>1, <2>1 DEF ScanOk, Visited
    <2>4. pos[1] \in Blocks /\ state[pos[1]] = "FULL" => \A c \in Columns : c >= pos[2] => nand'[pos[1]][c] = Erased
        BY <1>7, <2>1 DEF ScanOk
    <2> QED BY <1>1, <1>8, <2>1, <2>2, <2>3, <2>4 DEF ScanOk
<1> QED BY <1>1, <1>7, <1>9, <1>11, <1>12, <1>13, <1>14, <1>15, <1>16 DEF TInv

(***************************************************************************)
(* Erasing and retiring a block.                                           *)
(***************************************************************************)
\* The block that is erased is in use, without a chunk of its own.
LEMMA ErasingIs ==
    ASSUME TInv, todo # <<>>, Head(todo).op = "erase"
    PROVE  \E b \in Blocks :
              /\ Head(todo).page[1] = b /\ Tail(todo) = <<>> /\ Pending = {} /\ ~Deleting /\ UsedIn(b) = {}
              /\ mode \in {"up", "scan"} /\ b \notin bad /\ b \in Settled /\ state[b] \in {"FULL", "COLLECTING"}
              /\ mode = "scan" => b < pos[1]
<1>1. PICK b \in Blocks : todo = <<EraseOf(b)>>
    BY TaskIs DEF TInv, Typed
<1>2. Erasing /\ ~Deleting /\ Pending = {} /\ Head(todo).page[1] = b /\ Tail(todo) = <<>>
    BY <1>1, EraseTask
<1>3. mode \in {"up", "scan"}
    BY DEF TInv, DownOk, Typed
<1>4. UsedIn(b) = {} /\ (state[b] = "DEAD" <=> b \in bad)
    BY <1>2, <1>3 DEF TInv, BlocksOk
<1>5. CASE mode = "up"
    <2>1. state[b] \in {"FULL", "COLLECTING"}
        BY <1>2, <1>5 DEF TInv, UpOk
    <2> QED BY <1>2, <1>3, <1>4, <1>5, <2>1 DEF Settled
<1>6. CASE mode = "scan"
    <2>1. state[b] = "FULL" /\ b < pos[1]
        BY <1>2, <1>6 DEF TInv, ScanOk
    <2> QED BY <1>2, <1>3, <1>4, <1>6, <2>1 DEF Settled
<1> QED BY <1>3, <1>5, <1>6

\* The chunks in use are in other blocks.
LEMMA UsedElsewhere ==
    ASSUME Typed, MapOk, NEW b, UsedIn(b) = {}
    PROVE  /\ \A page \in used : page[1] # b /\ page \in Pages
           /\ \A key \in Keys : map[key] # None => map[key][1] # b /\ map[key] \in Pages
BY DEF Typed, MapOk, UsedIn

\* A block is empty again.
LEMMA EraseKeeps ==
    ASSUME NandOk, NEW b \in Blocks, nand' = [nand EXCEPT ![b] = [c \in 0 .. NChunks - 1 |-> Erased]]
    PROVE  /\ NandOk' /\ AllErased(b)'
           /\ \A q \in Pages : At(q)' = IF q[1] = b THEN Erased ELSE At(q)
           /\ \A other \in Blocks : other # b => nand'[other] = nand[other]
<1>1. \A other \in Blocks : nand'[other] = IF other = b THEN [c \in Columns |-> Erased] ELSE nand[other]
    BY DEF NandOk, Columns
<1>2. PICK erased : erased = [c \in Columns |-> Erased]
    OBVIOUS
<1>3. DOMAIN erased = Columns /\ \A c \in Columns : erased[c] = Erased
    BY <1>2
<1>4. nand'[b] = erased /\ \A other \in Blocks : other # b => nand'[other] = nand[other]
    BY <1>1, <1>2
<1>5. DOMAIN nand' = Blocks
    BY DEF NandOk
<1>6. \A q \in Pages : At(q)' = IF q[1] = b THEN Erased ELSE At(q)
    <2> TAKE q \in Pages
    <2>1. q[1] \in Blocks /\ q[2] \in Columns
        BY PagesAre
    <2>2. CASE q[1] = b
        <3>1. nand'[q[1]] = erased
            BY <1>4, <2>2
        <3>2. erased[q[2]] = Erased
            BY <1>3, <2>1
        <3> QED BY <2>2, <3>1, <3>2 DEF At
    <2>3. CASE q[1] # b
        BY <1>4, <2>1, <2>3 DEF At
    <2> QED BY <2>2, <2>3
<1>7. \A other \in Blocks : /\ DOMAIN nand'[other] = Columns
                            /\ \A c \in Columns : PageOk(nand'[other][c])
                            /\ \A c, d \in Columns : c <= d /\ nand'[other][c] = Erased => nand'[other][d] = Erased
    <2> TAKE other \in Blocks
    <2>1. CASE other = b
        <3>1. nand'[other] = erased
            BY <1>4, <2>1
        <3>2. PageOk(Erased)
            BY ValuesAre
        <3>3. \A c \in Columns : PageOk(erased[c])
            BY <1>3, <3>2
        <3> QED BY <1>3, <3>1, <3>3
    <2>2. CASE other # b
        BY <1>4, <2>2 DEF NandOk
    <2> QED BY <2>1, <2>2
<1>8. NandOk'
    BY <1>5, <1>7 DEF NandOk, PageOk
<1> QED BY <1>3, <1>4, <1>6, <1>8 DEF AllErased

LEMMA EraseTypes ==
    ASSUME TInv, Erase
    PROVE  TInv'
<1>1. PICK b \in Blocks :
         /\ Head(todo).page[1] = b /\ Tail(todo) = <<>> /\ Pending = {} /\ ~Deleting /\ UsedIn(b) = {}
         /\ mode \in {"up", "scan"} /\ b \notin bad /\ b \in Settled /\ state[b] \in {"FULL", "COLLECTING"}
         /\ mode = "scan" => b < pos[1]
    BY ErasingIs DEF Erase
<1>2. /\ nand' = [nand EXCEPT ![b] = [c \in 0 .. NChunks - 1 |-> Erased]]
      /\ state' = [state EXCEPT ![b] = "EMPTY"] /\ gc' = IF gc = b THEN 0 ELSE gc
      /\ todo' = <<>>
      /\ UNCHANGED <<bad, mode, used, map, serial, free, alloc, finder, left, pos, saved, writes, bounds>>
    BY <1>1 DEF Erase
<1>3. NandOk /\ Typed /\ MapOk /\ UsedOk /\ FreeOk /\ BlocksOk
    BY <1>1 DEF TInv
<1>4. /\ NandOk' /\ AllErased(b)' /\ \A q \in Pages : At(q)' = IF q[1] = b THEN Erased ELSE At(q)
      /\ \A other \in Blocks : other # b => nand'[other] = nand[other]
    BY <1>2, <1>3, EraseKeeps
<1>5. state'[b] = "EMPTY" /\ \A other \in Blocks : other # b => state'[other] = state[other]
    BY <1>2, <1>3 DEF Typed
<1>6. ~Deleting' /\ ~Erasing' /\ Pending' = {}
    BY <1>2, NoTask
<1>7. /\ \A page \in used : page[1] # b /\ page \in Pages
      /\ \A key \in Keys : map[key] # None => map[key][1] # b /\ map[key] \in Pages
    BY <1>1, <1>3, UsedElsewhere
<1>8. Typed'
    <2>1. state' \in [Blocks -> {"EMPTY", "ALLOCATING", "FULL", "COLLECTING", "DEAD", "NEEDS_SCANNING", "UNKNOWN"}]
        BY <1>2, <1>3 DEF Typed
    <2>2. todo' \in Tasks /\ gc' \in 0 .. NBlocks
        BY <1>2, <1>3, Numbers DEF Tasks, Typed
    <2> QED BY <1>2, <1>3, <2>1, <2>2 DEF Typed
<1>9. \A key \in Keys : map[key] # None => At(map[key])' = At(map[key])
    <2> SUFFICES ASSUME NEW key \in Keys, map[key] # None PROVE At(map[key])' = At(map[key])
        OBVIOUS
    <2>1. PICK q \in Pages : q = map[key]
        BY <1>7
    <2>2. At(q)' = At(q)
        BY <1>4, <1>7, <2>1
    <2> QED BY <1>2, <2>1, <2>2 DEF At
<1>10. MapOk' /\ UsedOk'
    <2>1. MapOk'
        BY <1>2, <1>3, <1>6, <1>9 DEF MapOk, IsCopy
    <2>2. \A page \in used' : At(page)'.state = "written" /\ \E key \in Keys : map'[key] = page
        BY <1>1, <1>2, <1>3, <1>4, <1>7 DEF UsedOk
    <2> QED BY <1>6, <2>1, <2>2 DEF UsedOk
<1>11. FreeOk'
    <2>1. Settled' = Settled
        BY <1>1, <1>5 DEF Settled
    <2>2. Part' = Part
        BY <1>1, <1>2, <1>5 DEF Part, InBlock
    <2> QED BY <1>2, <1>3, <2>1, <2>2 DEF FreeOk
<1>12. BlocksOk'
    <2>1. \A other \in Blocks : UsedIn(other)' = UsedIn(other) /\ (other # b /\ AllErased(other) => AllErased(other)')
        BY <1>2, <1>4 DEF UsedIn, AllErased
    <2>2. \A other \in Blocks : /\ state'[other] = "DEAD" <=> other \in bad'
                                /\ state'[other] = "EMPTY" => AllErased(other)'
                                /\ state'[other] = "DEAD" => UsedIn(other)' = {}
        BY <1>1, <1>2, <1>3, <1>4, <1>5, <2>1 DEF BlocksOk
    <2> QED BY <1>6, <2>2 DEF BlocksOk
<1>13. ASSUME mode = "up" PROVE UpOk'
    <2>1. UpOk
        BY <1>13 DEF TInv
    <2>2. alloc # None => /\ state'[alloc[1]] = "ALLOCATING" /\ At(alloc)' = Erased
                          /\ \A c \in Columns : c < alloc[2] => nand'[alloc[1]][c] # Erased
        <3> SUFFICES ASSUME alloc # None
                     PROVE  /\ state'[alloc[1]] = "ALLOCATING" /\ At(alloc)' = Erased
                            /\ \A c \in Columns : c < alloc[2] => nand'[alloc[1]][c] # Erased
            OBVIOUS
        <3>1. alloc[1] \in Blocks /\ alloc[2] \in Columns /\ alloc' = alloc
            BY <1>2, <1>3, PagesAre DEF Typed
        <3>2. state[alloc[1]] = "ALLOCATING" /\ alloc[1] # b
            BY <1>1, <2>1 DEF UpOk
        <3> QED BY <1>4, <1>5, <2>1, <3>1, <3>2 DEF UpOk, At
    <2>3. \A other \in Blocks : /\ state'[other] \notin {"NEEDS_SCANNING", "UNKNOWN"}
                                /\ state'[other] = "ALLOCATING" => alloc # None /\ alloc[1] = other
                                /\ state'[other] = "COLLECTING" => gc' = other
        BY <1>2, <1>5, <2>1 DEF UpOk
    <2>4. gc' # 0 => state'[gc'] \in {"FULL", "COLLECTING"}
        BY <1>2, <1>3, <1>5, <2>1, Numbers DEF UpOk, Typed, Blocks
    <2> QED BY <1>2, <1>6, <2>2, <2>3, <2>4 DEF UpOk
<1>14. ASSUME mode = "scan" PROVE ScanOk'
    <2>1. ScanOk /\ b < pos[1]
        BY <1>1, <1>14 DEF TInv
    <2>2. pos' = pos /\ used' = used /\ alloc' = alloc /\ gc' = 0
        BY <1>2, <2>1 DEF ScanOk
    <2>3. \A page \in used' : Visited(page)'
        BY <2>1, <2>2 DEF ScanOk, Visited
    <2>4. \A other \in Blocks : /\ state'[other] \in {"EMPTY", "NEEDS_SCANNING", "FULL", "DEAD"}
                                /\ other < pos[1] => state'[other] # "NEEDS_SCANNING"
                                /\ other > pos[1] => state'[other] # "FULL"
        BY <1>5, <2>1 DEF ScanOk
    <2>5. pos[1] # b
        BY <1>3, <2>1 DEF Typed, Blocks
    <2>6. pos[1] \in Blocks /\ state'[pos[1]] = "FULL" => \A c \in Columns : c >= pos[2] => nand'[pos[1]][c] = Erased
        BY <1>4, <1>5, <2>1, <2>5 DEF ScanOk
    <2> QED BY <1>6, <2>1, <2>2, <2>3, <2>4, <2>6 DEF ScanOk
<1> QED BY <1>1, <1>2, <1>4, <1>8, <1>10, <1>11, <1>12, <1>13, <1>14 DEF TInv

LEMMA RetireTypes ==
    ASSUME TInv, Retire
    PROVE  TInv'
<1>1. PICK b \in Blocks :
         /\ Head(todo).page[1] = b /\ Tail(todo) = <<>> /\ Pending = {} /\ ~Deleting /\ UsedIn(b) = {}
         /\ mode \in {"up", "scan"} /\ b \notin bad /\ b \in Settled /\ state[b] \in {"FULL", "COLLECTING"}
         /\ mode = "scan" => b < pos[1]
    BY ErasingIs DEF Retire
<1>2. /\ bad' = bad \cup {b} /\ state' = [state EXCEPT ![b] = "DEAD"] /\ gc' = IF gc = b THEN 0 ELSE gc
      /\ free' = free - NChunks /\ todo' = <<>>
      /\ UNCHANGED <<nand, mode, used, map, serial, alloc, finder, left, pos, saved, writes>>
    BY <1>1 DEF Retire
<1>3. NandOk /\ Typed /\ MapOk /\ UsedOk /\ FreeOk /\ BlocksOk
    BY <1>1 DEF TInv
<1>4. state'[b] = "DEAD" /\ \A other \in Blocks : other # b => state'[other] = state[other]
    BY <1>2, <1>3 DEF Typed
<1>5. ~Deleting' /\ ~Erasing' /\ Pending' = {}
    BY <1>2, NoTask
<1>6. Typed'
    <2>1. state' \in [Blocks -> {"EMPTY", "ALLOCATING", "FULL", "COLLECTING", "DEAD", "NEEDS_SCANNING", "UNKNOWN"}]
        BY <1>2, <1>3 DEF Typed
    <2>2. todo' \in Tasks /\ gc' \in 0 .. NBlocks /\ free' \in Int /\ bad' \subseteq Blocks
        BY <1>2, <1>3, Numbers DEF Tasks, Typed
    <2> QED BY <1>2, <1>3, <2>1, <2>2 DEF Typed
<1>7. NandOk' /\ MapOk' /\ UsedOk'
    <2>1. \A key \in Keys : IsCopy(map[key], key)' <=> IsCopy(map[key], key)
        BY <1>2 DEF IsCopy, At
    <2>2. MapOk'
        BY <1>2, <1>3, <1>5, <2>1 DEF MapOk, At
    <2>3. \A page \in used' : At(page)'.state = "written" /\ \E key \in Keys : map'[key] = page
        BY <1>1, <1>2, <1>3 DEF UsedOk, At
    <2>4. NandOk'
        BY <1>2, <1>3 DEF NandOk, PageOk
    <2> QED BY <1>5, <2>2, <2>3, <2>4 DEF UsedOk
<1>8. FreeOk'
    <2>1. Settled' = Settled \ {b}
        BY <1>1, <1>4 DEF Settled
    <2>2. Part' = Part /\ Part \in Nat
        BY <1>1, <1>2, <1>3, <1>4 DEF Part, InBlock, Typed
    <2>3. NChunks * Cardinality(Settled') = NChunks * Cardinality(Settled) - NChunks
        BY <1>1, <2>1, SettledCounts
    <2>4. PICK m \in Int, n \in Int, u \in Int :
             m = NChunks * Cardinality(Settled) /\ n = NChunks * Cardinality(Settled') /\ u = Cardinality(used)
        BY <1>3, <2>3, Counts, Numbers DEF Typed
    <2>5. free = m + Part - u /\ free' = free - NChunks /\ n = m - NChunks
        BY <1>2, <1>3, <2>3, <2>4 DEF FreeOk
    <2>6. free' = n + Part - u
        BY <2>2, <2>4, <2>5, Numbers
    <2> QED BY <1>2, <2>2, <2>4, <2>6 DEF FreeOk
<1>9. BlocksOk'
    <2>1. \A other \in Blocks : UsedIn(other)' = UsedIn(other) /\ (AllErased(other)' <=> AllErased(other))
        BY <1>2 DEF UsedIn, AllErased
    <2>2. \A other \in Blocks : /\ state'[other] = "DEAD" <=> other \in bad'
                                /\ state'[other] = "EMPTY" => AllErased(other)'
                                /\ state'[other] = "DEAD" => UsedIn(other)' = {}
        BY <1>1, <1>2, <1>3, <1>4, <2>1 DEF BlocksOk
    <2> QED BY <1>5, <2>2 DEF BlocksOk
<1>10. ASSUME mode = "up" PROVE UpOk'
    <2>1. UpOk
        BY <1>10 DEF TInv
    <2>2. alloc # None => /\ state'[alloc[1]] = "ALLOCATING" /\ At(alloc)' = Erased
                          /\ \A c \in Columns : c < alloc[2] => nand'[alloc[1]][c] # Erased
        <3> SUFFICES ASSUME alloc # None
                     PROVE  /\ state'[alloc[1]] = "ALLOCATING" /\ At(alloc)' = Erased
                            /\ \A c \in Columns : c < alloc[2] => nand'[alloc[1]][c] # Erased
            OBVIOUS
        <3>1. alloc[1] \in Blocks /\ alloc' = alloc
            BY <1>2, <1>3, PagesAre DEF Typed
        <3>2. state[alloc[1]] = "ALLOCATING" /\ alloc[1] # b
            BY <1>1, <2>1 DEF UpOk
        <3> QED BY <1>2, <1>4, <2>1, <3>1, <3>2 DEF UpOk, At
    <2>3. \A other \in Blocks : /\ state'[other] \notin {"NEEDS_SCANNING", "UNKNOWN"}
                                /\ state'[other] = "ALLOCATING" => alloc # None /\ alloc[1] = other
                                /\ state'[other] = "COLLECTING" => gc' = other
        BY <1>2, <1>4, <2>1 DEF UpOk
    <2>4. gc' # 0 => state'[gc'] \in {"FULL", "COLLECTING"}
        BY <1>2, <1>3, <1>4, <2>1, Numbers DEF UpOk, Typed, Blocks
    <2> QED BY <1>2, <1>5, <2>2, <2>3, <2>4 DEF UpOk
<1>11. ASSUME mode = "scan" PROVE ScanOk'
    <2>1. ScanOk /\ b < pos[1]
        BY <1>1, <1>11 DEF TInv
    <2>2. pos' = pos /\ used' = used /\ alloc' = alloc /\ gc' = 0
        BY <1>2, <2>1 DEF ScanOk
    <2>3. \A page \in used' : Visited(page)'
        BY <2>1, <2>2 DEF ScanOk, Visited
    <2>4. \A other \in Blocks : /\ state'[other] \in {"EMPTY", "NEEDS_SCANNING", "FULL", "DEAD"}
                                /\ other < pos[1] => state'[other] # "NEEDS_SCANNING"
                                /\ other > pos[1] => state'[other] # "FULL"
        BY <1>4, <2>1 DEF ScanOk
    <2>5. pos[1] # b
        BY <1>3, <2>1 DEF Typed, Blocks
    <2>6. pos[1] \in Blocks /\ state'[pos[1]] = "FULL" => \A c \in Columns : c >= pos[2] => nand'[pos[1]][c] = Erased
        BY <1>2, <1>4, <2>1, <2>5 DEF ScanOk
    <2> QED BY <1>5, <2>1, <2>2, <2>3, <2>4, <2>6 DEF ScanOk
<1> QED BY <1>1, <1>2, <1>6, <1>7, <1>8, <1>9, <1>10, <1>11 DEF TInv

(***************************************************************************)
(* Collecting a block.                                                     *)
(***************************************************************************)
LEMMA CollectTypes ==
    ASSUME TInv, Collect
    PROVE  TInv'
<1>1. PICK b \in Candidates :
         /\ state[b] = "FULL" /\ state' = [state EXCEPT ![b] = "COLLECTING"] /\ gc' = b
         /\ todo' = IF UsedIn(b) = {} THEN <<EraseOf(b)>> ELSE <<>>
    BY DEF Collect
<1>2. /\ mode = "up" /\ todo = <<>> /\ \A other \in Blocks : state[other] # "COLLECTING"
      /\ left' = MaxCopies
      /\ UNCHANGED <<nand, bad, mode, used, map, serial, free, alloc, finder, pos, saved, writes, bounds>>
    BY DEF Collect, Idle, device
<1>3. NandOk /\ Typed /\ MapOk /\ UsedOk /\ FreeOk /\ BlocksOk /\ UpOk
    BY <1>2 DEF TInv
<1>4. b \in Blocks
    BY <1>3 DEF Candidates, Typed, Blocks
<1>5. state'[b] = "COLLECTING" /\ \A other \in Blocks : other # b => state'[other] = state[other]
    BY <1>1, <1>3, <1>4 DEF Typed
<1>6. /\ ~Deleting /\ ~Erasing /\ Pending = {} /\ ~Deleting' /\ Pending' = {}
      /\ Erasing' => Head(todo').page[1] = b /\ UsedIn(b) = {}
    BY <1>1, <1>2, NoTask, EraseTask
<1>7. Typed'
    <2>1. state' \in [Blocks -> {"EMPTY", "ALLOCATING", "FULL", "COLLECTING", "DEAD", "NEEDS_SCANNING", "UNKNOWN"}]
        BY <1>1, <1>3 DEF Typed
    <2>2. todo' \in Tasks /\ gc' \in 0 .. NBlocks /\ left' \in 0 .. MaxCopies
        BY <1>1, <1>2, <1>4, Numbers DEF Tasks
    <2> QED BY <1>2, <1>3, <2>1, <2>2 DEF Typed
<1>8. NandOk' /\ MapOk' /\ UsedOk'
    <2>1. \A key \in Keys : IsCopy(map[key], key)' <=> IsCopy(map[key], key)
        BY <1>2 DEF IsCopy, At
    <2>2. MapOk'
        BY <1>2, <1>3, <1>6, <2>1 DEF MapOk, At
    <2>3. \A page \in used' : At(page)'.state = "written" /\ \E key \in Keys : map'[key] = page
        BY <1>2, <1>3, <1>6 DEF UsedOk, At
    <2>4. NandOk'
        BY <1>2, <1>3 DEF NandOk, PageOk
    <2> QED BY <1>6, <2>2, <2>3, <2>4 DEF UsedOk
<1>9. FreeOk'
    <2>1. Settled' = Settled
        BY <1>1, <1>5 DEF Settled
    <2>2. Part' = Part
        BY <1>2 DEF Part
    <2> QED BY <1>2, <1>3, <2>1, <2>2 DEF FreeOk
<1>10. BlocksOk'
    <2>1. \A other \in Blocks : UsedIn(other)' = UsedIn(other) /\ (AllErased(other)' <=> AllErased(other))
        BY <1>2 DEF UsedIn, AllErased
    <2>2. Erasing' => UsedIn(Head(todo).page[1])' = {}
        BY <1>2, <1>6 DEF UsedIn
    <2>3. \A other \in Blocks : /\ state'[other] = "DEAD" <=> other \in bad'
                                /\ state'[other] = "EMPTY" => AllErased(other)'
                                /\ state'[other] = "DEAD" => UsedIn(other)' = {}
        BY <1>1, <1>2, <1>3, <1>5, <2>1 DEF BlocksOk
    <2> QED BY <2>2, <2>3 DEF BlocksOk
<1>11. UpOk'
    <2>1. alloc # None => /\ state'[alloc[1]] = "ALLOCATING" /\ At(alloc)' = Erased
                          /\ \A c \in Columns : c < alloc[2] => nand'[alloc[1]][c] # Erased
        <3> SUFFICES ASSUME alloc # None
                     PROVE  /\ state'[alloc[1]] = "ALLOCATING" /\ At(alloc)' = Erased
                            /\ \A c \in Columns : c < alloc[2] => nand'[alloc[1]][c] # Erased
            OBVIOUS
        <3>1. alloc[1] \in Blocks /\ alloc' = alloc
            BY <1>2, <1>3, PagesAre DEF Typed
        <3>2. state[alloc[1]] = "ALLOCATING" /\ alloc[1] # b
            BY <1>1, <1>3 DEF UpOk
        <3> QED BY <1>2, <1>3, <1>5, <3>1, <3>2 DEF UpOk, At
    <2>2. \A other \in Blocks : /\ state'[other] \notin {"NEEDS_SCANNING", "UNKNOWN"}
                                /\ state'[other] = "ALLOCATING" => alloc # None /\ alloc[1] = other
                                /\ state'[other] = "COLLECTING" => gc' = other
        BY <1>1, <1>2, <1>3, <1>5 DEF UpOk
    <2> QED BY <1>1, <1>2, <1>4, <1>5, <1>6, <2>1, <2>2 DEF UpOk
<1> QED BY <1>2, <1>7, <1>8, <1>9, <1>10, <1>11 DEF TInv

\* What is copied is the chunk of a key.
LEMMA CopyIs ==
    ASSUME TagsCorrect, TInv, Copy
    PROVE  \E old \in UsedIn(gc), page \in NextPages, key \in Keys :
              /\ mode = "up" /\ todo = <<>> /\ gc \in Blocks /\ state[gc] = "COLLECTING" /\ left > 0
              /\ map[key] = old /\ IsCopy(old, key) /\ old \in Pages /\ At(old).serial \in 0 .. 3
              /\ Put(page, Written(key, (At(old).serial + 1) % 4, At(old).data))
              /\ used' = (used \ {old}) \cup {page} /\ map' = [map EXCEPT ![key] = page]
              /\ serial' = IF IsHeader(key) THEN [serial EXCEPT ![key[1]] = (At(old).serial + 1) % 4] ELSE serial
              /\ alloc' = Allocated(page).alloc /\ finder' = Allocated(page).finder
              /\ state' = IF left = 1 /\ UsedIn(gc) \ {old} # {} THEN [Allocated(page).state EXCEPT ![gc] = "FULL"]
                          ELSE Allocated(page).state
              /\ todo' = IF UsedIn(gc) \ {old} = {} THEN <<EraseOf(gc)>> ELSE <<>>
              /\ left' = left - 1
              /\ UNCHANGED <<bad, mode, free, gc, pos, saved, writes, bounds>>
<1>1. PICK old \in UsedIn(gc), page \in NextPages :
         /\ Read(old).key \in Keys
         /\ Put(page, Written(Read(old).key, (Read(old).serial + 1) % 4, At(old).data))
         /\ used' = (used \ {old}) \cup {page} /\ map' = [map EXCEPT ![Read(old).key] = page]
         /\ serial' = IF IsHeader(Read(old).key)
                      THEN [serial EXCEPT ![Read(old).key[1]] = (Read(old).serial + 1) % 4] ELSE serial
         /\ alloc' = Allocated(page).alloc /\ finder' = Allocated(page).finder
         /\ state' = IF left = 1 /\ UsedIn(gc) \ {old} # {} THEN [Allocated(page).state EXCEPT ![gc] = "FULL"]
                     ELSE Allocated(page).state
         /\ todo' = IF UsedIn(gc) \ {old} = {} THEN <<EraseOf(gc)>> ELSE <<>>
    BY DEF Copy
<1>2. mode = "up" /\ todo = <<>> /\ gc \in Blocks /\ state[gc] = "COLLECTING" /\ left > 0
    BY Numbers DEF Copy, TInv, Typed, Blocks
<1>3. old \in used /\ old \in Pages /\ Pending = {}
    BY <1>2, NoTask DEF UsedIn, TInv, Typed
<1>4. PICK key \in Keys : map[key] = old
    BY <1>3 DEF TInv, UsedOk
<1>5. IsCopy(old, key)
    BY <1>3, <1>4, Numbers DEF TInv, MapOk
<1>6. PageOk(At(old))
    BY <1>3, PagesAre DEF At, TInv, NandOk
<1>7. Read(old).key = key /\ Read(old).serial = At(old).serial /\ At(old).serial \in 0 .. 3
    <2>1. At(old).serial \in 0 .. 3
        BY <1>5, <1>6 DEF PageOk, IsCopy
    <2> QED BY <1>5, <1>6, <2>1, ReadIs DEF IsCopy
<1>8. left' = left - 1 /\ UNCHANGED <<bad, mode, free, gc, pos, saved, writes, bounds>>
    BY DEF Copy
<1> QED BY <1>1, <1>2, <1>3, <1>4, <1>5, <1>7, <1>8

LEMMA CopyTypes ==
    ASSUME TagsCorrect, TInv, Copy
    PROVE  TInv'
<1>1. PICK old \in UsedIn(gc), page \in NextPages, key \in Keys :
         /\ mode = "up" /\ todo = <<>> /\ gc \in Blocks /\ state[gc] = "COLLECTING" /\ left > 0
         /\ map[key] = old /\ IsCopy(old, key) /\ old \in Pages /\ At(old).serial \in 0 .. 3
         /\ Put(page, Written(key, (At(old).serial + 1) % 4, At(old).data))
         /\ used' = (used \ {old}) \cup {page} /\ map' = [map EXCEPT ![key] = page]
         /\ serial' = IF IsHeader(key) THEN [serial EXCEPT ![key[1]] = (At(old).serial + 1) % 4] ELSE serial
         /\ alloc' = Allocated(page).alloc /\ finder' = Allocated(page).finder
         /\ state' = IF left = 1 /\ UsedIn(gc) \ {old} # {} THEN [Allocated(page).state EXCEPT ![gc] = "FULL"]
                     ELSE Allocated(page).state
         /\ todo' = IF UsedIn(gc) \ {old} = {} THEN <<EraseOf(gc)>> ELSE <<>>
         /\ left' = left - 1
         /\ UNCHANGED <<bad, mode, free, gc, pos, saved, writes, bounds>>
    BY CopyIs
<1>2. NandOk /\ Typed /\ MapOk /\ UsedOk /\ FreeOk /\ BlocksOk /\ UpOk
    BY <1>1 DEF TInv
<1>3. /\ page \in Pages /\ page[1] \in Blocks /\ page[2] \in Columns
      /\ state[page[1]] \in {"EMPTY", "ALLOCATING"} /\ page[1] \notin bad
      /\ page \notin used /\ \A k \in Keys : map[k] # page
      /\ alloc # None => page = alloc
      /\ state[page[1]] = "ALLOCATING" => alloc # None
    BY <1>1, NextIs
<1>4. PICK s \in 0 .. 3 : s = (At(old).serial + 1) % 4
    BY <1>1
<1>5. PICK x : x = Written(key, s, At(old).data)
    OBVIOUS
<1>6. /\ PageOk(x) /\ x # Erased /\ x.state = "written" /\ x.key = key /\ x.serial = s
      /\ x.deleted = FALSE
    BY <1>5, ValuesAre
<1>7. /\ NandOk' /\ alloc' \in Pages \cup {None}
      /\ \A q \in Pages : At(q)' = IF q = page THEN x ELSE At(q)
      /\ \A b \in Blocks : AllErased(b)' <=> AllErased(b) /\ b # page[1]
      /\ alloc' # None => /\ At(alloc)' = Erased /\ alloc'[1] = page[1]
                          /\ \A c \in Columns : c < alloc'[2] => nand'[alloc'[1]][c] # Erased
    BY <1>1, <1>4, <1>5, <1>6, AllocKeeps
<1>8. page[1] # gc /\ old[1] = gc /\ old \in used
    BY <1>1, <1>3 DEF UsedIn
<1>9. /\ finder' = page[1] /\ \A b \in Blocks : b # page[1] /\ b # gc => state'[b] = state[b]
      /\ state'[page[1]] \in {"FULL", "ALLOCATING"} /\ state'[gc] \in {"FULL", "COLLECTING"}
      /\ alloc' = None <=> state'[page[1]] = "FULL"
      /\ state' \in [Blocks -> {"EMPTY", "ALLOCATING", "FULL", "COLLECTING", "DEAD", "NEEDS_SCANNING", "UNKNOWN"}]
    <2>1. PICK a : a = Allocated(page)
        OBVIOUS
    <2>2. /\ a.state = [state EXCEPT ![page[1]] = a.state[page[1]]]
          /\ a.state[page[1]] \in {"FULL", "ALLOCATING"} /\ a.finder = page[1]
          /\ \A b \in Blocks : b # page[1] => a.state[b] = state[b]
          /\ a.alloc = None <=> a.state[page[1]] = "FULL"
        BY <1>1, <2>1, AllocatedIs
    <2>3. PICK t : t = a.state
        OBVIOUS
    <2>4. t \in [Blocks -> {"EMPTY", "ALLOCATING", "FULL", "COLLECTING", "DEAD", "NEEDS_SCANNING", "UNKNOWN"}]
        BY <1>2, <2>2, <2>3 DEF Typed
    <2>5. t[gc] = "COLLECTING"
        BY <1>1, <1>8, <2>2, <2>3
    <2>6. state' = IF left = 1 /\ UsedIn(gc) \ {old} # {} THEN [t EXCEPT ![gc] = "FULL"] ELSE t
        BY <1>1, <2>1, <2>3
    <2>7. state'[gc] \in {"FULL", "COLLECTING"} /\ \A b \in Blocks : b # gc => state'[b] = t[b]
        BY <1>1, <2>4, <2>5, <2>6
    <2> QED BY <1>1, <1>3, <1>8, <2>1, <2>2, <2>3, <2>4, <2>6, <2>7
<1>10. /\ ~Deleting /\ ~Erasing /\ Pending = {} /\ ~Deleting' /\ Pending' = {}
       /\ Erasing' => Head(todo').page[1] = gc /\ UsedIn(gc) \ {old} = {}
    BY <1>1, NoTask, EraseTask
<1>11. Typed'
    <2>1. todo' \in Tasks /\ left' \in 0 .. MaxCopies
        BY <1>1, <1>2, Numbers DEF Tasks, Typed
    <2>2. map' \in [Keys -> Pages \cup {None}] /\ used' \subseteq Pages
        BY <1>1, <1>2, <1>3 DEF Typed
    <2>3. serial' \in [Objects -> 0 .. 3]
        BY <1>1, <1>2, <1>4, KeysAre DEF Typed
    <2>4. finder' \in 0 .. NBlocks
        BY <1>3, <1>9, Numbers
    <2> QED BY <1>1, <1>2, <1>7, <1>9, <2>1, <2>2, <2>3, <2>4 DEF Typed
<1>12. MapOk'
    <2> SUFFICES ASSUME NEW k \in Keys, map'[k] # None
                 PROVE  /\ IsCopy(map[k], k)' /\ map'[k] \in used' /\ map'[k] \notin Pending'
                        /\ IsHeader(k) => serial'[k[1]] = At(map[k])'.serial
        BY DEF MapOk
    <2>1. CASE k = key
        <3>1. map'[k] = page
            BY <1>1, <1>2, <2>1 DEF Typed
        <3>2. At(map[k])' = x
            BY <1>3, <1>7, <3>1 DEF At
        <3>3. IsHeader(k) => serial'[k[1]] = s
            BY <1>1, <1>2, <1>4, <2>1, KeysAre DEF Typed
        <3> QED BY <1>1, <1>6, <1>10, <2>1, <3>1, <3>2, <3>3 DEF IsCopy
    <2>2. CASE k # key
        <3>1. map'[k] = map[k] /\ map[k] # None /\ map[k] \in Pages
            BY <1>1, <1>2, <2>2 DEF Typed
        <3>2. IsCopy(map[k], k) /\ map[k] \in used /\ (IsHeader(k) => serial[k[1]] = At(map[k]).serial)
            BY <1>2, <3>1 DEF MapOk
        <3>3. At(map[k])' = At(map[k])
            <4>1. PICK q \in Pages : q = map[k]
                BY <3>1
            <4>2. At(q)' = At(q)
                BY <1>3, <1>7, <4>1
            <4> QED BY <3>1, <4>1, <4>2 DEF At
        <3>4. map[k] # old
            BY <1>1, <2>2, <3>2 DEF IsCopy
        <3>5. IsHeader(k) => serial'[k[1]] = serial[k[1]]
            BY <1>1, <1>2, <2>2, KeysAre DEF Typed
        <3> QED BY <1>1, <1>10, <3>1, <3>2, <3>3, <3>4, <3>5 DEF IsCopy
    <2> QED BY <2>1, <2>2
<1>13. UsedOk'
    <2>1. ASSUME NEW p \in used'
          PROVE  At(p)'.state = "written" /\ \E k \in Keys : map'[k] = p
        <3>1. CASE p = page
            BY <1>1, <1>2, <1>3, <1>6, <1>7, <3>1 DEF Typed
        <3>2. CASE p # page
            <4>1. p \in used /\ p \in Pages /\ p # old
                BY <1>1, <1>2, <3>2 DEF Typed
            <4>2. At(p).state = "written" /\ \E k \in Keys : map[k] = p
                BY <1>2, <1>10, <4>1 DEF UsedOk
            <4>3. At(p)' = At(p)
                BY <1>7, <3>2, <4>1
            <4>4. PICK k \in Keys : map[k] = p
                BY <4>2
            <4>5. k # key
                BY <1>1, <4>1, <4>4
            <4> QED BY <1>1, <1>2, <4>2, <4>3, <4>4, <4>5 DEF Typed
        <3> QED BY <3>1, <3>2
    <2> QED BY <1>10, <2>1 DEF UsedOk
<1>14. FreeOk'
    <2>1. Settled' = Settled
        BY <1>1, <1>3, <1>9 DEF Settled
    <2>2. Cardinality(used') = Cardinality(used)
        <3>1. PICK S : S = used \ {old}
            OBVIOUS
        <3>2. IsFiniteSet(used) /\ IsFiniteSet(S) /\ page \notin S
            BY <1>2, <1>3, <3>1, Counts, FS_Subset DEF Typed
        <3>3. Cardinality(S) = Cardinality(used) - 1
            BY <1>8, <3>1, <3>2, FS_RemoveElement
        <3>4. Cardinality(S \cup {page}) = Cardinality(S) + 1
            BY <3>2, FS_AddElement
        <3>5. Cardinality(used) \in Nat
            BY <3>2, FS_CardinalityType
        <3> QED BY <1>1, <3>1, <3>3, <3>4, <3>5
    <2>3. Part' = Part
        BY <1>1 DEF Part
    <2> QED BY <1>1, <1>2, <2>1, <2>2, <2>3 DEF FreeOk
<1>15. BlocksOk'
    <2>1. \A b \in Blocks : b # page[1] /\ b # gc => UsedIn(b)' = UsedIn(b)
        BY <1>1, <1>8 DEF UsedIn
    <2>2. Erasing' => UsedIn(Head(todo).page[1])' = {}
        <3>1. {q \in used' : q[1] = gc} = UsedIn(gc) \ {old}
            BY <1>1, <1>8 DEF UsedIn
        <3> QED BY <1>10, <3>1 DEF UsedIn
    <2>3. ASSUME NEW b \in Blocks
          PROVE  /\ state'[b] = "DEAD" <=> b \in bad'
                 /\ state'[b] = "EMPTY" => AllErased(b)'
                 /\ state'[b] = "DEAD" => UsedIn(b)' = {}
        <3>1. CASE b = page[1] \/ b = gc
            BY <1>1, <1>2, <1>3, <1>9, <3>1 DEF BlocksOk
        <3>2. CASE b # page[1] /\ b # gc
            BY <1>1, <1>2, <1>7, <1>9, <2>1, <3>2 DEF BlocksOk
        <3> QED BY <3>1, <3>2
    <2> QED BY <2>2, <2>3 DEF BlocksOk
<1>16. UpOk'
    <2>1. ASSUME NEW b \in Blocks
          PROVE  /\ state'[b] \notin {"NEEDS_SCANNING", "UNKNOWN"}
                 /\ state'[b] = "COLLECTING" => gc' = b
                 /\ state'[b] = "ALLOCATING" => alloc' # None /\ alloc'[1] = b
        <3>1. CASE b = page[1]
            BY <1>7, <1>9, <3>1
        <3>2. CASE b = gc
            BY <1>1, <1>9, <3>2
        <3>3. CASE b # page[1] /\ b # gc
            BY <1>1, <1>2, <1>3, <1>9, <3>3 DEF UpOk
        <3> QED BY <3>1, <3>2, <3>3
    <2>2. gc' # 0 => state'[gc'] \in {"FULL", "COLLECTING"}
        BY <1>1, <1>9
    <2> QED BY <1>1, <1>7, <1>9, <1>10, <2>1, <2>2 DEF UpOk
<1> QED BY <1>1, <1>7, <1>11, <1>12, <1>13, <1>14, <1>15, <1>16 DEF TInv

(***************************************************************************)
(* Losing power.                                                           *)
(***************************************************************************)
\* A crash leaves the device as it is, or a page torn.
LEMMA CrashIs ==
    ASSUME TInv, Crash
    PROVE  /\ NandOk' /\ mode' = "down" /\ bad' = bad /\ saved' = saved /\ writes' = writes
           /\ \A q \in Pages : At(q)' = At(q) \/ (At(q) = Erased /\ At(q)'.state = "torn")
<1>1. /\ NandOk
      /\ \/ UNCHANGED nand
         \/ mode = "up" /\ (\E page \in NextPages : Put(page, Torn))
    BY DEF Crash, TInv
<1>2. mode' = "down" /\ bad' = bad /\ saved' = saved /\ writes' = writes
    BY DEF Crash
<1>3. CASE UNCHANGED nand
    BY <1>1, <1>2, <1>3 DEF At, NandOk, PageOk
<1>4. ASSUME mode = "up", NEW page \in NextPages, Put(page, Torn)
      PROVE  NandOk' /\ \A q \in Pages : At(q)' = At(q) \/ (At(q) = Erased /\ At(q)'.state = "torn")
    <2>1. page \in Pages /\ At(page) = Erased /\ \A c \in Columns : c < page[2] => nand[page[1]][c] # Erased
        BY <1>4, NextIs
    <2>2. PageOk(Torn) /\ Torn # Erased /\ Torn.state = "torn"
        BY ValuesAre
    <2>3. NandOk' /\ \A q \in Pages : At(q)' = IF q = page THEN Torn ELSE At(q)
        BY <1>1, <1>4, <2>1, <2>2, PutKeeps
    <2> QED BY <2>1, <2>2, <2>3
<1> QED BY <1>1, <1>2, <1>3, <1>4

LEMMA CrashTypes ==
    ASSUME TInv, Crash
    PROVE  TInv'
<1>1. Typed
    BY DEF TInv
<1>2. /\ used' = {} /\ map' = [key \in Keys |-> None] /\ serial' = [o \in Objects |-> 0]
      /\ alloc' = None /\ finder' = 0 /\ gc' = 0 /\ left' = 0 /\ todo' = <<>>
      /\ mode' = "down" /\ state' = [b \in Blocks |-> "UNKNOWN"] /\ free' = 0 /\ pos' = <<0, 0>>
      /\ UNCHANGED <<bad, saved, writes>>
    BY DEF Crash, NothingKnown
<1>3. ~Deleting' /\ ~Erasing' /\ Pending' = {}
    BY <1>2, NoTask
<1>4. Typed'
    BY <1>1, <1>2, Numbers DEF Typed, Tasks
<1>5. NandOk'
    BY CrashIs
<1>6. MapOk' /\ UsedOk' /\ DownOk'
    BY <1>2, <1>3 DEF MapOk, UsedOk, DownOk
<1>7. FreeOk'
    <2>1. Settled' = {} /\ Part' = 0
        BY <1>2 DEF Settled, Part
    <2>2. Cardinality({}) = 0 /\ NChunks * 0 = 0
        BY FS_EmptySet, Numbers
    <2> QED BY <1>2, <2>1, <2>2 DEF FreeOk
<1> QED BY <1>2, <1>4, <1>5, <1>6, <1>7 DEF TInv

\* A bit flips in a page that is programmed.
LEMMA FlipIs ==
    ASSUME TInv, FlipBit
    PROVE  /\ NandOk' /\ UNCHANGED <<bad, ram, saved, writes>>
           /\ \A q \in Pages : /\ At(q)'.state = At(q).state
                               /\ At(q).state = "written" =>
                                      /\ At(q)'.key = At(q).key /\ At(q)'.serial = At(q).serial
                                      /\ At(q)'.data = At(q).data /\ At(q)'.deleted = At(q).deleted
                               /\ At(q)' = Erased <=> At(q) = Erased
           /\ \A b \in Blocks : AllErased(b)' <=> AllErased(b)
           /\ \A b \in Blocks, c \in Columns : nand'[b][c] = Erased <=> nand[b][c] = Erased
<1>1. PICK page \in Pages, i \in FlippedBits :
         At(page).state = "written" /\ At(page).flip = 0 /\ Put(page, [At(page) EXCEPT !.flip = i])
    BY DEF FlipBit
<1>2. NandOk
    BY DEF TInv
<1>3. PICK p : p = At(page)
    OBVIOUS
<1>4. PICK x : x = [p EXCEPT !.flip = i]
    OBVIOUS
<1>5. PageOk(p) /\ p.state = "written" /\ p # Erased
    BY <1>1, <1>2, <1>3, PagesAre, ValuesAre DEF NandOk, At
<1>6. p = [state |-> p.state, key |-> p.key, serial |-> p.serial, data |-> p.data, flip |-> p.flip,
           deleted |-> p.deleted]
    BY <1>5 DEF PageOk
<1>7. /\ x.state = "written" /\ x.key = p.key /\ x.serial = p.serial /\ x.flip = i /\ x.deleted = p.deleted
      /\ x.data = p.data
    BY <1>4, <1>5, <1>6
<1>8. x = [state |-> x.state, key |-> x.key, serial |-> x.serial, data |-> x.data, flip |-> x.flip,
           deleted |-> x.deleted]
    BY <1>4, <1>6
<1>9. x # Erased
    BY <1>7, ValuesAre
<1>10. PageOk(x)
    BY <1>5, <1>7, <1>8, <1>9 DEF PageOk
<1>11. /\ NandOk' /\ \A q \in Pages : At(q)' = IF q = page THEN x ELSE At(q)
       /\ \A b \in Blocks : AllErased(b)' <=> AllErased(b)
       /\ \A b \in Blocks, c \in Columns : nand'[b][c] = Erased <=> nand[b][c] = Erased
    BY <1>1, <1>2, <1>3, <1>4, <1>5, <1>9, <1>10, RewriteKeeps
<1>12. UNCHANGED <<bad, ram, saved, writes>>
    BY DEF FlipBit
<1> QED BY <1>3, <1>5, <1>7, <1>9, <1>11, <1>12

LEMMA FlipTypes ==
    ASSUME TInv, FlipBit
    PROVE  TInv'
<1>1. /\ NandOk' /\ UNCHANGED <<bad, ram, saved, writes>>
      /\ \A q \in Pages : /\ At(q)'.state = At(q).state
                          /\ At(q).state = "written" =>
                                 /\ At(q)'.key = At(q).key /\ At(q)'.serial = At(q).serial
                                 /\ At(q)'.data = At(q).data /\ At(q)'.deleted = At(q).deleted
                          /\ At(q)' = Erased <=> At(q) = Erased
      /\ \A b \in Blocks : AllErased(b)' <=> AllErased(b)
      /\ \A b \in Blocks, c \in Columns : nand'[b][c] = Erased <=> nand[b][c] = Erased
    BY FlipIs
<1>2. UNCHANGED <<bad, mode, state, used, map, serial, free, alloc, finder, gc, left, todo, pos, saved, writes>>
    BY <1>1 DEF ram
<1>3. Typed /\ MapOk /\ UsedOk /\ FreeOk
    BY DEF TInv
<1>4. Typed' /\ FreeOk'
    BY <1>2, <1>3 DEF Typed, FreeOk, Settled, Part, InBlock
<1>5. Pending' = Pending /\ (Deleting' <=> Deleting) /\ (Erasing' <=> Erasing)
    BY <1>2 DEF Pending, Deleting, Erasing
<1>6. MapOk'
    <2> SUFFICES ASSUME NEW k \in Keys, map[k] # None
                 PROVE  /\ IsCopy(map[k], k)' /\ map[k] \in used' /\ map[k] \notin Pending'
                        /\ IsHeader(k) => serial'[k[1]] = At(map[k])'.serial
        BY <1>2 DEF MapOk
    <2>1. /\ IsCopy(map[k], k) /\ map[k] \in used /\ map[k] \notin Pending
          /\ IsHeader(k) => serial[k[1]] = At(map[k]).serial
        BY <1>3 DEF MapOk
    <2>2. PICK q \in Pages : q = map[k]
        BY <1>3, <2>1 DEF Typed
    <2>3. At(map[k])' = At(q)' /\ At(map[k]) = At(q)
        BY <1>2, <2>2 DEF At
    <2> QED BY <1>1, <1>2, <1>5, <2>1, <2>2, <2>3 DEF IsCopy
<1>7. UsedOk'
    <2>1. \A q \in used : q \in Pages
        BY <1>3 DEF Typed
    <2> QED BY <1>1, <1>2, <1>3, <1>5, <2>1 DEF UsedOk
<1>8. BlocksOk => BlocksOk'
    BY <1>1, <1>2, <1>5 DEF BlocksOk, UsedIn
<1>9. ASSUME UpOk PROVE UpOk'
    <2>1. alloc # None => At(alloc)' = Erased /\ \A c \in Columns : c < alloc[2] => nand'[alloc[1]][c] # Erased
        <3> SUFFICES ASSUME alloc # None
                     PROVE  At(alloc)' = Erased /\ \A c \in Columns : c < alloc[2] => nand'[alloc[1]][c] # Erased
            OBVIOUS
        <3>1. alloc[1] \in Blocks /\ alloc[2] \in Columns /\ alloc' = alloc
            BY <1>2, <1>3, PagesAre DEF Typed
        <3> QED BY <1>1, <1>9, <3>1 DEF UpOk, At
    <2> QED BY <1>2, <1>5, <1>9, <2>1 DEF UpOk, Collecting
<1>10. ScanOk => ScanOk'
    BY <1>1, <1>2, <1>5 DEF ScanOk, Visited, InBlock
<1>11. DownOk => DownOk'
    BY <1>2 DEF DownOk
<1> QED BY <1>1, <1>2, <1>4, <1>6, <1>7, <1>8, <1>9, <1>10, <1>11 DEF TInv

(***************************************************************************)
(* Scanning.                                                               *)
(***************************************************************************)
LEMMA BeginScanTypes ==
    ASSUME TagsCorrect, TInv, BeginScan
    PROVE  TInv'
<1>1. /\ mode = "down" /\ mode' = "scan" /\ state' = [b \in Blocks |-> Queried(b)] /\ pos' = <<1, 0>>
      /\ free' = NChunks * Cardinality({b \in Blocks : Queried(b) = "EMPTY"})
      /\ UNCHANGED <<nand, bad, used, map, serial, alloc, finder, gc, left, todo, saved, writes, bounds>>
    BY DEF BeginScan, device
<1>2. NandOk /\ Typed /\ DownOk
    BY <1>1 DEF TInv
<1>3. ~Deleting' /\ ~Erasing' /\ Pending' = {}
    BY <1>1, <1>2, NoTask DEF DownOk
<1>4. pos'[1] = 1 /\ pos'[2] = 0
    BY <1>1
<1>5. \A b \in Blocks : /\ state'[b] = Queried(b) /\ Queried(b) \in {"DEAD", "EMPTY", "NEEDS_SCANNING"}
                        /\ Queried(b) = "DEAD" <=> b \in bad
                        /\ Queried(b) = "EMPTY" => AllErased(b)
    <2> TAKE b \in Blocks
    <2>1. <<b, 0>> \in Pages /\ 0 \in Columns
        BY Numbers, PagesAre
    <2>2. PICK page \in Pages : page = <<b, 0>>
        BY <2>1
    <2>3. At(page) = nand[b][0]
        BY <2>2 DEF At
    <2>4. Read(page).result = "erased" <=> At(page) = Erased
        BY <1>2, <2>1, <2>3, ReadIs DEF NandOk
    <2>5. nand[b][0] = Erased => AllErased(b)
        <3>1. \A c \in Columns : 0 <= c
            BY DEF Columns
        <3> QED BY <1>2, <2>1, <3>1 DEF NandOk, AllErased
    <2>6. Queried(b) = IF b \in bad THEN "DEAD" ELSE IF Read(page).result = "erased" THEN "EMPTY" ELSE "NEEDS_SCANNING"
        BY <2>2 DEF Queried
    <2> QED BY <1>1, <2>3, <2>4, <2>5, <2>6
<1>6. Typed'
    <2>1. state' \in [Blocks -> {"EMPTY", "ALLOCATING", "FULL", "COLLECTING", "DEAD", "NEEDS_SCANNING", "UNKNOWN"}]
        BY <1>1, <1>5
    <2>2. free' \in Int
        <3>1. IsFiniteSet({b \in Blocks : Queried(b) = "EMPTY"})
            BY Counts, FS_Subset
        <3> QED BY <1>1, <3>1, FS_CardinalityType, Numbers
    <2> QED BY <1>1, <1>2, <2>1, <2>2 DEF Typed
<1>7. NandOk' /\ MapOk' /\ UsedOk'
    <2>1. NandOk'
        BY <1>1, <1>2 DEF NandOk, PageOk
    <2> QED BY <1>1, <1>2, <1>3, <2>1 DEF MapOk, UsedOk, DownOk
<1>8. FreeOk'
    <2>1. Settled' = {b \in Blocks : Queried(b) = "EMPTY"}
        BY <1>5 DEF Settled
    <2>2. Part' = 0
        BY <1>4 DEF Part
    <2>3. Cardinality(used') = 0
        BY <1>1, <1>2, FS_EmptySet DEF DownOk
    <2>4. free' \in Int
        BY <1>6 DEF Typed
    <2>5. free' = NChunks * Cardinality(Settled')
        BY <1>1, <2>1
    <2> QED BY <2>2, <2>3, <2>4, <2>5 DEF FreeOk
<1>9. BlocksOk'
    <2>1. \A b \in Blocks : UsedIn(b)' = {} /\ (AllErased(b)' <=> AllErased(b))
        BY <1>1, <1>2 DEF UsedIn, AllErased, DownOk
    <2> QED BY <1>1, <1>3, <1>5, <2>1 DEF BlocksOk
<1>10. ScanOk'
    <2>1. \A b \in Blocks : /\ state'[b] \in {"EMPTY", "NEEDS_SCANNING", "FULL", "DEAD"}
                            /\ b < 1 => state'[b] # "NEEDS_SCANNING"
                            /\ state'[b] # "FULL"
        BY <1>5, Numbers
    <2> QED BY <1>1, <1>2, <1>3, <1>4, <2>1, Numbers DEF ScanOk, DownOk
<1> QED BY <1>1, <1>6, <1>7, <1>8, <1>9, <1>10 DEF TInv

\* The page that is scanned.
LEMMA ScanningIs ==
    ASSUME TInv, Scanning
    PROVE  /\ mode = "scan" /\ todo = <<>> /\ pos[1] \in Blocks /\ pos[2] \in Columns /\ pos \in Pages
           /\ state[pos[1]] = "NEEDS_SCANNING" /\ pos[1] \notin Settled /\ pos[1] \notin bad /\ InBlock
           /\ pos \notin used /\ \A key \in Keys : map[key] # pos
           /\ NandOk /\ Typed /\ MapOk /\ UsedOk /\ FreeOk /\ BlocksOk /\ ScanOk
           /\ ~Deleting /\ ~Erasing /\ Pending = {} /\ PageOk(At(pos))
<1>1. /\ mode = "scan" /\ todo = <<>> /\ pos[1] \in Blocks /\ pos[2] < NChunks
      /\ state[pos[1]] = "NEEDS_SCANNING"
    BY DEF Scanning, InScan
<1>2. NandOk /\ Typed /\ MapOk /\ UsedOk /\ FreeOk /\ BlocksOk /\ ScanOk
    BY <1>1 DEF TInv
<1>3. ~Deleting /\ ~Erasing /\ Pending = {}
    BY <1>1, NoTask
<1>4. pos = <<pos[1], pos[2]>> /\ pos[2] \in Nat
    BY <1>2 DEF Typed
<1>5. pos[2] \in Columns
    BY <1>1, <1>4, Numbers DEF Columns
<1>6. pos \in Pages
    BY <1>1, <1>4, <1>5, PagesAre
<1>7. ~Visited(pos)
    BY <1>1, <1>4, Numbers DEF Visited
<1>8. pos \notin used
    BY <1>2, <1>7 DEF ScanOk
<1>9. \A key \in Keys : map[key] # pos
    BY <1>2, <1>6, <1>8, Numbers DEF MapOk
<1>10. pos[1] \notin Settled /\ pos[1] \notin bad
    BY <1>1, <1>2 DEF Settled, BlocksOk
<1>11. PageOk(At(pos))
    BY <1>1, <1>2, <1>5 DEF NandOk, At
<1> QED BY <1>1, <1>2, <1>3, <1>5, <1>6, <1>8, <1>9, <1>10, <1>11 DEF InBlock

\* What was met of a block stays met.
LEMMA OnwardIs ==
    ASSUME Typed, Onward
    PROVE  /\ pos'[1] = pos[1] /\ pos'[2] = pos[2] + 1 /\ pos' \in Nat \X Nat
           /\ \A page \in Pages : Visited(page)' <=> Visited(page) \/ page = pos
<1>1. pos = <<pos[1], pos[2]>> /\ pos[1] \in Nat /\ pos[2] \in Nat
    BY DEF Typed
<1>2. pos'[1] = pos[1] /\ pos'[2] = pos[2] + 1 /\ pos' \in Nat \X Nat
    BY <1>1 DEF Onward
<1>3. \A page \in Pages : Visited(page)' <=> Visited(page) \/ page = pos
    <2> TAKE page \in Pages
    <2>1. page = <<page[1], page[2]>> /\ page[1] \in Nat /\ page[2] \in Nat
        BY PagesAre, Numbers
    <2>2. page = pos <=> page[1] = pos[1] /\ page[2] = pos[2]
        BY <1>1, <2>1
    <2>3. page[2] < pos[2] + 1 <=> page[2] < pos[2] \/ page[2] = pos[2]
        BY <1>1, <2>1
    <2> QED BY <1>2, <2>2, <2>3 DEF Visited
<1> QED BY <1>2, <1>3

LEMMA ScanDeletedTypes ==
    ASSUME TInv, ScanDeleted
    PROVE  TInv'
<1>1. Scanning /\ free' = free + 1 /\ Onward
    BY DEF ScanDeleted
<1>2. UNCHANGED <<nand, bad, mode, state, used, map, serial, alloc, finder, gc, left, todo, saved, writes>>
    BY DEF ScanDeleted, device
<1>3. /\ mode = "scan" /\ todo = <<>> /\ pos[1] \in Blocks /\ pos[2] \in Columns
      /\ state[pos[1]] = "NEEDS_SCANNING" /\ InBlock
      /\ NandOk /\ Typed /\ MapOk /\ UsedOk /\ FreeOk /\ BlocksOk /\ ScanOk
    BY <1>1, ScanningIs
<1>4. /\ pos'[1] = pos[1] /\ pos'[2] = pos[2] + 1 /\ pos' \in Nat \X Nat
      /\ \A page \in Pages : Visited(page)' <=> Visited(page) \/ page = pos
    BY <1>1, <1>3, OnwardIs
<1>5. Typed'
    BY <1>1, <1>2, <1>3, <1>4 DEF Typed
<1>6. NandOk' /\ MapOk' /\ UsedOk' /\ BlocksOk'
    BY <1>2, <1>3 DEF NandOk, PageOk, MapOk, IsCopy, At, UsedOk, Pending, Deleting, BlocksOk, Erasing, UsedIn, AllErased
<1>7. FreeOk'
    <2>1. Settled' = Settled
        BY <1>2 DEF Settled
    <2>2. Part' = pos[2] + 1 /\ Part = pos[2] /\ pos[2] \in Nat
        BY <1>2, <1>3, <1>4, Numbers DEF Part, InBlock
    <2>3. PICK m \in Int, u \in Int : m = NChunks * Cardinality(Settled) /\ u = Cardinality(used)
        BY <1>3, Counts DEF Typed
    <2>4. free = m + Part - u /\ free' = m + Part' - u
        BY <1>1, <1>3, <2>2, <2>3 DEF FreeOk
    <2> QED BY <1>2, <2>1, <2>3, <2>4 DEF FreeOk
<1>8. ScanOk'
    <2>1. ~Deleting' /\ ~Erasing'
        BY <1>2, <1>3, NoTask
    <2>2. \A page \in used' : Visited(page)'
        BY <1>2, <1>3, <1>4 DEF ScanOk, Typed
    <2>3. pos'[2] <= NChunks
        BY <1>3, <1>4, Numbers
    <2> QED BY <1>2, <1>3, <1>4, <2>1, <2>2, <2>3 DEF ScanOk
<1> QED BY <1>2, <1>3, <1>5, <1>6, <1>7, <1>8 DEF TInv

LEMMA ScanErasedTypes ==
    ASSUME TagsCorrect, TInv, ScanErased
    PROVE  TInv'
<1>1. Scanning /\ Read(pos).result = "erased" /\ Onward /\ free' = free + NChunks - pos[2]
    <2>1. free' = free + (NChunks - pos[2])
        BY DEF ScanErased, Rest
    <2>2. free \in Int /\ pos[2] \in Int
        BY DEF TInv, Typed
    <2> QED BY <2>1, <2>2, Numbers DEF ScanErased
<1>2. /\ state' = [state EXCEPT ![pos[1]] = IF pos[2] = 0 THEN "EMPTY" ELSE "FULL"]
      /\ finder' = IF pos[2] = 0 THEN finder ELSE pos[1]
      /\ UNCHANGED <<nand, bad, mode, used, map, serial, alloc, gc, left, todo, saved, writes>>
    BY DEF ScanErased, device
<1>3. /\ mode = "scan" /\ todo = <<>> /\ pos[1] \in Blocks /\ pos[2] \in Columns /\ pos \in Pages
      /\ state[pos[1]] = "NEEDS_SCANNING" /\ pos[1] \notin Settled /\ pos[1] \notin bad /\ InBlock
      /\ NandOk /\ Typed /\ MapOk /\ UsedOk /\ FreeOk /\ BlocksOk /\ ScanOk
      /\ ~Deleting /\ ~Erasing /\ Pending = {} /\ PageOk(At(pos))
    BY <1>1, ScanningIs
<1>4. /\ pos'[1] = pos[1] /\ pos'[2] = pos[2] + 1 /\ pos' \in Nat \X Nat
      /\ \A page \in Pages : Visited(page)' <=> Visited(page) \/ page = pos
    BY <1>1, <1>3, OnwardIs
<1>5. /\ state'[pos[1]] = (IF pos[2] = 0 THEN "EMPTY" ELSE "FULL")
      /\ \A b \in Blocks : b # pos[1] => state'[b] = state[b]
    BY <1>2, <1>3 DEF Typed
<1>6. \A c \in Columns : pos[2] <= c => nand[pos[1]][c] = Erased
    <2>1. nand[pos[1]][pos[2]] = Erased
        BY <1>1, <1>3, ReadIs DEF At
    <2> QED BY <1>3, <2>1 DEF NandOk
<1>7. Typed'
    <2>1. state' \in [Blocks -> {"EMPTY", "ALLOCATING", "FULL", "COLLECTING", "DEAD", "NEEDS_SCANNING", "UNKNOWN"}]
        BY <1>2, <1>3 DEF Typed
    <2>2. finder' \in 0 .. NBlocks /\ free' \in Int
        BY <1>1, <1>2, <1>3, Numbers DEF Typed
    <2> QED BY <1>2, <1>3, <1>4, <2>1, <2>2 DEF Typed
<1>8. NandOk' /\ MapOk' /\ UsedOk'
    <2>1. NandOk'
        BY <1>2, <1>3 DEF NandOk, PageOk
    <2>2. MapOk'
        BY <1>2, <1>3 DEF MapOk, IsCopy, At, Pending, Deleting
    <2>3. UsedOk'
        BY <1>2, <1>3 DEF UsedOk, At, Pending, Deleting
    <2> QED BY <2>1, <2>2, <2>3
<1>9. FreeOk'
    <2>1. Settled' = Settled \cup {pos[1]}
        BY <1>3, <1>5 DEF Settled
    <2>2. Part' = 0 /\ Part = pos[2] /\ pos[2] \in Nat
        BY <1>2, <1>3, <1>4, <1>5, Numbers DEF Part, InBlock
    <2>3. NChunks * Cardinality(Settled') = NChunks * Cardinality(Settled) + NChunks
        BY <1>3, <2>1, SettledCounts
    <2>4. PICK m \in Int, u \in Int : m = NChunks * Cardinality(Settled) /\ u = Cardinality(used)
        BY <1>3, Counts DEF Typed
    <2>5. free = m + pos[2] - u
        BY <1>3, <2>2, <2>4 DEF FreeOk
    <2>6. NChunks * Cardinality(Settled') = m + NChunks
        BY <2>3, <2>4
    <2>7. free' = m + NChunks - u
        BY <1>1, <2>2, <2>4, <2>5, Numbers
    <2> QED BY <1>2, <2>2, <2>4, <2>6, <2>7, Numbers DEF FreeOk
<1>10. BlocksOk'
    <2>1. \A b \in Blocks : UsedIn(b)' = UsedIn(b) /\ (AllErased(b)' <=> AllErased(b))
        BY <1>2 DEF UsedIn, AllErased
    <2>2. state'[pos[1]] = "EMPTY" => AllErased(pos[1])
        <3>1. pos[2] = 0 => \A c \in Columns : pos[2] <= c
            BY DEF Columns
        <3> QED BY <1>5, <1>6, <3>1 DEF AllErased
    <2>3. \A b \in Blocks : /\ state'[b] = "DEAD" <=> b \in bad'
                            /\ state'[b] = "EMPTY" => AllErased(b)'
                            /\ state'[b] = "DEAD" => UsedIn(b)' = {}
        BY <1>2, <1>3, <1>5, <2>1, <2>2 DEF BlocksOk
    <2> QED BY <1>2, <1>3, <2>3, NoTask DEF BlocksOk
<1>11. ScanOk'
    <2>1. ~Deleting' /\ ~Erasing'
        BY <1>2, <1>3, NoTask
    <2>2. \A page \in used' : Visited(page)'
        BY <1>2, <1>3, <1>4 DEF ScanOk, Typed
    <2>3. pos'[2] <= NChunks
        BY <1>3, <1>4, Numbers
    <2>4. \A c \in Columns : c >= pos'[2] => nand'[pos[1]][c] = Erased
        <3>1. \A c \in Columns : c >= pos[2] + 1 => pos[2] <= c
            BY <1>3, Numbers
        <3> QED BY <1>2, <1>4, <1>6, <3>1
    <2>5. \A b \in Blocks : /\ state'[b] \in {"EMPTY", "NEEDS_SCANNING", "FULL", "DEAD"}
                            /\ b < pos'[1] => state'[b] # "NEEDS_SCANNING"
                            /\ b > pos'[1] => state'[b] # "FULL"
        BY <1>3, <1>4, <1>5, Numbers DEF ScanOk
    <2> QED BY <1>2, <1>3, <1>4, <2>1, <2>2, <2>3, <2>4, <2>5 DEF ScanOk
<1> QED BY <1>2, <1>3, <1>7, <1>8, <1>9, <1>10, <1>11 DEF TInv

\* What a scan makes of a chunk.
LEMMA ScanChunkIs ==
    ASSUME TagsCorrect, TInv, ScanChunk
    PROVE  \E key \in Keys :
              /\ Scanning /\ Onward /\ IsCopy(pos, key) /\ At(pos).serial \in 0 .. 3 /\ used' = used \cup {pos}
              /\ \/ /\ map[key] = None \/ NewerWins(At(map[key]).serial, At(pos).serial)
                    /\ map' = [map EXCEPT ![key] = pos]
                    /\ serial' = IF IsHeader(key) THEN [serial EXCEPT ![key[1]] = At(pos).serial] ELSE serial
                    /\ todo' = IF map[key] = None THEN <<>> ELSE <<DeleteOf(map[key])>>
                 \/ /\ map[key] # None /\ ~NewerWins(At(map[key]).serial, At(pos).serial)
                    /\ UNCHANGED <<map, serial>> /\ todo' = <<DeleteOf(pos)>>
              /\ UNCHANGED <<nand, bad, mode, state, free, alloc, finder, gc, left, saved, writes, bounds>>
<1>1. Scanning /\ Onward /\ Read(pos).result = "read" /\ Read(pos).key \in Keys /\ used' = used \cup {pos}
    BY DEF ScanChunk
<1>2. NandOk /\ Typed /\ MapOk /\ PageOk(At(pos))
    BY <1>1, ScanningIs
<1>3. PICK key \in Keys : key = Read(pos).key
    BY <1>1
<1>4. IsCopy(pos, key) /\ Read(pos).serial = At(pos).serial
    BY <1>1, <1>2, <1>3, ReadIs DEF IsCopy
<1>5. At(pos).serial \in 0 .. 3
    BY <1>2, <1>4 DEF PageOk, IsCopy
<1>6. PICK r : r = Resolved(key, At(pos).serial)
    OBVIOUS
<1>7. /\ map' = IF r.keeps THEN [map EXCEPT ![key] = pos] ELSE map
      /\ serial' = IF r.keeps /\ IsHeader(key) THEN [serial EXCEPT ![key[1]] = At(pos).serial] ELSE serial
      /\ todo' = r.deletes
    BY <1>3, <1>4, <1>6 DEF ScanChunk
<1>8. UNCHANGED <<nand, bad, mode, state, free, alloc, finder, gc, left, saved, writes, bounds>>
    BY DEF ScanChunk, device
<1>9. CASE map[key] = None
    <2>1. r.keeps = TRUE /\ r.deletes = <<>>
        BY <1>6, <1>9 DEF Resolved
    <2> QED BY <1>1, <1>4, <1>5, <1>7, <1>8, <1>9, <2>1
<1>10. CASE map[key] # None
    <2>1. Found(key) /\ Read(map[key]).serial = At(map[key]).serial
        BY <1>2, <1>10, FoundIs
    <2>2. IsHeader(key) => serial[key[1]] = At(map[key]).serial
        BY <1>2, <1>10 DEF MapOk
    <2>3. PICK newer \in BOOLEAN : newer = NewerWins(At(map[key]).serial, At(pos).serial)
        BY DEF NewerWins
    <2>4. NewerWins(IF IsHeader(key) THEN serial[key[1]] ELSE Read(map[key]).serial, At(pos).serial) = newer
        BY <2>1, <2>2, <2>3
    <2>5. r = [keeps |-> newer, deletes |-> IF ~newer THEN <<DeleteOf(pos)>> ELSE <<DeleteOf(map[key])>>]
        BY <1>6, <1>10, <2>1, <2>4 DEF Resolved
    <2>6. r.keeps = newer /\ r.deletes = IF ~newer THEN <<DeleteOf(pos)>> ELSE <<DeleteOf(map[key])>>
        BY <2>5
    <2>7. CASE newer
        BY <1>1, <1>4, <1>5, <1>7, <1>8, <1>10, <2>3, <2>6, <2>7
    <2>8. CASE ~newer
        BY <1>1, <1>4, <1>5, <1>7, <1>8, <1>10, <2>3, <2>6, <2>8
    <2> QED BY <2>7, <2>8
<1> QED BY <1>9, <1>10

LEMMA ScanChunkTypes ==
    ASSUME TagsCorrect, TInv, ScanChunk
    PROVE  TInv'
<1>1. PICK key \in Keys :
         /\ Scanning /\ Onward /\ IsCopy(pos, key) /\ At(pos).serial \in 0 .. 3 /\ used' = used \cup {pos}
         /\ \/ /\ map[key] = None \/ NewerWins(At(map[key]).serial, At(pos).serial)
               /\ map' = [map EXCEPT ![key] = pos]
               /\ serial' = IF IsHeader(key) THEN [serial EXCEPT ![key[1]] = At(pos).serial] ELSE serial
               /\ todo' = IF map[key] = None THEN <<>> ELSE <<DeleteOf(map[key])>>
            \/ /\ map[key] # None /\ ~NewerWins(At(map[key]).serial, At(pos).serial)
               /\ UNCHANGED <<map, serial>> /\ todo' = <<DeleteOf(pos)>>
         /\ UNCHANGED <<nand, bad, mode, state, free, alloc, finder, gc, left, saved, writes, bounds>>
    BY ScanChunkIs
<1>2. /\ mode = "scan" /\ todo = <<>> /\ pos[1] \in Blocks /\ pos[2] \in Columns /\ pos \in Pages
      /\ state[pos[1]] = "NEEDS_SCANNING" /\ pos[1] \notin Settled /\ pos[1] \notin bad /\ InBlock
      /\ pos \notin used /\ \A k \in Keys : map[k] # pos
      /\ NandOk /\ Typed /\ MapOk /\ UsedOk /\ FreeOk /\ BlocksOk /\ ScanOk
      /\ ~Deleting /\ ~Erasing /\ Pending = {} /\ PageOk(At(pos))
    BY <1>1, ScanningIs
<1>3. /\ pos'[1] = pos[1] /\ pos'[2] = pos[2] + 1 /\ pos' \in Nat \X Nat
      /\ \A page \in Pages : Visited(page)' <=> Visited(page) \/ page = pos
    BY <1>1, <1>2, OnwardIs
<1>4. /\ ~Erasing' /\ Pending' \subseteq used'
      /\ Deleting' => Pending' # {}
      /\ todo' \in Tasks
    <2>1. map[key] # None => map[key] \in used /\ map[key] \in Pages
        BY <1>2 DEF MapOk, Typed
    <2>2. CASE todo' = <<>>
        BY <2>2, NoTask DEF Tasks
    <2>3. CASE todo' = <<DeleteOf(pos)>>
        <3>1. Pending' = {pos} /\ ~Erasing'
            BY <2>3, DeleteTask
        <3> QED BY <1>1, <1>2, <2>3, <3>1 DEF Tasks
    <2>4. CASE map[key] # None /\ todo' = <<DeleteOf(map[key])>>
        <3>1. Pending' = {map[key]} /\ ~Erasing'
            BY <2>4, DeleteTask
        <3> QED BY <1>1, <2>1, <2>4, <3>1 DEF Tasks
    <2> QED BY <1>1, <2>2, <2>3, <2>4
<1>5. \/ /\ map' = [map EXCEPT ![key] = pos]
         /\ serial' = IF IsHeader(key) THEN [serial EXCEPT ![key[1]] = At(pos).serial] ELSE serial
         /\ Pending' = IF map[key] = None THEN {} ELSE {map[key]}
      \/ UNCHANGED <<map, serial>> /\ Pending' = {pos} /\ map[key] # None
    BY <1>1, NoTask, DeleteTask
<1>6. Typed'
    <2>1. map' \in [Keys -> Pages \cup {None}] /\ used' \subseteq Pages
        BY <1>1, <1>2 DEF Typed
    <2>2. serial' \in [Objects -> 0 .. 3]
        BY <1>1, <1>2, KeysAre DEF Typed
    <2> QED BY <1>1, <1>2, <1>3, <1>4, <2>1, <2>2 DEF Typed
<1>7. NandOk' /\ BlocksOk'
    <2>1. NandOk'
        BY <1>1, <1>2 DEF NandOk, PageOk
    <2>2. \A b \in Blocks : /\ AllErased(b)' <=> AllErased(b)
                            /\ b # pos[1] => UsedIn(b)' = UsedIn(b)
        BY <1>1 DEF UsedIn, AllErased
    <2>3. \A b \in Blocks : /\ state'[b] = "DEAD" <=> b \in bad'
                            /\ state'[b] = "EMPTY" => AllErased(b)'
                            /\ state'[b] = "DEAD" => UsedIn(b)' = {}
        BY <1>1, <1>2, <2>2 DEF BlocksOk
    <2> QED BY <1>4, <2>1, <2>3 DEF BlocksOk
<1>8. MapOk'
    <2> SUFFICES ASSUME NEW k \in Keys, map'[k] # None
                 PROVE  /\ IsCopy(map[k], k)' /\ map'[k] \in used' /\ map'[k] \notin Pending'
                        /\ IsHeader(k) => serial'[k[1]] = At(map[k])'.serial
        BY DEF MapOk
    <2>1. CASE map'[k] = pos
        <3>1. /\ k = key /\ Pending' = IF map[key] = None THEN {} ELSE {map[key]}
              /\ serial' = IF IsHeader(key) THEN [serial EXCEPT ![key[1]] = At(pos).serial] ELSE serial
            BY <1>2, <1>5, <2>1 DEF Typed
        <3>2. IsHeader(k) => serial'[k[1]] = At(pos).serial
            BY <1>2, <3>1, KeysAre DEF Typed
        <3> QED BY <1>1, <1>2, <2>1, <3>1, <3>2 DEF IsCopy, At
    <2>2. CASE map'[k] # pos
        <3>1. map'[k] = map[k]
            BY <1>2, <1>5, <2>2 DEF Typed
        <3>2. /\ IsCopy(map[k], k) /\ map[k] \in used /\ map[k] # pos
              /\ IsHeader(k) => serial[k[1]] = At(map[k]).serial
            BY <1>2, <3>1 DEF MapOk
        <3>3. CASE k = key
            <4>1. UNCHANGED <<map, serial>> /\ Pending' = {pos}
                BY <1>2, <1>5, <2>2, <3>3 DEF Typed
            <4> QED BY <1>1, <3>1, <3>2, <4>1 DEF IsCopy, At
        <3>4. CASE k # key
            <4>1. IsHeader(k) => serial'[k[1]] = serial[k[1]]
                BY <1>2, <1>5, <3>4, KeysAre DEF Typed
            <4>2. map[key] # None => map[k] # map[key]
                BY <1>2, <3>2, <3>4 DEF MapOk, IsCopy
            <4>3. map[k] \notin Pending'
                BY <1>5, <3>2, <4>2
            <4> QED BY <1>1, <3>1, <3>2, <4>1, <4>3 DEF IsCopy, At
        <3> QED BY <3>3, <3>4
    <2> QED BY <2>1, <2>2
<1>9. UsedOk'
    <2>1. ASSUME NEW q \in used'
          PROVE  At(q)'.state = "written" /\ (q \in Pending' \/ \E k \in Keys : map'[k] = q)
        <3>1. At(q)' = At(q)
            BY <1>1 DEF At
        <3>2. CASE q = pos
            <4>1. At(q).state = "written"
                BY <1>1, <3>2 DEF IsCopy
            <4>2. q \in Pending' \/ map'[key] = q
                BY <1>2, <1>5, <3>2 DEF Typed
            <4> QED BY <3>1, <4>1, <4>2
        <3>3. CASE q # pos
            <4>1. q \in used /\ At(q).state = "written" /\ \E k \in Keys : map[k] = q
                BY <1>1, <1>2, <3>3 DEF UsedOk
            <4>2. q # None
                BY <1>2, <4>1, Numbers DEF Typed
            <4>3. PICK k \in Keys : map[k] = q
                BY <4>1
            <4>4. q \in Pending' \/ map'[k] = q
                BY <1>2, <1>5, <4>2, <4>3 DEF Typed
            <4> QED BY <3>1, <4>1, <4>4
        <3> QED BY <3>2, <3>3
    <2> QED BY <1>4, <2>1 DEF UsedOk
<1>10. FreeOk'
    <2>1. Settled' = Settled
        BY <1>1 DEF Settled
    <2>2. Part' = pos[2] + 1 /\ Part = pos[2] /\ pos[2] \in Nat
        BY <1>1, <1>2, <1>3, Numbers DEF Part, InBlock
    <2>3. Cardinality(used') = Cardinality(used) + 1
        BY <1>1, <1>2, UsedCounts DEF Typed
    <2>4. PICK m \in Int, u \in Int : m = NChunks * Cardinality(Settled) /\ u = Cardinality(used)
        BY <1>2, Counts DEF Typed
    <2>5. free = m + Part - u /\ free = m + Part' - (u + 1)
        BY <1>2, <2>2, <2>4 DEF FreeOk
    <2> QED BY <1>1, <2>1, <2>3, <2>4, <2>5 DEF FreeOk
<1>11. ScanOk'
    <2>1. \A page \in used' : Visited(page)'
        BY <1>1, <1>2, <1>3 DEF ScanOk, Typed
    <2>2. pos'[2] <= NChunks
        BY <1>2, <1>3, Numbers
    <2>3. InBlock'
        BY <1>1, <1>2, <1>3 DEF InBlock
    <2> QED BY <1>1, <1>2, <1>3, <1>4, <2>1, <2>2, <2>3 DEF ScanOk
<1> QED BY <1>1, <1>2, <1>6, <1>7, <1>8, <1>9, <1>10, <1>11 DEF TInv

\* What a scan makes of a block.
LEMMA BlockDoneIs ==
    ASSUME TInv, ScanBlockDone
    PROVE  /\ mode = "scan" /\ todo = <<>> /\ pos[1] \in Blocks /\ pos'[1] = pos[1] + 1 /\ pos'[2] = 0 /\ pos' \in Nat \X Nat
           /\ NandOk /\ Typed /\ MapOk /\ UsedOk /\ FreeOk /\ BlocksOk /\ ScanOk
           /\ ~Deleting /\ ~Erasing /\ Pending = {}
           /\ state[pos[1]] = "NEEDS_SCANNING" => pos[2] = NChunks
           /\ state' = [state EXCEPT ![pos[1]] = state'[pos[1]]]
           /\ state'[pos[1]] = IF state[pos[1]] = "NEEDS_SCANNING" THEN "FULL" ELSE state[pos[1]]
           /\ \A b \in Blocks : b # pos[1] => state'[b] = state[b]
           /\ todo' = IF state'[pos[1]] = "FULL" /\ UsedIn(pos[1]) = {} THEN <<EraseOf(pos[1])>> ELSE <<>>
           /\ UNCHANGED <<nand, bad, mode, used, map, serial, free, alloc, finder, gc, left, saved, writes>>
<1>1. mode = "scan" /\ todo = <<>> /\ pos[1] \in Blocks /\ ~Scanning /\ pos' = <<pos[1] + 1, 0>>
    BY DEF ScanBlockDone, InScan
<1>2. NandOk /\ Typed /\ MapOk /\ UsedOk /\ FreeOk /\ BlocksOk /\ ScanOk
    BY <1>1 DEF TInv
<1>3. pos[1] \in Nat /\ pos[2] \in Nat
    BY <1>2 DEF Typed
<1>4. state[pos[1]] = "NEEDS_SCANNING" => pos[2] = NChunks
    BY <1>1, <1>2, <1>3, Numbers DEF Scanning, InScan, ScanOk
<1>5. ~Deleting /\ ~Erasing /\ Pending = {}
    BY <1>1, NoTask
<1>6. PICK done : done = IF state[pos[1]] = "NEEDS_SCANNING" THEN "FULL" ELSE state[pos[1]]
    OBVIOUS
<1>7. /\ state' = [state EXCEPT ![pos[1]] = done]
      /\ todo' = IF done = "FULL" /\ UsedIn(pos[1]) = {} THEN <<EraseOf(pos[1])>> ELSE <<>>
    BY <1>6 DEF ScanBlockDone
<1>8. state'[pos[1]] = done /\ \A b \in Blocks : b # pos[1] => state'[b] = state[b]
    BY <1>1, <1>2, <1>7 DEF Typed
<1>9. pos'[1] = pos[1] + 1 /\ pos'[2] = 0 /\ pos' \in Nat \X Nat
    BY <1>1, <1>3
<1>10. UNCHANGED <<nand, bad, mode, used, map, serial, free, alloc, finder, gc, left, saved, writes>>
    BY DEF ScanBlockDone, device
<1> QED BY <1>1, <1>2, <1>4, <1>5, <1>6, <1>7, <1>8, <1>9, <1>10

LEMMA BlockDoneTypes ==
    ASSUME TInv, ScanBlockDone
    PROVE  TInv'
<1>1. /\ mode = "scan" /\ todo = <<>> /\ pos[1] \in Blocks /\ pos'[1] = pos[1] + 1 /\ pos'[2] = 0 /\ pos' \in Nat \X Nat
      /\ NandOk /\ Typed /\ MapOk /\ UsedOk /\ FreeOk /\ BlocksOk /\ ScanOk
      /\ ~Deleting /\ ~Erasing /\ Pending = {}
      /\ state[pos[1]] = "NEEDS_SCANNING" => pos[2] = NChunks
      /\ state' = [state EXCEPT ![pos[1]] = state'[pos[1]]]
      /\ state'[pos[1]] = (IF state[pos[1]] = "NEEDS_SCANNING" THEN "FULL" ELSE state[pos[1]])
      /\ \A b \in Blocks : b # pos[1] => state'[b] = state[b]
      /\ todo' = IF state'[pos[1]] = "FULL" /\ UsedIn(pos[1]) = {} THEN <<EraseOf(pos[1])>> ELSE <<>>
      /\ UNCHANGED <<nand, bad, mode, used, map, serial, free, alloc, finder, gc, left, saved, writes>>
    BY BlockDoneIs
<1>2. /\ ~Deleting' /\ Pending' = {}
      /\ Erasing' => Head(todo').page[1] = pos[1] /\ UsedIn(pos[1]) = {} /\ state'[pos[1]] = "FULL"
    BY <1>1, NoTask, EraseTask
<1>3. Typed'
    <2>1. state' \in [Blocks -> {"EMPTY", "ALLOCATING", "FULL", "COLLECTING", "DEAD", "NEEDS_SCANNING", "UNKNOWN"}]
        BY <1>1 DEF Typed
    <2>2. todo' \in Tasks
        BY <1>1 DEF Tasks
    <2> QED BY <1>1, <2>1, <2>2 DEF Typed
<1>4. NandOk' /\ MapOk' /\ UsedOk'
    <2>1. NandOk'
        BY <1>1 DEF NandOk, PageOk
    <2>2. MapOk'
        BY <1>1, <1>2 DEF MapOk, IsCopy, At
    <2>3. UsedOk'
        BY <1>1, <1>2 DEF UsedOk, At
    <2> QED BY <2>1, <2>2, <2>3
<1>5. FreeOk'
    <2>1. Part' = 0
        BY <1>1 DEF Part
    <2>2. CASE state[pos[1]] = "NEEDS_SCANNING"
        <3>1. Settled' = Settled \cup {pos[1]} /\ pos[1] \notin Settled
            BY <1>1, <2>2 DEF Settled
        <3>2. Part = NChunks
            BY <1>1, <2>2 DEF Part, InBlock
        <3>3. NChunks * Cardinality(Settled') = NChunks * Cardinality(Settled) + NChunks
            BY <3>1, SettledCounts
        <3>4. PICK m \in Int, n \in Int, u \in Int :
                 m = NChunks * Cardinality(Settled) /\ n = NChunks * Cardinality(Settled') /\ u = Cardinality(used)
            BY <1>1, <3>3, Counts, Numbers DEF Typed
        <3>5. free = m + Part - u /\ n = m + NChunks
            BY <1>1, <3>3, <3>4 DEF FreeOk
        <3>6. free = n + Part' - u
            BY <2>1, <3>2, <3>4, <3>5, Numbers
        <3> QED BY <1>1, <3>4, <3>6 DEF FreeOk
    <2>3. CASE state[pos[1]] # "NEEDS_SCANNING"
        <3>1. Settled' = Settled /\ Part = 0
            BY <1>1, <2>3 DEF Settled, Part, InBlock
        <3> QED BY <1>1, <2>1, <3>1 DEF FreeOk
    <2> QED BY <2>2, <2>3
<1>6. BlocksOk'
    <2>1. \A b \in Blocks : UsedIn(b)' = UsedIn(b) /\ (AllErased(b)' <=> AllErased(b))
        BY <1>1 DEF UsedIn, AllErased
    <2>2. Erasing' => UsedIn(Head(todo).page[1])' = {}
        BY <1>1, <1>2 DEF UsedIn
    <2>3. \A b \in Blocks : /\ state'[b] = "DEAD" <=> b \in bad'
                            /\ state'[b] = "EMPTY" => AllErased(b)'
                            /\ state'[b] = "DEAD" => UsedIn(b)' = {}
        BY <1>1, <2>1 DEF BlocksOk
    <2> QED BY <2>2, <2>3 DEF BlocksOk
<1>7. ScanOk'
    <2>1. pos[1] \in Nat /\ pos[2] \in Nat
        BY <1>1 DEF Typed
    <2>2. \A b \in Blocks : /\ state'[b] \in {"EMPTY", "NEEDS_SCANNING", "FULL", "DEAD"}
                            /\ b < pos[1] + 1 => state'[b] # "NEEDS_SCANNING"
                            /\ b >= pos[1] + 1 => state'[b] # "FULL"
        <3> TAKE b \in Blocks
        <3>1. b \in Nat
            BY Numbers
        <3>2. CASE b = pos[1]
            BY <1>1, <2>1, <3>2 DEF ScanOk
        <3>3. CASE b # pos[1]
            BY <1>1, <2>1, <3>1, <3>3 DEF ScanOk
        <3> QED BY <3>2, <3>3
    <2>3. \A page \in used' : Visited(page)'
        <3> SUFFICES ASSUME NEW page \in used PROVE page[1] < pos[1] + 1
            BY <1>1 DEF Visited
        <3>1. Visited(page) /\ page[1] \in Nat
            BY <1>1, PagesAre, Numbers DEF ScanOk, Typed
        <3> QED BY <2>1, <3>1 DEF Visited
    <2>4. ~(pos'[1] \in Blocks /\ state'[pos'[1]] = "FULL")
        BY <1>1, <2>1, <2>2
    <2>5. \A b \in Blocks : /\ state'[b] \in {"EMPTY", "NEEDS_SCANNING", "FULL", "DEAD"}
                            /\ b < pos'[1] => state'[b] # "NEEDS_SCANNING"
                            /\ b > pos'[1] => state'[b] # "FULL"
        BY <1>1, <2>1, <2>2, Numbers
    <2>6. Erasing' => state'[Head(todo').page[1]] = "FULL" /\ Head(todo').page[1] < pos'[1]
        BY <1>1, <1>2, <2>1
    <2> QED BY <1>1, <1>2, <2>1, <2>3, <2>4, <2>5, <2>6, Numbers DEF ScanOk
<1> QED BY <1>1, <1>3, <1>4, <1>5, <1>6, <1>7 DEF TInv

LEMMA EndScanTypes ==
    ASSUME TInv, EndScan
    PROVE  TInv'
<1>1. /\ mode = "scan" /\ todo = <<>> /\ pos[1] > NBlocks /\ mode' = "up" /\ pos' = <<0, 0>>
      /\ UNCHANGED <<nand, bad, state, used, map, serial, free, alloc, finder, gc, left, todo, saved, writes>>
    BY DEF EndScan, device
<1>2. NandOk /\ Typed /\ MapOk /\ UsedOk /\ FreeOk /\ BlocksOk /\ ScanOk
    BY <1>1 DEF TInv
<1>3. ~Deleting /\ ~Erasing /\ ~Deleting' /\ ~Erasing' /\ Pending = {} /\ Pending' = {}
    BY <1>1, NoTask
<1>4. Typed'
    BY <1>1, <1>2 DEF Typed
<1>5. NandOk' /\ MapOk' /\ UsedOk'
    <2>1. NandOk'
        BY <1>1, <1>2 DEF NandOk, PageOk
    <2>2. MapOk'
        BY <1>1, <1>2, <1>3 DEF MapOk, IsCopy, At
    <2>3. UsedOk'
        BY <1>1, <1>2, <1>3 DEF UsedOk, At
    <2> QED BY <2>1, <2>2, <2>3
<1>6. FreeOk'
    <2>1. pos[1] \notin Blocks
        BY <1>1, <1>2, Numbers DEF Typed
    <2>2. Settled' = Settled /\ Part = 0 /\ Part' = 0
        BY <1>1, <2>1 DEF Settled, Part, InBlock
    <2> QED BY <1>1, <1>2, <2>2 DEF FreeOk
<1>7. BlocksOk'
    BY <1>1, <1>2, <1>3 DEF BlocksOk, UsedIn, AllErased
<1>8. UpOk'
    <2>1. \A b \in Blocks : state[b] \in {"EMPTY", "FULL", "DEAD"}
        <3> TAKE b \in Blocks
        <3>1. b < pos[1]
            BY <1>1, <1>2, Numbers DEF Typed
        <3> QED BY <1>2, <3>1 DEF ScanOk
    <2> QED BY <1>1, <1>2, <1>3, <2>1 DEF UpOk, ScanOk
<1> QED BY <1>1, <1>4, <1>5, <1>6, <1>7, <1>8 DEF TInv

(***************************************************************************)
(* The invariant.                                                          *)
(***************************************************************************)
LEMMA InitTypes ==
    ASSUME Init
    PROVE  TInv
<1>1. /\ nand = [b \in Blocks |-> [c \in 0 .. NChunks - 1 |-> Erased]] /\ bad = {}
      /\ mode = "up" /\ state = [b \in Blocks |-> "EMPTY"] /\ used = {}
      /\ map = [key \in Keys |-> None] /\ serial = [o \in Objects |-> 0]
      /\ free = NBlocks * NChunks /\ alloc = None /\ finder = 0 /\ gc = 0 /\ left = 0 /\ todo = <<>> /\ pos = <<0, 0>>
      /\ saved = [key \in Keys |-> 0] /\ writes = 0
    BY DEF Init
<1>2. ~Deleting /\ ~Erasing /\ Pending = {}
    BY <1>1, NoTask
<1>3. NandOk
    <2>1. PICK erased : erased = [c \in Columns |-> Erased]
        OBVIOUS
    <2>2. DOMAIN erased = Columns /\ \A c \in Columns : erased[c] = Erased
        BY <2>1
    <2>3. DOMAIN nand = Blocks /\ \A b \in Blocks : nand[b] = erased
        BY <1>1, <2>1 DEF Columns
    <2>4. PageOk(Erased)
        BY ValuesAre
    <2> QED BY <2>2, <2>3, <2>4 DEF NandOk
<1>4. \A b \in Blocks : AllErased(b)
    <2> SUFFICES ASSUME NEW b \in Blocks, NEW c \in Columns PROVE nand[b][c] = Erased
        BY DEF AllErased
    <2> QED BY <1>1 DEF Columns
<1>5. Typed
    BY <1>1, Numbers DEF Typed, Tasks
<1>6. FreeOk
    <2>1. Settled = Blocks /\ Part = 0
        BY <1>1 DEF Settled, Part
    <2>2. Cardinality(used) = 0 /\ Cardinality(Settled) = NBlocks
        BY <1>1, <2>1, FS_EmptySet, Counts
    <2>3. NBlocks * NChunks = NChunks * NBlocks /\ NChunks * NBlocks \in Int
        BY Numbers
    <2> QED BY <1>1, <2>1, <2>2, <2>3 DEF FreeOk
<1>7. MapOk /\ UsedOk /\ BlocksOk /\ UpOk
    BY <1>1, <1>2, <1>4 DEF MapOk, UsedOk, BlocksOk, UpOk, UsedIn
<1> QED BY <1>1, <1>3, <1>5, <1>6, <1>7 DEF TInv

\* Every step keeps it.
LEMMA StepTypes ==
    ASSUME TagsCorrect, TInv, [Next]_vars
    PROVE  TInv'
<1>1. ASSUME UNCHANGED vars PROVE TInv'
    <2>1. /\ UNCHANGED <<nand, bad, mode, state, used, map, serial, free, alloc, finder, gc, left, todo, pos>>
          /\ UNCHANGED <<saved, writes>>
        BY <1>1 DEF vars, device, ram
    <2>2. NandOk /\ Typed /\ MapOk /\ UsedOk /\ FreeOk
        BY DEF TInv
    <2>3. NandOk'
        BY <2>1, <2>2 DEF NandOk, PageOk
    <2>4. Typed'
        BY <2>1, <2>2 DEF Typed
    <2>5. MapOk' /\ UsedOk'
        BY <2>1, <2>2 DEF MapOk, UsedOk, IsCopy, At, Pending, Deleting
    <2>6. FreeOk'
        BY <2>1, <2>2 DEF FreeOk, Settled, Part, InBlock
    <2>7. mode' = "down" => DownOk'
        BY <2>1 DEF TInv, DownOk
    <2>8. mode' # "down" => BlocksOk'
        BY <2>1 DEF TInv, BlocksOk, AllErased, UsedIn, Erasing
    <2>9. mode' = "up" => UpOk'
        BY <2>1 DEF TInv, UpOk, At, Erasing, Deleting, Collecting
    <2>10. mode' = "scan" => ScanOk'
        BY <2>1 DEF TInv, ScanOk, Visited, Erasing, Deleting, InBlock
    <2> QED BY <2>3, <2>4, <2>5, <2>6, <2>7, <2>8, <2>9, <2>10 DEF TInv
<1>2. CASE \E key \in Keys : Write(key)
    BY <1>2, WriteTypes
<1>3. CASE DeleteChunk
    BY <1>3, DeleteTypes
<1>4. CASE Erase
    BY <1>4, EraseTypes
<1>5. CASE Retire
    BY <1>5, RetireTypes
<1>6. CASE Collect
    BY <1>6, CollectTypes
<1>7. CASE Copy
    BY <1>7, CopyTypes
<1>8. CASE Crash
    BY <1>8, CrashTypes
<1>9. CASE FlipBit
    BY <1>9, FlipTypes
<1>10. CASE BeginScan
    BY <1>10, BeginScanTypes
<1>11. CASE ScanDeleted
    BY <1>11, ScanDeletedTypes
<1>12. CASE ScanErased
    BY <1>12, ScanErasedTypes
<1>13. CASE ScanChunk
    BY <1>13, ScanChunkTypes
<1>14. CASE ScanBlockDone
    BY <1>14, BlockDoneTypes
<1>15. CASE EndScan
    BY <1>15, EndScanTypes
<1> QED BY <1>1, <1>2, <1>3, <1>4, <1>5, <1>6, <1>7, <1>8, <1>9, <1>10, <1>11, <1>12, <1>13, <1>14, <1>15 DEF Next

\* The pages in use are those of the blocks that are counted.
LEMMA UsedBounded ==
    ASSUME TInv
    PROVE  free \in 0 .. NBlocks * NChunks
<1>1. Typed /\ NandOk /\ UsedOk /\ FreeOk
    BY DEF TInv
<1>2. PICK S : S = IF mode = "scan" /\ InBlock THEN {pos[1]} ELSE {}
    OBVIOUS
<1>3. PICK P : P = IF mode = "scan" /\ InBlock THEN {pos[1]} \X (0 .. pos[2] - 1) ELSE {}
    OBVIOUS
<1>4. pos[1] \in Nat /\ pos[2] \in Nat /\ Part \in Nat
    BY <1>1 DEF Typed, Part
<1>5. IsFiniteSet(P) /\ Cardinality(P) = Part
    <2>1. CASE mode = "scan" /\ InBlock
        <3>1. IsFiniteSet(0 .. pos[2] - 1) /\ Cardinality(0 .. pos[2] - 1) = pos[2]
            <4>1. 0 \in Int /\ pos[2] - 1 \in Int
                BY <1>4
            <4>2. /\ IsFiniteSet(0 .. pos[2] - 1)
                  /\ Cardinality(0 .. pos[2] - 1) = IF 0 > pos[2] - 1 THEN 0 ELSE pos[2] - 1 - 0 + 1
                BY <4>1, FS_Interval
            <4> QED BY <1>4, <4>2
        <3>2. IsFiniteSet({pos[1]}) /\ Cardinality({pos[1]}) = 1
            BY FS_Singleton
        <3>3. PICK A, B : A = {pos[1]} /\ B = 0 .. pos[2] - 1
            OBVIOUS
        <3>4. IsFiniteSet(A \X B) /\ Cardinality(A \X B) = Cardinality(A) * Cardinality(B)
            BY <3>1, <3>2, <3>3, FS_Product
        <3>5. P = A \X B
            BY <1>3, <2>1, <3>3
        <3>6. Cardinality(P) = 1 * pos[2]
            BY <3>1, <3>2, <3>3, <3>4, <3>5
        <3> QED BY <1>4, <2>1, <3>4, <3>5, <3>6 DEF Part
    <2>2. CASE ~(mode = "scan" /\ InBlock)
        BY <1>3, <2>2, FS_EmptySet DEF Part
    <2> QED BY <2>1, <2>2
<1>6. IsFiniteSet(Settled \X Columns) /\ Cardinality(Settled \X Columns) = Cardinality(Settled) * NChunks
    BY Counts, FS_Product
<1>7. used \subseteq (Settled \X Columns) \cup P
    <2> SUFFICES ASSUME NEW page \in used PROVE page \in (Settled \X Columns) \cup P
        OBVIOUS
    <2>1. page \in Pages /\ page[1] \in Blocks /\ page[2] \in Columns /\ page = <<page[1], page[2]>>
        BY <1>1, PagesAre DEF Typed
    <2>2. mode # "down" /\ mode \in {"up", "scan"}
        BY <1>1 DEF TInv, DownOk, Typed
    <2>3. state[page[1]] # "DEAD"
        BY <1>1, <2>1, <2>2, UsedBlocks DEF TInv
    <2>4. state[page[1]] \in {"EMPTY", "ALLOCATING", "FULL", "COLLECTING", "DEAD", "NEEDS_SCANNING", "UNKNOWN"}
        BY <1>1, <2>1 DEF Typed
    <2>5. page[1] \in Settled => page \in Settled \X Columns
        BY <2>1
    <2>6. CASE mode = "up"
        <3>1. page[1] \in Settled
            BY <2>1, <2>3, <2>4, <2>6 DEF TInv, UpOk, Settled
        <3> QED BY <2>5, <3>1
    <2>7. CASE mode = "scan"
        <3>1. ScanOk
            BY <2>7 DEF TInv
        <3>2. page[1] \in Nat /\ page[2] \in Nat
            BY <2>1, Numbers
        <3>3. CASE state[page[1]] = "NEEDS_SCANNING"
            <4>1. page[1] = pos[1] /\ page[2] < pos[2]
                BY <2>1, <3>1, <3>3 DEF ScanOk, Visited
            <4>2. InBlock /\ page[2] \in 0 .. pos[2] - 1
                BY <1>4, <2>1, <3>2, <3>3, <4>1 DEF InBlock
            <4> QED BY <1>3, <2>1, <2>7, <4>1, <4>2
        <3>4. CASE state[page[1]] # "NEEDS_SCANNING"
            <4>1. page[1] \in Settled
                BY <2>1, <2>3, <2>4, <3>1, <3>4 DEF ScanOk, Settled
            <4> QED BY <2>5, <4>1
        <3> QED BY <3>3, <3>4
    <2> QED BY <2>2, <2>6, <2>7
<1>8. PICK n \in Nat, u \in Nat, m \in Nat :
         n = Cardinality(Settled) * NChunks /\ u = Cardinality(used) /\ m = NChunks * Cardinality(Settled)
    BY <1>1, Counts, Numbers DEF Typed
<1>9. u <= n + Part
    <2>1. IsFiniteSet((Settled \X Columns) \cup P) /\ IsFiniteSet((Settled \X Columns) \cap P)
        BY <1>5, <1>6, FS_Union, FS_Intersection
    <2>2. Cardinality((Settled \X Columns) \cup P)
             = Cardinality(Settled \X Columns) + Cardinality(P) - Cardinality((Settled \X Columns) \cap P)
        BY <1>5, <1>6, FS_Union
    <2>3. Cardinality((Settled \X Columns) \cap P) \in Nat
        BY <2>1, FS_CardinalityType
    <2>4. u <= Cardinality((Settled \X Columns) \cup P)
        BY <1>7, <1>8, <2>1, FS_Subset
    <2>5. Cardinality((Settled \X Columns) \cup P) <= n + Part
        BY <1>4, <1>5, <1>6, <1>8, <2>2, <2>3
    <2>6. Cardinality((Settled \X Columns) \cup P) \in Nat
        BY <2>1, FS_CardinalityType
    <2> QED BY <1>4, <1>8, <2>4, <2>5, <2>6
<1>10. n = m
    BY <1>8, Counts, Numbers
<1>11. m + Part <= NBlocks * NChunks
    <2>1. IsFiniteSet(S) /\ Settled \cap S = {} /\ Settled \cup S \subseteq Blocks
        <3>1. IsFiniteSet(S)
            BY <1>2, FS_EmptySet, FS_Singleton
        <3> QED BY <1>2, <3>1 DEF Settled, InBlock
    <2>2. Cardinality(Settled) + Cardinality(S) <= NBlocks
        <3>1. Cardinality(Settled \cup S) <= NBlocks
            BY <2>1, Counts, FS_Subset
        <3>2. Cardinality(Settled \cup S) = Cardinality(Settled) + Cardinality(S) - Cardinality(Settled \cap S)
            BY <2>1, Counts, FS_Union
        <3>3. Cardinality(Settled \cap S) = 0 /\ Cardinality(S) \in Nat
            BY <2>1, FS_EmptySet, FS_CardinalityType
        <3> QED BY <3>1, <3>2, <3>3, Counts
    <2>3. PICK k \in Nat : k = Cardinality(Settled)
        BY Counts
    <2>4. CASE mode = "scan" /\ InBlock
        <3>1. Cardinality(S) = 1
            BY <1>2, <2>4, FS_Singleton
        <3>2. Part = pos[2] /\ pos[2] <= NChunks
            BY <2>4 DEF Part, TInv, ScanOk
        <3>3. k + 1 <= NBlocks
            BY <2>2, <2>3, <3>1
        <3>4. NChunks * (k + 1) <= NChunks * NBlocks /\ NChunks * (k + 1) = NChunks * k + NChunks
            BY <3>3, Numbers, Times
        <3> QED BY <1>4, <1>8, <2>3, <3>2, <3>4, Numbers
    <2>5. CASE ~(mode = "scan" /\ InBlock)
        <3>1. Part = 0 /\ k <= NBlocks
            <4>1. Cardinality(S) = 0
                BY <1>2, <2>5, FS_EmptySet
            <4> QED BY <2>2, <2>3, <2>5, <4>1 DEF Part
        <3>2. NChunks * k <= NChunks * NBlocks
            BY <3>1, <2>3, Numbers
        <3> QED BY <1>8, <2>3, <3>1, <3>2, Numbers
    <2> QED BY <2>4, <2>5
<1>12. free = m + Part - u
    BY <1>1, <1>8 DEF FreeOk
<1>13. PICK most \in Int : most = NBlocks * NChunks
    BY Numbers
<1> QED BY <1>4, <1>8, <1>9, <1>10, <1>11, <1>12, <1>13

LEMMA TypesFollow ==
    ASSUME TInv
    PROVE  TypeOK
<1>1. Typed /\ FreeOk
    BY DEF TInv
<1>2. ASSUME mode = "up"
      PROVE  /\ free = NChunks * Cardinality({b \in Blocks : state[b] # "DEAD"}) - Cardinality(used)
             /\ \A b \in Empty, c \in 0 .. NChunks - 1 : nand[b][c] = Erased
    <2>1. UpOk /\ BlocksOk
        BY <1>2 DEF TInv
    <2>2. Settled = {b \in Blocks : state[b] # "DEAD"}
        BY <1>1, <2>1 DEF Settled, UpOk, Typed
    <2>3. Part = 0
        BY <1>2 DEF Part
    <2>4. PICK m \in Int, u \in Int : m = NChunks * Cardinality(Settled) /\ u = Cardinality(used)
        BY <1>1, Counts DEF Typed
    <2>5. free = m - u
        BY <1>1, <2>3, <2>4 DEF FreeOk
    <2>6. \A b \in Empty, c \in 0 .. NChunks - 1 : nand[b][c] = Erased
        BY <2>1 DEF BlocksOk, Empty, AllErased, Columns
    <2> QED BY <2>2, <2>4, <2>5, <2>6
<1>3. free \in 0 .. NBlocks * NChunks
    BY UsedBounded
<1> QED BY <1>1, <1>2, <1>3 DEF TypeOK, Typed

\* What TagsMended says covers the bits that flip.
LEMMA TagsAreCorrect ==
    ASSUME FlippedBits \cap Ecc = {}
    PROVE  TagsCorrect
<1> SUFFICES ASSUME NEW key \in Keys, NEW s \in 0 .. 3, NEW flip \in FlippedBits \cup {0}
             PROVE  TagsRead[key][s][flip] = [result |-> "read", key |-> key, serial |-> s]
    BY DEF TagsCorrect
<1>1. TagsRead[key][s][flip] = Reread(key, s, flip)
    BY DEF TagsRead
<1>2. flip \in (0 .. 64) \ Ecc
    BY Yaffs1Assumption DEF Ecc
<1>3. Reread(key, s, flip) = [result |-> "read", key |-> key, serial |-> s]
    BY <1>2, TagsAssumption DEF TagsMended
<1> QED BY <1>1, <1>3

\* The types, and what is free: where no bit of the tags' own error code
\* flips, the device counts its free chunks as they are, before and after any
\* loss of power, and takes no block for empty that holds anything.
THEOREM Types ==
    ASSUME FlippedBits \cap Ecc = {}
    PROVE  Spec => []TypeOK
<1>1. Init => TInv
    BY InitTypes
<1>2. TInv /\ [Next]_vars => TInv'
    BY StepTypes, TagsAreCorrect
<1>3. TInv => TypeOK
    BY TypesFollow
<1> QED BY <1>1, <1>2, <1>3, PTL DEF Spec

(***************************************************************************)
(* The copies.                                                             *)
(***************************************************************************)
\* What is mapped is a copy.
LEMMA MappedIs ==
    ASSUME TInv, mode # "down", NEW key \in Keys, map[key] # None
    PROVE  /\ map[key] \in Copies(key) /\ map[key] \in Pages /\ map[key] \in used /\ map[key] \notin Pending
           /\ IsCopy(map[key], key)
<1>1. NandOk /\ Typed /\ MapOk /\ UsedOk /\ BlocksOk
    BY DEF TInv
<1>2. PICK page \in Pages : page = map[key]
    BY <1>1 DEF Typed
<1>3. IsCopy(page, key) /\ page \in used /\ page \notin Pending
    BY <1>1, <1>2 DEF MapOk
<1>4. page[1] \in Blocks /\ state[page[1]] # "DEAD"
    BY <1>1, <1>2, <1>3, UsedBlocks, PagesAre
<1>5. page[1] \notin bad
    BY <1>1, <1>4 DEF BlocksOk
<1> QED BY <1>2, <1>3, <1>5 DEF Copies

\* A page is a copy of one key.
LEMMA OneKey ==
    ASSUME NEW key, NEW other, NEW page, page \in Copies(key), page \in Copies(other)
    PROVE  key = other
BY DEF Copies, IsCopy

\* The copies of a key stay.
LEMMA SameCopies ==
    ASSUME NEW key, bad' = bad, saved'[key] = saved[key],
           \A q \in Pages : /\ IsCopy(q, key)' <=> IsCopy(q, key)
                            /\ IsCopy(q, key) => At(q)'.serial = At(q).serial /\ At(q)'.data = At(q).data
    PROVE  /\ Copies(key)' = Copies(key) /\ (Durable(key) => Durable(key)')
           /\ \A old, new \in Copies(key) : Follows(old, new)' <=> Follows(old, new)
           /\ \A q \in Copies(key) : At(q)'.data = At(q).data
<1>1. Copies(key)' = Copies(key)
    BY DEF Copies
<1>2. \A q \in Copies(key) : At(q)'.serial = At(q).serial /\ At(q)'.data = At(q).data
    BY DEF Copies
<1>3. \A old, new \in Copies(key) : Follows(old, new)' <=> Follows(old, new)
    BY <1>2 DEF Follows
<1>4. ASSUME Durable(key) PROVE Durable(key)'
    <2>1. CASE Copies(key) = {}
        BY <1>1, <1>4, <2>1 DEF Durable
    <2>2. CASE Copies(key) # {}
        <3>1. PICK new \in Copies(key) :
                 /\ At(new).data = saved[key]
                 /\ \A old \in Copies(key) : old = new \/ Follows(old, new)
                 /\ \A old, other \in Copies(key) : old = new \/ other = new \/ old = other
            BY <1>4, <2>2 DEF Durable
        <3>2. /\ At(new)'.data = saved'[key]
              /\ \A old \in Copies(key) : old = new \/ Follows(old, new)'
            BY <1>2, <1>3, <3>1
        <3> QED BY <1>1, <2>2, <3>1, <3>2 DEF Durable
    <2> QED BY <2>1, <2>2
<1> QED BY <1>1, <1>2, <1>3, <1>4

\* A newer copy, and perhaps the one before it.
LEMMA PairIs ==
    ASSUME NEW key, NEW old, NEW page, Copies(key)' \subseteq {old, page}, page \in Copies(key)',
           At(page)'.data = saved'[key], old \in Copies(key)' => old = page \/ Follows(old, page)'
    PROVE  Durable(key)'
<1>1. \A p \in Copies(key)' : p = page \/ Follows(p, page)'
    OBVIOUS
<1>2. \A p, other \in Copies(key)' : p = page \/ other = page \/ p = other
    OBVIOUS
<1> QED BY <1>1, <1>2 DEF Durable

\* Two copies do not follow each other.
LEMMA NotBoth ==
    ASSUME NEW a, NEW b, At(a).serial \in 0 .. 3, At(b).serial \in 0 .. 3, Follows(a, b)
    PROVE  ~Follows(b, a)
<1>1. PICK s \in 0 .. 3, t \in 0 .. 3 : s = At(a).serial /\ t = At(b).serial
    OBVIOUS
<1>2. (s + 1) % 4 = t
    BY <1>1 DEF Follows
<1>3. (t + 1) % 4 # s
    BY <1>2
<1> QED BY <1>1, <1>3 DEF Follows

\* The serial number of a copy.
LEMMA CopySerial ==
    ASSUME NandOk, NEW key \in Keys, NEW page \in Copies(key)
    PROVE  /\ At(page).serial \in 0 .. 3 /\ page \in Pages /\ page[1] \in Blocks /\ page[1] \notin bad
           /\ IsCopy(page, key) /\ At(page) # Erased
<1>1. page \in Pages /\ IsCopy(page, key) /\ page[1] \notin bad
    BY DEF Copies
<1>2. page[1] \in Blocks /\ PageOk(At(page))
    BY <1>1, PagesAre DEF NandOk, At
<1>3. At(page) # Erased
    BY <1>1, ValuesAre DEF IsCopy
<1> QED BY <1>1, <1>2, <1>3 DEF PageOk, IsCopy

\* Of two copies one is the newest.
LEMMA OneIsNewest ==
    ASSUME NEW key, Durable(key), NEW a \in Copies(key), NEW b \in Copies(key), a # b
    PROVE  \/ At(a).data = saved[key] /\ Follows(b, a)
           \/ At(b).data = saved[key] /\ Follows(a, b)
<1>1. PICK new \in Copies(key) :
         /\ At(new).data = saved[key]
         /\ \A old \in Copies(key) : old = new \/ Follows(old, new)
         /\ \A old, other \in Copies(key) : old = new \/ other = new \/ old = other
    BY DEF Durable
<1> QED BY <1>1

\* While nothing is under way every key has its copy and no other.
LEMMA Single ==
    ASSUME TInv, CInv, mode = "up", todo = <<>>, ~Collecting, NEW key \in Keys
    PROVE  /\ Copies(key) = IF map[key] = None THEN {} ELSE {map[key]}
           /\ map[key] # None => At(map[key]).data = saved[key]
<1>1. Known(key)
    BY DEF CInv
<1>2. \A page \in Copies(key) : ~Going(page)
    <2> TAKE page \in Copies(key)
    <2>1. page[1] \in Blocks
        BY CopySerial DEF TInv
    <2> QED BY <2>1, NoTask DEF Going, Collecting
<1> QED BY <1>1, <1>2 DEF Known

(***************************************************************************)
(* Writing and deleting.                                                   *)
(***************************************************************************)
LEMMA WriteCopies ==
    ASSUME TagsCorrect, TInv, CInv, NEW key \in Keys, Write(key)
    PROVE  CInv'
<1>1. /\ mode = "up" /\ mode' = "up" /\ todo = <<>> /\ ~Collecting /\ bad' = bad
      /\ saved' = [saved EXCEPT ![key] = writes + 1]
      /\ NextSerial(key) \in 0 .. 3
      /\ map[key] # None => NextSerial(key) = (At(map[key]).serial + 1) % 4 /\ map[key] \in Pages
      /\ todo' = IF map[key] # None THEN <<DeleteOf(map[key])>> ELSE <<>>
    BY WriteIs
<1>2. PICK page \in NextPages :
         /\ Put(page, Written(key, NextSerial(key), writes + 1))
         /\ state' = Allocated(page).state /\ alloc' = Allocated(page).alloc
         /\ used' = used \cup {page} /\ map' = [map EXCEPT ![key] = page]
    BY WriteIs
<1>3. NandOk /\ Typed /\ MapOk
    BY DEF TInv
<1>4. page \in Pages /\ page[1] \in Blocks /\ page[1] \notin bad /\ At(page) = Erased
    BY <1>1, NextIs
<1>5. PICK x : x = Written(key, NextSerial(key), writes + 1)
    OBVIOUS
<1>6. /\ PageOk(x) /\ x # Erased /\ x.state = "written" /\ x.key = key /\ x.serial = NextSerial(key)
      /\ x.deleted = FALSE /\ x.data = writes + 1
    BY <1>1, <1>5, ValuesAre
<1>7. \A q \in Pages : At(q)' = IF q = page THEN x ELSE At(q)
    BY <1>1, <1>2, <1>5, <1>6, AllocKeeps
<1>8. ~IsCopy(page, key) /\ \A k : ~IsCopy(page, k)
    BY <1>4, ValuesAre DEF IsCopy
<1>9. \A b \in Blocks : state'[b] # "COLLECTING"
    <2>1. PICK a : a = Allocated(page)
        OBVIOUS
    <2>2. mode = "up"
        BY <1>1
    <2>3. /\ a.state = [state EXCEPT ![page[1]] = a.state[page[1]]]
          /\ a.state[page[1]] \in {"FULL", "ALLOCATING"} /\ a.finder = page[1]
          /\ \A b \in Blocks : b # page[1] => a.state[b] = state[b]
        BY <2>1, <2>2, AllocatedIs
    <2>4. state' = a.state
        BY <1>2, <2>1
    <2>5. PICK t : t = a.state
        OBVIOUS
    <2>6. t[page[1]] # "COLLECTING" /\ \A b \in Blocks : b # page[1] => t[b] = state[b]
        BY <2>3, <2>5
    <2>7. \A b \in Blocks : state[b] # "COLLECTING"
        BY <1>1 DEF Collecting
    <2> QED BY <2>4, <2>5, <2>6, <2>7
<1>10. ASSUME NEW k \in Keys, k # key PROVE Durable(k)' /\ Known(k)'
    <2>1. saved'[k] = saved[k] /\ map'[k] = map[k]
        BY <1>1, <1>2, <1>3, <1>10 DEF Typed
    <2>2. \A q \in Pages : /\ IsCopy(q, k)' <=> IsCopy(q, k)
                           /\ IsCopy(q, k) => At(q)'.serial = At(q).serial /\ At(q)'.data = At(q).data
        BY <1>6, <1>7, <1>8, <1>10 DEF IsCopy
    <2>3. Copies(k)' = Copies(k) /\ (Durable(k) => Durable(k)') /\ \A q \in Copies(k) : At(q)'.data = At(q).data
        BY <1>1, <2>1, <2>2, SameCopies
    <2>4. Copies(k) = (IF map[k] = None THEN {} ELSE {map[k]}) /\ (map[k] # None => At(map[k]).data = saved[k])
        BY <1>1, Single
    <2>5. map[k] # None => At(map[k])'.data = saved'[k]
        <3> SUFFICES ASSUME map[k] # None PROVE At(map[k])'.data = saved'[k]
            OBVIOUS
        <3>1. PICK q : q = map[k]
            OBVIOUS
        <3>2. At(q)'.data = At(q).data
            BY <2>3, <2>4, <3>1
        <3> QED BY <2>1, <2>4, <3>1, <3>2 DEF At
    <2> QED BY <2>1, <2>3, <2>4, <2>5 DEF CInv, Known
<1>11. Durable(key)' /\ Known(key)'
    <2>1. saved'[key] = writes + 1 /\ map'[key] = page
        BY <1>1, <1>2, <1>3 DEF Typed
    <2>2. Copies(key)' = Copies(key) \cup {page}
        <3>1. \A q \in Pages : IsCopy(q, key)' <=> IsCopy(q, key) \/ q = page
            BY <1>6, <1>7 DEF IsCopy
        <3> QED BY <1>1, <1>4, <3>1 DEF Copies
    <2>3. Copies(key) = IF map[key] = None THEN {} ELSE {map[key]}
        BY <1>1, Single
    <2>4. page \in Copies(key)' /\ At(page)'.data = saved'[key] /\ At(page)'.serial = NextSerial(key)
        BY <1>4, <1>6, <1>7, <2>1, <2>2
    <2>5. ASSUME map[key] # None PROVE Durable(key)' /\ map[key] \in Pending'
        <3>1. PICK old \in Pages : old = map[key]
            BY <1>1, <2>5
        <3>2. old # page
            BY <1>8, <2>3, <2>5, <3>1 DEF Copies
        <3>3. Follows(old, page)'
            BY <1>1, <1>7, <2>4, <2>5, <3>1, <3>2 DEF Follows
        <3>4. Copies(key)' \subseteq {old, page}
            BY <2>2, <2>3, <3>1
        <3>5. Pending' = {map[key]}
            BY <1>1, <2>5, DeleteTask
        <3> QED BY <2>4, <3>3, <3>4, <3>5, PairIs
    <2>6. ASSUME map[key] = None PROVE Durable(key)'
        <3>1. Copies(key)' \subseteq {page, page}
            BY <2>2, <2>3, <2>6
        <3> QED BY <2>4, <3>1, PairIs
    <2>7. \A q \in Copies(key)' : q = page \/ q \in Pending'
        BY <2>2, <2>3, <2>5
    <2>8. Known(key)'
        <3>1. At(map[key])'.data = saved'[key] /\ map'[key] \in Copies(key)' /\ state'[map'[key][1]] # "COLLECTING"
            <4>1. At(map[key])' = At(page)'
                BY <2>1 DEF At
            <4> QED BY <1>4, <1>9, <2>1, <2>4, <4>1
        <3>2. map'[key] # None
            BY <1>4, <2>1, Numbers
        <3> QED BY <2>1, <2>7, <3>1, <3>2 DEF Known, Going
    <2> QED BY <2>5, <2>6, <2>8
<1> QED BY <1>1, <1>9, <1>10, <1>11 DEF CInv, Collected, Collecting

\* A chunk that is deleted is never the newest copy.
LEMMA DeleteCopies ==
    ASSUME TInv, CInv, DeleteChunk
    PROVE  CInv'
<1>1. PICK page \in used :
         /\ page \in Pages /\ page[1] \in Blocks /\ Pending = {page} /\ Deleting /\ ~Erasing
         /\ mode # "down" /\ mode' = mode
         /\ At(page).state = "written" /\ Put(page, [At(page) EXCEPT !.deleted = TRUE])
         /\ used' = used \ {page}
         /\ todo' = IF UsedIn(page[1]) = {page} /\ state[page[1]] \notin {"ALLOCATING", "NEEDS_SCANNING"}
                    THEN <<EraseOf(page[1])>> ELSE <<>>
         /\ UNCHANGED <<bad, mode, state, map, serial, alloc, finder, gc, left, pos, saved, writes, bounds>>
    BY DeleteIs
<1>2. NandOk /\ Typed
    BY DEF TInv
<1>3. PICK x : x = [At(page) EXCEPT !.deleted = TRUE]
    OBVIOUS
<1>4. PageOk(At(page)) /\ At(page) # Erased
    BY <1>1, <1>2, PagesAre, ValuesAre DEF NandOk, At
<1>5. PageOk(x) /\ x # Erased /\ x.deleted = TRUE
    BY <1>1, <1>3, <1>4, MarkedIs
<1>6. \A q \in Pages : At(q)' = IF q = page THEN x ELSE At(q)
    BY <1>1, <1>2, <1>3, <1>4, <1>5, RewriteKeeps
<1>7. \A k : Copies(k)' = Copies(k) \ {page}
    <2> TAKE k
    <2>1. \A q \in Pages : IsCopy(q, k)' <=> IsCopy(q, k) /\ q # page
        BY <1>5, <1>6 DEF IsCopy
    <2> QED BY <1>1, <2>1 DEF Copies
<1>8. Pending' = {} /\ mode \in {"up", "scan"}
    BY <1>1, <1>2, NoTask, EraseTask DEF Typed
<1>9. \A k \in Keys : map[k] # None => map[k] \in Copies(k)' /\ At(map[k])' = At(map[k]) /\ map[k] \in Pages
    <2> SUFFICES ASSUME NEW k \in Keys, map[k] # None
                 PROVE  map[k] \in Copies(k)' /\ At(map[k])' = At(map[k]) /\ map[k] \in Pages
        OBVIOUS
    <2>1. PICK q \in Pages : q = map[k] /\ q \in Copies(k) /\ q # page
        BY <1>1, MappedIs
    <2>2. At(q)' = At(q) /\ q \in Copies(k)'
        BY <1>6, <1>7, <2>1
    <2>3. map'[k] = q /\ map[k] = q
        BY <1>1, <2>1
    <2> QED BY <2>2, <2>3 DEF At
<1>10. ASSUME mode = "up" PROVE CInv'
    <2>1. ~Collecting
        BY <1>1, <1>10 DEF TInv, UpOk
    <2>2. \A b \in Blocks : state[b] # "COLLECTING"
        BY <2>1 DEF Collecting
    <2>3. ASSUME NEW k \in Keys PROVE Durable(k)' /\ Known(k)'
        <3>1. Known(k) /\ Durable(k)
            BY <1>10 DEF CInv
        <3>2. \A q \in Copies(k) : q[1] \in Blocks
            BY <1>2, CopySerial
        <3>3. CASE map[k] = None
            <4>1. Copies(k) = {} /\ Copies(k)' = {}
                BY <1>7, <3>1, <3>3 DEF Known
            <4> QED BY <1>1, <3>1, <3>3, <4>1 DEF Known, Durable
        <3>4. CASE map[k] # None
            <4>1. At(map[k]).data = saved[k] /\ map[k] \in Copies(k)
                BY <3>1, <3>4 DEF Known
            <4>2. \A q \in Copies(k) : q = map[k] \/ q = page
                BY <1>1, <2>2, <3>1, <3>2, <3>4 DEF Known, Going
            <4>3. Copies(k)' = {map[k]}
                BY <1>7, <1>9, <3>4, <4>1, <4>2
            <4>4. PICK q : q = map[k]
                OBVIOUS
            <4>5. q \in Copies(k)' /\ Copies(k)' \subseteq {q, q} /\ At(q)'.data = saved'[k]
                BY <1>1, <1>9, <3>4, <4>1, <4>3, <4>4 DEF At
            <4>6. Durable(k)'
                BY <4>5, PairIs
            <4>7. map'[k] = q /\ state'[map'[k][1]] # "COLLECTING"
                BY <1>1, <1>9, <2>2, <3>4, <4>4, PagesAre
            <4> QED BY <3>4, <4>4, <4>5, <4>6, <4>7 DEF Known, At
        <3> QED BY <3>3, <3>4
    <2>4. ~Collecting'
        BY <1>1, <2>1 DEF Collecting
    <2> QED BY <1>1, <1>10, <2>3, <2>4 DEF CInv, Collected
<1>11. ASSUME mode = "scan" PROVE CInv'
    <2> SUFFICES ASSUME NEW k \in Keys PROVE Durable(k)' /\ Met(k)'
        BY <1>1, <1>11 DEF CInv
    <2>1. Durable(k) /\ Met(k)
        BY <1>11 DEF CInv
    <2>2. Met(k)'
        <3>1. \A q \in Copies(k)' : Visited(q)' => q = map'[k]
            BY <1>1, <1>7, <2>1 DEF Met, Visited
        <3> QED BY <1>8, <3>1 DEF Met
    <2>3. CASE page \notin Copies(k)
        <3>1. \A q \in Pages : /\ IsCopy(q, k)' <=> IsCopy(q, k)
                               /\ IsCopy(q, k) => At(q)'.serial = At(q).serial /\ At(q)'.data = At(q).data
            <4>1. page[1] \notin bad
                <5>1. UsedOk /\ BlocksOk
                    BY <1>1 DEF TInv
                <5>2. state[page[1]] # "DEAD"
                    BY <1>1, <1>2, <5>1, UsedBlocks
                <5> QED BY <1>1, <5>1, <5>2 DEF BlocksOk
            <4>2. ~IsCopy(page, k) /\ ~IsCopy(page, k)'
                BY <1>1, <1>5, <1>6, <2>3, <4>1 DEF Copies, IsCopy
            <4>3. \A q \in Pages : q # page => At(q)' = At(q)
                BY <1>6
            <4> QED BY <4>2, <4>3 DEF IsCopy
        <3> QED BY <1>1, <2>1, <2>2, <3>1, SameCopies
    <2>4. CASE page \in Copies(k)
        <3>1. map[k] # None /\ Follows(page, map[k])
            BY <1>1, <2>1, <2>4 DEF Met
        <3>2. PICK q \in Pages : q = map[k] /\ q \in Copies(k) /\ q # page
            BY <1>1, <3>1, MappedIs
        <3>3. Follows(page, q)
            BY <3>1, <3>2
        <3>4. ~Follows(q, page)
            BY <1>2, <2>4, <3>2, <3>3, NotBoth, CopySerial
        <3>5. PICK new \in Copies(k) :
                 /\ At(new).data = saved[k]
                 /\ \A old \in Copies(k) : old = new \/ Follows(old, new)
                 /\ \A old, other \in Copies(k) : old = new \/ other = new \/ old = other
            BY <2>1, <2>4 DEF Durable
        <3>6. new = q
            BY <2>4, <3>2, <3>4, <3>5
        <3>7. Copies(k)' \subseteq {q, q} /\ q \in Copies(k)'
            BY <1>7, <2>4, <3>2, <3>5, <3>6
        <3>8. At(q)'.data = saved'[k]
            BY <1>1, <1>6, <3>2, <3>5, <3>6
        <3>9. Durable(k)'
            BY <3>7, <3>8, PairIs
        <3> QED BY <2>2, <3>9
    <2> QED BY <2>3, <2>4
<1> QED BY <1>8, <1>10, <1>11

(***************************************************************************)
(* Erasing and retiring.                                                   *)
(***************************************************************************)
\* A block that goes takes no copy with it that is still needed.
LEMMA DropCopies ==
    ASSUME TInv, CInv, NEW b \in Blocks, Erasing, Head(todo).page[1] = b, Pending = {}, UsedIn(b) = {},
           mode \in {"up", "scan"}, mode = "scan" => b < pos[1],
           \A k : Copies(k)' = {q \in Copies(k) : q[1] # b},
           \A q \in Pages : q[1] # b => At(q)' = At(q),
           state'[b] # "COLLECTING", \A other \in Blocks : other # b => state'[other] = state[other],
           todo' = <<>>, UNCHANGED <<mode, used, map, pos, saved>>
    PROVE  CInv'
<1>1. NandOk /\ Typed /\ MapOk
    BY DEF TInv
<1>2. Pending' = {} /\ mode # "down"
    BY NoTask
<1>3. \A k \in Keys : map[k] # None => map[k] \in Pages /\ map[k][1] # b /\ map[k] \in Copies(k)
    BY <1>1, <1>2, UsedElsewhere, MappedIs
<1>4. ASSUME mode = "up" PROVE CInv'
    <2>1. UpOk /\ Collected
        BY <1>4 DEF TInv, CInv
    <2>2. \A c \in Blocks : state[c] = "COLLECTING" => c = b
        BY <2>1 DEF UpOk, Collected, Collecting
    <2>3. ~Collecting'
        BY <2>2 DEF Collecting
    <2>4. ASSUME NEW k \in Keys PROVE Durable(k)' /\ Known(k)'
        <3>1. Known(k) /\ Durable(k)
            BY <1>4 DEF CInv
        <3>2. \A q \in Copies(k) : q[1] \in Blocks /\ q \in Pages
            BY <1>1, CopySerial
        <3>3. CASE map[k] = None
            <4>1. Copies(k) = {} /\ Copies(k)' = {}
                BY <3>1, <3>3 DEF Known
            <4> QED BY <3>1, <3>3, <4>1 DEF Known, Durable
        <3>4. CASE map[k] # None
            <4>1. At(map[k]).data = saved[k]
                BY <3>1, <3>4 DEF Known
            <4>2. \A q \in Copies(k) : q = map[k] \/ q[1] = b
                BY <2>2, <3>1, <3>2, <3>4 DEF Known, Going
            <4>3. PICK q \in Pages : q = map[k] /\ q[1] # b /\ q \in Copies(k)
                BY <1>3, <3>4
            <4>4. Copies(k)' = {q}
                BY <4>2, <4>3
            <4>5. At(q)' = At(q) /\ map'[k] = q /\ saved'[k] = saved[k]
                BY <4>3
            <4>6. Durable(k)'
                <5>1. q \in Copies(k)' /\ Copies(k)' \subseteq {q, q} /\ At(q)'.data = saved'[k]
                    BY <4>1, <4>3, <4>4, <4>5
                <5> QED BY <5>1, PairIs
            <4> QED BY <3>4, <4>1, <4>3, <4>4, <4>5, <4>6 DEF Known, At
        <3> QED BY <3>3, <3>4
    <2> QED BY <1>4, <2>3, <2>4 DEF CInv, Collected
<1>5. ASSUME mode = "scan" PROVE CInv'
    <2> SUFFICES ASSUME NEW k \in Keys PROVE Durable(k)' /\ Met(k)'
        BY <1>5 DEF CInv
    <2>1. Durable(k) /\ Met(k)
        BY <1>5 DEF CInv
    <2>2. \A q \in Copies(k) : q[1] # b /\ q \in Pages
        <3> TAKE q \in Copies(k)
        <3>1. q \in Pages /\ q[1] \in Blocks
            BY <1>1, CopySerial
        <3> SUFFICES ASSUME q[1] = b PROVE FALSE
            BY <3>1
        <3>2. Visited(q)
            BY <1>5 DEF Visited
        <3>3. q = map[k]
            BY <2>1, <3>2 DEF Met
        <3>4. map[k] # None
            BY <3>1, <3>3, Numbers
        <3> QED BY <1>3, <3>3, <3>4
    <2>3. Copies(k)' = Copies(k) /\ \A q \in Copies(k) : At(q)' = At(q)
        BY <2>2
    <2>4. Durable(k)'
        BY <2>1, <2>3 DEF Durable, Follows
    <2>5. Met(k)'
        BY <1>2, <2>1, <2>3 DEF Met, Visited
    <2> QED BY <2>4, <2>5
<1> QED BY <1>4, <1>5

LEMMA EraseCopies ==
    ASSUME TInv, CInv, Erase
    PROVE  CInv'
<1>1. PICK b \in Blocks :
         /\ Head(todo).page[1] = b /\ Tail(todo) = <<>> /\ Pending = {} /\ ~Deleting /\ UsedIn(b) = {}
         /\ mode \in {"up", "scan"} /\ b \notin bad
         /\ mode = "scan" => b < pos[1]
    BY ErasingIs DEF Erase
<1>2. /\ nand' = [nand EXCEPT ![b] = [c \in 0 .. NChunks - 1 |-> Erased]]
      /\ state' = [state EXCEPT ![b] = "EMPTY"] /\ todo' = <<>> /\ Erasing
      /\ UNCHANGED <<bad, mode, used, map, pos, saved>>
    BY <1>1 DEF Erase, Erasing
<1>3. NandOk /\ Typed
    BY DEF TInv
<1>4. \A q \in Pages : At(q)' = IF q[1] = b THEN Erased ELSE At(q)
    BY <1>2, <1>3, EraseKeeps
<1>5. \A k : Copies(k)' = {q \in Copies(k) : q[1] # b}
    <2> TAKE k
    <2>1. \A q \in Pages : IsCopy(q, k)' <=> IsCopy(q, k) /\ q[1] # b
        BY <1>4, ValuesAre DEF IsCopy
    <2> QED BY <1>2, <2>1 DEF Copies
<1>6. state'[b] # "COLLECTING" /\ \A other \in Blocks : other # b => state'[other] = state[other]
    BY <1>2, <1>3 DEF Typed
<1> QED BY <1>1, <1>2, <1>4, <1>5, <1>6, DropCopies

LEMMA RetireCopies ==
    ASSUME TInv, CInv, Retire
    PROVE  CInv'
<1>1. PICK b \in Blocks :
         /\ Head(todo).page[1] = b /\ Tail(todo) = <<>> /\ Pending = {} /\ ~Deleting /\ UsedIn(b) = {}
         /\ mode \in {"up", "scan"} /\ b \notin bad
         /\ mode = "scan" => b < pos[1]
    BY ErasingIs DEF Retire
<1>2. /\ bad' = bad \cup {b} /\ state' = [state EXCEPT ![b] = "DEAD"] /\ todo' = <<>> /\ Erasing
      /\ UNCHANGED <<nand, mode, used, map, pos, saved>>
    BY <1>1 DEF Retire, Erasing
<1>3. Typed
    BY DEF TInv
<1>4. \A q \in Pages : At(q)' = At(q)
    BY <1>2 DEF At
<1>5. \A k : Copies(k)' = {q \in Copies(k) : q[1] # b}
    <2> TAKE k
    <2>1. \A q \in Pages : IsCopy(q, k)' <=> IsCopy(q, k)
        BY <1>4 DEF IsCopy
    <2> QED BY <1>2, <2>1 DEF Copies
<1>6. state'[b] # "COLLECTING" /\ \A other \in Blocks : other # b => state'[other] = state[other]
    BY <1>2, <1>3 DEF Typed
<1> QED BY <1>1, <1>2, <1>4, <1>5, <1>6, DropCopies

(***************************************************************************)
(* Collecting.                                                             *)
(***************************************************************************)
LEMMA CollectCopies ==
    ASSUME TInv, CInv, MaxCopies = NChunks, Collect
    PROVE  CInv'
<1>1. PICK b \in Candidates :
         /\ state[b] = "FULL" /\ state' = [state EXCEPT ![b] = "COLLECTING"] /\ gc' = b
         /\ todo' = IF UsedIn(b) = {} THEN <<EraseOf(b)>> ELSE <<>>
    BY DEF Collect
<1>2. /\ mode = "up" /\ mode' = "up" /\ todo = <<>> /\ ~Collecting /\ left' = MaxCopies
      /\ UNCHANGED <<nand, bad, used, map, saved>>
    BY DEF Collect, Idle, device, Collecting
<1>3. NandOk /\ Typed
    BY DEF TInv
<1>4. b \in Blocks
    BY <1>3 DEF Candidates, Typed, Blocks
<1>5. ASSUME NEW k \in Keys PROVE Durable(k)' /\ Known(k)'
    <2>1. Copies(k) = (IF map[k] = None THEN {} ELSE {map[k]}) /\ (map[k] # None => At(map[k]).data = saved[k])
        BY <1>2, Single
    <2>2. \A q : At(q)' = At(q)
        BY <1>2 DEF At
    <2>3. Copies(k)' = Copies(k)
        BY <1>2, <2>2 DEF Copies, IsCopy
    <2>4. Durable(k)'
        BY <1>2, <2>3 DEF CInv, Durable, At, Follows
    <2>5. map[k] # None => At(map[k])'.data = saved'[k]
        BY <1>2, <2>1 DEF At
    <2> QED BY <1>2, <2>1, <2>3, <2>4, <2>5 DEF Known
<1>6. Collected'
    <2>1. todo' = <<>> => Cardinality(UsedIn(gc)') <= left'
        <3>1. PICK S : S = {b}
            OBVIOUS
        <3>2. IsFiniteSet(S \X Columns) /\ Cardinality(S \X Columns) = 1 * NChunks
            <4>1. IsFiniteSet(S) /\ Cardinality(S) = 1
                BY <3>1, FS_Singleton
            <4>2. IsFiniteSet(Columns) /\ Cardinality(Columns) = NChunks
                BY Counts
            <4>3. IsFiniteSet(S \X Columns) /\ Cardinality(S \X Columns) = Cardinality(S) * Cardinality(Columns)
                BY <4>1, <4>2, FS_Product
            <4> QED BY <4>1, <4>2, <4>3
        <3>3. UsedIn(gc)' = {q \in used : q[1] = b}
            BY <1>1, <1>2 DEF UsedIn
        <3>4. \A q \in Pages : q = <<q[1], q[2]>> /\ q[2] \in Columns
            BY PagesAre
        <3>5. {q \in used : q[1] = b} \subseteq S \X Columns
            BY <1>3, <3>1, <3>4 DEF Typed
        <3>6. Cardinality({q \in used : q[1] = b}) <= Cardinality(S \X Columns)
            BY <3>2, <3>5, FS_Subset
        <3> QED BY <1>2, <3>2, <3>3, <3>6, Numbers
    <2>2. Erasing' => Head(todo').page[1] = gc'
        BY <1>1, NoTask, EraseTask
    <2> QED BY <2>1, <2>2 DEF Collected
<1> QED BY <1>2, <1>5, <1>6 DEF CInv

\* A copy follows the chunk it is of, which goes with its block.
LEMMA CopyCopies ==
    ASSUME TagsCorrect, TInv, CInv, Copy
    PROVE  CInv'
<1>1. PICK old \in UsedIn(gc), page \in NextPages, key \in Keys :
         /\ mode = "up" /\ todo = <<>> /\ gc \in Blocks /\ state[gc] = "COLLECTING" /\ left > 0
         /\ map[key] = old /\ IsCopy(old, key) /\ old \in Pages /\ At(old).serial \in 0 .. 3
         /\ Put(page, Written(key, (At(old).serial + 1) % 4, At(old).data))
         /\ used' = (used \ {old}) \cup {page} /\ map' = [map EXCEPT ![key] = page]
         /\ serial' = IF IsHeader(key) THEN [serial EXCEPT ![key[1]] = (At(old).serial + 1) % 4] ELSE serial
         /\ alloc' = Allocated(page).alloc /\ finder' = Allocated(page).finder
         /\ state' = IF left = 1 /\ UsedIn(gc) \ {old} # {} THEN [Allocated(page).state EXCEPT ![gc] = "FULL"]
                     ELSE Allocated(page).state
         /\ todo' = IF UsedIn(gc) \ {old} = {} THEN <<EraseOf(gc)>> ELSE <<>>
         /\ left' = left - 1
         /\ UNCHANGED <<bad, mode, free, gc, pos, saved, writes, bounds>>
    BY CopyIs
<1>2. NandOk /\ Typed /\ MapOk /\ UpOk
    BY <1>1 DEF TInv
<1>3. /\ page \in Pages /\ page[1] \in Blocks /\ page[1] \notin bad /\ At(page) = Erased
      /\ page \notin used /\ state[page[1]] \in {"EMPTY", "ALLOCATING"}
    BY <1>1, NextIs
<1>4. PICK s \in 0 .. 3 : s = (At(old).serial + 1) % 4
    BY <1>1
<1>5. PICK x : x = Written(key, s, At(old).data)
    OBVIOUS
<1>6. /\ PageOk(x) /\ x # Erased /\ x.state = "written" /\ x.key = key /\ x.serial = s
      /\ x.deleted = FALSE /\ x.data = At(old).data
    BY <1>5, ValuesAre
<1>7. \A q \in Pages : At(q)' = IF q = page THEN x ELSE At(q)
    BY <1>1, <1>4, <1>5, <1>6, AllocKeeps
<1>8. \A k : ~IsCopy(page, k)
    BY <1>3, ValuesAre DEF IsCopy
<1>9. page[1] # gc /\ old[1] = gc /\ old \in used /\ Pending = {} /\ Collecting
    BY <1>1, <1>3, NoTask DEF UsedIn, Collecting
<1>10. IsFiniteSet(UsedIn(gc)) /\ Cardinality(UsedIn(gc)) \in Nat /\ Cardinality(UsedIn(gc)) <= left /\ left \in Nat
    <2>1. IsFiniteSet(UsedIn(gc)) /\ Cardinality(UsedIn(gc)) \in Nat
        BY <1>2, Counts, FS_Subset, FS_CardinalityType DEF UsedIn, Typed
    <2>2. Cardinality(UsedIn(gc)) <= left
        BY <1>1, <1>9 DEF CInv, Collected
    <2> QED BY <1>2, <2>1, <2>2, Numbers DEF Typed
<1>11. Cardinality(UsedIn(gc) \ {old}) = Cardinality(UsedIn(gc)) - 1 /\ IsFiniteSet(UsedIn(gc) \ {old})
    BY <1>10, FS_RemoveElement
<1>12. left = 1 => UsedIn(gc) \ {old} = {}
    <2> SUFFICES ASSUME left = 1, UsedIn(gc) \ {old} # {} PROVE FALSE
        OBVIOUS
    <2>1. PICK S : S = UsedIn(gc) \ {old}
        OBVIOUS
    <2>2. Cardinality(S) = 0
        <3>1. Cardinality(S) \in Nat
            BY <1>11, <2>1, FS_CardinalityType
        <3> QED BY <1>10, <1>11, <2>1, <3>1
    <2>3. S = {}
        BY <1>11, <2>1, <2>2, FS_EmptySet
    <2> QED BY <2>1, <2>3
<1>13. state' = Allocated(page).state
    BY <1>1, <1>12
<1>14. /\ state'[page[1]] # "COLLECTING" /\ state'[gc] = "COLLECTING"
       /\ \A b \in Blocks : b # page[1] => state'[b] = state[b]
    <2>1. PICK a : a = Allocated(page)
        OBVIOUS
    <2>2. mode = "up"
        BY <1>1
    <2>3. /\ a.state = [state EXCEPT ![page[1]] = a.state[page[1]]]
          /\ a.state[page[1]] \in {"FULL", "ALLOCATING"} /\ a.finder = page[1]
          /\ \A b \in Blocks : b # page[1] => a.state[b] = state[b]
        BY <2>1, <2>2, AllocatedIs
    <2>4. state' = a.state
        BY <1>13, <2>1
    <2>5. PICK t : t = a.state
        OBVIOUS
    <2>6. t[page[1]] # "COLLECTING" /\ \A b \in Blocks : b # page[1] => t[b] = state[b]
        BY <2>3, <2>5
    <2> QED BY <1>1, <1>9, <2>4, <2>5, <2>6
<1>15. \A b \in Blocks : state[b] = "COLLECTING" => b = gc
    BY <1>2 DEF UpOk
<1>16. ASSUME NEW k \in Keys, k # key PROVE Durable(k)' /\ Known(k)'
    <2>1. saved'[k] = saved[k] /\ map'[k] = map[k] /\ Known(k) /\ Durable(k)
        BY <1>1, <1>2, <1>16 DEF Typed, CInv
    <2>2. \A q \in Pages : /\ IsCopy(q, k)' <=> IsCopy(q, k)
                           /\ IsCopy(q, k) => At(q)'.serial = At(q).serial /\ At(q)'.data = At(q).data
        BY <1>6, <1>7, <1>8, <1>16 DEF IsCopy
    <2>3. Copies(k)' = Copies(k) /\ Durable(k)' /\ \A q \in Copies(k) : At(q)'.data = At(q).data
        BY <1>1, <2>1, <2>2, SameCopies
    <2>4. CASE map[k] = None
        BY <2>1, <2>3, <2>4 DEF Known
    <2>5. CASE map[k] # None
        <3>1. PICK q \in Pages : q = map[k] /\ q \in Copies(k)
            BY <1>1, <2>5, MappedIs
        <3>2. At(q)'.data = saved'[k]
            BY <2>1, <2>3, <2>5, <3>1 DEF Known
        <3>3. ASSUME NEW p \in Copies(k), p # q
              PROVE  Going(p)' /\ state'[q[1]] # "COLLECTING"
            <4>1. Going(p) /\ state[q[1]] # "COLLECTING"
                BY <2>1, <2>5, <3>1, <3>3 DEF Known
            <4>2. state[p[1]] = "COLLECTING" /\ p \notin used
                BY <1>9, <4>1 DEF Going
            <4>3. p[1] = gc /\ q[1] \in Blocks /\ p \in Pages
                BY <1>2, <1>15, <3>1, <4>2, CopySerial
            <4>4. p \notin used'
                BY <1>1, <1>9, <4>2, <4>3
            <4> QED BY <1>14, <4>1, <4>3, <4>4 DEF Going
        <3> QED BY <2>1, <2>3, <3>1, <3>2, <3>3 DEF Known, At
    <2> QED BY <2>4, <2>5
<1>17. Durable(key)' /\ Known(key)'
    <2>1. saved'[key] = saved[key] /\ map'[key] = page /\ Known(key)
        BY <1>1, <1>2 DEF Typed, CInv
    <2>2. old # None
        BY <1>1, Numbers
    <2>3. Copies(key) = {old} /\ At(old).data = saved[key]
        BY <1>1, <1>9, <2>1, <2>2 DEF Known
    <2>4. Copies(key)' = {old, page}
        <3>1. \A q \in Pages : IsCopy(q, key)' <=> IsCopy(q, key) \/ q = page
            BY <1>6, <1>7 DEF IsCopy
        <3>2. Copies(key)' = Copies(key) \cup {page}
            BY <1>1, <1>3, <3>1 DEF Copies
        <3> QED BY <2>3, <3>2
    <2>5. At(page)'.data = saved'[key] /\ At(page)'.serial = s /\ old # page
        BY <1>3, <1>6, <1>7, <1>9, <2>1, <2>3
    <2>6. Follows(old, page)'
        BY <1>1, <1>4, <1>7, <2>5 DEF Follows
    <2>7. Durable(key)'
        BY <2>4, <2>5, <2>6, PairIs
    <2>8. Going(old)'
        BY <1>1, <1>3, <1>9, <1>14 DEF Going
    <2>9. map'[key] # None
        BY <1>3, <2>1, Numbers
    <2>10. At(map[key])'.data = saved'[key]
        BY <2>1, <2>5 DEF At
    <2> QED BY <1>14, <2>1, <2>4, <2>7, <2>8, <2>9, <2>10 DEF Known
<1>18. Collected'
    <2>1. todo' = <<>> => Cardinality(UsedIn(gc)') <= left'
        <3>1. PICK S : S = UsedIn(gc)'
            OBVIOUS
        <3>2. S = UsedIn(gc) \ {old}
            BY <1>1, <1>9, <3>1 DEF UsedIn
        <3>3. Cardinality(S) = Cardinality(UsedIn(gc)) - 1
            BY <1>11, <3>2
        <3>4. Cardinality(S) <= left'
            BY <1>1, <1>10, <3>3
        <3> QED BY <3>1, <3>4
    <2>2. Erasing' => Head(todo').page[1] = gc'
        BY <1>1, NoTask, EraseTask
    <2> QED BY <2>1, <2>2 DEF Collected
<1> QED BY <1>1, <1>16, <1>17, <1>18 DEF CInv

(***************************************************************************)
(* Losing power, and scanning.                                             *)
(***************************************************************************)
LEMMA CrashCopies ==
    ASSUME TInv, CInv, Crash
    PROVE  CInv'
<1>1. /\ mode' = "down" /\ bad' = bad /\ saved' = saved
      /\ \A q \in Pages : At(q)' = At(q) \/ (At(q) = Erased /\ At(q)'.state = "torn")
    BY CrashIs
<1>2. ASSUME NEW k \in Keys PROVE Durable(k)'
    <2>1. \A q \in Pages : /\ IsCopy(q, k)' <=> IsCopy(q, k)
                           /\ IsCopy(q, k) => At(q)'.serial = At(q).serial /\ At(q)'.data = At(q).data
        <3> TAKE q \in Pages
        <3>1. CASE At(q)' = At(q)
            BY <3>1 DEF IsCopy
        <3>2. CASE At(q) = Erased /\ At(q)'.state = "torn"
            BY <3>2, ValuesAre DEF IsCopy
        <3> QED BY <1>1, <3>1, <3>2
    <2> QED BY <1>1, <2>1, SameCopies DEF CInv
<1> QED BY <1>1, <1>2 DEF CInv

LEMMA FlipCopies ==
    ASSUME TInv, CInv, FlipBit
    PROVE  CInv'
<1>1. /\ UNCHANGED <<bad, ram, saved, writes>>
      /\ \A q \in Pages : /\ At(q)'.state = At(q).state
                          /\ At(q).state = "written" =>
                                 /\ At(q)'.key = At(q).key /\ At(q)'.serial = At(q).serial
                                 /\ At(q)'.data = At(q).data /\ At(q)'.deleted = At(q).deleted
    BY FlipIs
<1>2. UNCHANGED <<mode, state, used, map, gc, left, todo, pos>>
    BY <1>1 DEF ram
<1>3. Pending' = Pending /\ (Erasing' <=> Erasing) /\ (Collecting' <=> Collecting)
    BY <1>2 DEF Pending, Deleting, Erasing, Collecting
<1>4. ASSUME NEW k \in Keys
      PROVE  Durable(k)' /\ (mode = "up" => Known(k)') /\ (mode = "scan" => Met(k)')
    <2>1. \A q \in Pages : /\ IsCopy(q, k)' <=> IsCopy(q, k)
                           /\ IsCopy(q, k) => At(q)'.serial = At(q).serial /\ At(q)'.data = At(q).data
        BY <1>1 DEF IsCopy
    <2>2. /\ Copies(k)' = Copies(k) /\ Durable(k)'
          /\ \A old, new \in Copies(k) : Follows(old, new)' <=> Follows(old, new)
          /\ \A q \in Copies(k) : At(q)'.data = At(q).data
        BY <1>1, <2>1, SameCopies DEF CInv
    <2>3. ASSUME mode = "up" PROVE Known(k)'
        <3>1. Known(k)
            BY <2>3 DEF CInv
        <3>2. CASE map[k] = None
            BY <1>2, <2>2, <3>1, <3>2 DEF Known
        <3>3. CASE map[k] # None
            <4>1. PICK q \in Copies(k) : q = map[k] /\ map'[k] = q
                BY <1>2, <3>1, <3>3 DEF Known
            <4>2. At(q)'.data = saved'[k]
                BY <1>1, <2>2, <3>1, <3>3, <4>1 DEF Known
            <4>3. \A p : Going(p)' <=> Going(p)
                BY <1>2, <1>3 DEF Going
            <4> QED BY <1>2, <2>2, <3>1, <3>3, <4>1, <4>2, <4>3 DEF Known, At
        <3> QED BY <3>2, <3>3
    <2>4. ASSUME mode = "scan" PROVE Met(k)'
        <3>1. Met(k)
            BY <2>4 DEF CInv
        <3>2. \A q \in Copies(k) : Visited(q)' => q = map'[k] \/ q \in Pending'
            BY <1>2, <1>3, <3>1 DEF Met, Visited
        <3>3. ASSUME NEW q \in Pending, q \in Copies(k) PROVE map'[k] # None /\ Follows(q, map[k])'
            <4>1. map[k] # None /\ Follows(q, map[k])
                BY <3>1, <3>3 DEF Met
            <4>2. PICK p \in Copies(k) : p = map[k] /\ map'[k] = p
                BY <1>2, <2>4, <4>1, MappedIs
            <4>3. Follows(q, p)'
                BY <2>2, <3>3, <4>1, <4>2
            <4> QED BY <4>1, <4>2, <4>3 DEF Follows, At
        <3> QED BY <1>3, <2>2, <3>2, <3>3 DEF Met
    <2> QED BY <2>2, <2>3, <2>4
<1>5. mode = "up" => Collected'
    BY <1>2, <1>3 DEF CInv, Collected, UsedIn
<1> QED BY <1>2, <1>4, <1>5 DEF CInv

\* A device that is only read keeps its copies.
LEMMA ReadCopies ==
    ASSUME UNCHANGED <<nand, bad, saved>>, NEW k
    PROVE  /\ Copies(k)' = Copies(k) /\ (Durable(k) => Durable(k)')
           /\ \A old, new \in Pages : Follows(old, new)' <=> Follows(old, new)
<1>1. \A q : At(q)' = At(q)
    BY DEF At
<1>2. Copies(k)' = Copies(k)
    BY <1>1 DEF Copies, IsCopy
<1>3. \A old, new : Follows(old, new)' <=> Follows(old, new)
    BY <1>1 DEF Follows
<1> QED BY <1>1, <1>2, <1>3 DEF Durable

\* A step of the scan that meets no copy.
LEMMA NothingMet ==
    ASSUME CInv, mode = "scan", mode' = "scan", Pending = {}, Pending' = {}, UNCHANGED <<nand, bad, map, saved>>,
           \A k \in Keys : \A q \in Copies(k) : Visited(q)' => Visited(q)
    PROVE  CInv'
<1> SUFFICES ASSUME NEW k \in Keys PROVE Durable(k)' /\ Met(k)'
    BY DEF CInv
<1>1. Durable(k) /\ Met(k)
    BY DEF CInv
<1>2. Copies(k)' = Copies(k) /\ Durable(k)'
    BY <1>1, ReadCopies
<1>3. \A q \in Copies(k)' : Visited(q)' => q = map'[k]
    BY <1>1, <1>2 DEF Met
<1> QED BY <1>2, <1>3 DEF Met

LEMMA BeginScanCopies ==
    ASSUME TInv, CInv, BeginScan
    PROVE  CInv'
<1>1. mode = "down" /\ mode' = "scan" /\ pos' = <<1, 0>> /\ UNCHANGED <<nand, bad, todo, saved>>
    BY DEF BeginScan, device
<1>2. Pending' = {}
    BY <1>1, NoTask DEF TInv, DownOk
<1>3. ASSUME NEW k \in Keys PROVE Durable(k)' /\ Met(k)'
    <2>1. Copies(k)' = Copies(k) /\ Durable(k)'
        BY <1>1, ReadCopies DEF CInv
    <2>2. \A q \in Copies(k) : ~Visited(q)'
        <3> TAKE q \in Copies(k)
        <3>1. q[1] \in Nat /\ q[1] >= 1 /\ q[2] \in Nat
            <4>1. q[1] \in Blocks /\ q[2] \in Columns
                BY PagesAre DEF Copies
            <4> QED BY <4>1, Numbers
        <3>2. pos'[1] = 1 /\ pos'[2] = 0
            BY <1>1
        <3> QED BY <3>1, <3>2 DEF Visited
    <2> QED BY <1>2, <2>1, <2>2 DEF Met
<1> QED BY <1>1, <1>3 DEF CInv

LEMMA ScanDeletedCopies ==
    ASSUME TagsCorrect, TInv, CInv, ScanDeleted
    PROVE  CInv'
<1>1. Scanning /\ Onward /\ Read(pos).result \in {"unfixed", "deleted"}
    BY DEF ScanDeleted
<1>2. UNCHANGED <<nand, bad, mode, map, todo, saved>>
    BY DEF ScanDeleted, device
<1>3. mode = "scan" /\ todo = <<>> /\ Typed /\ PageOk(At(pos)) /\ Pending = {}
    BY <1>1, ScanningIs
<1>4. \A page \in Pages : Visited(page)' <=> Visited(page) \/ page = pos
    BY <1>1, <1>3, OnwardIs
<1>5. \A k \in Keys : pos \notin Copies(k)
    BY <1>1, <1>3, ReadIs DEF Copies, IsCopy
<1>6. Pending' = {}
    BY <1>2, <1>3, NoTask
<1>7. \A k \in Keys : \A q \in Copies(k) : Visited(q)' => Visited(q)
    BY <1>4, <1>5 DEF Copies
<1> QED BY <1>2, <1>3, <1>6, <1>7, NothingMet

LEMMA ScanErasedCopies ==
    ASSUME TagsCorrect, TInv, CInv, ScanErased
    PROVE  CInv'
<1>1. Scanning /\ Onward /\ Read(pos).result = "erased"
    BY DEF ScanErased
<1>2. UNCHANGED <<nand, bad, mode, map, todo, saved>>
    BY DEF ScanErased, device
<1>3. mode = "scan" /\ todo = <<>> /\ Typed /\ PageOk(At(pos)) /\ Pending = {}
    BY <1>1, ScanningIs
<1>4. \A page \in Pages : Visited(page)' <=> Visited(page) \/ page = pos
    BY <1>1, <1>3, OnwardIs
<1>5. \A k \in Keys : pos \notin Copies(k)
    BY <1>1, <1>3, ReadIs, ValuesAre DEF Copies, IsCopy
<1>6. Pending' = {}
    BY <1>2, <1>3, NoTask
<1>7. \A k \in Keys : \A q \in Copies(k) : Visited(q)' => Visited(q)
    BY <1>4, <1>5 DEF Copies
<1> QED BY <1>2, <1>3, <1>6, <1>7, NothingMet

\* Of two copies the scan keeps the newest.
LEMMA ScanChunkCopies ==
    ASSUME TagsCorrect, TInv, CInv, ScanChunk
    PROVE  CInv'
<1>1. PICK key \in Keys :
         /\ Scanning /\ Onward /\ IsCopy(pos, key) /\ At(pos).serial \in 0 .. 3 /\ used' = used \cup {pos}
         /\ \/ /\ map[key] = None \/ NewerWins(At(map[key]).serial, At(pos).serial)
               /\ map' = [map EXCEPT ![key] = pos]
               /\ serial' = IF IsHeader(key) THEN [serial EXCEPT ![key[1]] = At(pos).serial] ELSE serial
               /\ todo' = IF map[key] = None THEN <<>> ELSE <<DeleteOf(map[key])>>
            \/ /\ map[key] # None /\ ~NewerWins(At(map[key]).serial, At(pos).serial)
               /\ UNCHANGED <<map, serial>> /\ todo' = <<DeleteOf(pos)>>
         /\ UNCHANGED <<nand, bad, mode, state, free, alloc, finder, gc, left, saved, writes, bounds>>
    BY ScanChunkIs
<1>2. /\ mode = "scan" /\ pos \in Pages /\ pos[1] \notin bad /\ pos \notin used
      /\ \A k \in Keys : map[k] # pos
      /\ Typed /\ Pending = {}
    BY <1>1, ScanningIs
<1>3. \A page \in Pages : Visited(page)' <=> Visited(page) \/ page = pos
    BY <1>1, <1>2, OnwardIs
<1>4. pos \in Copies(key)
    BY <1>1, <1>2 DEF Copies
<1>5. \A k \in Keys : /\ Durable(k) /\ Met(k) /\ Copies(k)' = Copies(k) /\ Durable(k)'
                      /\ \A q \in Copies(k) : q \in Pages /\ (Visited(q) => q = map[k])
    <2> TAKE k \in Keys
    <2>1. Durable(k) /\ Met(k)
        BY <1>2 DEF CInv
    <2>2. Copies(k)' = Copies(k) /\ Durable(k)'
        BY <1>1, <2>1, ReadCopies
    <2> QED BY <1>2, <2>1, <2>2 DEF Met, Copies
<1>6. map[key] # None => map[key] \in Copies(key) /\ map[key] \in Pages
    BY <1>2, MappedIs
<1>7. \/ /\ map' = [map EXCEPT ![key] = pos]
         /\ \/ map[key] = None /\ Pending' = {}
            \/ map[key] # None /\ Pending' = {map[key]} /\ Follows(map[key], pos)
      \/ UNCHANGED map /\ map[key] # None /\ Pending' = {pos} /\ ~Follows(map[key], pos)
    BY <1>1, NoTask, DeleteTask DEF NewerWins, Follows
<1>8. ASSUME NEW k \in Keys, k # key PROVE Met(k)'
    <2>1. map'[k] = map[k]
        BY <1>2, <1>7, <1>8 DEF Typed
    <2>2. pos \notin Copies(k) /\ (map[key] # None => map[key] \notin Copies(k))
        BY <1>4, <1>6, <1>8, OneKey
    <2>3. \A q \in Copies(k)' : Visited(q)' => q = map'[k]
        BY <1>3, <1>5, <2>1, <2>2
    <2>4. \A q \in Pending' : q \notin Copies(k)'
        BY <1>5, <1>7, <2>2
    <2> QED BY <2>3, <2>4 DEF Met
<1>9. Met(key)'
    <2>1. \A q \in Copies(key) : Visited(q)' => q = map[key] \/ q = pos
        BY <1>3, <1>5
    <2>2. \A q : At(q)' = At(q)
        BY <1>1 DEF At
    <2>3. CASE map' = [map EXCEPT ![key] = pos] /\ map[key] = None /\ Pending' = {}
        <3>1. map'[key] = pos
            BY <1>2, <2>3 DEF Typed
        <3>2. \A q \in Copies(key) : q # map[key]
            BY <1>5, <2>3, Numbers
        <3> QED BY <1>5, <2>1, <2>3, <3>1, <3>2 DEF Met
    <2>4. CASE map' = [map EXCEPT ![key] = pos] /\ map[key] # None /\ Pending' = {map[key]} /\ Follows(map[key], pos)
        <3>1. map'[key] = pos /\ pos # None
            BY <1>2, <2>4, Numbers DEF Typed
        <3>2. \A q \in Copies(key) : Visited(q)' => q = map'[key] \/ q \in Pending'
            BY <2>1, <2>4, <3>1
        <3>3. \A q \in Pending' : map'[key] # None /\ Follows(q, map[key])'
            <4>1. PICK p : p = map[key]
                OBVIOUS
            <4>2. (At(p).serial + 1) % 4 = At(pos).serial
                BY <2>4, <4>1 DEF Follows
            <4>3. PICK n : n = pos
                OBVIOUS
            <4>4. At(n)' = At(n) /\ At(p)' = At(p)
                BY <2>2
            <4>5. (At(p)'.serial + 1) % 4 = At(n)'.serial
                BY <4>2, <4>3, <4>4
            <4>6. Follows(p, map[key])'
                BY <3>1, <4>3, <4>5 DEF Follows, At
            <4> QED BY <2>4, <3>1, <4>1, <4>6
        <3> QED BY <1>5, <3>2, <3>3 DEF Met
    <2>5. CASE UNCHANGED map /\ map[key] # None /\ Pending' = {pos} /\ ~Follows(map[key], pos)
        <3>1. PICK p \in Copies(key) : p = map[key] /\ p # pos /\ map'[key] = p
            BY <1>2, <1>6, <2>5
        <3>2. Follows(pos, p)
            BY <1>4, <1>5, <2>5, <3>1, OneIsNewest
        <3>3. PICK n : n = pos
            OBVIOUS
        <3>4. At(n)' = At(n) /\ At(p)' = At(p)
            BY <2>2
        <3>5. (At(n)'.serial + 1) % 4 = At(p)'.serial
            BY <3>2, <3>3, <3>4 DEF Follows
        <3>6. Follows(n, map[key])'
            BY <3>1, <3>5 DEF Follows, At
        <3>7. \A q \in Pending' : map'[key] # None /\ Follows(q, map[key])'
            BY <2>5, <3>3, <3>6
        <3>8. \A q \in Copies(key) : Visited(q)' => q = map'[key] \/ q \in Pending'
            BY <2>1, <2>5
        <3> QED BY <1>5, <3>7, <3>8 DEF Met
    <2> QED BY <1>7, <2>3, <2>4, <2>5
<1> QED BY <1>1, <1>2, <1>5, <1>8, <1>9 DEF CInv

LEMMA BlockDoneCopies ==
    ASSUME TInv, CInv, ScanBlockDone
    PROVE  CInv'
<1>1. /\ mode = "scan" /\ pos[1] \in Blocks /\ pos'[1] = pos[1] + 1 /\ pos'[2] = 0
      /\ NandOk /\ Typed /\ BlocksOk /\ ScanOk /\ Pending = {}
      /\ state[pos[1]] = "NEEDS_SCANNING" => pos[2] = NChunks
      /\ todo' = IF state'[pos[1]] = "FULL" /\ UsedIn(pos[1]) = {} THEN <<EraseOf(pos[1])>> ELSE <<>>
      /\ UNCHANGED <<nand, bad, mode, map, saved>>
    BY BlockDoneIs
<1>2. Pending' = {}
    BY <1>1, NoTask, EraseTask
<1>3. ASSUME NEW k \in Keys, NEW q \in Copies(k), Visited(q)'
      PROVE  Visited(q)
    <2>1. q \in Pages /\ q[1] \in Blocks /\ q[2] \in Columns /\ q[1] \notin bad /\ At(q) # Erased
        BY <1>1, CopySerial, PagesAre
    <2>2. q[1] \in Nat /\ q[2] \in Nat /\ q[2] < NChunks /\ pos[1] \in Nat /\ pos[2] \in Nat
        BY <1>1, <2>1, Numbers DEF Typed
    <2>3. q[1] <= pos[1]
        BY <1>1, <1>3, <2>2 DEF Visited
    <2>4. CASE q[1] < pos[1]
        BY <2>4 DEF Visited
    <2>5. CASE q[1] = pos[1]
        <3>1. state[pos[1]] # "DEAD" /\ state[pos[1]] # "EMPTY"
            BY <1>1, <2>1, <2>5 DEF BlocksOk, AllErased, At
        <3>2. CASE state[pos[1]] = "NEEDS_SCANNING"
            BY <1>1, <2>2, <2>5, <3>2, Numbers DEF Visited
        <3>3. CASE state[pos[1]] = "FULL"
            <4>1. ~ q[2] >= pos[2]
                BY <1>1, <2>1, <2>5, <3>3 DEF ScanOk, At
            <4> QED BY <2>2, <2>5, <4>1 DEF Visited
        <3> QED BY <1>1, <3>1, <3>2, <3>3 DEF ScanOk
    <2> QED BY <2>2, <2>3, <2>4, <2>5
<1> QED BY <1>1, <1>2, <1>3, NothingMet

LEMMA EndScanCopies ==
    ASSUME TInv, CInv, EndScan
    PROVE  CInv'
<1>1. /\ mode = "scan" /\ mode' = "up" /\ todo = <<>> /\ pos[1] > NBlocks
      /\ UNCHANGED <<nand, bad, state, used, map, todo, saved>>
    BY DEF EndScan, device
<1>2. NandOk /\ Typed /\ ScanOk
    BY <1>1 DEF TInv
<1>3. Pending = {}
    BY <1>1, NoTask
<1>4. ~Collecting'
    BY <1>1, <1>2 DEF Collecting, ScanOk
<1>5. ASSUME NEW k \in Keys PROVE Durable(k)' /\ Known(k)'
    <2>1. Durable(k) /\ Met(k)
        BY <1>1 DEF CInv
    <2>2. Copies(k)' = Copies(k) /\ Durable(k)'
        BY <1>1, <2>1, ReadCopies
    <2>3. \A q \in Copies(k) : q = map[k] /\ q \in Pages
        <3> TAKE q \in Copies(k)
        <3>1. q \in Pages /\ q[1] \in Blocks
            BY <1>2, CopySerial
        <3>2. Visited(q)
            BY <1>1, <1>2, <3>1, Numbers DEF Visited, Typed
        <3> QED BY <1>3, <2>1, <3>1, <3>2 DEF Met
    <2>4. CASE map[k] = None
        <3>1. Copies(k) = {}
            BY <2>3, <2>4, Numbers
        <3> QED BY <1>1, <2>2, <2>4, <3>1 DEF Known
    <2>5. CASE map[k] # None
        <3>1. map[k] \in Copies(k)
            BY <1>1, <2>5, MappedIs
        <3>2. At(map[k]).data = saved[k]
            BY <2>1, <2>3, <3>1 DEF Durable
        <3>3. PICK q : q = map[k] /\ map'[k] = q
            BY <1>1
        <3>4. At(map[k])'.data = saved'[k]
            BY <1>1, <3>2 DEF At
        <3>5. q \in Copies(k)' /\ \A other \in Copies(k)' : other = q
            BY <2>2, <2>3, <3>1, <3>3
        <3>6. map'[k] # None /\ map'[k] \in Copies(k)'
            BY <2>5, <3>3, <3>5
        <3>7. \A page \in Copies(k)' : page = map'[k]
            BY <3>3, <3>5
        <3>8. Known(k)'
            BY <3>4, <3>6, <3>7 DEF Known
        <3> QED BY <2>2, <3>8
    <2> QED BY <2>4, <2>5
<1> QED BY <1>1, <1>4, <1>5 DEF CInv, Collected

LEMMA StepCopies ==
    ASSUME TagsCorrect, MaxCopies = NChunks, TInv, CInv, [Next]_vars
    PROVE  CInv'
<1>1. ASSUME UNCHANGED vars PROVE CInv'
    <2>1. UNCHANGED <<nand, bad, mode, state, used, map, gc, left, todo, pos, saved>>
        BY <1>1 DEF vars, device, ram
    <2>2. Pending' = Pending /\ (Erasing' <=> Erasing) /\ (Collecting' <=> Collecting)
        BY <2>1 DEF Pending, Deleting, Erasing, Collecting
    <2>3. ASSUME NEW k \in Keys
          PROVE  Durable(k)' /\ (mode = "up" => Known(k)') /\ (mode = "scan" => Met(k)')
        <3>1. Copies(k)' = Copies(k) /\ (Durable(k) => Durable(k)')
            BY <2>1, ReadCopies
        <3>2. mode = "up" => Known(k)'
            BY <2>1, <2>2, <3>1 DEF CInv, Known, Going, At
        <3>3. mode = "scan" => Met(k)'
            BY <2>1, <2>2, <3>1 DEF CInv, Met, Visited, Follows, At
        <3> QED BY <3>1, <3>2, <3>3 DEF CInv
    <2>4. mode = "up" => Collected'
        BY <2>1, <2>2 DEF CInv, Collected, UsedIn
    <2> QED BY <2>1, <2>3, <2>4 DEF CInv
<1>2. CASE \E key \in Keys : Write(key)
    BY <1>2, WriteCopies
<1>3. CASE DeleteChunk
    BY <1>3, DeleteCopies
<1>4. CASE Erase
    BY <1>4, EraseCopies
<1>5. CASE Retire
    BY <1>5, RetireCopies
<1>6. CASE Collect
    BY <1>6, CollectCopies
<1>7. CASE Copy
    BY <1>7, CopyCopies
<1>8. CASE Crash
    BY <1>8, CrashCopies
<1>9. CASE FlipBit
    BY <1>9, FlipCopies
<1>10. CASE BeginScan
    BY <1>10, BeginScanCopies
<1>11. CASE ScanDeleted
    BY <1>11, ScanDeletedCopies
<1>12. CASE ScanErased
    BY <1>12, ScanErasedCopies
<1>13. CASE ScanChunk
    BY <1>13, ScanChunkCopies
<1>14. CASE ScanBlockDone
    BY <1>14, BlockDoneCopies
<1>15. CASE EndScan
    BY <1>15, EndScanCopies
<1> QED BY <1>1, <1>2, <1>3, <1>4, <1>5, <1>6, <1>7, <1>8, <1>9, <1>10, <1>11, <1>12, <1>13, <1>14, <1>15 DEF Next

LEMMA InitCopies ==
    ASSUME Init
    PROVE  CInv
<1>1. /\ nand = [b \in Blocks |-> [c \in 0 .. NChunks - 1 |-> Erased]] /\ mode = "up"
      /\ state = [b \in Blocks |-> "EMPTY"] /\ map = [key \in Keys |-> None] /\ saved = [key \in Keys |-> 0]
    BY DEF Init
<1>2. \A q \in Pages : At(q) = Erased
    <2> TAKE q \in Pages
    <2>1. q[1] \in Blocks /\ q[2] \in 0 .. NChunks - 1
        BY PagesAre DEF Columns
    <2> QED BY <1>1, <2>1 DEF At
<1>3. \A k \in Keys : Copies(k) = {}
    BY <1>2, ValuesAre DEF Copies, IsCopy
<1>4. ~Collecting
    BY <1>1 DEF Collecting
<1> QED BY <1>1, <1>3, <1>4 DEF CInv, Durable, Known, Collected

LEMMA NothingRevertsFollows ==
    ASSUME CInv
    PROVE  NothingReverts
<1> SUFFICES ASSUME mode = "up", NEW key \in Keys
             PROVE  saved[key] = IF map[key] = None THEN 0 ELSE At(map[key]).data
    BY DEF NothingReverts
<1>1. Known(key) /\ Durable(key)
    BY DEF CInv
<1>2. CASE map[key] = None
    BY <1>1, <1>2 DEF Known, Durable
<1>3. CASE map[key] # None
    BY <1>1, <1>3 DEF Known
<1> QED BY <1>2, <1>3

\* What was answered stays: where no bit of the tags' own error code flips, and a
\* call of the collector copies all of a block, a key has what was written to it
\* last, whatever losses of power, flipped bits, failed erasures and collections
\* have come between.
THEOREM NothingRevertsEver ==
    ASSUME FlippedBits \cap Ecc = {}, MaxCopies = NChunks
    PROVE  Spec => []NothingReverts
<1>1. Init => TInv /\ CInv
    BY InitTypes, InitCopies
<1>2. TInv /\ CInv /\ [Next]_vars => (TInv /\ CInv)'
    BY StepTypes, StepCopies, TagsAreCorrect
<1>3. TInv /\ CInv => NothingReverts
    BY NothingRevertsFollows
<1> QED BY <1>1, <1>2, <1>3, PTL DEF Spec
=============================================================================
