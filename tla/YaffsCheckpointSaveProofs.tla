---------------------- MODULE YaffsCheckpointSaveProofs ----------------------
(***************************************************************************)
(* A checkpoint that has been saved can be restored, as long as nothing    *)
(* fails on the NAND: the pages that yaffs2_CheckpointFlushBuffer writes   *)
(* are the ones that yaffs2_CheckpointFindNextCheckpointBlock leads to.    *)
(*                                                                         *)
(* The invariant follows the stream while it is written (StreamedOk): the  *)
(* pages so far are found where they are looked for and say what has been  *)
(* summed, and the next block is behind those that were taken.             *)
(*                                                                         *)
(* Fits is what the theorem needs of checkpointMaxBlocks: the reader looks *)
(* for no more blocks than that, while the writer takes any number.        *)
(***************************************************************************)
EXTENDS YaffsCheckpointProofs

\* As many blocks are looked for as the stream needs.
Fits == StreamPages <= MaxCheckpointBlocks * NChunks

\* The pages written so far are found where they are looked for, say what has
\* been summed, and the next block is behind those that were taken.
StreamedOk ==
    /\ \A i \in 1 .. ck.page : IsPage(flash, i) /\ ck.sum[i] = StreamPage(flash, i).holds
    /\ (\E S : ck.sum \in Seq(S)) /\ Len(ck.sum) = ck.page
    /\ ck.nextBlock # NoBlock
    /\ \A b \in Blocks : IsCheckpoint(flash, b) => b < ck.nextBlock /\ ck.page > 0
    /\ ck.currentChunk = ck.page % NChunks
    /\ ck.page % NChunks = 0 => ck.currentBlock = NoBlock
    /\ ck.page % NChunks # 0 => ck.currentBlock = Found(flash)[BlockOf(ck.page)]
    /\ ck.page > 0 => flash[Found(flash)[BlockOf(ck.page)]][1].next = ck.nextBlock

\* While the device says it is checkpointed nothing is changed.
Changing == {"erasecheckpoint", "write", "erase", "open", "page", "close", "flush", "bug"}
SavedOk ==
    /\ dev.isCheckpointed => \A x \in Changing : ~Doing(x)
    /\ dev.isCheckpointed /\ faults = 0 => Restorable(flash)
    /\ Doing("page") /\ faults = 0 => StreamedOk
    /\ Doing("close") /\ Head(work).x = TRUE /\ faults = 0 => Restorable(flash)
    /\ Doing("erasecheckpoint") /\ Tail(work) \in Pagings =>
           ck.sum = <<>> /\ ck.currentChunk = 0 /\ ck.nextBlock = 1
SInv == IInv /\ (mounted => SavedOk)

(***************************************************************************)
(* Where the pages of the stream are.                                      *)
(***************************************************************************)
\* A smaller quotient is smaller by the divisor at least.
LEMMA QuotientsOrdered ==
    ASSUME NEW n \in Nat, n > 0, NEW q \in Int, NEW r \in 0 .. n - 1,
           NEW s \in Int, NEW t \in 0 .. n - 1, q < s
    PROVE  n * q + r < n * s + t
<1>1. q + 1 <= s /\ s - q - 1 \in Nat
    OBVIOUS
<1>2. n * (s - q - 1) >= 0
    BY <1>1
<1>3. n * (s - q - 1) = n * s - n * q - n
    OBVIOUS
<1>4. n * s \in Int /\ n * q \in Int
    OBVIOUS
<1> QED BY <1>2, <1>3, <1>4

\* A number is made of its quotient and its remainder.
LEMMA QuotientIs ==
    ASSUME NEW n \in Nat, n > 0, NEW j \in Nat
    PROVE  j = n * (j \div n) + (j % n)
OBVIOUS

\* ... in one way.
LEMMA QuotientUnique ==
    ASSUME NEW n \in Nat, n > 0, NEW j \in Nat, NEW q \in Int, NEW r \in 0 .. n - 1, j = n * q + r
    PROVE  j \div n = q /\ j % n = r
<1>1. PICK s : s = j \div n
    OBVIOUS
<1>2. PICK t : t = j % n
    OBVIOUS
<1>3. s \in Int /\ t \in 0 .. n - 1 /\ j = n * s + t
    BY <1>1, <1>2, Quotients, QuotientIs
<1>4. ~(q < s) /\ ~(s < q)
    BY <1>3, QuotientsOrdered
<1>5. q = s
    BY <1>3, <1>4
<1>6. r = t
    BY <1>3, <1>5
<1> QED BY <1>1, <1>2, <1>5, <1>6

\* The place of the next page is the next one of the block, or the first one of
\* the next block.
LEMMA NextPlace ==
    ASSUME NEW n \in Nat
    PROVE  /\ n \div NChunks \in Nat /\ n % NChunks \in 0 .. NChunks - 1
           /\ BlockOf(n + 1) = n \div NChunks + 1 /\ PageOf(n + 1) = (n % NChunks) + 1
           /\ (n % NChunks) + 1 = NChunks <=> (n + 1) % NChunks = 0
           /\ (n + 1) % NChunks = ((n % NChunks) + 1) % NChunks
           /\ n > 0 /\ n % NChunks = 0 => BlockOf(n) = n \div NChunks
           /\ n > 0 /\ n % NChunks # 0 => BlockOf(n) = n \div NChunks + 1 /\ PageOf(n) = n % NChunks
<1>1. PICK m : m = NChunks
    OBVIOUS
<1>2. m \in Nat /\ m > 0
    BY <1>1, CheckpointAssumption
<1>3. PICK q : q = n \div m
    OBVIOUS
<1>4. PICK r : r = n % m
    OBVIOUS
<1>5. q \in Nat /\ r \in 0 .. m - 1 /\ n = m * q + r
    BY <1>2, <1>3, <1>4, Quotients, QuotientIs
<1>6. BlockOf(n + 1) = q + 1 /\ PageOf(n + 1) = r + 1
    BY <1>1, <1>3, <1>4 DEF BlockOf, PageOf
<1>7. m * (q + 1) = m * q + m /\ m * (q - 1) = m * q - m /\ m * q \in Int
    BY <1>2, <1>5
<1>8. ASSUME r + 1 = m PROVE (n + 1) % m = 0 /\ m % m = 0
    <2>1. n + 1 = m * (q + 1) + 0 /\ 0 \in 0 .. m - 1
        BY <1>2, <1>5, <1>7, <1>8
    <2>2. (n + 1) % m = 0
        BY <1>2, <1>5, <2>1, QuotientUnique
    <2>3. m = m * 1 + 0 /\ m % m = 0
        BY <1>2, <2>1, QuotientUnique
    <2> QED BY <2>2, <2>3
<1>9. ASSUME r + 1 # m PROVE (n + 1) % m = r + 1 /\ (r + 1) % m = r + 1
    <2>1. n + 1 = m * q + (r + 1) /\ r + 1 \in 0 .. m - 1
        BY <1>2, <1>5, <1>7, <1>9
    <2>2. (n + 1) % m = r + 1
        BY <1>2, <1>5, <2>1, QuotientUnique
    <2>3. r + 1 = m * 0 + (r + 1) /\ r + 1 \in Nat
        BY <1>2, <2>1
    <2>4. (r + 1) % m = r + 1
        BY <1>2, <2>1, <2>3, QuotientUnique
    <2> QED BY <2>2, <2>4
<1>10. (r + 1 = m <=> (n + 1) % m = 0) /\ (n + 1) % m = (r + 1) % m
    <2>1. CASE r + 1 = m
        <3>1. (n + 1) % m = 0 /\ m % m = 0
            BY <1>8, <2>1
        <3> QED BY <2>1, <3>1
    <2>2. CASE r + 1 # m
        <3>1. (n + 1) % m = r + 1 /\ (r + 1) % m = r + 1 /\ r + 1 # 0
            BY <1>5, <1>9, <2>2
        <3> QED BY <2>2, <3>1
    <2> QED BY <2>1, <2>2
<1>11. ASSUME n > 0, r = 0 PROVE BlockOf(n) = q
    <2>1. n - 1 = m * (q - 1) + (m - 1) /\ m - 1 \in 0 .. m - 1 /\ n - 1 \in Nat /\ q - 1 \in Int
        BY <1>2, <1>5, <1>7, <1>11
    <2>2. (n - 1) \div m = q - 1
        BY <1>2, <2>1, QuotientUnique
    <2> QED BY <1>1, <1>5, <2>2 DEF BlockOf
<1>12. ASSUME n > 0, r # 0 PROVE BlockOf(n) = q + 1 /\ PageOf(n) = r
    <2>1. n - 1 = m * q + (r - 1) /\ r - 1 \in 0 .. m - 1 /\ n - 1 \in Nat
        BY <1>2, <1>5, <1>7, <1>12
    <2>2. (n - 1) \div m = q /\ (n - 1) % m = r - 1
        BY <1>2, <1>5, <2>1, QuotientUnique
    <2> QED BY <1>1, <1>5, <2>2 DEF BlockOf, PageOf
<1> QED BY <1>1, <1>3, <1>4, <1>5, <1>6, <1>10, <1>11, <1>12

\* A page that comes later is in the same block or in a later one.
LEMMA PlacesOrdered ==
    ASSUME NEW i \in Nat, NEW j \in Nat, 1 <= j, j <= i
    PROVE  BlockOf(j) <= BlockOf(i)
<1>1. PICK m : m = NChunks
    OBVIOUS
<1>2. m \in Nat /\ m > 0
    BY <1>1, CheckpointAssumption
<1>3. PICK a : a = j - 1
    OBVIOUS
<1>4. PICK b : b = i - 1
    OBVIOUS
<1>5. a \in Nat /\ b \in Nat /\ a <= b
    BY <1>3, <1>4
<1>6. PICK q : q = b \div m
    OBVIOUS
<1>7. PICK s : s = a \div m
    OBVIOUS
<1>8. \E r \in 0 .. m - 1 : b = m * q + r
    BY <1>2, <1>5, <1>6, Quotients, QuotientIs
<1>9. \E t \in 0 .. m - 1 : a = m * s + t
    BY <1>2, <1>5, <1>7, Quotients, QuotientIs
<1>10. q \in Int /\ s \in Int
    BY <1>2, <1>5, <1>6, <1>7, Quotients
<1>11. ~(q < s)
    BY <1>2, <1>5, <1>8, <1>9, <1>10, QuotientsOrdered
<1> QED BY <1>1, <1>3, <1>4, <1>6, <1>7, <1>10, <1>11 DEF BlockOf

\* A block of the stream is among those that are looked for.
LEMMA FitsIn ==
    ASSUME Fits, NEW i \in Stream
    PROVE  BlockOf(i) <= MaxCheckpointBlocks
<1>1. PICK m : m = NChunks
    OBVIOUS
<1>2. PICK k : k = MaxCheckpointBlocks
    OBVIOUS
<1>3. PICK a : a = i - 1
    OBVIOUS
<1>4. m \in Nat /\ m > 0 /\ k \in Nat /\ a \in Nat /\ StreamPages <= k * m /\ a < StreamPages
      /\ StreamPages \in Nat
    BY <1>1, <1>2, <1>3, CheckpointAssumption DEF Fits, Stream
<1>5. k * m = m * k + 0 /\ 0 \in 0 .. m - 1 /\ m * k \in Nat
    BY <1>4
<1>6. a \div m \in Nat /\ a % m \in 0 .. m - 1 /\ a = m * (a \div m) + (a % m)
    BY <1>4, Quotients, QuotientIs
<1>7. ~(k < a \div m)
    <2>1. ASSUME k < a \div m PROVE m * k + 0 < m * (a \div m) + (a % m)
        BY <1>4, <1>5, <1>6, <2>1, QuotientsOrdered
    <2> QED BY <1>4, <1>5, <1>6, <2>1
<1>8. k # a \div m
    <2>1. ASSUME k = a \div m PROVE FALSE
        BY <1>4, <1>5, <1>6, <2>1
    <2> QED BY <2>1
<1> QED BY <1>1, <1>2, <1>3, <1>4, <1>6, <1>7, <1>8 DEF BlockOf

(***************************************************************************)
(* The blocks of the stream while it is written.                           *)
(***************************************************************************)
\* What is a new block of the checkpoint comes behind the others.
Later(f, g) ==
    \A c \in Blocks :
        /\ IsCheckpoint(f, c) => IsCheckpoint(g, c) /\ g[c][1].next = f[c][1].next
        /\ IsCheckpoint(g, c) /\ ~IsCheckpoint(f, c) =>
               \A d \in Blocks : IsCheckpoint(f, d) => d < c

\* What was found is found again.
LEMMA FindKept ==
    ASSUME NEW f, NEW g, Later(f, g), NEW from, FindFrom(f, from) # NoBlock
    PROVE  FindFrom(g, from) = FindFrom(f, from)
<1>1. PICK S : S = {b \in Blocks : b >= from /\ IsCheckpoint(f, b)}
    OBVIOUS
<1>2. PICK T : T = {b \in Blocks : b >= from /\ IsCheckpoint(g, b)}
    OBVIOUS
<1>3. S \subseteq Nat /\ T \subseteq Nat /\ S \subseteq Blocks /\ T \subseteq Blocks
    BY <1>1, <1>2, CheckpointAssumption DEF Blocks
<1>4. PICK l : l = Lowest(S)
    OBVIOUS
<1>5. PICK m : m = Lowest(T)
    OBVIOUS
<1>6. FindFrom(f, from) = l /\ FindFrom(g, from) = m
    BY <1>1, <1>2, <1>4, <1>5 DEF FindFrom
<1>7. S # {} /\ l \in S /\ \A c \in S : l <= c
    BY <1>3, <1>4, <1>6, LowestIs
<1>8. S \subseteq T
    BY <1>1, <1>2 DEF Later
<1>9. m \in T /\ \A c \in T : m <= c
    BY <1>3, <1>5, <1>7, <1>8, LowestIs
<1>10. m \in S
    <2>1. m <= l
        BY <1>7, <1>8, <1>9
    <2>2. m \in Blocks /\ l \in Blocks /\ m >= from /\ IsCheckpoint(g, m) /\ IsCheckpoint(f, l)
        BY <1>1, <1>2, <1>7, <1>9
    <2>3. m \in Nat /\ l \in Nat
        BY <1>3, <1>7, <1>9
    <2>4. IsCheckpoint(f, m)
        <3>1. ASSUME ~IsCheckpoint(f, m) PROVE l < m
            BY <2>2, <3>1 DEF Later
        <3> QED BY <2>1, <2>3, <3>1
    <2> QED BY <1>1, <2>2, <2>4
<1>11. l <= m /\ m <= l /\ l \in Nat /\ m \in Nat
    BY <1>3, <1>7, <1>8, <1>9, <1>10
<1> QED BY <1>6, <1>11

\* The first block is found behind all the others.
LEMMA FindNew ==
    ASSUME NEW g, NEW b \in Blocks, IsCheckpoint(g, b), NEW from, from <= b,
           \A c \in Blocks : IsCheckpoint(g, c) => c = b \/ c < from, from \in Int
    PROVE  FindFrom(g, from) = b
<1>1. PICK T : T = {c \in Blocks : c >= from /\ IsCheckpoint(g, c)}
    OBVIOUS
<1>2. \A c \in Blocks : c \in Nat
    BY CheckpointAssumption DEF Blocks
<1>3. T \subseteq Nat /\ b \in T /\ \A c \in T : c = b
    BY <1>1, <1>2
<1>4. Lowest(T) = b
    BY <1>3, LowestIs
<1> QED BY <1>1, <1>4 DEF FindFrom

\* The blocks before one that is found are found.
LEMMA FoundBefore ==
    ASSUME NEW f, NEW m \in 1 .. StreamPages, Found(f)[m] # NoBlock, NEW k \in 1 .. m
    PROVE  Found(f)[k] # NoBlock /\ m <= MaxCheckpointBlocks
<1>1. StreamPages \in Nat /\ MaxCheckpointBlocks \in Nat
    BY CheckpointAssumption
<1>2. \A n \in 1 .. StreamPages : Found(f)[n] = NextFound(f, Found(f), n)
    BY FoundIs
<1>3. \A n \in 1 .. StreamPages :
          Found(f)[n] # NoBlock => n <= MaxCheckpointBlocks /\ (n = 1 \/ Found(f)[n - 1] # NoBlock)
    BY <1>1, <1>2 DEF NextFound
<1>4. PICK S : S = {l \in k .. m : Found(f)[l] # NoBlock}
    OBVIOUS
<1>5. S \subseteq Nat /\ m \in S
    BY <1>1, <1>4
<1>6. PICK l \in S : \A j \in S : l <= j
    BY <1>5, SmallestIs
<1>7. l = k
    <2> SUFFICES ASSUME l # k PROVE FALSE
        OBVIOUS
    <2>1. l \in k .. m /\ l - 1 \in k .. m /\ l \in 1 .. StreamPages /\ l # 1 /\ ~(l <= l - 1)
        BY <1>1, <1>4
    <2>2. Found(f)[l - 1] # NoBlock
        BY <1>3, <1>4, <2>1
    <2> QED BY <1>4, <1>6, <2>1, <2>2
<1> QED BY <1>3, <1>4, <1>7

\* The blocks that were found are found again.
LEMMA FoundKept ==
    ASSUME NEW f, NEW g, Later(f, g), NEW m \in 1 .. StreamPages, Found(f)[m] # NoBlock, NEW k \in 1 .. m
    PROVE  Found(g)[k] = Found(f)[k]
<1>1. StreamPages \in Nat /\ MaxCheckpointBlocks \in Nat
    BY CheckpointAssumption
<1>2. \A l \in 1 .. m : Found(f)[l] # NoBlock /\ l \in 1 .. StreamPages /\ l \in Nat
    BY <1>1, FoundBefore
<1>3. PICK F : F = Found(f)
    OBVIOUS
<1>4. PICK G : G = Found(g)
    OBVIOUS
<1>5. \A l \in 1 .. m : F[l] = NextFound(f, F, l) /\ G[l] = NextFound(g, G, l) /\ F[l] # NoBlock
    BY <1>2, <1>3, <1>4, FoundIs
<1>6. PICK S : S = {l \in 1 .. m : G[l] # F[l]}
    OBVIOUS
<1>7. S = {}
    <2> SUFFICES ASSUME S # {} PROVE FALSE
        OBVIOUS
    <2>1. S \subseteq Nat
        BY <1>2, <1>6
    <2>2. PICK l \in S : \A j \in S : l <= j
        BY <2>1, SmallestIs
    <2>3. l \in 1 .. m /\ l \in Nat /\ G[l] # F[l]
        BY <1>2, <1>6
    <2>4. CASE l = 1
        <3>1. F[l] = FindFrom(f, 1) /\ G[l] = FindFrom(g, 1)
            BY <1>5, <2>3, <2>4 DEF NextFound
        <3> QED BY <1>5, <2>3, <3>1, FindKept
    <2>5. CASE l # 1
        <3>1. l - 1 \in 1 .. m /\ ~(l <= l - 1)
            BY <1>1, <2>3, <2>5
        <3>2. G[l - 1] = F[l - 1] /\ F[l - 1] # NoBlock
            BY <1>5, <1>6, <2>2, <3>1
        <3>3. PICK c : c = F[l - 1]
            OBVIOUS
        <3>4. F[l] = FindFrom(f, f[c][1].next) /\ G[l] = FindFrom(g, g[c][1].next)
            BY <1>5, <2>3, <2>5, <3>2, <3>3 DEF NextFound
        <3>5. c \in Blocks /\ IsCheckpoint(f, c)
            BY <1>2, <1>3, <3>1, <3>2, <3>3, FoundAre
        <3>6. g[c][1].next = f[c][1].next
            BY <3>5 DEF Later
        <3> QED BY <1>5, <2>3, <3>4, <3>6, FindKept
    <2> QED BY <2>4, <2>5
<1> QED BY <1>3, <1>4, <1>6, <1>7

(***************************************************************************)
(* A page is written.                                                      *)
(***************************************************************************)
\* The place the next page is written to is the one it is looked for in.
LEMMA PlaceWritten ==
    ASSUME IInv, SavedOk, Doing("page"), faults = 0, NEW n, n = ck.page,
           NEW b, b = IF ck.currentBlock = NoBlock THEN NextErased ELSE ck.currentBlock, b # NoBlock,
           NEW p, p = IF ck.currentBlock = NoBlock THEN 1 ELSE ck.currentChunk + 1
    PROVE  /\ n \in Nat /\ n + 1 \in Stream /\ (n > 0 => n \in Stream)
           /\ p = PageOf(n + 1) /\ b \in Blocks /\ p \in Pages
           /\ n > 0 => Found(flash)[BlockOf(n)] \in Blocks /\ IsCheckpoint(flash, Found(flash)[BlockOf(n)])
           /\ IF ck.currentBlock = NoBlock
              THEN /\ n % NChunks = 0 /\ p = 1 /\ b >= ck.nextBlock /\ ck.nextBlock \in Int
                   /\ \A q \in Pages : flash[b][q] = Erased
              ELSE /\ n % NChunks # 0 /\ p > 1 /\ n > 0 /\ p = (n % NChunks) + 1
                   /\ b = Found(flash)[BlockOf(n)]
<1>1. StreamedOk /\ PagesOk /\ DeviceTyped
    BY DoingIs DEF SavedOk, DeviceOk, StreamOk
<1>2. n \in Nat /\ n + 1 \in Stream /\ (n > 0 => n \in Stream)
    BY <1>1, CheckpointAssumption DEF PagesOk, DeviceTyped, Stream
<1>3. /\ b \in Blocks /\ p \in Pages
      /\ IF ck.currentBlock = NoBlock THEN AllErased(flash, b) ELSE p > 1
    BY NextPageIs
<1>4. /\ n % NChunks \in 0 .. NChunks - 1 /\ PageOf(n + 1) = (n % NChunks) + 1
    BY <1>2, NextPlace
<1>5. ASSUME n > 0
      PROVE  Found(flash)[BlockOf(n)] \in Blocks /\ IsCheckpoint(flash, Found(flash)[BlockOf(n)])
    <2>1. PICK c : c = Found(flash)[BlockOf(n)]
        OBVIOUS
    <2>2. StreamPage(flash, n) = (IF c = NoBlock THEN Erased ELSE flash[c][PageOf(n)])
        BY <2>1 DEF StreamPage
    <2>3. n \in 1 .. ck.page
        BY <1>2, <1>5
    <2>4. IsPage(flash, n)
        BY <1>1, <2>3 DEF StreamedOk
    <2>5. c # NoBlock
        BY <2>2, <2>4, KindsAre DEF IsPage
    <2>6. BlockOf(n) \in 1 .. StreamPages
        BY <1>2, <1>5, PlaceIs
    <2> QED BY <2>1, <2>5, <2>6, FoundAre
<1>6. NoBlock \notin Blocks
    BY CheckpointAssumption DEF NoBlock, Blocks
<1>7. /\ n % NChunks = 0 => ck.currentBlock = NoBlock
      /\ n % NChunks # 0 => ck.currentBlock = Found(flash)[BlockOf(n)]
      /\ ck.currentChunk = n % NChunks /\ ck.nextBlock # NoBlock /\ ck.nextBlock \in Int
    BY <1>1 DEF StreamedOk, DeviceTyped
<1>8. n % NChunks # 0 => n > 0
    <2> SUFFICES ASSUME n = 0 PROVE n % NChunks = 0
        BY <1>2
    <2>1. 0 = NChunks * 0 + 0 /\ 0 \in 0 .. NChunks - 1 /\ NChunks \in Nat /\ NChunks > 0
        BY CheckpointAssumption
    <2>2. 0 % NChunks = 0
        BY <2>1, QuotientUnique
    <2> QED BY <2>2
<1>9. ck.currentBlock = NoBlock <=> n % NChunks = 0
    BY <1>5, <1>6, <1>7, <1>8
<1>10. CASE ck.currentBlock = NoBlock
    <2>1. PICK S : S = {c \in InState(dev, "empty") : c >= ck.nextBlock}
        OBVIOUS
    <2>2. S \subseteq Nat
        BY <2>1, CheckpointAssumption DEF InState, Blocks
    <2>3. b = Lowest(S)
        BY <1>7, <1>10, <2>1 DEF NextErased
    <2>4. b \in S
        BY <2>2, <2>3, LowestIs
    <2>5. b >= ck.nextBlock
        BY <2>1, <2>4
    <2>6. p = 1 /\ n % NChunks = 0 /\ PageOf(n + 1) = 1
        BY <1>4, <1>9, <1>10
    <2>7. \A q \in Pages : flash[b][q] = Erased
        BY <1>3, <1>10 DEF AllErased
    <2> QED BY <1>2, <1>3, <1>5, <1>7, <1>10, <2>5, <2>6, <2>7
<1>11. CASE ck.currentBlock # NoBlock
    BY <1>2, <1>3, <1>4, <1>5, <1>7, <1>8, <1>9, <1>11
<1> QED BY <1>10, <1>11

\* The page that is written is behind the others: the blocks and the pages that
\* were found before are found as they were, and the new one after them.
LEMMA PageFound ==
    ASSUME IInv, SavedOk, Fits, Doing("page"), faults = 0, NEW n, n = ck.page,
           NEW b, b = IF ck.currentBlock = NoBlock THEN NextErased ELSE ck.currentBlock, b # NoBlock,
           NEW p, p = IF ck.currentBlock = NoBlock THEN 1 ELSE ck.currentChunk + 1,
           NEW g, NEW x, x.kind = "ck", Programs(flash, g, b, p, x)
    PROVE  /\ Found(g)[BlockOf(n + 1)] = b /\ StreamPage(g, n + 1) = x
           /\ \A j \in 1 .. n : StreamPage(g, j) = StreamPage(flash, j)
           /\ \A c \in Blocks : IsCheckpoint(g, c) <=> IsCheckpoint(flash, c) \/ (c = b /\ p = 1)
<1>1. /\ n \in Nat /\ n + 1 \in Stream /\ (n > 0 => n \in Stream)
      /\ p = PageOf(n + 1) /\ b \in Blocks /\ p \in Pages
      /\ n > 0 => Found(flash)[BlockOf(n)] \in Blocks /\ IsCheckpoint(flash, Found(flash)[BlockOf(n)])
      /\ IF ck.currentBlock = NoBlock
         THEN /\ n % NChunks = 0 /\ p = 1 /\ b >= ck.nextBlock /\ ck.nextBlock \in Int
              /\ \A q \in Pages : flash[b][q] = Erased
         ELSE /\ n % NChunks # 0 /\ p > 1 /\ n > 0 /\ p = (n % NChunks) + 1
              /\ b = Found(flash)[BlockOf(n)]
    BY PlaceWritten
<1>2. StreamedOk
    BY DEF SavedOk
<1>3. NoBlock \notin Blocks /\ 1 \in Pages /\ \A c \in Blocks : c \in Nat /\ c >= 1
    BY CheckpointAssumption DEF NoBlock, Blocks, Pages
<1>4. g[b][p] = x /\ \A c \in Blocks, q \in Pages : c # b \/ q # p => g[c][q] = flash[c][q]
    BY DEF Programs
<1>5. p = 1 => ~IsCheckpoint(flash, b)
    BY <1>1, <1>3, KindsAre DEF IsCheckpoint
<1>6. \A c \in Blocks : IsCheckpoint(g, c) <=> IsCheckpoint(flash, c) \/ (c = b /\ p = 1)
    BY <1>1, <1>3, <1>4 DEF IsCheckpoint
<1>7. \A c \in Blocks : IsCheckpoint(flash, c) => g[c][1] = flash[c][1]
    BY <1>1, <1>3, <1>4, <1>5
<1>8. p = 1 => \A d \in Blocks : IsCheckpoint(flash, d) => d < b
    <2> SUFFICES ASSUME p = 1, NEW d \in Blocks, IsCheckpoint(flash, d) PROVE d < b
        OBVIOUS
    <2>1. d < ck.nextBlock /\ b >= ck.nextBlock /\ ck.nextBlock \in Int
        BY <1>1, <1>2 DEF StreamedOk
    <2> QED BY <1>1, <1>3, <2>1
<1>9. Later(flash, g)
    BY <1>6, <1>7, <1>8 DEF Later
<1>10. /\ BlockOf(n + 1) \in 1 .. StreamPages /\ BlockOf(n + 1) <= MaxCheckpointBlocks
       /\ n > 0 => BlockOf(n) \in 1 .. StreamPages
    BY <1>1, PlaceIs, FitsIn
<1>11. ASSUME n > 0, NEW k \in 1 .. BlockOf(n) PROVE Found(g)[k] = Found(flash)[k]
    <2>1. Found(flash)[BlockOf(n)] # NoBlock
        BY <1>1, <1>3, <1>11
    <2> QED BY <1>9, <1>10, <1>11, <2>1, FoundKept
<1>12. n > 0 => flash[Found(flash)[BlockOf(n)]][1].next = ck.nextBlock
    BY <1>1, <1>2 DEF StreamedOk
<1>13. /\ n \div NChunks \in Nat /\ BlockOf(n + 1) = n \div NChunks + 1
       /\ n > 0 /\ n % NChunks = 0 => BlockOf(n) = n \div NChunks
       /\ n > 0 /\ n % NChunks # 0 => BlockOf(n) = n \div NChunks + 1 /\ PageOf(n) = n % NChunks
    BY <1>1, NextPlace
<1>14. Found(g)[BlockOf(n + 1)] = b
    <2>1. CASE n % NChunks # 0
        <3>1. n > 0 /\ b = Found(flash)[BlockOf(n)] /\ BlockOf(n) = BlockOf(n + 1)
            BY <1>1, <1>13, <2>1
        <3>2. BlockOf(n) \in 1 .. BlockOf(n)
            BY <1>10, <3>1
        <3> QED BY <1>11, <3>1, <3>2
    <2>2. CASE n % NChunks = 0
        <3>1. /\ p = 1 /\ b >= ck.nextBlock /\ ck.nextBlock \in Int
              /\ IsCheckpoint(g, b)
            BY <1>1, <1>6, <2>2
        <3>2. Found(g)[BlockOf(n + 1)] = NextFound(g, Found(g), BlockOf(n + 1))
            BY <1>10, FoundIs
        <3>3. \A c \in Blocks : IsCheckpoint(g, c) => c = b \/ (c < ck.nextBlock /\ n > 0)
            BY <1>2, <1>6 DEF StreamedOk
        <3>4. CASE n = 0
            <4>1. n \div NChunks = 0
                <5>1. 0 = NChunks * 0 + 0 /\ 0 \in 0 .. NChunks - 1 /\ NChunks \in Nat /\ NChunks > 0
                    BY CheckpointAssumption
                <5> QED BY <3>4, <5>1, QuotientUnique
            <4>2. BlockOf(n + 1) = 1
                BY <1>13, <4>1
            <4>3. Found(g)[BlockOf(n + 1)] = FindFrom(g, 1)
                BY <1>10, <3>2, <4>2, CheckpointAssumption DEF NextFound
            <4>4. FindFrom(g, 1) = b
                <5>1. \A c \in Blocks : IsCheckpoint(g, c) => c = b
                    BY <3>3, <3>4
                <5> QED BY <1>1, <1>3, <3>1, <5>1, FindNew
            <4> QED BY <4>3, <4>4
        <3>5. CASE n # 0
            <4>1. n > 0 /\ BlockOf(n + 1) - 1 = BlockOf(n) /\ BlockOf(n + 1) # 1
                  /\ BlockOf(n) \in 1 .. BlockOf(n)
                BY <1>1, <1>10, <1>13, <2>2, <3>5
            <4>2. PICK c : c = Found(flash)[BlockOf(n)]
                OBVIOUS
            <4>3. c \in Blocks /\ IsCheckpoint(flash, c) /\ c # NoBlock /\ Found(g)[BlockOf(n)] = c
                BY <1>1, <1>3, <1>11, <4>1, <4>2
            <4>4. g[c][1].next = ck.nextBlock
                BY <1>7, <1>12, <4>1, <4>2, <4>3
            <4>5. ~(BlockOf(n + 1) > MaxCheckpointBlocks)
                BY <1>10, CheckpointAssumption
            <4>6. Found(g)[BlockOf(n + 1)] = FindFrom(g, g[c][1].next)
                BY <3>2, <4>1, <4>3, <4>5 DEF NextFound
            <4>7. FindFrom(g, ck.nextBlock) = b
                <5>1. \A d \in Blocks : IsCheckpoint(g, d) => d = b \/ d < ck.nextBlock
                    BY <3>3
                <5>2. ck.nextBlock <= b
                    BY <1>1, <1>3, <3>1
                <5> QED BY <1>1, <3>1, <5>1, <5>2, FindNew
            <4> QED BY <4>4, <4>6, <4>7
        <3> QED BY <3>4, <3>5
    <2> QED BY <2>1, <2>2
<1>15. StreamPage(g, n + 1) = x
    BY <1>1, <1>3, <1>4, <1>14 DEF StreamPage
<1>16. ASSUME NEW j \in 1 .. n PROVE StreamPage(g, j) = StreamPage(flash, j)
    <2>1. n > 0 /\ j \in Nat /\ j >= 1 /\ j <= n /\ j \in Stream
        BY <1>1, <1>16, CheckpointAssumption DEF Stream
    <2>2. BlockOf(j) \in 1 .. StreamPages /\ PageOf(j) \in Pages /\ BlockOf(j) \in 1 .. BlockOf(n)
        BY <1>1, <1>10, <2>1, PlaceIs, PlacesOrdered
    <2>3. PICK c : c = Found(flash)[BlockOf(j)]
        OBVIOUS
    <2>4. Found(g)[BlockOf(j)] = c
        BY <1>11, <2>1, <2>2, <2>3
    <2>5. IsPage(flash, j)
        BY <1>2, <1>16 DEF StreamedOk
    <2>6. /\ StreamPage(flash, j) = (IF c = NoBlock THEN Erased ELSE flash[c][PageOf(j)])
          /\ StreamPage(g, j) = (IF c = NoBlock THEN Erased ELSE g[c][PageOf(j)])
        BY <2>3, <2>4 DEF StreamPage
    <2>7. c # NoBlock
        BY <2>5, <2>6, KindsAre DEF IsPage
    <2>8. c \in Blocks
        BY <2>2, <2>3, <2>7, FoundAre
    <2>9. c # b \/ PageOf(j) # p
        <3> SUFFICES ASSUME c = b, PageOf(j) = p PROVE FALSE
            OBVIOUS
        <3>1. p > 1
            <4>1. flash[b][p].kind = "ck"
                BY <2>5, <2>6, <2>7 DEF IsPage
            <4>2. flash[b][p] # Erased
                BY <4>1, KindsAre
            <4> QED BY <1>1, <4>2
        <3>2. n % NChunks # 0 /\ p = (n % NChunks) + 1 /\ b = Found(flash)[BlockOf(n)]
            BY <1>1, <3>1
        <3>3. PICK m : m = j - 1
            OBVIOUS
        <3>4. m \in Nat /\ m + 1 = j
            BY <2>1, <3>3
        <3>5. BlockOf(j) = m \div NChunks + 1 /\ PageOf(j) = (m % NChunks) + 1
            BY <3>4, NextPlace
        <3>6. m % NChunks \in Int /\ n % NChunks \in Int
            BY <1>1, <3>4, NextPlace
        <3>7. m % NChunks = n % NChunks /\ m % NChunks # 0
            BY <1>1, <3>1, <3>2, <3>5, <3>6
        <3>8. m > 0
            <4> SUFFICES ASSUME m = 0 PROVE FALSE
                BY <3>4
            <4>1. 0 = NChunks * 0 + 0 /\ 0 \in 0 .. NChunks - 1 /\ NChunks \in Nat /\ NChunks > 0
                BY CheckpointAssumption
            <4>2. 0 % NChunks = 0
                BY <4>1, QuotientUnique
            <4> QED BY <3>7, <4>2
        <3>9. BlockOf(m) = BlockOf(j) /\ PageOf(m) = n % NChunks
            BY <3>4, <3>5, <3>7, <3>8, NextPlace
        <3>10. PageOf(n) = n % NChunks
            BY <1>13, <2>1, <3>2
        <3>11. StreamPage(flash, m) = StreamPage(flash, n)
            BY <2>3, <3>2, <3>9, <3>10 DEF StreamPage
        <3>12. m \in 1 .. n /\ n \in 1 .. n /\ m # n
            BY <1>1, <2>1, <3>3, <3>4, <3>8
        <3>13. IsPage(flash, m) /\ IsPage(flash, n)
            BY <1>2, <3>12 DEF StreamedOk
        <3> QED BY <3>11, <3>12, <3>13 DEF IsPage
    <2>10. g[c][PageOf(j)] = flash[c][PageOf(j)]
        BY <1>4, <2>2, <2>8, <2>9
    <2> QED BY <2>6, <2>10
<1> QED BY <1>6, <1>14, <1>15, <1>16

\* What has been written so far is what will be read.
LEMMA StreamGoesOn ==
    ASSUME IInv, SavedOk, Fits, Doing("page"), faults = 0, NEW n, n = ck.page,
           NEW b, b = IF ck.currentBlock = NoBlock THEN NextErased ELSE ck.currentBlock, b # NoBlock,
           NEW p, p = IF ck.currentBlock = NoBlock THEN 1 ELSE ck.currentChunk + 1,
           NEW next, next = IF ck.currentBlock = NoBlock THEN b + 1 ELSE ck.nextBlock,
           NEW x, x = [kind |-> "ck", n |-> n + 1, next |-> Hint(next), holds |-> Holds(n + 1)],
           Programs(flash, flash', b, p, x),
           ck' = [ck EXCEPT !.page = n + 1, !.sum = Append(@, Holds(n + 1)), !.nextBlock = next,
                            !.currentBlock = IF p = NChunks THEN NoBlock ELSE b,
                            !.currentChunk = p % NChunks]
    PROVE  StreamedOk' /\ (n + 1 = StreamPages => Restorable(flash'))
<1>1. PICK g : g = flash'
    OBVIOUS
<1>2. x.kind = "ck" /\ x.n = n + 1 /\ x.next = next /\ x.holds = Holds(n + 1)
    BY DEF Hint
<1>3. /\ Found(g)[BlockOf(n + 1)] = b /\ StreamPage(g, n + 1) = x
      /\ \A j \in 1 .. n : StreamPage(g, j) = StreamPage(flash, j)
      /\ \A c \in Blocks : IsCheckpoint(g, c) <=> IsCheckpoint(flash, c) \/ (c = b /\ p = 1)
    BY <1>1, <1>2, PageFound
<1>4. /\ n \in Nat /\ n + 1 \in Stream /\ (n > 0 => n \in Stream)
      /\ p = PageOf(n + 1) /\ b \in Blocks /\ p \in Pages
      /\ n > 0 => Found(flash)[BlockOf(n)] \in Blocks /\ IsCheckpoint(flash, Found(flash)[BlockOf(n)])
      /\ IF ck.currentBlock = NoBlock
         THEN /\ n % NChunks = 0 /\ p = 1 /\ b >= ck.nextBlock /\ ck.nextBlock \in Int
              /\ \A q \in Pages : flash[b][q] = Erased
         ELSE /\ n % NChunks # 0 /\ p > 1 /\ n > 0 /\ p = (n % NChunks) + 1
              /\ b = Found(flash)[BlockOf(n)]
    BY PlaceWritten
<1>5. StreamedOk /\ DeviceTyped
    BY DoingIs DEF SavedOk, DeviceOk
<1>6. /\ ck'.page = n + 1 /\ ck'.sum = Append(ck.sum, Holds(n + 1)) /\ ck'.nextBlock = next
      /\ ck'.currentBlock = (IF p = NChunks THEN NoBlock ELSE b)
      /\ ck'.currentChunk = p % NChunks
    BY <1>5 DEF DeviceTyped
<1>7. \A c \in Blocks : c \in Nat /\ c >= 1
    BY CheckpointAssumption DEF Blocks
<1>8. PICK s : s = ck.sum
    OBVIOUS
<1>9. PICK t : t = ck'.sum
    OBVIOUS
<1>10. /\ (\E S : t \in Seq(S)) /\ Len(t) = n + 1 /\ t[n + 1] = Holds(n + 1)
       /\ \A j \in 1 .. n : t[j] = s[j]
       /\ Len(s) = n /\ \E S : s \in Seq(S)
    <2>1. (\E S : s \in Seq(S)) /\ Len(s) = n
        BY <1>5, <1>8 DEF StreamedOk
    <2>2. PICK S : s \in Seq(S)
        BY <2>1
    <2>3. PICK h : h = Holds(n + 1)
        OBVIOUS
    <2>4. t = Append(s, h)
        BY <1>6, <1>8, <1>9, <2>3
    <2>5. PICK T : T = S \cup {h}
        OBVIOUS
    <2>6. s \in Seq(T) /\ h \in T
        BY <2>2, <2>5
    <2>7. /\ t \in Seq(T) /\ Len(t) = Len(s) + 1 /\ t[Len(s) + 1] = h
          /\ \A j \in 1 .. Len(s) : t[j] = s[j]
        BY <2>4, <2>6, AppendProperties
    <2> QED BY <2>1, <2>3, <2>7
<1>11. ASSUME NEW j \in 1 .. n + 1 PROVE IsPage(g, j) /\ t[j] = StreamPage(g, j).holds
    <2>1. CASE j = n + 1
        BY <1>2, <1>3, <1>10, <2>1 DEF IsPage
    <2>2. CASE j # n + 1
        <3>1. j \in 1 .. n
            BY <1>4, <2>2
        <3>2. IsPage(flash, j) /\ s[j] = StreamPage(flash, j).holds
            BY <1>5, <1>8, <3>1 DEF StreamedOk
        <3> QED BY <1>3, <1>10, <3>1, <3>2 DEF IsPage
    <2> QED BY <2>1, <2>2
<1>12. next # NoBlock /\ next \in Int
    BY <1>4, <1>5, <1>7 DEF StreamedOk, DeviceTyped, NoBlock
<1>13. ASSUME NEW c \in Blocks, IsCheckpoint(g, c) PROVE c < next /\ n + 1 > 0
    <2>1. CASE IsCheckpoint(flash, c)
        <3>1. c < ck.nextBlock
            BY <1>5, <2>1 DEF StreamedOk
        <3> QED BY <1>4, <1>5, <1>7, <3>1 DEF DeviceTyped
    <2>2. CASE ~IsCheckpoint(flash, c)
        <3>1. c = b /\ p = 1
            BY <1>3, <1>13, <2>2
        <3>2. next = b + 1
            BY <1>4, <3>1
        <3> QED BY <1>4, <1>7, <3>1, <3>2
    <2> QED BY <2>1, <2>2
<1>14. /\ p = (n % NChunks) + 1 /\ n % NChunks \in 0 .. NChunks - 1
       /\ p = NChunks <=> (n + 1) % NChunks = 0
       /\ (n + 1) % NChunks = p % NChunks
    <2>1. /\ PageOf(n + 1) = (n % NChunks) + 1 /\ n % NChunks \in 0 .. NChunks - 1
          /\ (n % NChunks) + 1 = NChunks <=> (n + 1) % NChunks = 0
          /\ (n + 1) % NChunks = ((n % NChunks) + 1) % NChunks
        BY <1>4, NextPlace
    <2> QED BY <1>4, <2>1
<1>15. g[b][1].next = next
    <2>1. g[b][p] = x /\ \A c \in Blocks, q \in Pages : c # b \/ q # p => g[c][q] = flash[c][q]
        BY <1>1 DEF Programs
    <2>2. CASE ck.currentBlock = NoBlock
        BY <1>2, <1>4, <2>1, <2>2
    <2>3. CASE ck.currentBlock # NoBlock
        <3>1. flash[b][1].next = ck.nextBlock
            BY <1>4, <1>5, <2>3 DEF StreamedOk
        <3>2. g[b][1] = flash[b][1]
            <4>1. 1 \in Pages
                BY CheckpointAssumption DEF Pages
            <4> QED BY <1>4, <2>1, <2>3, <4>1
        <3> QED BY <2>3, <3>1, <3>2
    <2> QED BY <2>2, <2>3
<1>16. PICK k : k = ck'
    OBVIOUS
<1>17. /\ k.page = n + 1 /\ k.sum = t /\ k.nextBlock = next
       /\ k.currentBlock = (IF p = NChunks THEN NoBlock ELSE b) /\ k.currentChunk = p % NChunks
    BY <1>6, <1>9, <1>16
<1>18. /\ \A i \in 1 .. k.page : IsPage(g, i) /\ k.sum[i] = StreamPage(g, i).holds
       /\ (\E S : k.sum \in Seq(S)) /\ Len(k.sum) = k.page
       /\ k.nextBlock # NoBlock
       /\ \A c \in Blocks : IsCheckpoint(g, c) => c < k.nextBlock /\ k.page > 0
       /\ k.currentChunk = k.page % NChunks
       /\ k.page % NChunks = 0 => k.currentBlock = NoBlock
       /\ k.page % NChunks # 0 => k.currentBlock = Found(g)[BlockOf(k.page)]
       /\ k.page > 0 => g[Found(g)[BlockOf(k.page)]][1].next = k.nextBlock
    BY <1>3, <1>10, <1>11, <1>12, <1>13, <1>14, <1>15, <1>17
<1>19. StreamedOk'
    BY <1>1, <1>16, <1>18 DEF StreamedOk
<1>20. ASSUME n + 1 = StreamPages PROVE Restorable(g)
    <2>1. \A i \in Stream : IsPage(g, i)
        BY <1>11, <1>20 DEF Stream
    <2>2. SumAgrees(g)
        <3>1. n = StreamPages - 1 /\ ~(n + 1 = 1) /\ ~(n + 1 = 2) /\ ~(n + 1 < StreamPages)
            BY <1>4, <1>20, CheckpointAssumption
        <3>2. Holds(n + 1) = [used |-> dev.used, sum |-> s]
            BY <1>8, <3>1 DEF Holds
        <3>3. StreamPage(g, StreamPages).holds.sum = s
            BY <1>2, <1>3, <1>20, <3>2
        <3>4. \A j \in 1 .. n : s[j] = StreamPage(g, j).holds
            BY <1>3, <1>5, <1>8 DEF StreamedOk
        <3>5. s = [j \in 1 .. n |-> s[j]]
            BY <1>10
        <3>6. s = [j \in 1 .. n |-> StreamPage(g, j).holds]
            BY <3>4, <3>5
        <3>7. Contents(g) = [j \in 1 .. n |-> StreamPage(g, j).holds]
            BY <3>1 DEF Contents
        <3> QED BY <3>3, <3>6, <3>7 DEF SumAgrees
    <2> QED BY <2>1, <2>2 DEF Restorable
<1> QED BY <1>1, <1>19, <1>20

(***************************************************************************)
(* The steps.                                                              *)
(***************************************************************************)
\* A step that writes nothing, or after which the device is not checkpointed.
LEMMA QuietSaved ==
    ASSUME SavedOk,
           dev'.isCheckpointed =>
               /\ dev.isCheckpointed /\ flash' = flash /\ faults' = faults
               /\ \A x \in Changing : ~Doing(x)',
           ~Doing("page")', Doing("close")' => Head(work)'.x = FALSE,
           Doing("erasecheckpoint")' => Tail(work)' \notin Pagings
    PROVE  SavedOk'
<1>1. (dev.isCheckpointed => \A x \in Changing : ~Doing(x))'
    OBVIOUS
<1>2. (dev.isCheckpointed /\ faults = 0 => Restorable(flash))'
    BY DEF SavedOk
<1> QED BY <1>1, <1>2 DEF SavedOk

\* What is done at the head of the work, and whether it changes the NAND.
LEMMA HeadIs ==
    ASSUME NEW w, work' = w
    PROVE  /\ \A y : Doing(y)' <=> w # <<>> /\ Head(w).what = y
           /\ Head(work)' = Head(w) /\ Tail(work)' = Tail(w)
           /\ w = <<>> \/ Head(w).what \notin Changing => \A y \in Changing : ~Doing(y)'
           /\ w = <<>> \/ Head(w).what # "page" => ~Doing("page")'
           /\ w = <<>> \/ Head(w).what # "close" => ~Doing("close")'
           /\ w = <<>> \/ Head(w).what # "erasecheckpoint" => ~Doing("erasecheckpoint")'
BY DEF Doing

\* The first task of a list.
LEMMA FirstIs ==
    /\ \A a \in Tasks, w \in Seq(Tasks) : <<a>> \o w # <<>> /\ Head(<<a>> \o w) = a /\ Tail(<<a>> \o w) = w
    /\ \A a \in Tasks, c \in Tasks, w \in Seq(Tasks) :
           /\ <<a, c>> \o w # <<>> /\ Head(<<a, c>> \o w) = a
           /\ Tail(<<a, c>> \o w) = Put(c, w)
    /\ \A w \in Seq(Tasks) : <<>> \o w = w
<1>1. ASSUME NEW a \in Tasks, NEW w \in Seq(Tasks)
      PROVE  <<a>> \o w # <<>> /\ Head(<<a>> \o w) = a /\ Tail(<<a>> \o w) = w
    BY PutTask DEF Put
<1>2. ASSUME NEW a \in Tasks, NEW c \in Tasks, NEW w \in Seq(Tasks)
      PROVE  <<a, c>> \o w # <<>> /\ Head(<<a, c>> \o w) = a /\ Tail(<<a, c>> \o w) = Put(c, w)
    <2>1. PICK v : v = Put(c, w)
        OBVIOUS
    <2>2. v \in Seq(Tasks)
        BY <2>1, PutTask
    <2>3. Put(a, v) # <<>> /\ Head(Put(a, v)) = a /\ Tail(Put(a, v)) = v
        BY <2>2, PutTask
    <2>4. <<a, c>> \o w = Put(a, v)
        BY <2>1, ListsAre
    <2> QED BY <2>1, <2>3, <2>4
<1>3. \A w \in Seq(Tasks) : <<>> \o w = w
    BY ListsAre, TaskIs
<1> QED BY <1>1, <1>2, <1>3

\* The checkpoint is invalidated: it does not count as saved any more.
LEMMA InvalidateSaves == SInv /\ InvalidateCheckpoint => SavedOk'
<1> SUFFICES ASSUME SInv, InvalidateCheckpoint PROVE SavedOk'
    OBVIOUS
<1>1. IInv /\ Doing("invalidate")
    BY DEF SInv, InvalidateCheckpoint
<1>2. PICK w : w = Tail(work)
    OBVIOUS
<1>3. mounted /\ SavedOk /\ w \in Changes \cup {<<>>} /\ DeviceTyped
    <2>1. Follows(Head(work), w) /\ Head(work).what = "invalidate" /\ mounted /\ DeviceOk
        BY <1>1, <1>2, DoingIs
    <2> QED BY <2>1 DEF SInv, Follows, DeviceOk
<1>4. w \notin Pagings /\ w \in Seq(Tasks) /\ (w # <<>> => Head(w).what \in {"write", "erase", "open"})
    BY <1>3, ChangesAreNoPages
<1>5. dev'.isCheckpointed = FALSE
    BY <1>3 DEF InvalidateCheckpoint, IsStale, DeviceTyped
<1>6. work' = w \/ (work' = <<Erasing>> \o w)
    BY <1>2, <1>4, FirstIs DEF InvalidateCheckpoint, Then, Erasing
<1>7. ~Doing("page")' /\ ~Doing("close")' /\ (Doing("erasecheckpoint")' => Tail(work)' \notin Pagings)
    <2>1. CASE work' = w
        BY <1>4, <2>1, HeadIs
    <2>2. CASE work' = <<Erasing>> \o w
        <3>1. PICK u : u = <<Erasing>> \o w
            OBVIOUS
        <3>2. u # <<>> /\ Head(u) = Erasing /\ Tail(u) = w /\ Erasing.what = "erasecheckpoint"
            BY <1>4, <3>1, FirstIs, TaskIs DEF Erasing
        <3>3. work' = u
            BY <2>2, <3>1
        <3> QED BY <1>4, <3>2, <3>3, HeadIs
    <2> QED BY <1>6, <2>1, <2>2
<1> QED BY <1>3, <1>5, <1>7, QuietSaved

\* A stream begins when the blocks of the old one are erased.
LEMMA EraseCheckpointSaves == SInv /\ EraseCheckpoint => SavedOk'
<1> SUFFICES ASSUME SInv, EraseCheckpoint PROVE SavedOk'
    OBVIOUS
<1>1. IInv /\ Doing("erasecheckpoint")
    BY DEF SInv, EraseCheckpoint
<1>2. PICK w : w = Tail(work)
    OBVIOUS
<1>3. /\ mounted /\ SavedOk /\ w \in Changes \cup Pagings \cup {<<>>} /\ DeviceTyped /\ StreamOk /\ BlocksOk
      /\ w \in Seq(Tasks) /\ \A y : Doing(y) => y = "erasecheckpoint"
    <2>1. /\ Follows(Head(work), w) /\ Head(work).what = "erasecheckpoint" /\ mounted /\ DeviceOk
          /\ w \in Seq(Tasks) /\ \A y : Doing(y) => y = "erasecheckpoint"
        BY <1>1, <1>2, DoingIs
    <2> QED BY <2>1 DEF SInv, Follows, DeviceOk
<1>4. dev.isCheckpointed = FALSE
    BY <1>1, <1>3 DEF SavedOk, Changing, DeviceTyped
<1>5. dev'.isCheckpointed = FALSE /\ ck' = ck
    BY <1>3, <1>4 DEF EraseCheckpoint, DeviceTyped
<1>6. CASE work' = work
    <2>1. \A y : Doing(y)' <=> Doing(y)
        BY <1>6 DEF Doing
    <2>2. ~Doing("page")' /\ ~Doing("close")'
        BY <1>3, <2>1
    <2>3. (Doing("erasecheckpoint") /\ Tail(work) \in Pagings =>
              ck.sum = <<>> /\ ck.currentChunk = 0 /\ ck.nextBlock = 1)'
        BY <1>3, <1>5, <1>6, <2>1 DEF SavedOk
    <2> QED BY <1>5, <2>2, <2>3 DEF SavedOk
<1>7. CASE work' # work
    <2>1. work' = w /\ flash' = flash /\ Lowest(InState(dev, "checkpoint")) = NoBlock
        BY <1>2, <1>7 DEF EraseCheckpoint, Done
    <2>2. CASE w \notin Pagings
        <3>1. w \notin Pagings /\ w \in Seq(Tasks) /\ (w # <<>> => Head(w).what \in {"write", "erase", "open"})
            BY <1>3, <2>2, ChangesAreNoPages
        <3>2. ~Doing("page")' /\ ~Doing("close")' /\ ~Doing("erasecheckpoint")'
            BY <2>1, <3>1, HeadIs
        <3> QED BY <1>3, <1>5, <3>2, QuietSaved
    <2>3. CASE w \in Pagings
        <3>1. w # <<>> /\ Head(w).what = "page"
            BY <2>3, PagingOrdered DEF Pagings
        <3>2. ~Doing("close")' /\ ~Doing("erasecheckpoint")'
            BY <2>1, <3>1, HeadIs
        <3>3. /\ ck.page = 0 /\ ck.currentBlock = NoBlock
              /\ ck.sum = <<>> /\ ck.currentChunk = 0 /\ ck.nextBlock = 1
            BY <1>1, <1>2, <1>3, <2>3 DEF StreamOk, SavedOk
        <3>4. \A b \in Blocks : ~IsCheckpoint(flash, b)
            <4>1. PICK S : S = InState(dev, "checkpoint")
                OBVIOUS
            <4>2. S \subseteq Nat /\ \A b \in Blocks : b \in S <=> dev.state[b] = "checkpoint"
                BY <4>1, CheckpointAssumption DEF InState, Blocks
            <4>3. S = {}
                BY <2>1, <4>1, <4>2, LowestIs
            <4> QED BY <1>3, <4>2, <4>3 DEF BlocksOk
        <3>5. 0 % NChunks = 0
            <4>1. 0 = NChunks * 0 + 0 /\ 0 \in 0 .. NChunks - 1 /\ NChunks \in Nat /\ NChunks > 0
                BY CheckpointAssumption
            <4> QED BY <4>1, QuotientUnique
        <3>6. ck.sum \in Seq({}) /\ Len(ck.sum) = 0
            BY <3>3
        <3>7. StreamedOk
            BY <3>3, <3>4, <3>5, <3>6 DEF StreamedOk, NoBlock
        <3>8. StreamedOk'
            BY <1>5, <2>1, <3>7 DEF StreamedOk
        <3> QED BY <1>5, <3>2, <3>8 DEF SavedOk
    <2> QED BY <2>2, <2>3
<1> QED BY <1>6, <1>7

\* A block is to be erased: the invalidation comes first.
LEMMA BecameDirtySaves == SInv /\ BecameDirty => SavedOk'
<1> SUFFICES ASSUME SInv, BecameDirty PROVE SavedOk'
    OBVIOUS
<1>1. IInv /\ Doing("dirty")
    BY DEF SInv, BecameDirty
<1>2. PICK w : w = Tail(work)
    OBVIOUS
<1>3. PICK a : a = Task("erase", Head(work).x)
    OBVIOUS
<1>4. mounted /\ SavedOk /\ w \in Seq(Tasks) /\ a \in Tasks
    <2>1. /\ Follows(Head(work), w) /\ Head(work).what = "dirty" /\ mounted /\ w \in Seq(Tasks)
        BY <1>1, <1>2, DoingIs
    <2>2. Head(work).x \in Blocks
        BY <2>1 DEF Follows
    <2> QED BY <1>3, <2>1, <2>2, TaskIs DEF SInv
<1>5. PICK u : u = <<Invalidate, a>> \o w
    OBVIOUS
<1>6. u # <<>> /\ Head(u) = Invalidate /\ Invalidate.what = "invalidate"
    BY <1>4, <1>5, FirstIs, TaskIs DEF Invalidate
<1>7. work' = u /\ dev' = dev /\ flash' = flash /\ faults' = faults
    BY <1>2, <1>3, <1>5 DEF BecameDirty, Then, bounds
<1>8. /\ \A y \in Changing : ~Doing(y)'
      /\ ~Doing("page")' /\ ~Doing("close")' /\ ~Doing("erasecheckpoint")'
    BY <1>6, <1>7, HeadIs DEF Changing
<1> QED BY <1>4, <1>7, <1>8, QuietSaved

\* A block is erased, after the invalidation.
LEMMA EraseBlockSaves == SInv /\ EraseBlock => SavedOk'
<1> SUFFICES ASSUME SInv, EraseBlock PROVE SavedOk'
    OBVIOUS
<1>1. IInv /\ Doing("erase")
    BY DEF SInv, EraseBlock
<1>2. PICK w : w = Tail(work)
    OBVIOUS
<1>3. mounted /\ SavedOk /\ w \in Scans /\ DeviceTyped
    <2>1. /\ Follows(Head(work), w) /\ Head(work).what = "erase" /\ mounted /\ DeviceOk
        BY <1>1, <1>2, DoingIs
    <2> QED BY <2>1 DEF SInv, Follows, DeviceOk
<1>4. dev.isCheckpointed = FALSE
    BY <1>1, <1>3 DEF SavedOk, Changing, DeviceTyped
<1>5. dev'.isCheckpointed = FALSE /\ work' = w
    BY <1>2, <1>3, <1>4 DEF EraseBlock, DeviceTyped, Done
<1>6. w # <<>> => Head(w).what = "cleanup"
    BY <1>3, ScanOrdered
<1>7. ~Doing("page")' /\ ~Doing("close")' /\ ~Doing("erasecheckpoint")'
    BY <1>5, <1>6, HeadIs
<1> QED BY <1>3, <1>5, <1>7, QuietSaved

\* A chunk is written, or there is no space for it.
LEMMA WriteSaves == SInv /\ (Write \/ NoSpace) => SavedOk'
<1> SUFFICES ASSUME SInv, Write \/ NoSpace PROVE SavedOk'
    OBVIOUS
<1>1. IInv /\ Doing("write")
    BY DEF SInv, Write, NoSpace
<1>2. mounted /\ SavedOk /\ Tail(work) = <<>> /\ DeviceTyped
    <2>1. /\ Follows(Head(work), Tail(work)) /\ Head(work).what = "write" /\ mounted /\ DeviceOk
        BY <1>1, DoingIs
    <2> QED BY <2>1 DEF SInv, Follows, DeviceOk
<1>3. dev.isCheckpointed = FALSE
    BY <1>1, <1>2 DEF SavedOk, Changing, DeviceTyped
<1>4. dev'.isCheckpointed = FALSE
    BY <1>2, <1>3 DEF Write, NoSpace, DeviceTyped
<1>5. work' = <<>> \/ \E x : work' = <<Task("dirty", x)>>
    <2>1. CASE Write
        <3>1. work' = <<>> \o <<>> \/ \E x : work' = <<Task("dirty", x)>> \o <<>>
            BY <1>2, <2>1 DEF Write, Then
        <3> QED BY <3>1
    <2>2. CASE NoSpace
        BY <1>2, <2>2 DEF NoSpace, Done
    <2> QED BY <2>1, <2>2
<1>6. ~Doing("page")' /\ ~Doing("close")' /\ ~Doing("erasecheckpoint")'
    BY <1>5 DEF Doing, Task
<1> QED BY <1>2, <1>4, <1>6, QuietSaved

\* The stream is opened, or there are too few erased blocks.
LEMMA OpenSaves == SInv /\ Open => SavedOk'
<1> SUFFICES ASSUME SInv, Open PROVE SavedOk'
    OBVIOUS
<1>1. IInv /\ Doing("open")
    BY DEF SInv, Open
<1>2. PICK w : w = Tail(work)
    OBVIOUS
<1>3. mounted /\ SavedOk /\ w \in Seq(Tasks) /\ DeviceTyped
    <2>1. mounted /\ DeviceOk /\ w \in Seq(Tasks)
        BY <1>1, <1>2, DoingIs
    <2> QED BY <2>1 DEF SInv, DeviceOk
<1>4. dev.isCheckpointed = FALSE
    BY <1>1, <1>3 DEF SavedOk, Changing, DeviceTyped
<1>5. dev' = dev
    BY DEF Open
<1>6. CASE SpaceOk
    <2>1. PICK u : u = <<Erasing, Paging>> \o w
        OBVIOUS
    <2>2. /\ u # <<>> /\ Head(u) = Erasing /\ Erasing.what = "erasecheckpoint"
        BY <1>3, <2>1, FirstIs, TaskIs DEF Erasing
    <2>3. /\ work' = u
          /\ ck'.sum = <<>> /\ ck'.currentChunk = 0 /\ ck'.nextBlock = 1
        BY <1>2, <1>6, <2>1 DEF Open, Then, Erasing, Paging
    <2>4. ~Doing("page")' /\ ~Doing("close")'
        BY <2>2, <2>3, HeadIs
    <2> QED BY <1>4, <1>5, <2>3, <2>4 DEF SavedOk
<1>7. CASE ~SpaceOk
    <2>1. PICK c : c = Task("close", FALSE)
        OBVIOUS
    <2>2. PICK d : d = Task("flush", 0)
        OBVIOUS
    <2>3. /\ c \in Tasks /\ c.what = "close" /\ c.x = FALSE
          /\ d \in Tasks /\ d.what = "flush"
        BY <2>1, <2>2, TaskIs
    <2>4. PICK u : u \in {<<c>> \o w, <<d, c>> \o w} /\ work' = u
        BY <1>2, <1>7, <2>1, <2>2 DEF Open, Then
    <2>5. u # <<>> /\ (Head(u) = c \/ Head(u) = d)
        BY <1>3, <2>3, <2>4, FirstIs
    <2>6. /\ ~Doing("page")' /\ ~Doing("erasecheckpoint")'
          /\ Doing("close")' => Head(work)'.x = FALSE
        BY <2>3, <2>4, <2>5, HeadIs
    <2> QED BY <1>3, <1>4, <1>5, <2>6, QuietSaved
<1> QED BY <1>6, <1>7

\* What is left of an earlier stream is flushed.
LEMMA FlushLeftSaves == SInv /\ FlushLeft => SavedOk'
<1> SUFFICES ASSUME SInv, FlushLeft PROVE SavedOk'
    OBVIOUS
<1>1. IInv /\ Doing("flush")
    BY DEF SInv, FlushLeft
<1>2. PICK w : w = Tail(work)
    OBVIOUS
<1>3. mounted /\ SavedOk /\ (\E e \in Ends : w = Put(Task("close", FALSE), e)) /\ DeviceTyped
    <2>1. /\ Follows(Head(work), w) /\ Head(work).what = "flush" /\ mounted /\ DeviceOk
        BY <1>1, <1>2, DoingIs
    <2> QED BY <2>1 DEF SInv, Follows, DeviceOk
<1>4. dev.isCheckpointed = FALSE
    BY <1>1, <1>3 DEF SavedOk, Changing, DeviceTyped
<1>5. dev' = dev /\ (work' = w \/ work' = <<Task("bug", 0)>>)
    BY <1>2 DEF FlushLeft, Done
<1>6. Head(w).what = "close" /\ Head(w).x = FALSE
    <2>1. Head(w) = Task("close", FALSE)
        BY <1>3, CloseOrdered
    <2> QED BY <2>1, TaskIs
<1>7. /\ ~Doing("page")' /\ ~Doing("erasecheckpoint")'
      /\ Doing("close")' => Head(work)'.x = FALSE
    <2>1. CASE work' = w
        BY <1>6, <2>1, HeadIs
    <2>2. CASE work' = <<Task("bug", 0)>>
        BY <2>2 DEF Doing, Task
    <2> QED BY <1>5, <2>1, <2>2
<1> QED BY <1>3, <1>4, <1>5, <1>7, QuietSaved

\* The stream is closed: the device is checkpointed if all pages were written.
LEMMA CloseSaves == SInv /\ Close => SavedOk'
<1> SUFFICES ASSUME SInv, Close PROVE SavedOk'
    OBVIOUS
<1>1. IInv /\ Doing("close")
    BY DEF SInv, Close
<1>2. PICK w : w = Tail(work)
    OBVIOUS
<1>3. mounted /\ SavedOk /\ w \in Ends /\ DeviceTyped
    <2>1. /\ Follows(Head(work), w) /\ Head(work).what = "close" /\ mounted /\ DeviceOk
        BY <1>1, <1>2, DoingIs
    <2> QED BY <2>1 DEF SInv, Follows, DeviceOk
<1>4. w # <<>> => Head(w).what = "unmount"
    BY <1>3, EndOrdered
<1>5. work' = w /\ flash' = flash /\ faults' = faults
    BY <1>2 DEF Close, Done, bounds
<1>6. dev'.isCheckpointed = Head(work).x
    BY <1>3 DEF Close, Closed, DeviceTyped
<1>7. /\ \A y \in Changing : ~Doing(y)'
      /\ ~Doing("page")' /\ ~Doing("close")' /\ ~Doing("erasecheckpoint")'
    BY <1>4, <1>5, HeadIs DEF Changing
<1>8. Head(work).x \in BOOLEAN
    <2>1. Follows(Head(work), w) /\ Head(work).what = "close"
        BY <1>1, <1>2, DoingIs
    <2> QED BY <2>1 DEF Follows
<1>9. (dev.isCheckpointed /\ faults = 0 => Restorable(flash))'
    BY <1>1, <1>3, <1>5, <1>6, <1>8 DEF SavedOk
<1>10. (dev.isCheckpointed => \A x \in Changing : ~Doing(x))'
    BY <1>7
<1> QED BY <1>7, <1>9, <1>10 DEF SavedOk

\* The scan cleans up: nothing is saved by it.
LEMMA CleanUpSaves == SInv /\ CleanUp => SavedOk'
<1> SUFFICES ASSUME SInv, CleanUp PROVE SavedOk'
    OBVIOUS
<1>1. IInv /\ Doing("cleanup")
    BY DEF SInv, CleanUp
<1>2. mounted /\ SavedOk /\ Tail(work) = Put(Invalidate, <<>>) /\ DeviceTyped
    <2>1. /\ Follows(Head(work), Tail(work)) /\ Head(work).what = "cleanup" /\ mounted /\ DeviceOk
        BY <1>1, DoingIs
    <2> QED BY <2>1 DEF SInv, Follows, DeviceOk
<1>3. PICK w : w = Tail(work)
    OBVIOUS
<1>4. w \in Seq(Tasks) /\ w # <<>> /\ Head(w) = Invalidate /\ Invalidate.what = "invalidate"
    <2>1. <<>> \in Seq(Tasks) /\ Invalidate \in Tasks
        BY TaskIs
    <2>2. w = Put(Invalidate, <<>>)
        BY <1>2, <1>3
    <2>3. w \in Seq(Tasks) /\ w # <<>> /\ Head(w) = Invalidate
        BY <2>1, <2>2, PutTask
    <2> QED BY <2>3, TaskIs DEF Invalidate
<1>5. dev'.isCheckpointed = dev.isCheckpointed /\ flash' = flash /\ faults' = faults
    BY <1>2 DEF CleanUp, RestSkipped, DeviceTyped, bounds
<1>6. PICK b : b = Lowest({c \in InState(dev, "full") : PagesOf(dev.used, c) = {}})
    OBVIOUS
<1>7. work' = w \/ (b \in Blocks /\ work' = <<Task("dirty", b), Task("cleanup", 0)>> \o w)
    <2>1. PICK S : S = {c \in InState(dev, "full") : PagesOf(dev.used, c) = {}}
        OBVIOUS
    <2>2. S \subseteq Nat /\ S \subseteq Blocks
        BY <2>1, CheckpointAssumption DEF InState, Blocks
    <2>3. b = NoBlock \/ b \in Blocks
        BY <1>6, <2>1, <2>2, LowestIs
    <2> QED BY <1>3, <1>6, <2>3 DEF CleanUp, Done, Then
<1>8. /\ \A y \in Changing : ~Doing(y)'
      /\ ~Doing("page")' /\ ~Doing("close")' /\ ~Doing("erasecheckpoint")'
    <2>1. CASE work' = w
        BY <1>4, <2>1, HeadIs DEF Changing
    <2>2. CASE b \in Blocks /\ work' = <<Task("dirty", b), Task("cleanup", 0)>> \o w
        <3>1. PICK a : a = Task("dirty", b)
            OBVIOUS
        <3>2. PICK c : c = Task("cleanup", 0)
            OBVIOUS
        <3>3. a \in Tasks /\ a.what = "dirty" /\ c \in Tasks
            BY <2>2, <3>1, <3>2, TaskIs
        <3>4. PICK u : u = <<a, c>> \o w
            OBVIOUS
        <3>5. u # <<>> /\ Head(u) = a /\ work' = u
            BY <1>4, <2>2, <3>1, <3>2, <3>3, <3>4, FirstIs
        <3> QED BY <3>3, <3>5, HeadIs DEF Changing
    <2> QED BY <1>7, <2>1, <2>2
<1> QED BY <1>2, <1>5, <1>8, QuietSaved

\* A page of the stream is written, or there is no block for it.
LEMMA WritePageSaves == SInv /\ Fits /\ WritePage => SavedOk'
<1> SUFFICES ASSUME SInv, Fits, WritePage PROVE SavedOk'
    OBVIOUS
<1>1. IInv /\ Doing("page")
    BY DEF SInv, WritePage
<1>2. PICK w : w = Tail(work)
    OBVIOUS
<1>3. mounted /\ SavedOk /\ w \in Seq(Tasks) /\ DeviceTyped /\ Bounded
    <2>1. mounted /\ DeviceOk /\ w \in Seq(Tasks) /\ Bounded
        BY <1>1, <1>2, DoingIs
    <2> QED BY <2>1 DEF SInv, DeviceOk
<1>4. dev.isCheckpointed = FALSE
    BY <1>1, <1>3 DEF SavedOk, Changing, DeviceTyped
<1>5. PICK b : b = IF ck.currentBlock = NoBlock THEN NextErased ELSE ck.currentBlock
    OBVIOUS
<1>6. PICK p : p = IF ck.currentBlock = NoBlock THEN 1 ELSE ck.currentChunk + 1
    OBVIOUS
<1>7. PICK next : next = IF ck.currentBlock = NoBlock THEN b + 1 ELSE ck.nextBlock
    OBVIOUS
<1>8. PICK n : n = ck.page
    OBVIOUS
<1>9. CASE b = NoBlock
    <2>1. PICK c : c = Task("close", FALSE)
        OBVIOUS
    <2>2. c \in Tasks /\ c.what = "close" /\ c.x = FALSE
        BY <2>1, TaskIs
    <2>3. PICK u : u = <<c>> \o w
        OBVIOUS
    <2>4. u # <<>> /\ Head(u) = c
        BY <1>3, <2>2, <2>3, FirstIs
    <2>5. work' = u /\ dev' = dev
        BY <1>2, <1>5, <1>9, <2>1, <2>3 DEF WritePage, Then
    <2>6. /\ ~Doing("page")' /\ ~Doing("erasecheckpoint")'
          /\ Doing("close")' => Head(work)'.x = FALSE
        BY <2>2, <2>4, <2>5, HeadIs
    <2> QED BY <1>3, <1>4, <2>5, <2>6, QuietSaved
<1>10. CASE b # NoBlock
    <2>1. PICK x : x = [kind |-> "ck", n |-> n + 1, next |-> Hint(next), holds |-> Holds(n + 1)]
        OBVIOUS
    <2>2. /\ Flush(b, p, next, x)
          /\ ck' = [ck EXCEPT !.page = n + 1, !.sum = Append(@, Holds(n + 1)),
                              !.nextBlock = next,
                              !.currentBlock = IF p = NChunks THEN NoBlock ELSE b,
                              !.currentChunk = p % NChunks]
          /\ work' = (IF n + 1 = StreamPages THEN <<Task("close", TRUE)>> ELSE <<Task("page", 0)>>) \o w
        BY <1>2, <1>5, <1>6, <1>7, <1>8, <1>10, <2>1, Zenon DEF WritePage, Then
    <2>3. dev'.isCheckpointed = FALSE
        BY <1>3, <1>4, <2>2 DEF Flush, DeviceTyped
    <2>4. PICK a : a = IF n + 1 = StreamPages THEN Task("close", TRUE) ELSE Task("page", 0)
        OBVIOUS
    <2>5. a \in Tasks /\ a.what = (IF n + 1 = StreamPages THEN "close" ELSE "page")
        BY <2>4, TaskIs DEF Paging
    <2>6. PICK u : u = <<a>> \o w
        OBVIOUS
    <2>7. u # <<>> /\ Head(u) = a /\ work' = u
        BY <1>3, <2>2, <2>4, <2>5, <2>6, FirstIs
    <2>8. /\ ~Doing("erasecheckpoint")'
          /\ Doing("close")' => n + 1 = StreamPages
        BY <2>5, <2>7, HeadIs
    <2>9. ASSUME faults' = 0 PROVE StreamedOk' /\ (n + 1 = StreamPages => Restorable(flash'))
        <3>1. flash' = [flash EXCEPT ![b][p] = x] /\ faults = 0
            <4>1. faults \in Nat
                BY <1>3, CheckpointAssumption DEF Bounded
            <4> QED BY <2>2, <2>9, <4>1 DEF Flush
        <3>2. b \in Blocks /\ p \in Pages
            BY <1>1, <1>5, <1>6, <1>10, NextPageIs
        <3>3. Programs(flash, flash', b, p, x)
            <4>1. Written(flash)
                BY <1>1, DoingIs DEF FlashOk
            <4> QED BY <3>1, <3>2, <4>1, ProgramIs
        <3> QED BY <1>1, <1>3, <1>5, <1>6, <1>7, <1>8, <1>10, <2>1, <2>2, <3>1, <3>3, StreamGoesOn
    <2> QED BY <2>3, <2>8, <2>9 DEF SavedOk
<1> QED BY <1>9, <1>10

\* What was restored can be restored again; what was scanned was not saved.
LEMMA MountSaves == SInv /\ Mount => SavedOk'
<1> SUFFICES ASSUME SInv, Mount PROVE SavedOk'
    OBVIOUS
<1>1. flash' = flash
    BY DEF Mount
<1>2. CASE Restorable(flash)
    <2>1. work' = <<>>
        BY <1>2 DEF Mount
    <2>2. \A y : ~Doing(y)'
        BY <2>1 DEF Doing
    <2> QED BY <1>1, <1>2, <2>2 DEF SavedOk
<1>3. CASE ~Restorable(flash)
    <2>1. dev' = Scanned(flash) /\ work' = <<Task("cleanup", 0), Invalidate>>
        BY <1>3 DEF Mount
    <2>2. dev'.isCheckpointed = FALSE
        BY <2>1 DEF Scanned
    <2>3. ~Doing("page")' /\ ~Doing("close")' /\ ~Doing("erasecheckpoint")'
        BY <2>1 DEF Doing, Task
    <2> QED BY <2>2, <2>3 DEF SavedOk
<1> QED BY <1>2, <1>3

\* A request is made: what it changes comes after the invalidation.
LEMMA AskSaves ==
    ASSUME SInv, NEW list, Ask(list),
           list = <<>> \/ Head(list).what \in {"invalidate", "unmount"}
    PROVE  SavedOk'
<1>1. mounted /\ SavedOk /\ work' = list /\ dev' = dev /\ flash' = flash /\ faults' = faults
    BY DEF SInv, Ask, Idle
<1>2. /\ \A y \in Changing : ~Doing(y)'
      /\ ~Doing("page")' /\ ~Doing("close")' /\ ~Doing("erasecheckpoint")'
    BY <1>1, HeadIs DEF Changing
<1> QED BY <1>1, <1>2, QuietSaved

\* A write, a save or an unmount is asked for.
LEMMA RequestsSave == SInv /\ ((\E k \in Keys : BeginWrite(k)) \/ BeginSave \/ BeginUnmount) => SavedOk'
<1> SUFFICES ASSUME SInv, (\E k \in Keys : BeginWrite(k)) \/ BeginSave \/ BeginUnmount PROVE SavedOk'
    OBVIOUS
<1>1. ASSUME NEW k \in Keys, BeginWrite(k) PROVE SavedOk'
    <2>1. PICK list : list = <<Invalidate, Task("write", k)>>
        OBVIOUS
    <2>2. Head(list).what = "invalidate" /\ Ask(list)
        BY <1>1, <2>1 DEF BeginWrite, Invalidate, Task
    <2> QED BY <2>2, AskSaves
<1>2. SaveTasks = <<>> \/ SaveTasks = <<Invalidate, Task("open", 0)>>
    BY DEF SaveTasks
<1>3. CASE BeginSave
    <2>1. PICK list : list = SaveTasks
        OBVIOUS
    <2>2. list = <<>> \/ Head(list).what = "invalidate"
        BY <1>2, <2>1 DEF Invalidate, Task
    <2>3. Ask(list)
        BY <1>3, <2>1 DEF BeginSave
    <2> QED BY <2>2, <2>3, AskSaves
<1>4. CASE BeginUnmount
    <2>1. PICK list : list = SaveTasks \o <<Task("unmount", 0)>>
        OBVIOUS
    <2>2. Head(list).what \in {"invalidate", "unmount"}
        <3>1. PICK a : a = Invalidate
            OBVIOUS
        <3>2. PICK c : c = Task("open", 0)
            OBVIOUS
        <3>3. PICK d : d = Task("unmount", 0)
            OBVIOUS
        <3>4. /\ a \in Tasks /\ c \in Tasks /\ d \in Tasks
              /\ a.what = "invalidate" /\ d.what = "unmount"
            BY <3>1, <3>2, <3>3, TaskIs DEF Invalidate
        <3>5. PICK e : e = <<d>>
            OBVIOUS
        <3>6. e \in Seq(Tasks) /\ Head(e) = d
            BY <3>4, <3>5
        <3>7. list = <<>> \o e \/ list = <<a, c>> \o e
            BY <1>2, <2>1, <3>1, <3>2, <3>3, <3>5
        <3>8. Head(list) = d \/ Head(list) = a
            BY <3>4, <3>6, <3>7, FirstIs
        <3> QED BY <3>4, <3>8
    <2>3. Ask(list)
        BY <1>4, <2>1 DEF BeginUnmount
    <2> QED BY <2>2, <2>3, AskSaves
<1> QED BY <1>1, <1>3, <1>4

(***************************************************************************)
(* The theorem.                                                            *)
(***************************************************************************)
\* Every step keeps the stream in order.
LEMMA SavingKeeps == ~BadKeepsData /\ Fits /\ SInv /\ [Next]_vars => SInv'
<1> SUFFICES ASSUME ~BadKeepsData, Fits, SInv, [Next]_vars PROVE SInv'
    OBVIOUS
<1>1. IInv'
    BY StepKeeps DEF SInv
<1> SUFFICES ASSUME mounted' PROVE SavedOk'
    BY <1>1 DEF SInv
<1>2. CASE (\E k \in Keys : BeginWrite(k)) \/ BeginSave \/ BeginUnmount
    BY <1>2, RequestsSave
<1>3. CASE Step
    <2>1. ~Unmount
        BY DEF Unmount, Forget
    <2> QED BY <1>3, <2>1, InvalidateSaves, EraseCheckpointSaves, BecameDirtySaves, EraseBlockSaves,
            WriteSaves, OpenSaves, WritePageSaves, FlushLeftSaves, CloseSaves, CleanUpSaves, MountSaves DEF Step
<1>4. CASE Crash
    BY <1>4 DEF Crash, Forget
<1>5. CASE UNCHANGED vars
    <2>1. /\ dev' = dev /\ flash' = flash /\ faults' = faults /\ work' = work /\ ck' = ck /\ mounted' = mounted
        BY <1>5 DEF vars, bounds
    <2>2. SavedOk
        BY <2>1 DEF SInv
    <2>3. \A y : Doing(y)' <=> Doing(y)
        BY <2>1 DEF Doing
    <2>4. StreamedOk => StreamedOk'
        BY <2>1 DEF StreamedOk
    <2> QED BY <2>1, <2>2, <2>3, <2>4 DEF SavedOk
<1> QED BY <1>2, <1>3, <1>4, <1>5 DEF Next

\* While the device says it is checkpointed, and nothing has failed on the NAND,
\* the checkpoint can be read back, page by page and with the right sum: what
\* yaffs2_WriteCheckpointData has written, in whatever erased blocks were left,
\* is what yaffs2_ReadCheckpointData finds, after any number of saves, mounts and
\* power failures, as long as the stream fits the blocks that are looked for.
THEOREM SavedAlwaysRestorable == ASSUME ~BadKeepsData, Fits PROVE Spec => []SavedIsRestorable
<1>1. Init => SInv
    BY InitHolds DEF Init, SInv
<1>2. SInv /\ [Next]_vars => SInv'
    BY SavingKeeps
<1>3. SInv => SavedIsRestorable
    <2> SUFFICES ASSUME SInv PROVE SavedIsRestorable
        OBVIOUS
    <2>1. CASE mounted
        BY <2>1 DEF SInv, SavedOk, SavedIsRestorable
    <2>2. CASE ~mounted
        BY <2>2 DEF SInv, IInv, NoDevice, SavedIsRestorable
    <2> QED BY <2>1, <2>2
<1> QED BY <1>1, <1>2, <1>3, PTL DEF Spec
=============================================================================
