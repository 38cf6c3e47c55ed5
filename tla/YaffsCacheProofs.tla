-------------------------- MODULE YaffsCacheProofs --------------------------
(***************************************************************************)
(* Proofs about the short operations cache, for any number of files and of *)
(* entries, any sizes and any writes.                                      *)
(*                                                                         *)
(* The first invariant, IInv: no chunk is in two entries, and a dirty      *)
(* entry marks its file - at once but for the write under way, which does  *)
(* so at its end.  What the entries hold matters to neither and is left out *)
(* of its typing: an entry has its fields, and what is left of a request   *)
(* is a sequence of jobs.                                                  *)
(*                                                                         *)
(* The second, FInv, adds what entries and chunks hold (DataInv: a clean   *)
(* entry is what its chunk is, nothing lies behind the end of a file or    *)
(* behind the count of a chunk) and what is left to do (JobsInv: a hole is *)
(* filled with zeros first, and what is reported as flushed has been). It  *)
(* is inductive while there is a chunk to write to, and with it every step *)
(* of the cache is one of BufferedFiles or is not seen.                    *)
(*                                                                         *)
(* The third, TInv, types everything and counts the free chunks, whatever  *)
(* fails.  The last, RInv, is why there always is a chunk to write to: a   *)
(* reserve of a chunk per entry pays for all that is dirty (SInv).         *)
(***************************************************************************)
EXTENDS YaffsCache, SequenceTheorems, FiniteSetTheorems, WellFoundedInduction, TLAPS


Kinds == {"write", "zeros", "read", "resize", "extend", "flush", "flushall", "header",
          "synced"}

JobRecords == [kind : Kinds, file : Files, off : Int, n : Int, v : Int, done : Int,
               step : {"chunk", "flushed", "short"}, was : Int]

IsEntry(x) == x \in [object : {x.object}, chunk : {x.chunk}, dirty : BOOLEAN, n : {x.n},
                     lastUse : {x.lastUse}, bytes : {x.bytes}]

Cached == \A e \in Entries : IsEntry(cache[e])

Typed == /\ Cached
         /\ jobs \in Seq(JobRecords)
         /\ fileSize \in [Files -> Int]
         /\ changed \in [Files -> BOOLEAN]

\* The file of a dirty entry is to be flushed, but for the write that is under
\* way: it says so at its end.
DirtyIsKnown ==
    \A f \in Files : Dirty(f) # {} =>
        changed[f] \/ (jobs # <<>> /\ job.kind \in {"write", "zeros"} /\ job.file = f)

IInv == Typed /\ OneEntryPerChunk /\ DirtyIsKnown

(***************************************************************************)
(* What finding an entry tells.                                            *)
(***************************************************************************)
\* Where there is one copy at most, finding none means there is none.
LEMMA NotFound ==
    ASSUME OneEntryPerChunk, NEW f \in Files, NEW c, Find(f, c) = NoEntry
    PROVE  \A e \in Of(f) : cache[e].chunk # c
<1> DEFINE S == {e \in Of(f) : cache[e].chunk = c}
<1> SUFFICES ASSUME NEW e \in S PROVE FALSE
    OBVIOUS
<1>1. \A d \in S : d = e
    BY DEF OneEntryPerChunk
<1>2. e \in Nat /\ e >= 1
    BY CacheAssumption DEF Of, Entries
<1>3. First(S) \in S
    <2> HIDE DEF S
    <2>1. \E b \in S : \A d \in S : b <= d
        BY <1>1, <1>2
    <2> QED BY <2>1 DEF First
<1>4. Find(f, c) = First(S)
    BY DEF Find
<1> QED
    BY <1>1, <1>2, <1>3, <1>4 DEF NoEntry

\* Taking entries out of the cache keeps what is left.
LEMMA WithoutKeeps ==
    ASSUME NEW S, cache' = Without(S), Cached, OneEntryPerChunk
    PROVE  /\ Cached' /\ OneEntryPerChunk'
           /\ \A f \in Files : Of(f)' = Of(f) \ S /\ Dirty(f)' = Dirty(f) \ S
<1>0. \A e \in Entries : cache'[e] = IF e \in S THEN Unused ELSE cache[e]
    BY DEF Without
<1>1. Unused.object = None /\ IsEntry(Unused)
    BY DEF Unused, IsEntry
<1>2. \A f \in Files : f # None
    BY CacheAssumption
<1>3. Cached'
    BY <1>0, <1>1 DEF Cached
<1>4. \A f \in Files : Of(f)' = Of(f) \ S
    BY <1>0, <1>1, <1>2 DEF Of
<1>5. \A f \in Files : Dirty(f)' = Dirty(f) \ S
    BY <1>0, <1>4 DEF Dirty, Of
<1>6. OneEntryPerChunk'
    BY <1>0, <1>4 DEF OneEntryPerChunk, Of
<1> QED BY <1>3, <1>4, <1>5, <1>6

\* What was found is an entry of that chunk.
LEMMA Found ==
    ASSUME OneEntryPerChunk, NEW f \in Files, NEW c, Find(f, c) # NoEntry
    PROVE  Find(f, c) \in Of(f) /\ cache[Find(f, c)].chunk = c
<1> DEFINE S == {e \in Of(f) : cache[e].chunk = c}
<1>1. Find(f, c) = First(S) /\ S # {}
    BY DEF Find
<1>2. PICK e \in S : TRUE
    BY <1>1
<1>3. (\A d \in S : d = e) /\ e \in Nat
    BY DEF OneEntryPerChunk, Of, Entries
<1>4. First(S) \in S
    <2> HIDE DEF S
    <2>1. \E b \in S : \A d \in S : b <= d
        BY <1>2, <1>3
    <2> QED BY <2>1 DEF First
<1> QED BY <1>1, <1>4

\* An entry is used for a chunk: the one it holds, or one that is in no entry.
LEMMA UseKeeps ==
    ASSUME Cached, OneEntryPerChunk,
           NEW e, NEW x, NEW f \in Files, Use(e, x),
           e \in Entries => /\ IsEntry(x) /\ x.object = f
                            /\ \/ Find(f, x.chunk) = e
                               \/ Find(f, x.chunk) = NoEntry
    PROVE  /\ Cached' /\ OneEntryPerChunk'
           /\ \A g \in Files \ {f} : Dirty(g)' \subseteq Dirty(g)
           /\ \A d \in Dirty(f)' : d \in Dirty(f) \/ (d = e /\ d \in Entries /\ x.dirty)
<1>1. PICK now : cache' = [d \in Entries |->
                       IF d = e THEN [x EXCEPT !.lastUse = now]
                       ELSE IF Over /\ d > 1 THEN [cache[d] EXCEPT !.lastUse = 0]
                       ELSE cache[d]]
    BY DEF Use
<1>2. \A d \in Entries \ {e} : /\ IsEntry(cache'[d])
                              /\ cache'[d].object = cache[d].object
                              /\ cache'[d].chunk = cache[d].chunk
                              /\ cache'[d].dirty = cache[d].dirty
    <2> TAKE d \in Entries \ {e}
    <2>1. cache'[d] = [cache[d] EXCEPT !.lastUse = 0] \/ cache'[d] = cache[d]
        BY <1>1
    <2>2. IsEntry(cache[d])
        BY DEF Cached
    <2> QED BY <2>1, <2>2 DEF IsEntry
<1>3. e \in Entries => /\ IsEntry(cache'[e]) /\ cache'[e].object = f
                       /\ cache'[e].chunk = x.chunk /\ cache'[e].dirty = x.dirty
    <2> SUFFICES ASSUME e \in Entries
                 PROVE  /\ IsEntry(cache'[e]) /\ cache'[e].object = f
                        /\ cache'[e].chunk = x.chunk /\ cache'[e].dirty = x.dirty
        OBVIOUS
    <2>1. cache'[e] = [x EXCEPT !.lastUse = now]
        BY <1>1
    <2> QED BY <2>1 DEF IsEntry
<1>4. Cached'
    BY <1>2, <1>3 DEF Cached
<1>5. e \in Entries => \A d \in Of(f) : cache[d].chunk = x.chunk => d = e
    <2>1. CASE e \in Entries /\ Find(f, x.chunk) = e
        <3>1. e # NoEntry
            BY <2>1, CacheAssumption DEF Entries, NoEntry
        <3>2. e \in Of(f) /\ cache[e].chunk = x.chunk
            BY <2>1, <3>1, Found
        <3> QED BY <3>2 DEF OneEntryPerChunk
    <2>2. CASE e \in Entries /\ Find(f, x.chunk) = NoEntry
        BY <2>2, NotFound
    <2> QED BY <2>1, <2>2
<1>6. OneEntryPerChunk'
    BY <1>2, <1>3, <1>5 DEF OneEntryPerChunk, Of
<1>7. \A g \in Files \ {f} : Dirty(g)' \subseteq Dirty(g)
    BY <1>2, <1>3 DEF Dirty, Of
<1>8. ASSUME NEW d \in Dirty(f)'
      PROVE  d \in Dirty(f) \/ (d = e /\ d \in Entries /\ x.dirty)
    <2>1. d \in Entries /\ cache'[d].object = f /\ cache'[d].dirty
        BY DEF Dirty, Of
    <2> QED BY <1>2, <1>3, <2>1 DEF Dirty, Of
<1> QED BY <1>4, <1>6, <1>7, <1>8

(***************************************************************************)
(* Jobs.                                                                   *)
(***************************************************************************)
\* A new job.
LEMMA JobTyped ==
    ASSUME Typed, NEW kind \in Kinds, NEW f \in Files, NEW off \in Int, NEW n \in Int,
           NEW v \in Int
    PROVE  Job(kind, f, off, n, v) \in JobRecords
BY DEF Job, JobRecords, Typed

\* The job in service, and those after it.
LEMMA HeadTyped ==
    ASSUME Typed, jobs # <<>>
    PROVE  job \in JobRecords /\ Tail(jobs) \in Seq(JobRecords)
BY HeadTailProperties DEF Typed, job

\* The job goes on to its next chunk, and stays the job of its file.
LEMMA SteppedTyped ==
    ASSUME Typed, jobs # <<>>
    PROVE  /\ Stepped \in Seq(JobRecords) /\ Stepped # <<>>
           /\ Head(Stepped).kind = job.kind /\ Head(Stepped).file = job.file
<1>1. job \in JobRecords /\ job = jobs[1] /\ 1 \in DOMAIN jobs /\ jobs \in Seq(JobRecords)
    BY HeadTyped DEF Typed, job
<1>2. Length \in Int
    <2>1. job.off \in Int /\ job.n \in Int /\ job.done \in Int
        BY <1>1 DEF JobRecords
    <2>2. Pos \in Int
        BY <2>1 DEF Pos
    <2>3. From \in Int
        BY <2>2, CacheAssumption DEF From
    <2> QED BY <2>1, <2>3, CacheAssumption DEF Length, Smaller
<1> DEFINE next == [job EXCEPT !.done = @ + Length, !.step = "chunk"]
<1> DEFINE done == job.done + Length
<1>3. next \in JobRecords /\ next.kind = job.kind /\ next.file = job.file
    <2>1. done \in Int
        BY <1>1, <1>2 DEF JobRecords
    <2>2. next = [job EXCEPT !.done = done, !.step = "chunk"]
        OBVIOUS
    <2> HIDE DEF done, next
    <2> QED BY <1>1, <2>1, <2>2 DEF JobRecords
<1>4. Stepped = [jobs EXCEPT ![1] = next]
    BY <1>1 DEF Stepped
<1> HIDE DEF next
<1>5. Len(Stepped) = Len(jobs) /\ Stepped \in Seq(JobRecords) /\ Stepped[1] = next
    BY <1>1, <1>3, <1>4
<1> QED BY <1>1, <1>3, <1>5

\* Only the step of the job changes.
LEMMA MarkedTyped ==
    ASSUME Typed, jobs # <<>>, NEW step \in {"chunk", "flushed", "short"},
           NEW list, list = [jobs EXCEPT ![1].step = step]
    PROVE  /\ list \in Seq(JobRecords) /\ list # <<>>
           /\ Head(list).kind = job.kind /\ Head(list).file = job.file
<1>1. job \in JobRecords /\ job = jobs[1] /\ 1 \in DOMAIN jobs /\ jobs \in Seq(JobRecords)
    BY HeadTyped DEF Typed, job
<1> DEFINE next == [job EXCEPT !.step = step]
<1>3. next \in JobRecords /\ next.kind = job.kind /\ next.file = job.file
    BY <1>1 DEF JobRecords
<1>4. list = [jobs EXCEPT ![1] = next]
    BY <1>1
<1> HIDE DEF next
<1>5. Len(list) = Len(jobs) /\ list \in Seq(JobRecords) /\ list[1] = next
    BY <1>1, <1>3, <1>4
<1> QED BY <1>1, <1>3, <1>5

\* The pieces a small hole is filled with.
LEMMA HoleJobsTyped ==
    ASSUME Typed, NEW f \in Files, NEW end \in Int
    PROVE  HoleJobs(f, end) \in Seq(JobRecords)
<1> DEFINE hole == end - fileSize[f]
           Piece(k) == Job("zeros", f, fileSize[f] + (k - 1) * BytesPerChunk,
                           Smaller(BytesPerChunk, hole - (k - 1) * BytesPerChunk), 0)
           many == (hole + BytesPerChunk - 1) \div BytesPerChunk
<1>1. CASE HoleJobs(f, end) = <<>>
    BY <1>1
<1>2. CASE hole > 0 /\ HoleJobs(f, end) = [k \in 1 .. many |-> Piece(k)]
    <2>1. fileSize[f] \in Int /\ hole \in Int /\ BytesPerChunk \in Nat \ {0}
        BY CacheAssumption DEF Typed
    <2>2. many \in Nat
        <3> HIDE DEF hole
        <3>1. ASSUME NEW a \in Nat, NEW b \in Nat \ {0} PROVE a \div b \in Nat
            BY <3>1
        <3>2. hole + BytesPerChunk - 1 \in Nat
            BY <2>1, <1>2
        <3> QED BY <2>1, <3>1, <3>2
    <2>3. ASSUME NEW k \in 1 .. many PROVE Piece(k) \in JobRecords
        <3>1. (k - 1) * BytesPerChunk \in Int
            BY <2>1, <2>2
        <3> QED BY <2>1, <3>1, JobTyped DEF Smaller, Kinds
    <2> HIDE DEF many, Piece
    <2> QED BY <1>2, <2>2, <2>3
<1> QED BY <1>1, <1>2 DEF HoleJobs

\* Jobs are put before jobs.
LEMMA ListsTyped ==
    ASSUME NEW a \in Seq(JobRecords), NEW b \in Seq(JobRecords)
    PROVE  a \o b \in Seq(JobRecords)
OBVIOUS

(***************************************************************************)
(* The inductive invariant.                                                *)
(***************************************************************************)
\* Nothing is cached at first.
LEMMA InitInvariant == Init => IInv
<1> SUFFICES ASSUME Init PROVE IInv
    OBVIOUS
<1>1. \A e \in Entries : cache[e] = Unused
    BY DEF Init
<1>2. Unused.object = None /\ IsEntry(Unused) /\ None \notin Files
    BY CacheAssumption DEF Unused, IsEntry
<1>3. \A f \in Files : Of(f) = {}
    BY <1>1, <1>2 DEF Of
<1>4. Cached
    BY <1>1, <1>2 DEF Cached
<1> QED BY <1>3, <1>4 DEF Init, IInv, Typed, OneEntryPerChunk, DirtyIsKnown, Dirty

\* Steps that leave the cache alone need to keep the typing only, and not take
\* a mark away that a dirty entry needs.
LEMMA SameCache ==
    ASSUME IInv, UNCHANGED cache,
           jobs' \in Seq(JobRecords), fileSize' \in [Files -> Int],
           changed' \in [Files -> BOOLEAN], DirtyIsKnown'
    PROVE  IInv'
BY DEF IInv, Typed, Cached, OneEntryPerChunk, Of

\* A flush is begun, of any file.
LEMMA Flushing ==
    ASSUME IInv, NEW f, NEW then, FlushFirst(f, then), then \in Seq(JobRecords),
           jobs # <<>> /\ job.kind \in {"write", "zeros"} =>
               then # <<>> /\ Head(then).kind = job.kind /\ Head(then).file = job.file
    PROVE  IInv'
<1>1. DirtyIsKnown'
    BY DEF IInv, DirtyIsKnown, FlushFirst, Dirty, Of, job
<1> QED BY <1>1, SameCache DEF FlushFirst, IInv, Typed

\* The chunk of a write is changed in the cache.
LEMMA Modifying ==
    ASSUME IInv, Writing, NEW e, NEW x, Modify(e, x),
           e \in Entries => /\ IsEntry(x) /\ x.object = job.file
                            /\ \/ Find(job.file, x.chunk) = e
                               \/ Find(job.file, x.chunk) = NoEntry
    PROVE  IInv'
<1> DEFINE f == job.file
           y == [x EXCEPT !.dirty = TRUE, !.n = ToWriteBack, !.bytes = Overlay(@)]
<1>1. f \in Files /\ jobs # <<>> /\ job.kind \in {"write", "zeros"}
    BY HeadTyped DEF IInv, Writing, Serving, JobRecords
<1>2. Use(e, y)
    BY DEF Modify
<1>3. e \in Entries => IsEntry(y) /\ y.object = f /\ y.chunk = x.chunk
    BY DEF IsEntry
<1> HIDE DEF y
<1>4. /\ Cached' /\ OneEntryPerChunk'
      /\ \A g \in Files \ {f} : Dirty(g)' \subseteq Dirty(g)
    BY <1>1, <1>2, <1>3, UseKeeps DEF IInv, Typed
<1>5. /\ jobs' \in Seq(JobRecords) /\ jobs' # <<>>
      /\ Head(jobs').kind = job.kind /\ Head(jobs').file = f
    BY <1>1, SteppedTyped DEF IInv, Modify
<1>6. UNCHANGED <<fileSize, changed>>
    BY DEF Modify
<1>7. DirtyIsKnown'
    BY <1>1, <1>4, <1>5, <1>6 DEF IInv, DirtyIsKnown, job
<1> QED BY <1>4, <1>5, <1>6, <1>7 DEF IInv, Typed

\* An entry that was filled is a clean one for its chunk.
LEMMA LoadedEntry ==
    ASSUME Cached, NEW e \in Entries, NEW f, NEW c
    PROVE  /\ IsEntry(Loaded(e, f, c)) /\ Loaded(e, f, c).object = f
           /\ Loaded(e, f, c).chunk = c /\ ~Loaded(e, f, c).dirty
<1>1. IsEntry(cache[e])
    BY DEF Cached
<1>2. Loaded(e, f, c) = [cache[e] EXCEPT !.object = f, !.chunk = c, !.dirty = FALSE,
                                         !.n = 0, !.bytes = nand[f][c].bytes]
    BY DEF Loaded
<1> DEFINE b == nand[f][c].bytes
<1>3. Loaded(e, f, c) = [cache[e] EXCEPT !.object = f, !.chunk = c, !.dirty = FALSE,
                                         !.n = 0, !.bytes = b]
    BY <1>2
<1> HIDE DEF b
<1> QED BY <1>1, <1>3 DEF IsEntry

\* A write finds no space; the entry of a whole chunk is dropped with it.
LEMMA Refusing ==
    ASSUME IInv, Writing, NEW lost, Refuse(lost)
    PROVE  IInv'
<1>1. jobs # <<>>
    BY DEF Writing, Serving
<1>2. cache' = Without(lost) /\ UNCHANGED <<fileSize, changed>>
    BY DEF Refuse
<1>3. Cached' /\ OneEntryPerChunk' /\ \A f \in Files : Dirty(f)' \subseteq Dirty(f)
    BY <1>2, WithoutKeeps DEF IInv, Typed
<1>4. /\ jobs' \in Seq(JobRecords) /\ jobs' # <<>>
      /\ Head(jobs').kind = job.kind /\ Head(jobs').file = job.file
    BY <1>1, MarkedTyped DEF IInv, Refuse
<1> QED BY <1>2, <1>3, <1>4 DEF IInv, Typed, DirtyIsKnown, job

\* The chunk is in the cache: its entry is the only one.
LEMMA WriteCachedKeeps == ASSUME IInv, WriteCached PROVE IInv'
<1> DEFINE e == Find(job.file, Chunk)
<1>1. job.file \in Files /\ jobs # <<>> /\ e # NoEntry /\ Writing
    BY HeadTyped DEF IInv, WriteCached, Writing, Serving, JobRecords
<1>2. e \in Of(job.file) /\ cache[e].chunk = Chunk
    BY <1>1, Found DEF IInv
<1>3. CASE Modify(e, cache[e])
    <2>1. e \in Entries /\ cache[e].object = job.file /\ IsEntry(cache[e])
        BY <1>2 DEF Of, IInv, Typed, Cached
    <2> HIDE DEF e
    <2>2. Find(job.file, cache[e].chunk) = e
        BY <1>2 DEF e
    <2> QED BY <1>1, <1>3, <2>1, <2>2, Modifying
<1>4. CASE Refuse({})
    BY <1>1, <1>4, Refusing
<1> QED BY <1>3, <1>4 DEF WriteCached

\* What a write or a read does with a chunk that is in no entry.
LEMMA WriteUncachedKeeps == ASSUME IInv, WriteUncached PROVE IInv'
<1>1. job.file \in Files /\ jobs # <<>> /\ Writing /\ Find(job.file, Chunk) = NoEntry
    BY HeadTyped DEF IInv, WriteUncached, Writing, Serving, JobRecords
<1>2. CASE Refuse({})
    BY <1>1, <1>2, Refusing
<1>3. CASE FlushFirst(cache[LeastUsed].object, [jobs EXCEPT ![1].step = "flushed"])
    <2> DEFINE list == [jobs EXCEPT ![1].step = "flushed"]
    <2>1. /\ list \in Seq(JobRecords) /\ list # <<>>
          /\ Head(list).kind = job.kind /\ Head(list).file = job.file
        BY <1>1, MarkedTyped DEF IInv
    <2>2. FlushFirst(cache[LeastUsed].object, list)
        BY <1>3
    <2> HIDE DEF list
    <2> QED BY <2>1, <2>2, Flushing
<1>4. CASE Modify(Grabbed, Loaded(Grabbed, job.file, Chunk))
    <2>1. Grabbed \in Entries => LET x == Loaded(Grabbed, job.file, Chunk)
                                 IN IsEntry(x) /\ x.object = job.file /\ x.chunk = Chunk
        BY LoadedEntry DEF IInv, Typed
    <2> QED BY <1>1, <1>4, <2>1, Modifying
<1> QED BY <1>2, <1>3, <1>4 DEF WriteUncached

\* A whole chunk takes its entry away, dirty or not.
LEMMA WriteWholeKeeps == ASSUME IInv, WriteWhole PROVE IInv'
<1>1. job.file \in Files /\ jobs # <<>> /\ Writing
    BY HeadTyped DEF IInv, WriteWhole, Writing, Serving, JobRecords
<1>2. CASE Refuse(Overwritten)
    BY <1>1, <1>2, Refusing
<1>3. CASE cache' = Without(Overwritten) /\ jobs' = Stepped
           /\ UNCHANGED <<fileSize, changed>>
    <2>1. Cached' /\ OneEntryPerChunk' /\ \A f \in Files : Dirty(f)' \subseteq Dirty(f)
        BY <1>3, WithoutKeeps DEF IInv, Typed
    <2>2. /\ jobs' \in Seq(JobRecords) /\ jobs' # <<>>
          /\ Head(jobs').kind = job.kind /\ Head(jobs').file = job.file
        BY <1>1, <1>3, SteppedTyped DEF IInv
    <2> QED BY <1>3, <2>1, <2>2 DEF IInv, Typed, DirtyIsKnown, job
<1> QED BY <1>2, <1>3 DEF WriteWhole

\* The end of a write marks its file.
LEMMA WriteEndsKeeps == ASSUME IInv, WriteEnds PROVE IInv'
<1>1. job \in JobRecords /\ jobs # <<>> /\ Tail(jobs) \in Seq(JobRecords)
      /\ job.file \in Files
    BY HeadTyped DEF IInv, WriteEnds, Writing, Serving, JobRecords
<1>2. UNCHANGED cache /\ changed' = [changed EXCEPT ![job.file] = TRUE]
    BY DEF WriteEnds
<1>3. jobs' \in Seq(JobRecords)
    <2>1. Zeroing \in Nat
        <3>1. IsFiniteSet(DOMAIN jobs)
            <4>1. Len(jobs) \in Nat /\ DOMAIN jobs = 1 .. Len(jobs)
                BY DEF IInv, Typed
            <4> QED BY <4>1, FS_Interval
        <3>2. IsFiniteSet({k \in DOMAIN jobs : jobs[k].kind = "zeros"})
            BY <3>1, FS_Subset
        <3> QED BY <3>2, FS_CardinalityType DEF Zeroing
    <2>2. SubSeq(jobs, Zeroing + 1, Len(jobs)) \in Seq(JobRecords)
        <3>1. jobs \in Seq(JobRecords)
            BY DEF IInv, Typed
        <3>2. Zeroing + 1 \in 1 .. Len(jobs) + 1 \/ Zeroing + 1 > Len(jobs)
            BY <2>1, <3>1
        <3> QED BY <2>1, <3>1, <3>2
    <2> QED BY <1>1, <2>2 DEF WriteEnds
<1>4. fileSize' \in [Files -> Int]
    <2>1. job.was \in Int /\ job.off + job.done \in Int /\ fileSize \in [Files -> Int]
        <3>1. job.was \in Int /\ job.off \in Int /\ job.done \in Int
            BY <1>1 DEF JobRecords
        <3>2. fileSize \in [Files -> Int]
            BY DEF IInv, Typed
        <3> QED BY <3>1, <3>2
    <2>2. \/ fileSize' = [fileSize EXCEPT ![job.file] = job.was]
          \/ fileSize' = [fileSize EXCEPT ![job.file] = Larger(@, job.off + job.done)]
        BY DEF WriteEnds, ResizeDown
    <2> QED BY <1>1, <2>1, <2>2 DEF Larger
<1>5. DirtyIsKnown'
    BY <1>1, <1>2 DEF IInv, Typed, DirtyIsKnown, Dirty, Of, job
<1> QED BY <1>2, <1>3, <1>4, <1>5, SameCache DEF IInv, Typed

\* A read marks nothing: the entry it uses stays as dirty as it was.
LEMMA ReadCachedKeeps == ASSUME IInv, ReadCached PROVE IInv'
<1> DEFINE e == Find(job.file, Chunk)
<1>1. /\ job.file \in Files /\ jobs # <<>> /\ job.kind = "read" /\ e # NoEntry
      /\ Use(e, cache[e])
    BY HeadTyped DEF IInv, ReadCached, Serving, JobRecords
<1>2. e \in Of(job.file) /\ cache[e].chunk = Chunk
    BY <1>1, Found DEF IInv
<1>3. e \in Entries /\ cache[e].object = job.file /\ IsEntry(cache[e])
    BY <1>2 DEF Of, IInv, Typed, Cached
<1>4. jobs' = Stepped /\ UNCHANGED <<fileSize, changed>>
    BY DEF ReadCached, Return
<1>5. jobs' \in Seq(JobRecords)
    BY <1>1, <1>4, SteppedTyped DEF IInv
<1> HIDE DEF e
<1>6. Find(job.file, cache[e].chunk) = e
    BY <1>2 DEF e
<1> PICK f \in Files : f = job.file
    BY <1>1
<1> DEFINE x == cache[e]
<1>7. f \in Files /\ Use(e, x) /\ IsEntry(x) /\ x.object = f /\ Find(f, x.chunk) = e
    BY <1>1, <1>3, <1>6
<1>8. x.dirty => e \in Dirty(f)
    BY <1>2 DEF Dirty
<1> HIDE DEF x
<1>9. /\ Cached' /\ OneEntryPerChunk' /\ \A g \in Files \ {f} : Dirty(g)' \subseteq Dirty(g)
      /\ \A d \in Dirty(f)' : d \in Dirty(f) \/ (d = e /\ d \in Entries /\ x.dirty)
    BY <1>7, UseKeeps DEF IInv, Typed
<1>10. \A g \in Files : Dirty(g)' \subseteq Dirty(g)
    BY <1>8, <1>9
<1> QED BY <1>1, <1>4, <1>5, <1>9, <1>10 DEF IInv, Typed, DirtyIsKnown

\* A read fills an entry, after a flush if need be.
LEMMA ReadUncachedKeeps == ASSUME IInv, ReadUncached PROVE IInv'
<1>1. /\ job.file \in Files /\ jobs # <<>> /\ job.kind = "read"
      /\ Find(job.file, Chunk) = NoEntry
    BY HeadTyped DEF IInv, ReadUncached, Serving, JobRecords
<1>2. CASE FlushFirst(cache[LeastUsed].object, [jobs EXCEPT ![1].step = "flushed"])
    <2> DEFINE list == [jobs EXCEPT ![1].step = "flushed"]
    <2>1. /\ list \in Seq(JobRecords) /\ list # <<>>
          /\ Head(list).kind = job.kind /\ Head(list).file = job.file
        BY <1>1, MarkedTyped DEF IInv
    <2>2. FlushFirst(cache[LeastUsed].object, list)
        BY <1>2
    <2> HIDE DEF list
    <2> QED BY <2>1, <2>2, Flushing
<1>3. CASE LET x == Loaded(Grabbed, job.file, Chunk)
           IN Use(Grabbed, x) /\ Return(x.bytes)
    <2> DEFINE x == Loaded(Grabbed, job.file, Chunk)
    <2>1. Use(Grabbed, x) /\ jobs' = Stepped /\ UNCHANGED <<fileSize, changed>>
        BY <1>3 DEF Return
    <2>2. Grabbed \in Entries =>
              IsEntry(x) /\ x.object = job.file /\ x.chunk = Chunk /\ ~x.dirty
        BY LoadedEntry DEF IInv, Typed
    <2> HIDE DEF x
    <2>3. /\ Cached' /\ OneEntryPerChunk'
          /\ \A g \in Files : Dirty(g)' \subseteq Dirty(g)
        <3> PICK f \in Files : f = job.file
            BY <1>1
        <3>1. /\ f \in Files /\ Use(Grabbed, x)
              /\ Grabbed \in Entries =>
                    /\ IsEntry(x) /\ x.object = f /\ ~x.dirty
                    /\ Find(f, x.chunk) = Grabbed \/ Find(f, x.chunk) = NoEntry
            BY <1>1, <2>1, <2>2
        <3>2. /\ Cached' /\ OneEntryPerChunk'
              /\ \A g \in Files \ {f} : Dirty(g)' \subseteq Dirty(g)
              /\ \A d \in Dirty(f)' :
                    d \in Dirty(f) \/ (d = Grabbed /\ d \in Entries /\ x.dirty)
            BY <3>1, UseKeeps DEF IInv, Typed
        <3> QED BY <3>1, <3>2
    <2>4. jobs' \in Seq(JobRecords)
        BY <1>1, <2>1, SteppedTyped DEF IInv
    <2> QED BY <1>1, <2>1, <2>3, <2>4 DEF IInv, Typed, DirtyIsKnown
<1> QED BY <1>2, <1>3 DEF ReadUncached

\* The steps that only go on to the next job.
LEMMA JobDone ==
    ASSUME IInv, jobs # <<>>, job.kind \notin {"write", "zeros"},
           jobs' = Tail(jobs), UNCHANGED <<cache, fileSize, changed>>
    PROVE  IInv'
<1>1. DirtyIsKnown'
    BY DEF IInv, DirtyIsKnown, Dirty, Of
<1> QED BY <1>1, HeadTyped, SameCache DEF IInv, Typed


\* The mark that a truncation takes away belongs to a file without entries.
LEMMA ResizeKeeps == ASSUME IInv, Resize PROVE IInv'
<1>1. /\ job \in JobRecords /\ jobs # <<>> /\ job.kind = "resize"
      /\ Tail(jobs) \in Seq(JobRecords)
    BY HeadTyped DEF IInv, Resize, Serving
<1> PICK f \in Files : f = job.file
    BY <1>1 DEF JobRecords
<1>2. job.n \in Int /\ fileSize[f] \in Int
    BY <1>1 DEF JobRecords, IInv, Typed
<1>3. cache' = Without(Of(f))
    BY DEF Resize
<1>4. /\ Cached' /\ OneEntryPerChunk'
      /\ \A g \in Files : Dirty(g)' = Dirty(g) \ Of(f)
    BY <1>3, WithoutKeeps DEF IInv, Typed
<1>5. Dirty(f)' = {}
    BY <1>4 DEF Dirty
<1>6. \A g \in Files : Dirty(g) # {} => changed[g]
    BY <1>1 DEF IInv, DirtyIsKnown
<1>7. CASE job.n < fileSize[job.file]
    <2>1. /\ fileSize' = [fileSize EXCEPT ![f] = job.n]
          /\ changed' = [changed EXCEPT ![f] = FALSE] /\ jobs' = Tail(jobs)
        BY <1>7 DEF Resize, ResizeDown
    <2> QED BY <1>1, <1>2, <1>4, <1>5, <1>6, <2>1 DEF IInv, Typed, DirtyIsKnown
<1>8. CASE ~ job.n < fileSize[job.file]
    <2> DEFINE last == Job("extend", f, 0, job.n, 0)
               holes == HoleJobs(f, job.n)
               rest == Tail(jobs)
    <2>1. UNCHANGED <<fileSize, changed>> /\ jobs' = holes \o <<last>> \o rest
        BY <1>8 DEF Resize
    <2>2. last \in JobRecords
        BY <1>2, JobTyped DEF IInv, Kinds
    <2>3. holes \in Seq(JobRecords)
        BY <1>2, HoleJobsTyped DEF IInv
    <2> HIDE DEF last, holes
    <2>4. <<last>> \in Seq(JobRecords)
        BY <2>2
    <2>5. jobs' \in Seq(JobRecords)
        <3>1. holes \o <<last>> \in Seq(JobRecords)
            BY <2>3, <2>4, ListsTyped
        <3> QED BY <1>1, <2>1, <3>1, ListsTyped
    <2> QED BY <1>4, <1>6, <2>1, <2>5 DEF IInv, Typed, DirtyIsKnown
<1> QED BY <1>7, <1>8

\* The steps that end a job without a look at the cache, but for what decides
\* whether the header leaves the file marked.
LEMMA OtherJobs ==
    ASSUME IInv, ReadWhole \/ ReadEnds \/ Extend \/ Flush \/ FlushAll \/ WriteHeader
                 \/ Synced \/ FlushEnds
    PROVE  IInv'
<1>1. jobs # <<>> => /\ job \in JobRecords /\ job.file \in Files
                     /\ Tail(jobs) \in Seq(JobRecords)
    BY HeadTyped DEF IInv, JobRecords
<1>2. CASE ReadWhole
    <2>1. jobs # <<>> /\ job.kind = "read" /\ jobs' = Stepped
          /\ UNCHANGED <<cache, fileSize, changed>>
        BY <1>2 DEF ReadWhole, Serving, Return
    <2>2. jobs' \in Seq(JobRecords)
        BY <2>1, SteppedTyped DEF IInv
    <2>3. DirtyIsKnown'
        BY <2>1 DEF IInv, DirtyIsKnown, Dirty, Of
    <2> QED BY <2>1, <2>2, <2>3, SameCache DEF IInv, Typed
<1>3. CASE ReadEnds
    BY <1>3, JobDone DEF ReadEnds, Serving
<1>4. CASE Extend
    <2>1. /\ jobs # <<>> /\ job.kind = "extend" /\ jobs' = Tail(jobs) /\ UNCHANGED cache
          /\ fileSize' = [fileSize EXCEPT ![job.file] = Larger(@, job.n)]
          /\ changed' = [changed EXCEPT ![job.file] = Dirty(job.file) # {}]
        BY <1>4 DEF Extend, Serving
    <2>2. job.n \in Int
        BY <1>1, <2>1 DEF JobRecords
    <2>3. fileSize' \in [Files -> Int] /\ changed' \in [Files -> BOOLEAN]
        BY <1>1, <2>1, <2>2 DEF IInv, Typed, Larger
    <2>4. \A f \in Files : Dirty(f) # {} => changed[f]
        BY <2>1 DEF IInv, DirtyIsKnown
    <2>5. \A f \in Files : Dirty(f)' = Dirty(f)
        BY <2>1 DEF Dirty, Of
    <2>6. DirtyIsKnown'
        BY <1>1, <2>1, <2>4, <2>5 DEF DirtyIsKnown, IInv, Typed
    <2> QED BY <1>1, <2>1, <2>3, <2>6, SameCache
<1>5. CASE Flush
    <2>1. jobs # <<>> /\ job.kind = "flush" /\ FlushFirst(job.file, Tail(jobs))
        BY <1>5 DEF Flush, Serving
    <2> QED BY <1>1, <2>1, Flushing
<1>6. CASE FlushAll
    <2>1. jobs # <<>> /\ job.kind = "flushall"
        BY <1>6 DEF FlushAll, Serving
    <2>2. \/ \E f : FlushFirst(f, jobs)
          \/ jobs' = Tail(jobs) /\ UNCHANGED <<cache, fileSize, changed>>
        BY <1>6 DEF FlushAll
    <2>3. ASSUME NEW f, FlushFirst(f, jobs) PROVE IInv'
        BY <2>1, <2>3, Flushing DEF IInv, Typed
    <2> QED BY <2>1, <2>2, <2>3, JobDone
<1>7. CASE WriteHeader
    <2>1. /\ jobs # <<>> /\ job.kind = "header" /\ jobs' = Tail(jobs)
          /\ UNCHANGED <<cache, fileSize>>
          /\ changed' = [changed EXCEPT ![job.file] = @ /\ ~HeaderClears(job.file)]
        BY <1>7 DEF WriteHeader, Serving
    <2>2. \A f \in Files : (Dirty(f) # {} => changed[f]) /\ Dirty(f)' = Dirty(f)
        BY <2>1 DEF IInv, DirtyIsKnown, Dirty, Of
    <2>3. changed' \in [Files -> BOOLEAN]
        BY <1>1, <2>1 DEF IInv, Typed
    <2>4. DirtyIsKnown'
        BY <1>1, <2>1, <2>2 DEF DirtyIsKnown, HeaderClears, IInv, Typed
    <2> QED BY <1>1, <2>1, <2>3, <2>4, SameCache DEF IInv, Typed
<1>8. CASE Synced
    BY <1>8, JobDone DEF Synced, Serving
<1>9. CASE FlushEnds
    <2>1. UNCHANGED <<cache, fileSize, changed, jobs>>
        BY <1>9 DEF FlushEnds
    <2>2. DirtyIsKnown'
        BY <2>1 DEF IInv, DirtyIsKnown, Dirty, Of, job
    <2> QED BY <2>1, <2>2, SameCache DEF IInv, Typed
<1> QED BY <1>2, <1>3, <1>4, <1>5, <1>6, <1>7, <1>8, <1>9

\* Written or dropped, the entry is gone.
LEMMA FlushChunkKeeps == ASSUME IInv, FlushChunk PROVE IInv'
<1>1. cache' = Without({LowestDirty}) /\ UNCHANGED <<fileSize, changed, jobs>>
    BY DEF FlushChunk, Flushed
<1>2. Cached' /\ OneEntryPerChunk' /\ \A f \in Files : Dirty(f)' \subseteq Dirty(f)
    BY <1>1, WithoutKeeps DEF IInv, Typed
<1> QED BY <1>1, <1>2 DEF IInv, Typed, DirtyIsKnown, job

(***************************************************************************)
(* The requests.                                                           *)
(***************************************************************************)
\* A request begins only when nothing is left of the one before.
LEMMA Beginning ==
    ASSUME IInv, NEW kind, NEW list \in Seq(JobRecords), Begin(kind, list)
    PROVE  IInv'
<1>1. jobs = <<>> /\ jobs' = list /\ UNCHANGED <<cache, fileSize, changed>>
    BY DEF Begin, Idle
<1>2. DirtyIsKnown'
    BY <1>1 DEF IInv, DirtyIsKnown, Dirty, Of
<1> QED BY <1>1, <1>2, SameCache DEF IInv, Typed

\* The mark of a file that is removed goes with its entries.
LEMMA RemoveKeeps == ASSUME IInv, NEW f \in Files, Remove(f) PROVE IInv'
<1>1. /\ jobs = <<>> /\ cache' = Without(Of(f)) /\ UNCHANGED jobs
      /\ fileSize' = [fileSize EXCEPT ![f] = 0]
      /\ changed' = [changed EXCEPT ![f] = FALSE]
    BY DEF Remove, Idle
<1>2. /\ Cached' /\ OneEntryPerChunk'
      /\ \A g \in Files : Dirty(g)' = Dirty(g) \ Of(f)
    BY <1>1, WithoutKeeps DEF IInv, Typed
<1>3. Dirty(f)' = {}
    BY <1>2 DEF Dirty
<1>4. \A g \in Files : Dirty(g) # {} => changed[g]
    BY <1>1 DEF IInv, DirtyIsKnown
<1> QED BY <1>1, <1>2, <1>3, <1>4 DEF IInv, Typed, DirtyIsKnown

\* What each request begins with is a sequence of jobs.
LEMMA RequestsKeep == ASSUME IInv, NextRequest PROVE IInv'
<1>1. PICK f \in Files :
        \/ \E w \in Writes, v \in Values : BeginWrite(f, w, v)
        \/ \E r \in Reads : BeginRead(f, r)
        \/ \E size \in Sizes : BeginResize(f, size)
        \/ \E dataSync \in BOOLEAN : BeginFlush(f, dataSync)
        \/ BeginFlushAll(f) \/ BeginHeader(f) \/ Remove(f)
    BY DEF NextRequest
<1>2. ASSUME NEW kind \in Kinds, NEW off \in Int, NEW n \in Int, NEW v \in Int
      PROVE  <<Job(kind, f, off, n, v)>> \in Seq(JobRecords)
    <2>1. Job(kind, f, off, n, v) \in JobRecords
        BY JobTyped DEF IInv
    <2> QED BY <2>1
<1>3. \A kind \in Kinds : <<Job(kind, f, 0, 0, 0)>> \in Seq(JobRecords)
    BY <1>2
<1>4. <<>> \in Seq(JobRecords)
    OBVIOUS
<1>5. ASSUME NEW w \in Writes, NEW v \in Values, BeginWrite(f, w, v) PROVE IInv'
    <2>1. w[1] \in Int /\ w[2] \in Int /\ v \in Int
        BY CacheAssumption
    <2>2. <<Job("write", f, w[1], w[2], v)>> \in Seq(JobRecords)
        BY <1>2, <2>1 DEF Kinds
    <2>3. HoleJobs(f, w[1]) \o <<Job("write", f, w[1], w[2], v)>> \in Seq(JobRecords)
        BY <2>1, <2>2, HoleJobsTyped, ListsTyped DEF IInv
    <2> QED BY <1>5, <2>3, Beginning DEF BeginWrite
<1>6. ASSUME NEW r \in Reads, BeginRead(f, r) PROVE IInv'
    <2>1. r[1] \in Int /\ r[2] \in Int
        BY CacheAssumption
    <2>2. <<Job("read", f, r[1], r[2], 0)>> \in Seq(JobRecords)
        BY <1>2, <2>1 DEF Kinds
    <2> QED BY <1>6, <2>2, Beginning DEF BeginRead
<1>7. ASSUME NEW size \in Sizes, BeginResize(f, size) PROVE IInv'
    <2>1. size \in Int
        BY CacheAssumption
    <2> DEFINE a == Job("flush", f, 0, 0, 0)
               b == Job("resize", f, 0, size, 0)
    <2>2. a \in JobRecords /\ b \in JobRecords
        BY <2>1, JobTyped DEF IInv, Kinds
    <2>3. Begin("resize", <<a, b>>)
        BY <1>7 DEF BeginResize
    <2> HIDE DEF a, b
    <2>4. <<a, b>> \in Seq(JobRecords)
        BY <2>2
    <2> QED BY <2>3, <2>4, Beginning
<1>8. ASSUME NEW dataSync \in BOOLEAN, BeginFlush(f, dataSync) PROVE IInv'
    <2> DEFINE a == <<Job("flush", f, 0, 0, 0)>>
               b == IF dataSync THEN <<>> ELSE <<Job("header", f, 0, 0, 0)>>
               c == IF ~changed[f] THEN <<>> ELSE a \o b
               d == <<Job("synced", f, 0, 0, 0)>>
    <2>1. a \in Seq(JobRecords) /\ b \in Seq(JobRecords) /\ d \in Seq(JobRecords)
        BY <1>3, <1>4 DEF Kinds
    <2>2. Begin("flush", c \o d)
        BY <1>8 DEF BeginFlush
    <2> HIDE DEF a, b, d
    <2>3. c \in Seq(JobRecords)
        BY <1>4, <2>1, ListsTyped
    <2> HIDE DEF c
    <2>4. c \o d \in Seq(JobRecords)
        BY <2>1, <2>3, ListsTyped
    <2> QED BY <2>2, <2>4, Beginning
<1>9. CASE BeginFlushAll(f)
    <2> DEFINE a == Job("flushall", f, 0, 0, 0)
               b == Job("synced", f, 0, 0, 0)
    <2>1. a \in JobRecords /\ b \in JobRecords
        BY JobTyped DEF IInv, Kinds
    <2>2. Begin("sync", <<a, b>>)
        BY <1>9 DEF BeginFlushAll
    <2> HIDE DEF a, b
    <2>3. <<a, b>> \in Seq(JobRecords)
        BY <2>1
    <2> QED BY <2>2, <2>3, Beginning
<1>10. CASE BeginHeader(f)
    <2>1. <<Job("header", f, 0, 0, 0)>> \in Seq(JobRecords)
        BY <1>3 DEF Kinds
    <2> QED BY <1>10, <2>1, Beginning DEF BeginHeader
<1>11. CASE Remove(f)
    BY <1>11, RemoveKeeps
<1> QED BY <1>1, <1>5, <1>6, <1>7, <1>8, <1>9, <1>10, <1>11

\* One step for each action.
LEMMA NextInvariant == IInv /\ [Next]_vars => IInv'
<1> SUFFICES ASSUME IInv, [Next]_vars PROVE IInv'
    OBVIOUS
<1>1. CASE NextRequest
    BY <1>1, RequestsKeep
<1>2. CASE NextJob
    <2>1. CASE WriteCached
        BY <2>1, WriteCachedKeeps
    <2>2. CASE WriteUncached
        BY <2>2, WriteUncachedKeeps
    <2>3. CASE WriteWhole
        BY <2>3, WriteWholeKeeps
    <2>4. CASE WriteEnds
        BY <2>4, WriteEndsKeeps
    <2>5. CASE ReadCached
        BY <2>5, ReadCachedKeeps
    <2>6. CASE ReadUncached
        BY <2>6, ReadUncachedKeeps
    <2>7. CASE Resize
        BY <2>7, ResizeKeeps
    <2>8. CASE FlushChunk
        BY <2>8, FlushChunkKeeps
    <2>9. CASE ReadWhole \/ ReadEnds \/ Extend \/ Flush \/ FlushAll \/ WriteHeader
               \/ Synced \/ FlushEnds
        BY <2>9, OtherJobs
    <2> QED BY <1>2, <2>1, <2>2, <2>3, <2>4, <2>5, <2>6, <2>7, <2>8, <2>9 DEF NextJob
<1>3. CASE UNCHANGED vars
    <2>1. UNCHANGED <<cache, jobs, fileSize, changed>>
        BY <1>3 DEF vars
    <2>2. DirtyIsKnown'
        BY <2>1 DEF IInv, DirtyIsKnown, Dirty, Of, job
    <2> QED BY <2>1, <2>2, SameCache DEF IInv, Typed
<1> QED BY <1>1, <1>2, <1>3 DEF Next

\* The inductive invariant holds in every state of the cache.
THEOREM Invariant == Spec => []IInv
<1> QED BY InitInvariant, NextInvariant, PTL DEF Spec

\* A chunk of a file is never in two entries, so no flush can undo a later write
\* (yaffs_FindChunkCache, yaffs_GrabChunkCache and what is done between them).
THEOREM CacheHasOneCopy == Spec => []OneEntryPerChunk
<1>1. IInv => OneEntryPerChunk
    BY DEF IInv
<1> QED BY <1>1, Invariant, PTL

\* A file with bytes in the cache is marked for yaffs_FlushFile, whatever has
\* written, flushed, resized or renamed it since.
THEOREM CachedIsMarked == Spec => []DirtyIsFlushed
<1>1. IInv => DirtyIsFlushed
    BY DEF IInv, DirtyIsKnown, DirtyIsFlushed, Idle
<1> QED BY <1>1, Invariant, PTL

(***************************************************************************)
(* The files behind the cache.                                             *)
(*                                                                         *)
(* What follows is about devices whose reserve is never used up (CanWrite).*)
(***************************************************************************)
Offsets == 1 .. BytesPerChunk
ByteLists == [Offsets -> Bytes]

EntryOk(x) ==
    /\ x.object \in Files \cup {None} /\ x.lastUse \in Nat /\ x.bytes \in ByteLists
    /\ x.object # None => x.chunk \in FileChunks

Contents ==
    /\ \A e \in Entries : EntryOk(cache[e])
    /\ nand \in [Files -> [FileChunks -> [bytes : ByteLists, n : 0 .. BytesPerChunk]]]
    /\ srLastUse \in Nat /\ fileSize \in [Files -> 0 .. MaxSize]
    /\ flushing \in Files \cup {None} /\ nFreeChunks \in Int

\* An entry that is not dirty says what the device says.
CleanIsSaved ==
    \A f \in Files : \A e \in Of(f) : ~cache[e].dirty => cache[e].bytes = nand[f][cache[e].chunk].bytes

\* A job works on bytes of the file; those behind the first have not begun.
JobOk(j, said) ==
    /\ j.off \in Nat /\ j.n \in Nat /\ j.done \in 0 .. j.n /\ j.v \in Bytes /\ j.was \in 0 .. MaxSize
    /\ j.kind \in {"write", "zeros", "read"} => j.off + j.n <= MaxSize
    /\ j.kind \in {"resize", "extend"} => j.n <= MaxSize
    /\ j.kind \in {"zeros", "resize", "extend"} => j.v = 0
    /\ j.kind \in {"header", "synced"} => j.off = 0 /\ j.n = 0
    /\ j.step = "short" => said = "short"

\* The jobs that end a request: only the last one is such a job.
Endings == {"write", "read", "extend", "resize", "synced"}
JobsOk ==
    \A k \in DOMAIN jobs :
        /\ JobOk(jobs[k], status)
        /\ k > 1 => jobs[k].step = "chunk" /\ jobs[k].done = 0
        /\ jobs[k].kind \in Endings => k = Len(jobs)
        /\ jobs[k].kind = "zeros" => \A i \in 1 .. k : jobs[i].kind = "zeros"

\* Zeros fill a hole of one file up to where the job behind them begins.
Last == jobs[Len(jobs)]
Target(j) == IF j.kind = "write" THEN j.off + j.done ELSE IF j.kind = "extend" THEN j.n ELSE 0
Fills(j, head, last, size) ==
    /\ last.kind \in {"write", "extend"} /\ last.file = j.file /\ head.file = j.file
    /\ head.was = j.was /\ last.was = j.was
    /\ j.was <= j.off /\ j.off + j.n <= Target(last) /\ j.was < Target(last)
    /\ j.was <= size[j.file] /\ size[j.file] <= Target(last)
ZerosFill == \A k \in DOMAIN jobs : jobs[k].kind = "zeros" => Fills(jobs[k], job, Last, fileSize)

\* A file is cut, or said to be saved, at the end of a request that has flushed it.
FlushIn(list, f, last) ==
    \E i \in 1 .. last : list[i].kind = "flushall" \/ (list[i].kind = "flush" /\ list[i].file = f)
Promises ==
    jobs # <<>> /\ Last.kind \in {"resize", "synced"} =>
        /\ \A i \in DOMAIN jobs : jobs[i].kind \notin {"write", "zeros"}
        /\ Dirty(Last.file) = {} \/ flushing = Last.file \/ FlushIn(jobs, Last.file, Len(jobs) - 1)

\* A flush for the sake of an entry leaves one that is free.
FlushFrees ==
    jobs # <<>> /\ job.step = "flushed" => Empty # {} \/ (flushing \in Files /\ Dirty(flushing) # {})

\* Where the bytes of a file end, with what the job has written so far ...
End(f) ==
    IF jobs = <<>> \/ job.file # f THEN fileSize[f]
    ELSE IF job.kind = "zeros" THEN job.was
    ELSE IF job.kind = "write" THEN Larger(fileSize[f], job.off + job.done)
    ELSE fileSize[f]
\* ... and where they will, once the request is done.
Limit(f) == IF jobs = <<>> \/ Last.file # f THEN fileSize[f] ELSE Larger(fileSize[f], Target(Last))

\* What is in chunk c of file f, or about to be, is covered by its count and lies
\* before the end of the file.
DataOk(c, bytes, n, end, limit) ==
    /\ \A k \in Offsets : bytes[k] # 0 => k <= n /\ (c - 1) * BytesPerChunk + k <= end
    /\ n \in 0 .. BytesPerChunk /\ (c - 1) * BytesPerChunk + n <= limit
Within ==
    \A f \in Files :
        /\ \A c \in FileChunks :
               nand[f][c] # Hole => DataOk(c, nand[f][c].bytes, nand[f][c].n, End(f), Limit(f))
        /\ \A e \in Dirty(f) : DataOk(cache[e].chunk, cache[e].bytes, cache[e].n, End(f), Limit(f))

\* The last job says what was asked for; a resize knows the size it started from.
LastOk ==
    jobs # <<>> => /\ Last.kind \in Endings \cup {"header"}
                   /\ Last.kind = "resize" => Last.was = fileSize[Last.file]

\* The entries and the device; the jobs; both.
DataInv == Contents /\ CleanIsSaved /\ Within
JobsInv == JobsOk /\ ZerosFill /\ Promises /\ FlushFrees /\ LastOk
FInv == IInv /\ DataInv /\ JobsInv

(***************************************************************************)
(* Bytes and chunks.                                                       *)
(***************************************************************************)
\* What dividing means.
LEMMA Division ==
    ASSUME NEW a \in Nat, NEW b \in Nat \ {0}
    PROVE  a \div b \in Nat /\ (a % b) \in 0 .. b - 1 /\ a = (a \div b) * b + (a % b)
<1>1. a \div b \in Nat
    OBVIOUS
<1>2. (a % b) \in 0 .. b - 1
    OBVIOUS
<1>3. a = (a \div b) * b + (a % b)
    OBVIOUS
<1> QED BY <1>1, <1>2, <1>3

\* ... and that it means nothing else.
LEMMA DivisionIs ==
    ASSUME NEW q \in Nat, NEW b \in Nat \ {0}, NEW r \in 0 .. b - 1
    PROVE  q * b + r \in Nat /\ (q * b + r) \div b = q /\ (q * b + r) % b = r
<1>1. q * b + r \in Nat
    OBVIOUS
<1>2. PICK a \in Nat : a = q * b + r
    BY <1>1
<1>3. PICK d \in Nat, m \in 0 .. b - 1 : d = a \div b /\ m = a % b /\ a = d * b + m
    BY Division
<1>4. d = q
    <2>1. CASE d < q
        <3>1. PICK u \in Nat : q = d + 1 + u
            BY <2>1
        <3>2. q * b = d * b + b + u * b /\ u * b \in Nat
            BY <3>1
        <3> QED BY <1>2, <1>3, <3>2
    <2>2. CASE d > q
        <3>1. PICK u \in Nat : d = q + 1 + u
            BY <2>2
        <3>2. d * b = q * b + b + u * b /\ u * b \in Nat
            BY <3>1
        <3> QED BY <1>2, <1>3, <3>2
    <2> QED BY <2>1, <2>2
<1> QED BY <1>2, <1>3, <1>4

\* The chunk of a byte, and its place in it.
ChunkAt(j) == (j - 1) \div BytesPerChunk + 1
PlaceAt(j) == ((j - 1) % BytesPerChunk) + 1

\* What the constants are: numbers, and a largest size of whole chunks.
LEMMA Amounts ==
    /\ BytesPerChunk \in Nat \ {0} /\ MaxSize \in Nat /\ NCaches \in Nat \ {0}
    /\ MaxSize = (MaxSize \div BytesPerChunk) * BytesPerChunk /\ MaxSize \div BytesPerChunk \in Nat
    /\ FileChunks \subseteq Nat /\ 0 \notin FileChunks /\ Offsets \subseteq Nat /\ 0 \notin Offsets
BY CacheAssumption, Division DEF FileChunks, Offsets

\* Every byte of a file is in a chunk ...
LEMMA ByteIs ==
    ASSUME NEW j \in 1 .. MaxSize
    PROVE  /\ ChunkAt(j) \in FileChunks /\ PlaceAt(j) \in Offsets
           /\ j = (ChunkAt(j) - 1) * BytesPerChunk + PlaceAt(j)
<1>1. PICK d \in Nat, m \in 0 .. BytesPerChunk - 1 :
         d = (j - 1) \div BytesPerChunk /\ m = (j - 1) % BytesPerChunk /\ j - 1 = d * BytesPerChunk + m
    <2>1. PICK a \in Nat : a = j - 1
        BY Amounts
    <2>2. a \div BytesPerChunk \in Nat /\ (a % BytesPerChunk) \in 0 .. BytesPerChunk - 1
          /\ a = (a \div BytesPerChunk) * BytesPerChunk + (a % BytesPerChunk)
        BY Amounts, Division
    <2> QED BY <2>1, <2>2
<1>2. PICK M \in Nat : M = MaxSize \div BytesPerChunk /\ MaxSize = M * BytesPerChunk
    BY Amounts
<1>3. d < M
    <2> SUFFICES ASSUME d >= M PROVE FALSE
        BY <1>1, <1>2
    <2>1. d - M \in Nat
        BY <1>1, <1>2
    <2>1a. PICK u \in Nat : d = M + u
        BY <1>1, <1>2, <2>1
    <2>2. d * BytesPerChunk = M * BytesPerChunk + u * BytesPerChunk /\ u * BytesPerChunk \in Nat
        BY <1>2, <2>1a, Amounts
    <2> QED BY <1>1, <1>2, <2>2, Amounts
<1> QED BY <1>1, <1>2, <1>3, Amounts DEF ChunkAt, PlaceAt, FileChunks, Offsets

\* ... and every place of a chunk is a byte.
LEMMA PlaceIs ==
    ASSUME NEW c \in FileChunks, NEW k \in Offsets
    PROVE  /\ (c - 1) * BytesPerChunk + k \in 1 .. MaxSize
           /\ ChunkAt((c - 1) * BytesPerChunk + k) = c /\ PlaceAt((c - 1) * BytesPerChunk + k) = k
<1>1. PICK q \in Nat, r \in 0 .. BytesPerChunk - 1 : c = q + 1 /\ k = r + 1
    BY Amounts DEF FileChunks, Offsets
<1>2. PICK a \in Nat : a = q * BytesPerChunk + r /\ a \div BytesPerChunk = q /\ a % BytesPerChunk = r
    BY Amounts, DivisionIs
<1>3. (c - 1) * BytesPerChunk + k = a + 1
    BY <1>1, <1>2, Amounts
<1>4. a < MaxSize
    <2>1. PICK M \in Nat : M = MaxSize \div BytesPerChunk /\ MaxSize = M * BytesPerChunk
        BY Amounts
    <2>2. PICK u \in Nat : M = q + 1 + u
        <3>1. q + 1 <= M
            BY <1>1, <2>1 DEF FileChunks
        <3>2. M - (q + 1) \in Nat /\ M = q + 1 + (M - (q + 1))
            BY <3>1
        <3> QED BY <3>2
    <2>3. M * BytesPerChunk = q * BytesPerChunk + BytesPerChunk + u * BytesPerChunk /\ u * BytesPerChunk \in Nat
        BY <2>2, Amounts
    <2> QED BY <1>2, <2>1, <2>3, Amounts
<1> QED BY <1>1, <1>2, <1>3, <1>4, Amounts DEF ChunkAt, PlaceAt

\* A set of numbers has a smallest one.
LEMMA SmallestIs ==
    ASSUME NEW S, S \subseteq Nat, S # {}
    PROVE  \E m \in S : \A k \in S : m <= k
<1> DEFINE R == {ss \in Nat \X Nat : ss[1] < ss[2]}
<1>1. IsWellFoundedOn(R, Nat)
    BY NatLessThanWellFounded DEF OpToRel
<1>2. PICK m \in S : \A k \in S : ~(<<k, m>> \in R)
    <2> HIDE DEF R
    <2> QED BY <1>1, WFMin
<1>3. \A k \in S : ~(k < m)
    <2> TAKE k \in S
    <2>1. <<k, m>> \in Nat \X Nat /\ <<k, m>>[1] = k /\ <<k, m>>[2] = m
        OBVIOUS
    <2> QED BY <1>2, <2>1
<1> QED BY <1>2, <1>3

\* The first entry of some entries is one of them.
LEMMA FirstIs ==
    ASSUME NEW S, S \subseteq Entries, S # {}
    PROVE  First(S) \in S
<1>1. S \subseteq Nat
    BY DEF Entries
<1> QED BY <1>1, SmallestIs DEF First

(***************************************************************************)
(* What a reader sees.                                                     *)
(***************************************************************************)
\* The entry that is found is the only one.
LEMMA LookupIs ==
    ASSUME NEW S, S \subseteq Entries, \A d, e \in S : d = e
    PROVE  \A e \in S : First(S) = e /\ e # NoEntry
<1> SUFFICES ASSUME NEW e \in S PROVE First(S) = e /\ e # NoEntry
    OBVIOUS
<1>1. First(S) \in S
    BY FirstIs
<1>2. e \in Nat /\ e # 0
    BY DEF Entries
<1> QED BY <1>1, <1>2 DEF NoEntry

\* A reader sees what the entry of a chunk holds, and the chunk itself when there is none
\* (yaffs_ReadChunkDataFromObject behind yaffs_FindChunkCache).
LEMMA SeenIs ==
    ASSUME OneEntryPerChunk, NEW f \in Files, NEW c
    PROVE  /\ \A e \in Entries : cache[e].object = f /\ cache[e].chunk = c =>
                  Seen(f, c) = cache[e].bytes /\ Find(f, c) = e
           /\ (\A e \in Entries : ~(cache[e].object = f /\ cache[e].chunk = c)) =>
                  Seen(f, c) = nand[f][c].bytes /\ Find(f, c) = NoEntry
<1>1. PICK S : S = {e \in {d \in Entries : cache[d].object = f} : cache[e].chunk = c}
    OBVIOUS
<1>2. Find(f, c) = IF S = {} THEN NoEntry ELSE First(S)
    BY <1>1 DEF Find, Of
<1>3. S \subseteq Entries /\ \A d, e \in S : d = e
    BY <1>1 DEF OneEntryPerChunk, Of
<1>4. \A e \in S : First(S) = e /\ e # NoEntry
    BY <1>3, LookupIs
<1> QED BY <1>1, <1>2, <1>4 DEF Seen

\* The same of the next state.
LEMMA SeenNext ==
    ASSUME OneEntryPerChunk', NEW f \in Files, NEW c
    PROVE  /\ \A e \in Entries : cache'[e].object = f /\ cache'[e].chunk = c => Seen(f, c)' = cache'[e].bytes
           /\ (\A e \in Entries : ~(cache'[e].object = f /\ cache'[e].chunk = c)) =>
                  Seen(f, c)' = nand'[f][c].bytes
<1>1. PICK S : S = {e \in {d \in Entries : cache'[d].object = f} : cache'[e].chunk = c}
    OBVIOUS
<1>2. Find(f, c)' = IF S = {} THEN NoEntry ELSE First(S)
    BY <1>1 DEF Find, Of
<1>3. S \subseteq Entries /\ \A d, e \in S : d = e
    BY <1>1 DEF OneEntryPerChunk, Of
<1>4. \A e \in S : First(S) = e /\ e # NoEntry
    BY <1>3, LookupIs
<1> QED BY <1>1, <1>2, <1>4 DEF Seen

\* What is seen is a list of bytes.
LEMMA SeenTyped ==
    ASSUME OneEntryPerChunk, Contents, NEW f \in Files, NEW c \in FileChunks
    PROVE  Seen(f, c) \in ByteLists /\ nand[f][c].bytes \in ByteLists
<1>1. nand[f][c].bytes \in ByteLists
    BY DEF Contents
<1>2. CASE \E e \in Entries : cache[e].object = f /\ cache[e].chunk = c
    <2>1. PICK e \in Entries : cache[e].object = f /\ cache[e].chunk = c
        BY <1>2
    <2>2. Seen(f, c) = cache[e].bytes
        BY <2>1, SeenIs
    <2> QED BY <1>1, <2>2 DEF Contents, EntryOk
<1>3. CASE \A e \in Entries : ~(cache[e].object = f /\ cache[e].chunk = c)
    BY <1>1, <1>3, SeenIs
<1> QED BY <1>1, <1>2, <1>3

\* An entry is used for a chunk: one that holds it, or one with nothing to write.
SameData(x, y) ==
    x.object = y.object /\ x.chunk = y.chunk /\ x.bytes = y.bytes /\ x.dirty = y.dirty /\ x.n = y.n
Used(e, x) ==
    /\ SameData(cache'[e], x) /\ cache'[e].lastUse \in Nat /\ srLastUse' \in Nat
    /\ \A d \in Entries \ {e} : SameData(cache'[d], cache[d]) /\ cache'[d].lastUse \in Nat

\* Putting bytes in an entry (yaffs_UseChunkCache) changes what is seen of its chunk and of no
\* other, when the entry was that chunk's or held nothing that is not written.
LEMMA UseSeen ==
    ASSUME OneEntryPerChunk, OneEntryPerChunk', CleanIsSaved, nand' = nand, Contents,
           NEW e \in Entries, NEW x, NEW f \in Files, NEW c, Use(e, x), x.object = f, x.chunk = c, IsEntry(x),
           \/ cache[e].object = f /\ cache[e].chunk = c
           \/ cache[e].object \notin Files \/ ~cache[e].dirty,
           Cached
    PROVE  /\ Seen(f, c)' = x.bytes
           /\ \A g \in Files : \A d : g # f \/ d # c => Seen(g, d)' = Seen(g, d)
           /\ Used(e, x)
<1>1. PICK now : now \in {1, srLastUse + 1} /\ srLastUse' = now
                 /\ cache' = [d \in Entries |->
                       IF d = e THEN [x EXCEPT !.lastUse = now]
                       ELSE IF Over /\ d > 1 THEN [cache[d] EXCEPT !.lastUse = 0]
                       ELSE cache[d]]
    BY DEF Use
<1>0. now \in Nat
    BY <1>1 DEF Contents
<1>2. SameData(cache'[e], x) /\ cache'[e].lastUse = now
    <2>1. cache'[e] = [x EXCEPT !.lastUse = now]
        BY <1>1
    <2> QED BY <2>1 DEF IsEntry, SameData
<1>3. \A d \in Entries \ {e} : SameData(cache'[d], cache[d]) /\ cache'[d].lastUse \in Nat
    <2> TAKE d \in Entries \ {e}
    <2>1. PICK y : y = cache[d]
        OBVIOUS
    <2>2. IsEntry(y) /\ y.lastUse \in Nat
        BY <2>1 DEF Cached, Contents, EntryOk
    <2>3. cache'[d] = [y EXCEPT !.lastUse = 0] \/ cache'[d] = y
        BY <1>1, <2>1
    <2> QED BY <2>1, <2>2, <2>3 DEF IsEntry, SameData
<1>6. /\ cache'[e].object = f /\ cache'[e].chunk = c /\ cache'[e].bytes = x.bytes
      /\ \A d \in Entries \ {e} : /\ cache'[d].object = cache[d].object /\ cache'[d].chunk = cache[d].chunk
                                  /\ cache'[d].bytes = cache[d].bytes
    BY <1>2, <1>3 DEF SameData
<1>4. Seen(f, c)' = x.bytes
    BY <1>6, SeenNext
<1>5. ASSUME NEW g \in Files, NEW d, g # f \/ d # c PROVE Seen(g, d)' = Seen(g, d)
    <2>1. CASE \E b \in Entries \ {e} : cache[b].object = g /\ cache[b].chunk = d
        <3>1. PICK b \in Entries \ {e} : cache[b].object = g /\ cache[b].chunk = d
            BY <2>1
        <3> QED BY <1>6, <3>1, SeenIs, SeenNext
    <2>2. CASE \A b \in Entries \ {e} : ~(cache[b].object = g /\ cache[b].chunk = d)
        <3>1. Seen(g, d)' = nand[g][d].bytes
            BY <1>5, <1>6, <2>2, SeenNext
        <3>2. CASE cache[e].object = g /\ cache[e].chunk = d
            <4>1. ~cache[e].dirty
                BY <1>5, <3>2
            <4>2. cache[e].bytes = nand[g][d].bytes
                BY <3>2, <4>1 DEF CleanIsSaved, Of
            <4> QED BY <3>1, <3>2, <4>2, SeenIs
        <3>3. CASE ~(cache[e].object = g /\ cache[e].chunk = d)
            BY <2>2, <3>1, <3>3, SeenIs
        <3> QED BY <3>2, <3>3
    <2> QED BY <2>1, <2>2
<1> QED BY <1>0, <1>1, <1>2, <1>3, <1>4, <1>5 DEF Used

\* Entries are taken out.
LEMMA WithoutSeen ==
    ASSUME OneEntryPerChunk, OneEntryPerChunk', NEW S, cache' = Without(S), NEW f \in Files, NEW c
    PROVE  /\ \A e \in Entries \ S : cache[e].object = f /\ cache[e].chunk = c => Seen(f, c)' = Seen(f, c)
           /\ (\A e \in Entries \ S : ~(cache[e].object = f /\ cache[e].chunk = c)) =>
                  Seen(f, c)' = nand'[f][c].bytes
<1>1. \A e \in Entries : cache'[e] = IF e \in S THEN Unused ELSE cache[e]
    BY DEF Without
<1>2. Unused.object # f
    BY CacheAssumption DEF Unused
<1>3. ASSUME NEW e \in Entries \ S, cache[e].object = f, cache[e].chunk = c
      PROVE  Seen(f, c)' = Seen(f, c)
    BY <1>1, <1>3, SeenIs, SeenNext
<1>4. ASSUME \A e \in Entries \ S : ~(cache[e].object = f /\ cache[e].chunk = c)
      PROVE  Seen(f, c)' = nand'[f][c].bytes
    BY <1>1, <1>2, <1>4, SeenNext
<1> QED BY <1>3, <1>4

(***************************************************************************)
(* Bytes of files.                                                         *)
(***************************************************************************)
\* Each byte is a byte of its chunk.
LEMMA BytesAre ==
    /\ SeenBytes = [f \in Files |-> [j \in 1 .. MaxSize |-> Seen(f, ChunkAt(j))[PlaceAt(j)]]]
    /\ SavedBytes = [f \in Files |-> [j \in 1 .. MaxSize |-> nand[f][ChunkAt(j)].bytes[PlaceAt(j)]]]
<1>1. \A j \in 1 .. MaxSize : ChunkAt(j) \in FileChunks
    BY ByteIs
<1>3. ASSUME NEW f \in Files
      PROVE  Flat([c \in FileChunks |-> Seen(f, c)]) = [j \in 1 .. MaxSize |-> Seen(f, ChunkAt(j))[PlaceAt(j)]]
    BY <1>1 DEF Flat, ChunkAt, PlaceAt
<1>4. ASSUME NEW f \in Files
      PROVE  Flat([c \in FileChunks |-> nand[f][c].bytes])
             = [j \in 1 .. MaxSize |-> nand[f][ChunkAt(j)].bytes[PlaceAt(j)]]
    BY <1>1 DEF Flat, ChunkAt, PlaceAt
<1> QED BY <1>3, <1>4 DEF SeenBytes, SavedBytes

\* The bytes of the files in the next state, chunk by chunk.
LEMMA BytesNext ==
    /\ SeenBytes' = [f \in Files |-> [j \in 1 .. MaxSize |-> Seen(f, ChunkAt(j))'[PlaceAt(j)]]]
    /\ SavedBytes' = [f \in Files |-> [j \in 1 .. MaxSize |-> nand'[f][ChunkAt(j)].bytes[PlaceAt(j)]]]
<1>1. \A j \in 1 .. MaxSize : ChunkAt(j) \in FileChunks
    BY ByteIs
<1>3. ASSUME NEW f \in Files
      PROVE  Flat([c \in FileChunks |-> Seen(f, c)'])
             = [j \in 1 .. MaxSize |-> Seen(f, ChunkAt(j))'[PlaceAt(j)]]
    BY <1>1 DEF Flat, ChunkAt, PlaceAt
<1>4. ASSUME NEW f \in Files
      PROVE  Flat([c \in FileChunks |-> nand'[f][c].bytes])
             = [j \in 1 .. MaxSize |-> nand'[f][ChunkAt(j)].bytes[PlaceAt(j)]]
    BY <1>1 DEF Flat, ChunkAt, PlaceAt
<1> QED BY <1>3, <1>4 DEF SeenBytes, SavedBytes

\* Where every chunk stays the same, so does every file.
LEMMA SeenKept ==
    ASSUME \A f \in Files, c \in FileChunks : Seen(f, c)' = Seen(f, c)
    PROVE  SeenBytes' = SeenBytes
<1>1. \A j \in 1 .. MaxSize : ChunkAt(j) \in FileChunks
    BY ByteIs
<1>2. \A f \in Files, j \in 1 .. MaxSize : Seen(f, ChunkAt(j))' = Seen(f, ChunkAt(j))
    BY <1>1
<1> QED BY <1>2, BytesAre, BytesNext

\* While no chunk changes, neither does what is saved.
LEMMA SavedKept ==
    ASSUME \A f \in Files, c \in FileChunks : nand'[f][c].bytes = nand[f][c].bytes
    PROVE  SavedBytes' = SavedBytes
<1>1. \A j \in 1 .. MaxSize : ChunkAt(j) \in FileChunks
    BY ByteIs
<1>2. \A f \in Files, j \in 1 .. MaxSize : nand'[f][ChunkAt(j)].bytes = nand[f][ChunkAt(j)].bytes
    BY <1>1
<1> QED BY <1>2, BytesAre, BytesNext

\* A request begins, and does nothing yet.
LEMMA StartStep ==
    ASSUME SeenBytes' = SeenBytes, SavedBytes' = SavedBytes, fileSize' = fileSize, status' = "ok", got' = <<>>,
           Asking = Plain!NoRequest, Asking' \in Plain!Askings, Asking'.at = Asking'.off,
           Asking'.at <= Asking'.end, Asking'.was = fileSize[Asking'.file]
    PROVE  Plain!Next
BY DEF Plain!Next, Plain!Start

\* The chunks of both descriptions.
LEMMA ChunksAre ==
    /\ Plain!Cells = 1 .. MaxSize /\ \A j : Plain!ChunkOf(j) = ChunkAt(j)
    /\ \A c \in FileChunks : c \in Plain!Chunks
<1>1. Plain!Cells = 1 .. MaxSize /\ \A j : Plain!ChunkOf(j) = ChunkAt(j)
    BY DEF Plain!Cells, Plain!ChunkOf, ChunkAt
<1>2. ASSUME NEW c \in FileChunks PROVE c \in Plain!Chunks
    <2>1. 1 \in Offsets
        BY Amounts DEF Offsets
    <2>2. PICK j \in 1 .. MaxSize : ChunkAt(j) = c
        BY <2>1, PlaceIs
    <2> QED BY <1>1, <2>2 DEF Plain!Chunks
<1> QED BY <1>1, <1>2

\* Of one file another chunk is seen, or saved.
Turned(F, f, c, b) ==
    [F EXCEPT ![f] = [j \in 1 .. MaxSize |-> IF ChunkAt(j) = c THEN b[PlaceAt(j)] ELSE F[f][j]]]
SeenTurns(f, c, b) ==
    \A g \in Files, d \in FileChunks : Seen(g, d)' = IF g = f /\ d = c THEN b ELSE Seen(g, d)
SavedTurns(f, c, b) ==
    \A g \in Files, d \in FileChunks : nand'[g][d].bytes = IF g = f /\ d = c THEN b ELSE nand[g][d].bytes

\* A function that differs for one file.
LEMMA Differs ==
    ASSUME NEW f \in Files, NEW F, NEW G, NEW h,
           DOMAIN F = Files, F = [g \in Files |-> F[g]], G = [g \in Files |-> G[g]],
           G[f] = h, \A g \in Files \ {f} : G[g] = F[g]
    PROVE  G = [F EXCEPT ![f] = h]
OBVIOUS

\* What is seen and what is saved are functions of the files.
LEMMA Shapes ==
    /\ DOMAIN SeenBytes = Files /\ SeenBytes = [g \in Files |-> SeenBytes[g]]
    /\ DOMAIN SavedBytes = Files /\ SavedBytes = [g \in Files |-> SavedBytes[g]]
    /\ SeenBytes' = [g \in Files |-> SeenBytes'[g]] /\ SavedBytes' = [g \in Files |-> SavedBytes'[g]]
BY BytesAre, BytesNext

\* A byte of a file is a byte of one of its chunks.
LEMMA At ==
    ASSUME NEW g \in Files, NEW j \in 1 .. MaxSize
    PROVE  /\ ChunkAt(j) \in FileChunks /\ PlaceAt(j) \in Offsets
           /\ SeenBytes[g][j] = Seen(g, ChunkAt(j))[PlaceAt(j)]
           /\ SavedBytes[g][j] = nand[g][ChunkAt(j)].bytes[PlaceAt(j)]
           /\ SeenBytes'[g][j] = Seen(g, ChunkAt(j))'[PlaceAt(j)]
           /\ SavedBytes'[g][j] = nand'[g][ChunkAt(j)].bytes[PlaceAt(j)]
<1>1. ChunkAt(j) \in FileChunks /\ PlaceAt(j) \in Offsets
    BY ByteIs
<1>2. SeenBytes[g][j] = Seen(g, ChunkAt(j))[PlaceAt(j)]
      /\ SavedBytes[g][j] = nand[g][ChunkAt(j)].bytes[PlaceAt(j)]
    BY BytesAre
<1>3. SeenBytes'[g][j] = Seen(g, ChunkAt(j))'[PlaceAt(j)]
      /\ SavedBytes'[g][j] = nand'[g][ChunkAt(j)].bytes[PlaceAt(j)]
    BY BytesNext
<1> QED BY <1>1, <1>2, <1>3

\* A file is the list of its bytes.
IsBytes(x) == x = [j \in 1 .. MaxSize |-> x[j]]

\* Two files of the same bytes are the same.
LEMMA IsList ==
    ASSUME NEW g \in Files, NEW h, IsBytes(h)
    PROVE  /\ (\A j \in 1 .. MaxSize : SeenBytes[g][j] = h[j]) => SeenBytes[g] = h
           /\ (\A j \in 1 .. MaxSize : SavedBytes[g][j] = h[j]) => SavedBytes[g] = h
           /\ (\A j \in 1 .. MaxSize : SeenBytes'[g][j] = h[j]) => SeenBytes'[g] = h
           /\ (\A j \in 1 .. MaxSize : SavedBytes'[g][j] = h[j]) => SavedBytes'[g] = h
<1>1. IsBytes(SeenBytes[g]) /\ IsBytes(SavedBytes[g])
    BY BytesAre DEF IsBytes
<1>2. IsBytes(SeenBytes'[g]) /\ IsBytes(SavedBytes'[g])
    BY BytesNext DEF IsBytes
<1>3. ASSUME NEW x, IsBytes(x), \A j \in 1 .. MaxSize : x[j] = h[j]
      PROVE  x = h
    BY <1>3 DEF IsBytes
<1> QED BY <1>1, <1>2, <1>3

\* The bytes of a file whose chunks are all the same.
LEMMA SameFile ==
    ASSUME NEW g \in Files
    PROVE  /\ (\A d \in FileChunks : Seen(g, d)' = Seen(g, d)) => SeenBytes'[g] = SeenBytes[g]
           /\ (\A d \in FileChunks : nand'[g][d].bytes = nand[g][d].bytes) => SavedBytes'[g] = SavedBytes[g]
<1>1. ASSUME \A d \in FileChunks : Seen(g, d)' = Seen(g, d)
      PROVE  SeenBytes'[g] = SeenBytes[g]
    <2>1. PICK h : h = SeenBytes[g] /\ IsBytes(h)
        BY BytesAre DEF IsBytes
    <2>2. \A j \in 1 .. MaxSize : SeenBytes'[g][j] = h[j]
        BY <1>1, <2>1, At
    <2> QED BY <2>1, <2>2, IsList
<1>2. ASSUME \A d \in FileChunks : nand'[g][d].bytes = nand[g][d].bytes
      PROVE  SavedBytes'[g] = SavedBytes[g]
    <2>1. PICK h : h = SavedBytes[g] /\ IsBytes(h)
        BY BytesAre DEF IsBytes
    <2>2. \A j \in 1 .. MaxSize : SavedBytes'[g][j] = h[j]
        BY <1>2, <2>1, At
    <2> QED BY <2>1, <2>2, IsList
<1> QED BY <1>1, <1>2

\* When what is seen changes in one chunk of one file, the file changes in those bytes.
LEMMA SeenOf ==
    ASSUME NEW f \in Files, NEW c \in FileChunks, NEW b, SeenTurns(f, c, b)
    PROVE  SeenBytes' = Turned(SeenBytes, f, c, b)
<1>1. PICK h : /\ h = [j \in 1 .. MaxSize |-> IF ChunkAt(j) = c THEN b[PlaceAt(j)] ELSE SeenBytes[f][j]]
               /\ IsBytes(h)
    BY DEF IsBytes
<1>2. \A j \in 1 .. MaxSize : SeenBytes'[f][j] = h[j]
    BY <1>1, At DEF SeenTurns
<1>3. SeenBytes'[f] = h
    <2>1. IsBytes(h)
        BY <1>1
    <2> QED BY <1>2, <2>1, IsList
<1>4. \A g \in Files \ {f} : SeenBytes'[g] = SeenBytes[g]
    <2> TAKE g \in Files \ {f}
    <2>1. \A d \in FileChunks : Seen(g, d)' = Seen(g, d)
        BY DEF SeenTurns
    <2> QED BY <2>1, SameFile
<1>5. SeenBytes' = [SeenBytes EXCEPT ![f] = h]
    <2>1. PICK F, G : F = SeenBytes /\ G = SeenBytes'
        OBVIOUS
    <2>2. /\ DOMAIN F = Files /\ F = [g \in Files |-> F[g]] /\ G = [g \in Files |-> G[g]]
          /\ G[f] = h /\ \A g \in Files \ {f} : G[g] = F[g]
        BY <1>3, <1>4, <2>1, Shapes
    <2> QED BY <2>1, <2>2, Differs
<1> QED BY <1>1, <1>5 DEF Turned

\* The same of what is saved.
LEMMA SavedOf ==
    ASSUME NEW f \in Files, NEW c \in FileChunks, NEW b, SavedTurns(f, c, b)
    PROVE  SavedBytes' = Turned(SavedBytes, f, c, b)
<1>1. PICK h : /\ h = [j \in 1 .. MaxSize |-> IF ChunkAt(j) = c THEN b[PlaceAt(j)] ELSE SavedBytes[f][j]]
               /\ IsBytes(h)
    BY DEF IsBytes
<1>2. \A j \in 1 .. MaxSize : SavedBytes'[f][j] = h[j]
    BY <1>1, At DEF SavedTurns
<1>3. SavedBytes'[f] = h
    <2>1. IsBytes(h)
        BY <1>1
    <2> QED BY <1>2, <2>1, IsList
<1>4. \A g \in Files \ {f} : SavedBytes'[g] = SavedBytes[g]
    <2> TAKE g \in Files \ {f}
    <2>1. \A d \in FileChunks : nand'[g][d].bytes = nand[g][d].bytes
        BY DEF SavedTurns
    <2> QED BY <2>1, SameFile
<1>5. SavedBytes' = [SavedBytes EXCEPT ![f] = h]
    <2>1. PICK F, G : F = SavedBytes /\ G = SavedBytes'
        OBVIOUS
    <2>2. /\ DOMAIN F = Files /\ F = [g \in Files |-> F[g]] /\ G = [g \in Files |-> G[g]]
          /\ G[f] = h /\ \A g \in Files \ {f} : G[g] = F[g]
        BY <1>3, <1>4, <2>1, Shapes
    <2> QED BY <2>1, <2>2, Differs
<1> QED BY <1>1, <1>5 DEF Turned

\* A chunk turned into what another list of bytes says of it.
LEMMA TurnedIs ==
    ASSUME NEW F, NEW f, NEW c, NEW b, NEW new,
           \A j \in 1 .. MaxSize : ChunkAt(j) = c => new[j] = b[PlaceAt(j)]
    PROVE  Turned(F, f, c, b) = [F EXCEPT ![f] = Plain!OnChunk(@, c, new)]
<1>1. [j \in 1 .. MaxSize |-> IF ChunkAt(j) = c THEN b[PlaceAt(j)] ELSE F[f][j]]
      = [j \in 1 .. MaxSize |-> IF ChunkAt(j) = c THEN new[j] ELSE F[f][j]]
    OBVIOUS
<1>2. Plain!OnChunk(F[f], c, new) = [j \in 1 .. MaxSize |-> IF ChunkAt(j) = c THEN new[j] ELSE F[f][j]]
    BY ChunksAre DEF Plain!OnChunk
<1> QED BY <1>1, <1>2 DEF Turned

\* The write gets through a chunk, which is saved with it or not.
LEMMA PutStep ==
    ASSUME NEW f \in Files, NEW c \in FileChunks, NEW from \in Nat, NEW n \in Nat, NEW v, NEW b,
           from + n <= BytesPerChunk,
           \A k \in Offsets : b[k] = IF k > from /\ k <= from + n THEN v ELSE Seen(f, c)[k],
           SeenTurns(f, c, b), SavedBytes' = SavedBytes \/ SavedTurns(f, c, b),
           Plain!Asks("write", f), Plain!InService, Plain!Current = c, Asking.v = v,
           Asking.at = (c - 1) * BytesPerChunk + from, Plain!Reached = Asking.at + n,
           Asking' = [Asking EXCEPT !.at = Plain!Reached],
           UNCHANGED <<fileSize, status, got>>
    PROVE  Plain!Next
<1>0. PICK at, start \in Nat : at = Asking.at /\ start = (c - 1) * BytesPerChunk /\ at = start + from
    <2>1. c - 1 \in Nat
        BY Amounts
    <2>2. (c - 1) * BytesPerChunk \in Nat
        BY <2>1, Amounts
    <2> QED BY <2>2
<1> DEFINE new == [j \in 1 .. MaxSize |-> IF ChunkAt(j) = c THEN b[PlaceAt(j)] ELSE SeenBytes[f][j]]
<1>1. SeenBytes' = Turned(SeenBytes, f, c, b)
    BY SeenOf
<1>2. new = [j \in 1 .. MaxSize |-> IF at < j /\ j <= at + n THEN v ELSE SeenBytes[f][j]]
    <2>1. \A j \in 1 .. MaxSize : new[j] = IF at < j /\ j <= at + n THEN v ELSE SeenBytes[f][j]
        <3> TAKE j \in 1 .. MaxSize
        <3>1. PICK d \in FileChunks, k \in Offsets :
                  d = ChunkAt(j) /\ k = PlaceAt(j) /\ j = (d - 1) * BytesPerChunk + k
            BY ByteIs
        <3>2. SeenBytes[f][j] = Seen(f, d)[k]
            BY <3>1, At
        <3>3. CASE d = c
            <4>1. new[j] = b[k] /\ b[k] = IF k > from /\ k <= from + n THEN v ELSE Seen(f, c)[k]
                BY <3>1, <3>3
            <4>2. j = start + k
                BY <1>0, <3>1, <3>3
            <4>3. k > from /\ k <= from + n <=> at < j /\ j <= at + n
                BY <1>0, <4>2, Amounts
            <4> QED BY <3>2, <3>3, <4>1, <4>3
        <3>4. CASE d # c
            <4>1. ~(at < j /\ j <= at + n)
                <5> SUFFICES ASSUME at < j, j <= at + n PROVE FALSE
                    OBVIOUS
                <5>1. PICK i \in Nat : i = j - start /\ i \in Offsets /\ j = start + i
                    BY <1>0, Amounts DEF Offsets
                <5>2. ChunkAt((c - 1) * BytesPerChunk + i) = c
                    BY <5>1, PlaceIs
                <5> QED BY <1>0, <3>1, <3>4, <5>1, <5>2
            <4> QED BY <3>1, <3>4, <4>1
        <3> QED BY <3>3, <3>4
    <2> QED BY <2>1
<1>3. SeenBytes' = [SeenBytes EXCEPT ![f] = new] /\ SeenBytes'[f] = new
    BY <1>1, Shapes DEF Turned
<1>4. SavedTurns(f, c, b) => SavedBytes' = [SavedBytes EXCEPT ![f] = Plain!OnChunk(@, Plain!Current, SeenBytes'[f])]
    <2> SUFFICES ASSUME SavedTurns(f, c, b)
                 PROVE  SavedBytes' = [SavedBytes EXCEPT ![f] = Plain!OnChunk(@, c, SeenBytes'[f])]
        OBVIOUS
    <2>1. SavedBytes' = Turned(SavedBytes, f, c, b)
        BY SavedOf
    <2>2. PICK next : next = SeenBytes'[f] /\ \A j \in 1 .. MaxSize : ChunkAt(j) = c => next[j] = b[PlaceAt(j)]
        BY <1>3
    <2>3. PICK F : F = SavedBytes
        OBVIOUS
    <2>4. Turned(F, f, c, b) = [F EXCEPT ![f] = Plain!OnChunk(@, c, next)]
        BY <2>2, TurnedIs
    <2> QED BY <2>1, <2>2, <2>3, <2>4
<1>5. SeenBytes' = [SeenBytes EXCEPT ![f] =
                        [j \in Plain!Cells |-> IF Asking.at < j /\ j <= Plain!Reached THEN Asking.v ELSE @[j]]]
    <2>1. PICK h : h = [j \in 1 .. MaxSize |-> IF at < j /\ j <= at + n THEN v ELSE SeenBytes[f][j]]
        OBVIOUS
    <2>2. SeenBytes' = [SeenBytes EXCEPT ![f] = h]
        BY <1>2, <1>3, <2>1
    <2>3. h = [j \in Plain!Cells |-> IF Asking.at < j /\ j <= Plain!Reached THEN Asking.v ELSE SeenBytes[f][j]]
        BY <1>0, <2>1, ChunksAre
    <2> QED BY <2>2, <2>3
<1>6. \/ UNCHANGED SavedBytes
      \/ SavedBytes' = [SavedBytes EXCEPT ![f] = Plain!OnChunk(@, Plain!Current, SeenBytes'[f])]
    BY <1>4
<1> HIDE DEF new
<1>7. Plain!Put(f)
    BY <1>5, <1>6 DEF Plain!Put
<1> QED BY <1>7 DEF Plain!Next

\* A chunk is saved as it is seen.
LEMMA SaveStep ==
    ASSUME NEW f \in Files, NEW c \in FileChunks, NEW b, b = Seen(f, c),
           SeenBytes' = SeenBytes, SavedTurns(f, c, b), UNCHANGED <<fileSize, status, got, Asking>>
    PROVE  Plain!Next
<1>1. SavedBytes' = Turned(SavedBytes, f, c, b)
    BY SavedOf
<1>2. PICK F, new : /\ F = SavedBytes /\ new = SeenBytes[f]
                    /\ \A j \in 1 .. MaxSize : ChunkAt(j) = c => new[j] = b[PlaceAt(j)]
    BY At
<1>3. Turned(F, f, c, b) = [F EXCEPT ![f] = Plain!OnChunk(@, c, new)]
    BY <1>2, TurnedIs
<1>4. Plain!Save(f, c)
    BY <1>1, <1>2, <1>3 DEF Plain!Save
<1> QED BY <1>4, ChunksAre DEF Plain!Next

\* The write is refused; the chunk it is at is seen as it was or as it was saved.
LEMMA RefuseStep ==
    ASSUME NEW f \in Files, NEW c \in FileChunks, NEW b,
           SeenBytes' = SeenBytes \/ (b = nand[f][c].bytes /\ SeenTurns(f, c, b)),
           Plain!Asks("write", f), Plain!InService, Plain!Current = c,
           Asking' = [Asking EXCEPT !.end = Asking.at],
           SavedBytes' = SavedBytes, status' = "short", UNCHANGED <<fileSize, got>>
    PROVE  Plain!Next
<1>1. CASE SeenBytes' = SeenBytes
    <2>2. Plain!Refuse(f)
        BY <1>1 DEF Plain!Refuse
    <2> QED BY <2>2 DEF Plain!Next
<1>2. CASE b = nand[f][c].bytes /\ SeenTurns(f, c, b)
    <2>1. SeenBytes' = Turned(SeenBytes, f, c, b)
        BY <1>2, SeenOf
    <2>2. PICK F, new : /\ F = SeenBytes /\ new = SavedBytes[f]
                        /\ \A j \in 1 .. MaxSize : ChunkAt(j) = c => new[j] = b[PlaceAt(j)]
        BY <1>2, At
    <2>3. Turned(F, f, c, b) = [F EXCEPT ![f] = Plain!OnChunk(@, c, new)]
        BY <2>2, TurnedIs
    <2>4. Plain!Refuse(f)
        BY <2>1, <2>2, <2>3 DEF Plain!Refuse
    <2> QED BY <2>4 DEF Plain!Next
<1> QED BY <1>1, <1>2

\* Zeros for the hole are refused.
LEMMA RefuseZerosStep ==
    ASSUME NEW f \in Files, Plain!Fills(f), status' = "short",
           SeenBytes' = SeenBytes, SavedBytes' = SavedBytes, UNCHANGED <<fileSize, got, Asking>>
    PROVE  Plain!Next
<1>1. Plain!RefuseZeros(f)
    BY DEF Plain!RefuseZeros
<1> QED BY <1>1 DEF Plain!Next

\* The hole is filled some way.
LEMMA GrowStep ==
    ASSUME NEW f \in Files, NEW n \in 0 .. MaxSize, fileSize \in [Files -> 0 .. MaxSize], n >= fileSize[f],
           Plain!Fills(f), Asking.at \in Nat, n <= Asking.at, fileSize' = [fileSize EXCEPT ![f] = n],
           SeenBytes' = SeenBytes, SavedBytes' = SavedBytes, UNCHANGED <<status, got, Asking>>
    PROVE  Plain!Next
<1>1. n \in fileSize[f] .. Asking.at
    BY Amounts
<1>2. Plain!Grow(f)
    BY <1>1 DEF Plain!Grow
<1> QED BY <1>2 DEF Plain!Next

\* A write ends, or a resize that cut nothing off.
LEMMA EndStep ==
    ASSUME NEW f \in Files, Plain!Asks("write", f) \/ Plain!Asks("resize", f), ~Plain!InService,
           Asking' = Plain!NoRequest, fileSize' = [fileSize EXCEPT ![f] = Larger(@, Asking.at)],
           SeenBytes' = SeenBytes, SavedBytes' = SavedBytes, UNCHANGED <<status, got>>
    PROVE  Plain!Next
<1>1. Plain!End(f)
    BY DEF Plain!End, Plain!Finish, Plain!Larger, Larger
<1> QED BY <1>1 DEF Plain!Next

\* A read ends, or the writing of a header.
LEMMA NothingStep ==
    ASSUME NEW f \in Files, Plain!Asks("read", f) \/ Plain!Asks("header", f), ~Plain!InService,
           Asking' = Plain!NoRequest,
           SeenBytes' = SeenBytes, SavedBytes' = SavedBytes, UNCHANGED <<fileSize, status, got>>
    PROVE  Plain!Next
<1>1. Plain!Done(f)
    BY DEF Plain!Done, Plain!Finish
<1> QED BY <1>1 DEF Plain!Next

\* A file is cut.
LEMMA CutStep ==
    ASSUME NEW f \in Files, NEW n \in 0 .. MaxSize, n < fileSize[f],
           Plain!Asks("resize", f), Asking.at = n, Asking' = Plain!NoRequest,
           fileSize' = [fileSize EXCEPT ![f] = n],
           \A g \in Files \ {f}, d \in FileChunks :
               Seen(g, d)' = Seen(g, d) /\ nand'[g][d].bytes = nand[g][d].bytes,
           \A d \in FileChunks, k \in Offsets :
               /\ Seen(f, d)'[k] = IF (d - 1) * BytesPerChunk + k <= n THEN Seen(f, d)[k] ELSE 0
               /\ nand'[f][d].bytes[k] = Seen(f, d)'[k],
           UNCHANGED <<status, got>>
    PROVE  Plain!Next
<1> DEFINE cut == [j \in 1 .. MaxSize |-> IF j <= n THEN SeenBytes[f][j] ELSE 0]
<1>1. \A j \in 1 .. MaxSize : /\ ChunkAt(j) \in FileChunks /\ PlaceAt(j) \in Offsets
                              /\ (ChunkAt(j) - 1) * BytesPerChunk + PlaceAt(j) = j
    BY ByteIs
<1>2. \A j \in 1 .. MaxSize :
          /\ Seen(f, ChunkAt(j))'[PlaceAt(j)] = cut[j] /\ nand'[f][ChunkAt(j)].bytes[PlaceAt(j)] = cut[j]
    <2> TAKE j \in 1 .. MaxSize
    <2>1. SeenBytes[f][j] = Seen(f, ChunkAt(j))[PlaceAt(j)]
        BY BytesAre
    <2>2. PICK d \in FileChunks, k \in Offsets :
              d = ChunkAt(j) /\ k = PlaceAt(j) /\ (d - 1) * BytesPerChunk + k = j
        BY <1>1
    <2>3. /\ Seen(f, d)'[k] = IF j <= n THEN Seen(f, d)[k] ELSE 0
          /\ nand'[f][d].bytes[k] = Seen(f, d)'[k]
        BY <2>2
    <2> QED BY <2>1, <2>2, <2>3
<1> HIDE DEF cut
<1>3. \A g \in Files \ {f}, j \in 1 .. MaxSize :
          /\ Seen(g, ChunkAt(j))' = Seen(g, ChunkAt(j))
          /\ nand'[g][ChunkAt(j)].bytes = nand[g][ChunkAt(j)].bytes
    BY <1>1
<1>4. cut = [j \in 1 .. MaxSize |-> cut[j]]
    BY DEF cut
<1>5. SeenBytes' = [SeenBytes EXCEPT ![f] = cut]
    <2>0. PICK h : h = cut /\ IsBytes(h)
        BY <1>4 DEF IsBytes
    <2>1. PICK F, G : F = SeenBytes /\ G = SeenBytes'
        OBVIOUS
    <2>2. G[f] = h
        <3>1. \A j \in 1 .. MaxSize : SeenBytes'[f][j] = h[j]
            BY <1>2, <2>0, At
        <3> QED BY <2>0, <2>1, <3>1, IsList
    <2>3. \A g \in Files \ {f} : G[g] = F[g]
        BY <2>1, SameFile
    <2>4. DOMAIN F = Files /\ F = [g \in Files |-> F[g]] /\ G = [g \in Files |-> G[g]]
        BY <2>1, Shapes
    <2>5. G = [F EXCEPT ![f] = h]
        BY <2>2, <2>3, <2>4, Differs
    <2> QED BY <2>0, <2>1, <2>5
<1>6. SavedBytes' = [SavedBytes EXCEPT ![f] = cut]
    <2>0. PICK h : h = cut /\ IsBytes(h)
        BY <1>4 DEF IsBytes
    <2>1. PICK F, G : F = SavedBytes /\ G = SavedBytes'
        OBVIOUS
    <2>2. G[f] = h
        <3>1. \A j \in 1 .. MaxSize : SavedBytes'[f][j] = h[j]
            BY <1>2, <2>0, At
        <3> QED BY <2>0, <2>1, <3>1, IsList
    <2>3. \A g \in Files \ {f} : G[g] = F[g]
        BY <2>1, SameFile
    <2>4. DOMAIN F = Files /\ F = [g \in Files |-> F[g]] /\ G = [g \in Files |-> G[g]]
        BY <2>1, Shapes
    <2>5. G = [F EXCEPT ![f] = h]
        BY <2>2, <2>3, <2>4, Differs
    <2> QED BY <2>0, <2>1, <2>5
<1>8. SeenBytes'[f] = cut
    BY <1>5, BytesAre
<1>9. SeenBytes' = [SeenBytes EXCEPT ![f] = [j \in Plain!Cells |-> IF j <= n THEN @[j] ELSE 0]]
    BY <1>5, ChunksAre, BytesAre DEF cut
<1>10. Plain!Cut(f)
    BY <1>6, <1>8, <1>9 DEF Plain!Cut, Plain!Finish
<1> QED BY <1>10 DEF Plain!Next

\* Zeros are taken back.
LEMMA TakeBackStep ==
    ASSUME NEW f \in Files, NEW n \in 0 .. MaxSize, n <= fileSize[f],
           Plain!Fills(f), Asking.was = n, fileSize' = [fileSize EXCEPT ![f] = n], status = "short",
           \A d \in FileChunks, k \in Offsets : (d - 1) * BytesPerChunk + k > n =>
               Seen(f, d)[k] = 0 /\ nand[f][d].bytes[k] = 0,
           SeenBytes' = SeenBytes, SavedBytes' = SavedBytes, UNCHANGED <<status, got, Asking>>
    PROVE  Plain!Next
<1>1. \A j \in 1 .. MaxSize : j > n => SeenBytes[f][j] = 0 /\ SavedBytes[f][j] = 0
    <2> TAKE j \in 1 .. MaxSize
    <2>1. PICK d \in FileChunks, k \in Offsets :
              d = ChunkAt(j) /\ k = PlaceAt(j) /\ (d - 1) * BytesPerChunk + k = j
        BY ByteIs
    <2>2. j > n => Seen(f, d)[k] = 0 /\ nand[f][d].bytes[k] = 0
        BY <2>1
    <2>3. SeenBytes[f][j] = Seen(f, d)[k] /\ SavedBytes[f][j] = nand[f][d].bytes[k]
        BY <2>1, BytesAre
    <2> QED BY <2>2, <2>3
<1>3. Plain!TakeBack(f)
    BY <1>1, ChunksAre DEF Plain!TakeBack
<1> QED BY <1>3 DEF Plain!Next

\* A file is removed.
LEMMA RemoveStep ==
    ASSUME NEW f \in Files, fileSize' = [fileSize EXCEPT ![f] = 0],
           \A g \in Files \ {f}, d \in FileChunks :
               Seen(g, d)' = Seen(g, d) /\ nand'[g][d].bytes = nand[g][d].bytes,
           \A d \in FileChunks : Seen(f, d)' = Zeros /\ nand'[f][d].bytes = Zeros,
           Asking = Plain!NoRequest, Asking' = Asking, status' = "ok", got' = <<>>
    PROVE  Plain!Next
<1>1. \A j \in 1 .. MaxSize : ChunkAt(j) \in FileChunks /\ Zeros[PlaceAt(j)] = 0
    BY ByteIs DEF Zeros, Offsets
<1>2. \A j \in 1 .. MaxSize : Seen(f, ChunkAt(j))' = Zeros /\ nand'[f][ChunkAt(j)].bytes = Zeros
    BY <1>1
<1>3. \A g \in Files \ {f}, j \in 1 .. MaxSize :
          /\ Seen(g, ChunkAt(j))' = Seen(g, ChunkAt(j))
          /\ nand'[g][ChunkAt(j)].bytes = nand[g][ChunkAt(j)].bytes
    BY <1>1
<1>4. IsBytes(Plain!Blank) /\ \A j \in 1 .. MaxSize : Plain!Blank[j] = 0
    <2>1. PICK h : h = [j \in 1 .. MaxSize |-> 0]
        OBVIOUS
    <2>2. \A j \in 1 .. MaxSize : h[j] = 0
        BY <2>1
    <2>3. IsBytes(h)
        <3>1. h = [j \in 1 .. MaxSize |-> h[j]]
            BY <2>1
        <3> QED BY <3>1 DEF IsBytes
    <2>4. Plain!Blank = h
        BY <2>1, ChunksAre DEF Plain!Blank
    <2> QED BY <2>2, <2>3, <2>4
<1>5. SeenBytes' = [SeenBytes EXCEPT ![f] = Plain!Blank]
    <2>0. PICK h : h = Plain!Blank /\ IsBytes(h) /\ \A j \in 1 .. MaxSize : h[j] = 0
        BY <1>4
    <2>1. PICK F, G : F = SeenBytes /\ G = SeenBytes'
        OBVIOUS
    <2>2. G[f] = h
        <3>1. \A j \in 1 .. MaxSize : SeenBytes'[f][j] = h[j]
            BY <1>1, <1>2, <2>0, At
        <3> QED BY <2>0, <2>1, <3>1, IsList
    <2>3. \A g \in Files \ {f} : G[g] = F[g]
        BY <2>1, SameFile
    <2>4. DOMAIN F = Files /\ F = [g \in Files |-> F[g]] /\ G = [g \in Files |-> G[g]]
        BY <2>1, Shapes
    <2>5. G = [F EXCEPT ![f] = h]
        BY <2>2, <2>3, <2>4, Differs
    <2> QED BY <2>0, <2>1, <2>5
<1>6. SavedBytes' = [SavedBytes EXCEPT ![f] = Plain!Blank]
    <2>0. PICK h : h = Plain!Blank /\ IsBytes(h) /\ \A j \in 1 .. MaxSize : h[j] = 0
        BY <1>4
    <2>1. PICK F, G : F = SavedBytes /\ G = SavedBytes'
        OBVIOUS
    <2>2. G[f] = h
        <3>1. \A j \in 1 .. MaxSize : SavedBytes'[f][j] = h[j]
            BY <1>1, <1>2, <2>0, At
        <3> QED BY <2>0, <2>1, <3>1, IsList
    <2>3. \A g \in Files \ {f} : G[g] = F[g]
        BY <2>1, SameFile
    <2>4. DOMAIN F = Files /\ F = [g \in Files |-> F[g]] /\ G = [g \in Files |-> G[g]]
        BY <2>1, Shapes
    <2>5. G = [F EXCEPT ![f] = h]
        BY <2>2, <2>3, <2>4, Differs
    <2> QED BY <2>0, <2>1, <2>5
<1>7. Plain!Remove(f)
    BY <1>5, <1>6 DEF Plain!Remove
<1> QED BY <1>7 DEF Plain!Next

\* Where the bytes of a part of a chunk are in the file.
LEMMA PartIs ==
    ASSUME NEW c \in FileChunks, NEW from \in 0 .. BytesPerChunk - 1, NEW n \in Nat, from + n <= BytesPerChunk
    PROVE  \E at \in Nat :
               /\ at = (c - 1) * BytesPerChunk + from
               /\ \A k \in 1 .. n : /\ from + k \in Offsets /\ at + k \in 1 .. MaxSize
                                    /\ ChunkAt(at + k) = c /\ PlaceAt(at + k) = from + k
<1>1. PICK start \in Nat : start = (c - 1) * BytesPerChunk
    <2>1. PICK q \in Nat : c = q + 1
        BY Amounts DEF FileChunks
    <2> QED BY <2>1, Amounts
<1>2. PICK at \in Nat : at = start + from
    BY Amounts
<1>3. ASSUME NEW k \in 1 .. n
      PROVE  /\ from + k \in Offsets /\ at + k \in 1 .. MaxSize
             /\ ChunkAt(at + k) = c /\ PlaceAt(at + k) = from + k
    <2>1. PICK p \in Offsets : p = from + k
        BY Amounts DEF Offsets
    <2>2. at + k = start + p
        BY <1>2, <2>1, Amounts
    <2>3. start + p \in 1 .. MaxSize /\ ChunkAt(start + p) = c /\ PlaceAt(start + p) = p
        BY <1>1, PlaceIs
    <2> QED BY <2>1, <2>2, <2>3
<1> QED BY <1>1, <1>2, <1>3

\* The read gets through a chunk.
LEMMA GetStep ==
    ASSUME NEW f \in Files, NEW c \in FileChunks, NEW from \in 0 .. BytesPerChunk - 1, NEW n \in Nat,
           from + n <= BytesPerChunk,
           got' = got \o [k \in 1 .. n |-> Seen(f, c)[from + k]],
           Plain!Asks("read", f), Plain!InService, Asking.at = (c - 1) * BytesPerChunk + from,
           Plain!Reached = Asking.at + n, Asking' = [Asking EXCEPT !.at = Plain!Reached],
           SeenBytes' = SeenBytes, SavedBytes' = SavedBytes, UNCHANGED <<fileSize, status>>
    PROVE  Plain!Next
<1>1. PICK at \in Nat :
          /\ at = (c - 1) * BytesPerChunk + from
          /\ \A k \in 1 .. n : /\ from + k \in Offsets /\ at + k \in 1 .. MaxSize
                               /\ ChunkAt(at + k) = c /\ PlaceAt(at + k) = from + k
    BY PartIs
<1>2. at = Asking.at
    BY <1>1
<1>3. \A k \in 1 .. n : SeenBytes[f][at + k] = Seen(f, c)[from + k]
    BY <1>1, BytesAre
<1>4. Plain!Reached - Asking.at = n
    BY <1>2
<1>5. [k \in 1 .. n |-> Seen(f, c)[from + k]] = [k \in 1 .. n |-> SeenBytes[f][Asking.at + k]]
    BY <1>2, <1>3
<1>6. got' = got \o [k \in 1 .. Plain!Reached - Asking.at |-> SeenBytes[f][Asking.at + k]]
    BY <1>4, <1>5
<1>7. Plain!Get(f)
    BY <1>6 DEF Plain!Get
<1> QED BY <1>7 DEF Plain!Next

\* What is said to be saved is.
LEMMA SyncedStep ==
    ASSUME NEW f \in Files, \A d \in FileChunks : Seen(f, d) = nand[f][d].bytes,
           Plain!Asks("synced", f), Asking' = Plain!NoRequest,
           status' = "synced", SeenBytes' = SeenBytes, SavedBytes' = SavedBytes, UNCHANGED <<fileSize, got>>
    PROVE  Plain!Next
<1>1. \A j \in 1 .. MaxSize : ChunkAt(j) \in FileChunks
    BY ByteIs
<1>2. \A j \in 1 .. MaxSize : Seen(f, ChunkAt(j)) = nand[f][ChunkAt(j)].bytes
    BY <1>1
<1>3. SavedBytes[f] = SeenBytes[f]
    BY <1>2, BytesAre
<1>4. Plain!Synced(f)
    BY <1>3 DEF Plain!Synced, Plain!Finish
<1> QED BY <1>4 DEF Plain!Next

(***************************************************************************)
(* Jobs and where they end.                                                *)
(***************************************************************************)
\* The job in service is the first one.
LEMMA HeadOk ==
    ASSUME Typed, JobsOk, jobs # <<>>
    PROVE  /\ job = jobs[1] /\ job \in JobRecords /\ job.file \in Files /\ JobOk(job, status)
           /\ Len(jobs) \in Nat /\ Len(jobs) >= 1 /\ DOMAIN jobs = 1 .. Len(jobs)
           /\ \A k \in 1 .. Len(jobs) : jobs[k] \in JobRecords
<1>1. job = jobs[1] /\ job \in JobRecords /\ job.file \in Files
    <2>1. job \in JobRecords
        BY HeadTyped
    <2>2. job = jobs[1]
        BY DEF job, Typed
    <2>3. job.file \in Files
        BY <2>1 DEF JobRecords
    <2> QED BY <2>1, <2>2, <2>3
<1>2. Len(jobs) \in Nat /\ Len(jobs) >= 1 /\ DOMAIN jobs = 1 .. Len(jobs)
    BY DEF Typed
<1>3. \A k \in 1 .. Len(jobs) : jobs[k] \in JobRecords
    BY DEF Typed
<1>4. JobOk(job, status)
    BY <1>1, <1>2 DEF JobsOk
<1> QED BY <1>1, <1>2, <1>3, <1>4

\* The part of a chunk a job works on.
LEMMA Span ==
    ASSUME Typed, JobsOk, jobs # <<>>, job.kind \in {"write", "zeros", "read"}, More
    PROVE  /\ Pos \in Nat /\ From \in 0 .. BytesPerChunk - 1 /\ Chunk \in FileChunks
           /\ Pos = (Chunk - 1) * BytesPerChunk + From
           /\ Length \in Nat /\ Length >= 1 /\ From + Length <= BytesPerChunk
           /\ job.done + Length <= job.n
<1>1. /\ job.off \in Nat /\ job.n \in Nat /\ job.done \in Nat /\ job.done < job.n
      /\ job.off + job.n <= MaxSize
    BY HeadOk DEF JobOk, More
<1>2. PICK j \in 1 .. MaxSize : j = Pos + 1
    BY <1>1, Amounts DEF Pos
<1>3. ChunkAt(j) = Chunk /\ PlaceAt(j) = From + 1 /\ Pos \in Nat
    <2>1. j - 1 = Pos /\ Pos \in Nat
        BY <1>1, <1>2 DEF Pos
    <2> QED BY <2>1 DEF ChunkAt, PlaceAt, Chunk, From
<1>4. Chunk \in FileChunks /\ From + 1 \in Offsets /\ j = (Chunk - 1) * BytesPerChunk + (From + 1)
    BY <1>3, ByteIs
<1>5. From \in 0 .. BytesPerChunk - 1
    <2>1. From \in Int
        BY <1>3, Amounts DEF From
    <2> QED BY <1>4, <2>1, Amounts DEF Offsets
<1>6. Pos = (Chunk - 1) * BytesPerChunk + From
    <2>1. PICK m \in Int : m = (Chunk - 1) * BytesPerChunk
        BY <1>4, Amounts
    <2> QED BY <1>2, <1>3, <1>4, <1>5, <2>1
<1>7. Length \in Nat /\ Length >= 1 /\ From + Length <= BytesPerChunk /\ job.done + Length <= job.n
    BY <1>1, <1>5, Amounts DEF Length, Smaller
<1> QED BY <1>3, <1>4, <1>5, <1>6, <1>7

\* Files only reach further.
Reaches(f) ==
    /\ End(f) \in Int /\ End(f)' \in Int /\ End(f) <= End(f)'
    /\ Limit(f) \in Int /\ Limit(f)' \in Int /\ Limit(f) <= Limit(f)'
JobsStep == JobsOk' /\ ZerosFill' /\ (LastOk => LastOk') /\ \A f \in Files : Reaches(f)

\* The ends and the limits are numbers, and no file is longer than its limit.
LEMMA Ends ==
    ASSUME Typed, Contents, JobsOk
    PROVE  /\ \A f \in Files : End(f) \in Int /\ Limit(f) \in Int /\ fileSize[f] \in Nat /\ fileSize[f] <= Limit(f)
           /\ jobs # <<>> => Target(job) \in Nat /\ Target(Last) \in Nat
<1>1. \A f \in Files : fileSize[f] \in Nat
    BY Amounts DEF Contents
<1>2. CASE jobs = <<>>
    BY <1>1, <1>2 DEF End, Limit
<1>3. CASE jobs # <<>>
    <2>1. JobOk(job, status) /\ JobOk(Last, status)
        BY <1>3, HeadOk DEF JobsOk, Last
    <2>2. Target(job) \in Nat /\ Target(Last) \in Nat
        BY <2>1 DEF JobOk, Target
    <2>3. job.off + job.done \in Nat /\ job.was \in Nat
        BY <2>1, Amounts DEF JobOk
    <2> QED BY <1>1, <2>2, <2>3 DEF End, Limit, Larger
<1> QED BY <1>2, <1>3

\* The first job goes on.
LEMMA HeadChanges ==
    ASSUME Typed, Contents, JobsOk, ZerosFill, jobs # <<>>, NEW next, jobs' = [jobs EXCEPT ![1] = next],
           next.kind = job.kind, next.file = job.file, next.off = job.off, next.n = job.n,
           next.v = job.v, next.was = job.was, next.done \in job.done .. job.n,
           next.step = "short" => status' = "short",
           UNCHANGED fileSize
    PROVE  JobsStep
<1>1. /\ job = jobs[1] /\ JobOk(job, status) /\ Len(jobs) \in Nat /\ Len(jobs) >= 1 /\ DOMAIN jobs = 1 .. Len(jobs)
      /\ job.file \in Files
    BY HeadOk
<1>2. DOMAIN jobs' = 1 .. Len(jobs) /\ Len(jobs') = Len(jobs) /\ jobs' # <<>>
    <2>1. jobs \in Seq(JobRecords)
        BY DEF Typed
    <2> QED BY <1>1, <2>1
<1>3. jobs'[1] = next /\ job' = next /\ \A k \in 2 .. Len(jobs) : jobs'[k] = jobs[k]
    <2>1. jobs'[1] = next /\ \A k \in 2 .. Len(jobs) : jobs'[k] = jobs[k]
        BY <1>1
    <2>2. job' = jobs'[1]
        BY DEF job
    <2> QED BY <2>1, <2>2
<1>4. JobOk(next, status')
    BY <1>1 DEF JobOk
<1>5. \A k \in 2 .. Len(jobs) : JobOk(jobs[k], status')
    <2> TAKE k \in 2 .. Len(jobs)
    <2>1. PICK j : j = jobs[k]
        OBVIOUS
    <2>2. JobOk(j, status) /\ j.step = "chunk"
        BY <1>1, <2>1 DEF JobsOk
    <2> QED BY <2>1, <2>2 DEF JobOk
<1>6. JobsOk'
    <2> SUFFICES ASSUME NEW k \in 1 .. Len(jobs)
                 PROVE  /\ JobOk(jobs'[k], status')
                        /\ k > 1 => jobs'[k].step = "chunk" /\ jobs'[k].done = 0
                        /\ jobs'[k].kind \in Endings => k = Len(jobs)
                        /\ jobs'[k].kind = "zeros" => \A i \in 1 .. k : jobs'[i].kind = "zeros"
        BY <1>2, ZenonT(60) DEF JobsOk
    <2>1. \A i \in 1 .. Len(jobs) : jobs'[i].kind = jobs[i].kind
        BY <1>1, <1>3
    <2>2. /\ k > 1 => jobs[k].step = "chunk" /\ jobs[k].done = 0
          /\ jobs[k].kind \in Endings => k = Len(jobs)
          /\ jobs[k].kind = "zeros" => \A i \in 1 .. k : jobs[i].kind = "zeros"
        BY <1>1, ZenonT(60) DEF JobsOk
    <2>3. \A i \in 1 .. k : i \in 1 .. Len(jobs)
        BY <1>1
    <2>4. JobOk(jobs'[k], status')
        BY <1>1, <1>3, <1>4, <1>5
    <2>5. k > 1 => jobs'[k] = jobs[k]
        BY <1>1, <1>3
    <2>6. jobs'[k].kind = jobs[k].kind /\ \A i \in 1 .. k : jobs'[i].kind = jobs[i].kind
        BY <2>1, <2>3
    <2> QED BY <2>2, <2>4, <2>5, <2>6
<1>7. Last' = IF Len(jobs) = 1 THEN next ELSE Last
    BY <1>1, <1>2, <1>3 DEF Last
<1>8. ZerosFill'
    <2> SUFFICES ASSUME NEW k \in 1 .. Len(jobs), jobs'[k].kind = "zeros"
                 PROVE  Fills(jobs'[k], job', Last', fileSize')
        BY <1>2 DEF ZerosFill
    <2>1. jobs[k].kind = "zeros" /\ Fills(jobs[k], job, Last, fileSize)
        BY <1>1, <1>3 DEF ZerosFill
    <2>2. Len(jobs) # 1
        BY <1>1, <2>1 DEF Fills, Last
    <2> QED BY <1>1, <1>3, <1>7, <2>1, <2>2 DEF Fills, Target
<1>9. ASSUME NEW f \in Files PROVE Reaches(f)
    <2>1. End(f) \in Int /\ Limit(f) \in Int /\ Target(job) \in Nat /\ Target(Last) \in Nat
          /\ fileSize[f] \in Nat
        BY Ends
    <2>2. job.off + job.done \in Nat /\ next.off + next.done \in Nat
          /\ job.off + job.done <= next.off + next.done /\ job.was \in Nat
        BY <1>1, Amounts DEF JobOk
    <2>3. End(f)' \in Int /\ End(f) <= End(f)'
        BY <1>2, <1>3, <2>1, <2>2 DEF End, Larger
    <2>4. Target(Last') \in Nat /\ Target(Last) <= Target(Last') /\ Last'.file = Last.file
        <3>1. CASE Len(jobs) = 1
            <4>1. Last = job /\ Last' = next
                BY <1>1, <1>7, <3>1 DEF Last
            <4> QED BY <1>1, <2>2, <4>1 DEF Target, JobOk
        <3>2. CASE Len(jobs) # 1
            <4>1. Last' = Last
                BY <1>7, <3>2
            <4> QED BY <2>1, <4>1 DEF Target
        <3> QED BY <3>1, <3>2
    <2>5. Limit(f)' \in Int /\ Limit(f) <= Limit(f)'
        BY <1>2, <2>1, <2>4 DEF Limit, Larger
    <2> QED BY <2>1, <2>3, <2>5 DEF Reaches
<1>10. LastOk => LastOk'
    <2>1. Len(jobs) = 1 => Last = job
        BY <1>1 DEF Last
    <2> QED BY <1>1, <1>2, <1>7, <2>1 DEF LastOk
<1> QED BY <1>6, <1>8, <1>9, <1>10 DEF JobsStep

\* The first and the last job of the next state.
LEMMA NextEnds == job' = jobs'[1] /\ Last' = jobs'[Len(jobs')]
BY DEF job, Last

\* The first job is done.
LEMMA TailIs ==
    ASSUME Typed, jobs # <<>>, jobs' = Tail(jobs)
    PROVE  /\ Len(jobs') = Len(jobs) - 1 /\ DOMAIN jobs' = 1 .. Len(jobs) - 1
           /\ \A k \in 1 .. Len(jobs) - 1 : k + 1 \in 2 .. Len(jobs) /\ jobs'[k] = jobs[k + 1]
           /\ jobs' = <<>> <=> Len(jobs) = 1
           /\ Len(jobs) > 1 => job' = jobs[2] /\ Last' = Last
<1>1. jobs \in Seq(JobRecords) /\ Len(jobs) \in Nat /\ Len(jobs) >= 1
    BY DEF Typed
<1>2. /\ Len(jobs') = Len(jobs) - 1 /\ DOMAIN jobs' = 1 .. Len(jobs) - 1
      /\ \A k \in 1 .. Len(jobs) - 1 : k + 1 \in 2 .. Len(jobs) /\ jobs'[k] = jobs[k + 1]
    BY <1>1
<1>3. jobs' = <<>> <=> Len(jobs) = 1
    <2>1. PICK t \in Seq(JobRecords) : t = Tail(jobs)
        BY HeadTyped
    <2>2. t = <<>> <=> Len(t) = 0
        BY EmptySeq
    <2> QED BY <1>1, <1>2, <2>1, <2>2
<1>4. ASSUME Len(jobs) > 1 PROVE job' = jobs[2] /\ Last' = Last
    <2>1. job' = jobs'[1] /\ Last' = jobs'[Len(jobs')]
        BY NextEnds
    <2>2. 1 \in 1 .. Len(jobs) - 1 /\ Len(jobs) - 1 \in 1 .. Len(jobs) - 1
        BY <1>1, <1>4
    <2>3. jobs'[1] = jobs[2] /\ jobs'[Len(jobs) - 1] = jobs[Len(jobs)]
        BY <1>1, <1>2, <2>2
    <2> QED BY <1>2, <2>1, <2>3 DEF Last
<1> QED BY <1>2, <1>3, <1>4

\* The jobs that are left are as right as they were, and the zeros are all gone once the
\* job that ends is not one of them.
LEMMA TailOk ==
    ASSUME Typed, JobsOk, jobs # <<>>, jobs' = Tail(jobs)
    PROVE  JobsOk' /\ (job.kind # "zeros" => \A k \in DOMAIN jobs' : jobs'[k].kind # "zeros")
<1>1. /\ Len(jobs') = Len(jobs) - 1 /\ DOMAIN jobs' = 1 .. Len(jobs) - 1 /\ Len(jobs) \in Nat
      /\ \A k \in 1 .. Len(jobs) - 1 : k + 1 \in 2 .. Len(jobs) /\ jobs'[k] = jobs[k + 1]
      /\ DOMAIN jobs = 1 .. Len(jobs) /\ job = jobs[1]
    BY TailIs, HeadOk
<1>2. JobsOk'
    <2> SUFFICES ASSUME NEW k \in 1 .. Len(jobs) - 1
                 PROVE  /\ JobOk(jobs'[k], status')
                        /\ k > 1 => jobs'[k].step = "chunk" /\ jobs'[k].done = 0
                        /\ jobs'[k].kind \in Endings => k = Len(jobs')
                        /\ jobs'[k].kind = "zeros" => \A i \in 1 .. k : jobs'[i].kind = "zeros"
        BY <1>1, ZenonT(60) DEF JobsOk
    <2>1. k + 1 \in 1 .. Len(jobs) /\ k + 1 > 1 /\ jobs'[k] = jobs[k + 1]
        BY <1>1
    <2>2. PICK j : j = jobs[k + 1]
        OBVIOUS
    <2>3. /\ JobOk(j, status) /\ j.step = "chunk" /\ j.done = 0
          /\ j.kind \in Endings => k + 1 = Len(jobs)
          /\ j.kind = "zeros" => \A i \in 1 .. k + 1 : jobs[i].kind = "zeros"
        BY <1>1, <2>1, <2>2, ZenonT(60) DEF JobsOk
    <2>4. JobOk(j, status')
        BY <2>3 DEF JobOk
    <2>5. \A i \in 1 .. k : i + 1 \in 1 .. k + 1 /\ jobs'[i] = jobs[i + 1]
        BY <1>1
    <2>6. j.kind = "zeros" => \A i \in 1 .. k : jobs'[i].kind = "zeros"
        BY <2>3, <2>5
    <2>7. jobs'[k] = j /\ (k + 1 = Len(jobs) => k = Len(jobs'))
        <3>1. PICK n \in Nat : n = Len(jobs) /\ n - 1 = Len(jobs')
            BY <1>1
        <3>2. k \in Nat
            BY <1>1
        <3> QED BY <2>1, <2>2, <3>1, <3>2
    <2> QED BY <2>3, <2>4, <2>6, <2>7
<1>3. ASSUME job.kind # "zeros", NEW k \in DOMAIN jobs' PROVE jobs'[k].kind # "zeros"
    <2>1. k + 1 \in 1 .. Len(jobs) /\ jobs'[k] = jobs[k + 1] /\ 1 \in 1 .. k + 1
        BY <1>1
    <2> QED BY <1>1, <1>3, <2>1 DEF JobsOk
<1> QED BY <1>2, <1>3

\* A job other than a write is done, and the sizes are what they were.
LEMMA TailStep ==
    ASSUME Typed, Contents, JobsOk, jobs # <<>>, jobs' = Tail(jobs),
           job.kind \notin {"write", "zeros", "extend"}, UNCHANGED fileSize
    PROVE  JobsStep
<1>1. JobsOk' /\ ZerosFill'
    BY TailOk DEF ZerosFill
<1>2. ASSUME NEW f \in Files PROVE Reaches(f)
    <2>1. /\ fileSize[f] \in Nat /\ End(f) = fileSize[f] /\ Limit(f) \in Int
          /\ Target(Last) \in Nat
        BY Ends DEF End
    <2>2. CASE jobs' = <<>>
        <3>1. Last = job
            BY <2>2, TailIs, HeadOk DEF Last
        <3>2. Limit(f) = fileSize[f]
            BY <2>1, <3>1 DEF Limit, Target, Larger
        <3> QED BY <2>1, <2>2, <3>2 DEF Reaches, End, Limit
    <2>3. CASE jobs' # <<>>
        <3>1. Last' = Last /\ Limit(f)' = Limit(f)
            BY <2>3, TailIs, HeadOk DEF Limit
        <3>2. 1 \in DOMAIN jobs' /\ job' = jobs'[1]
            BY <2>3, TailIs, HeadOk DEF job
        <3>3. job'.kind # "zeros" /\ JobOk(job', status')
            BY <1>1, <3>2, TailOk DEF JobsOk
        <3>4. job'.off + job'.done \in Nat
            BY <3>3 DEF JobOk
        <3>5. End(f)' \in Int /\ fileSize[f] <= End(f)'
            BY <2>1, <2>3, <3>3, <3>4 DEF End, Larger
        <3> QED BY <2>1, <3>1, <3>5 DEF Reaches
    <2> QED BY <2>2, <2>3
<1>3. LastOk => LastOk'
    BY TailIs, HeadOk DEF LastOk
<1> QED BY <1>1, <1>2, <1>3 DEF JobsStep

\* A write, or the job that sets the size, is done.
LEMMA LastStep ==
    ASSUME Typed, Contents, JobsOk, jobs # <<>>, jobs' = Tail(jobs), job.kind \in {"write", "extend"},
           fileSize' = [fileSize EXCEPT ![job.file] = Larger(@, Target(job))]
    PROVE  jobs' = <<>> /\ JobsStep
<1>1. job = jobs[1] /\ Len(jobs) = 1 /\ jobs' = <<>> /\ job.file \in Files
    BY HeadOk, TailIs DEF JobsOk, Endings
<1>2. JobsOk' /\ ZerosFill'
    BY <1>1 DEF JobsOk, ZerosFill
<1>3. ASSUME NEW f \in Files PROVE Reaches(f)
    <2>1. /\ \A g \in Files : fileSize[g] \in Nat
          /\ End(f) \in Int /\ Limit(f) \in Int /\ Target(job) \in Nat
        BY Ends
    <2>2. fileSize'[f] = IF job.file = f THEN Larger(fileSize[f], Target(job)) ELSE fileSize[f]
        BY <1>1 DEF Contents
    <2>3. End(f)' = fileSize'[f] /\ Limit(f)' = fileSize'[f]
        BY <1>1 DEF End, Limit
    <2>4. Last = job
        BY <1>1 DEF Last
    <2>5. fileSize'[f] \in Nat /\ End(f) <= fileSize'[f] /\ Limit(f) = fileSize'[f]
        BY <2>1, <2>2, <2>4 DEF End, Limit, Target, Larger
    <2> QED BY <2>1, <2>3, <2>5 DEF Reaches
<1>4. LastOk'
    BY <1>1 DEF LastOk
<1> QED BY <1>1, <1>2, <1>3, <1>4 DEF JobsStep

\* Zeros are written, all of a piece.
LEMMA ZerosStep ==
    ASSUME Typed, Contents, JobsOk, ZerosFill, jobs # <<>>, jobs' = Tail(jobs), job.kind = "zeros",
           fileSize' = [fileSize EXCEPT ![job.file] = Larger(@, job.off + job.done)]
    PROVE  JobsStep
<1>1. /\ job = jobs[1] /\ 1 \in DOMAIN jobs /\ job.file \in Files /\ DOMAIN jobs = 1 .. Len(jobs)
      /\ Len(jobs) \in Nat
    BY HeadOk
<1>2. Fills(job, job, Last, fileSize)
    BY <1>1 DEF ZerosFill
<1>3. Len(jobs) > 1
    BY <1>1, <1>2 DEF Fills, Last
<1>4. /\ jobs' # <<>> /\ Last' = Last /\ job' = jobs[2]
      /\ \A k \in DOMAIN jobs' : k + 1 \in DOMAIN jobs /\ jobs'[k] = jobs[k + 1]
    BY <1>1, <1>3, TailIs
<1>5. /\ \A g \in Files : fileSize[g] \in Nat
      /\ Target(Last) \in Nat
    BY Ends
<1>6. job.off + job.done \in Nat /\ job.off + job.done <= Target(Last) /\ job.was \in Nat
      /\ job.was <= fileSize[job.file] /\ fileSize[job.file] <= Target(Last)
    <2>1. JobOk(job, status)
        BY HeadOk
    <2> QED BY <1>2, <1>5, <2>1, Amounts DEF Fills, JobOk
<1>7. \A g \in Files :
          fileSize'[g] = IF job.file = g THEN Larger(fileSize[g], job.off + job.done) ELSE fileSize[g]
    BY <1>1 DEF Contents
<1>8. ZerosFill'
    <2> SUFFICES ASSUME NEW k \in DOMAIN jobs', jobs'[k].kind = "zeros"
                 PROVE  Fills(jobs'[k], job', Last', fileSize')
        BY DEF ZerosFill
    <2>1. PICK i \in DOMAIN jobs : i = k + 1 /\ jobs'[k] = jobs[i] /\ jobs[i].kind = "zeros" /\ i > 1
        BY <1>1, <1>4, TailIs
    <2>2. Fills(jobs[i], job, Last, fileSize)
        BY <2>1 DEF ZerosFill
    <2>3. jobs[2].kind = "zeros" /\ 2 \in DOMAIN jobs
        <3>1. 2 \in 1 .. i /\ 2 \in DOMAIN jobs
            BY <1>1, <2>1
        <3> QED BY <2>1, <3>1 DEF JobsOk
    <2>4. Fills(jobs[2], job, Last, fileSize)
        BY <2>3 DEF ZerosFill
    <2>5. jobs[i].file = job.file /\ jobs[i].was = job.was /\ jobs[2].file = job.file /\ jobs[2].was = job.was
        BY <2>2, <2>4 DEF Fills
    <2>6. job.was <= fileSize'[job.file] /\ fileSize'[job.file] <= Target(Last)
        BY <1>1, <1>5, <1>6, <1>7 DEF Larger
    <2>7. /\ Last.kind \in {"write", "extend"} /\ Last.file = job.file /\ Last.was = job.was
          /\ job.was <= jobs[i].off /\ jobs[i].off + jobs[i].n <= Target(Last) /\ job.was < Target(Last)
        BY <2>2, <2>5 DEF Fills
    <2> QED BY <1>4, <2>1, <2>5, <2>6, <2>7 DEF Fills
<1>9. JobsOk'
    BY TailOk
<1>10. ASSUME NEW f \in Files PROVE Reaches(f)
    <2>1. Limit(f) \in Int /\ Limit(f)' \in Int /\ Limit(f) <= Limit(f)'
        <3>1. PICK target \in Nat, old \in Nat, new \in Nat :
                  /\ target = Target(Last) /\ old = fileSize[f] /\ new = fileSize'[f] /\ old <= new
                  /\ Last.file = f => new <= target \/ new = old
            BY <1>2, <1>5, <1>6, <1>7 DEF Larger, Fills
        <3>2. jobs # <<>> /\ Limit(f) = IF Last.file # f THEN old ELSE Larger(old, target)
            BY <3>1 DEF Limit
        <3>3. Limit(f)' = IF Last.file # f THEN new ELSE Larger(new, target)
            BY <1>4, <3>1 DEF Limit, Target
        <3> QED BY <3>1, <3>2, <3>3 DEF Larger
    <2>2. job' = jobs'[1] /\ 1 \in DOMAIN jobs'
        BY <1>3, <1>4, TailIs DEF job
    <2>3. JobOk(job', status') /\ (job'.kind = "zeros" => Fills(job', job', Last', fileSize'))
        BY <1>8, <1>9, <2>2 DEF JobsOk, ZerosFill
    <2>4. job'.off + job'.done \in Nat /\ job'.was \in Nat
        BY <2>3, Amounts DEF JobOk
    <2>5. End(f) = IF job.file = f THEN job.was ELSE fileSize[f]
        BY DEF End
    <2>6. job'.kind = "zeros" => job'.was = job.was /\ job'.file = job.file
        <3> SUFFICES ASSUME job'.kind = "zeros" PROVE job'.was = job.was /\ job'.file = job.file
            OBVIOUS
        <3>1. 2 \in DOMAIN jobs /\ jobs[2].kind = "zeros"
            BY <1>1, <1>3, <1>4
        <3>2. Fills(jobs[2], job, Last, fileSize)
            BY <3>1 DEF ZerosFill
        <3> QED BY <1>4, <3>2 DEF Fills
    <2>7. End(f)' \in Int /\ End(f) \in Int /\ End(f) <= End(f)'
        <3>1. fileSize'[f] \in Nat /\ fileSize[f] \in Nat /\ fileSize[f] <= fileSize'[f]
            BY <1>5, <1>6, <1>7 DEF Larger
        <3>2. End(f) \in Int /\ End(f) <= fileSize[f]
            BY <1>6, <2>5, <3>1
        <3>3. CASE job'.kind = "zeros"
            <4>1. End(f)' = IF job.file = f THEN job.was ELSE fileSize'[f]
                BY <1>4, <2>6, <3>3 DEF End
            <4> QED BY <1>6, <2>5, <3>1, <3>2, <4>1
        <3>4. CASE job'.kind # "zeros"
            <4>1. End(f)' \in {fileSize'[f], Larger(fileSize'[f], job'.off + job'.done)}
                BY <1>4, <3>4 DEF End
            <4> QED BY <2>4, <3>1, <3>2, <4>1 DEF Larger
        <3> QED BY <3>3, <3>4
    <2> QED BY <2>1, <2>7 DEF Reaches
<1>11. LastOk => LastOk'
    BY <1>1, <1>2, <1>4 DEF LastOk, Fills
<1> QED BY <1>8, <1>9, <1>10, <1>11 DEF JobsStep

\* Zeros that were not all written are given up.
GivesUp == jobs' = SubSeq(jobs, Zeroing + 1, Len(jobs))

\* Giving up the zeros that could not be written (yaffs2_HandleHole) leaves the job behind
\* them, and the size the file had before.
LEMMA TakeBackJobs ==
    ASSUME Typed, Contents, JobsOk, ZerosFill, jobs # <<>>, job.kind = "zeros",
           GivesUp, fileSize' = [fileSize EXCEPT ![job.file] = job.was]
    PROVE  JobsStep /\ (\A k \in DOMAIN jobs' : jobs'[k].kind # "zeros") /\ jobs' # <<>>
           /\ job'.step = "chunk" /\ Last' = Last
<1>1. /\ job = jobs[1] /\ 1 \in DOMAIN jobs /\ job.file \in Files /\ DOMAIN jobs = 1 .. Len(jobs)
      /\ Len(jobs) \in Nat /\ jobs \in Seq(JobRecords)
    BY HeadOk DEF Typed
<1>2. Fills(job, job, Last, fileSize)
    BY <1>1 DEF ZerosFill
<1> DEFINE NoZeros == {i \in Nat : i \in DOMAIN jobs /\ jobs[i].kind # "zeros"}
<1>3. PICK p \in NoZeros : \A i \in NoZeros : p <= i
    <2>1. Len(jobs) \in NoZeros
        BY <1>1, <1>2 DEF Last, Fills
    <2>2. NoZeros # {} /\ NoZeros \subseteq Nat
        BY <2>1
    <2> HIDE DEF NoZeros
    <2> QED BY <2>2, SmallestIs
<1>4. p \in 1 .. Len(jobs) /\ p > 1
    BY <1>1, <1>3
<1>5. \A i \in 1 .. Len(jobs) : jobs[i].kind = "zeros" <=> i < p
    <2> TAKE i \in 1 .. Len(jobs)
    <2>1. i < p => jobs[i].kind = "zeros"
        BY <1>1, <1>3, <1>4
    <2>2. ASSUME i >= p, jobs[i].kind = "zeros" PROVE FALSE
        <3>1. p \in 1 .. i
            BY <1>4, <2>2
        <3>2. jobs[p].kind = "zeros"
            BY <1>1, <2>2, <3>1 DEF JobsOk
        <3> QED BY <1>3, <3>2
    <2> QED BY <1>1, <1>4, <2>1, <2>2
<1>6. Zeroing = p - 1
    <2>1. {k \in DOMAIN jobs : jobs[k].kind = "zeros"} = 1 .. p - 1
        BY <1>1, <1>4, <1>5
    <2>2. Cardinality(1 .. p - 1) = p - 1
        <3>1. PICK m \in Nat : m = p - 1
            BY <1>1, <1>4
        <3>2. Cardinality(1 .. m) = m
            BY <3>1, FS_Interval
        <3> QED BY <3>1, <3>2
    <2> QED BY <2>1, <2>2 DEF Zeroing
<1> HIDE DEF NoZeros
<1>7. /\ Len(jobs') = Len(jobs) - p + 1 /\ DOMAIN jobs' = 1 .. Len(jobs) - p + 1
      /\ \A k \in 1 .. Len(jobs) - p + 1 : jobs'[k] = jobs[k + (p - 1)]
    <2>1. PICK n, t : n \in Nat /\ n = Len(jobs) /\ t = SubSeq(jobs, p, n)
        BY <1>1
    <2>2. jobs' = t
        <3>1. PICK m \in Nat : m = Zeroing /\ m + 1 = p
            BY <1>1, <1>4, <1>6
        <3> QED BY <2>1, <3>1 DEF GivesUp
    <2>3. /\ Len(t) = n - p + 1 /\ DOMAIN t = 1 .. n - p + 1
          /\ \A k \in 1 .. n - p + 1 : t[k] = jobs[k + (p - 1)]
        BY <1>1, <1>4, <2>1
    <2> QED BY <2>1, <2>2, <2>3
<1>8. \A k \in 1 .. Len(jobs) - p + 1 : k + (p - 1) \in 2 .. Len(jobs) /\ k + (p - 1) >= p
    BY <1>1, <1>4
<1>9. jobs' # <<>> /\ job' = jobs[p] /\ Last' = Last
    <2>1. 1 \in 1 .. Len(jobs) - p + 1 /\ Len(jobs) - p + 1 \in 1 .. Len(jobs) - p + 1
          /\ 1 + (p - 1) = p /\ (Len(jobs) - p + 1) + (p - 1) = Len(jobs)
        BY <1>1, <1>4
    <2>2. jobs'[1] = jobs[p] /\ jobs'[Len(jobs')] = jobs[Len(jobs)]
        BY <1>7, <2>1
    <2>3. jobs' # <<>>
        <3>1. Len(jobs') # 0
            BY <1>7, <2>1
        <3>2. Len(<<>>) = 0
            BY EmptySeq
        <3> QED BY <3>1, <3>2
    <2> QED BY <2>2, <2>3, NextEnds DEF Last
<1>10. \A k \in DOMAIN jobs' : jobs'[k].kind # "zeros"
    <2> TAKE k \in DOMAIN jobs'
    <2>1. PICK i \in 2 .. Len(jobs) : i = k + (p - 1) /\ i >= p /\ jobs'[k] = jobs[i]
        BY <1>7, <1>8
    <2>2. i \in 1 .. Len(jobs) /\ ~(i < p)
        BY <1>1, <1>4, <2>1
    <2> QED BY <1>5, <2>1, <2>2
<1>11. JobsOk'
    <2> SUFFICES ASSUME NEW k \in DOMAIN jobs'
                 PROVE  /\ JobOk(jobs'[k], status')
                        /\ k > 1 => jobs'[k].step = "chunk" /\ jobs'[k].done = 0
                        /\ jobs'[k].kind \in Endings => k = Len(jobs')
                        /\ jobs'[k].kind = "zeros" => \A i \in 1 .. k : jobs'[i].kind = "zeros"
        BY DEF JobsOk
    <2>1. PICK i \in 2 .. Len(jobs) : i = k + (p - 1) /\ jobs'[k] = jobs[i]
        BY <1>7, <1>8
    <2>2. PICK j : j = jobs[i]
        OBVIOUS
    <2>3. JobOk(j, status) /\ j.step = "chunk" /\ j.done = 0 /\ (j.kind \in Endings => i = Len(jobs))
        BY <1>1, <2>1, <2>2 DEF JobsOk
    <2>4. JobOk(j, status')
        BY <2>3 DEF JobOk
    <2>5. i = Len(jobs) => k = Len(jobs')
        <3>1. PICK n \in Nat : n = Len(jobs) /\ Len(jobs') = n - p + 1
            BY <1>1, <1>7
        <3>2. k \in Nat /\ p \in Nat
            BY <1>1, <1>7, <1>4
        <3>3. k + (p - 1) = n => k = n - p + 1
            BY <3>1, <3>2
        <3> QED BY <2>1, <3>1, <3>3
    <2> QED BY <1>10, <2>1, <2>2, <2>3, <2>4, <2>5
<1>12. ZerosFill'
    BY <1>10 DEF ZerosFill
<1>13. job'.step = "chunk" /\ job'.kind # "zeros" /\ JobOk(job', status')
    <2>1. jobs[p].step = "chunk" /\ jobs[p].kind # "zeros" /\ JobOk(jobs[p], status)
        BY <1>1, <1>4, <1>5 DEF JobsOk
    <2> QED BY <1>9, <2>1 DEF JobOk
<1>14. ASSUME NEW f \in Files PROVE Reaches(f)
    <2>1. /\ \A g \in Files : fileSize[g] \in Nat
          /\ Target(Last) \in Nat /\ End(f) \in Int /\ Limit(f) \in Int
        BY Ends
    <2>2. job.was \in Nat /\ job.was <= fileSize[job.file] /\ fileSize[job.file] <= Target(Last)
          /\ Last.file = job.file
        <3>1. JobOk(job, status)
            BY HeadOk
        <3> QED BY <1>2, <3>1, Amounts DEF Fills, JobOk
    <2>3. fileSize'[f] = IF job.file = f THEN job.was ELSE fileSize[f]
        BY <1>1 DEF Contents
    <2>4. job'.off + job'.done \in Nat
        BY <1>13 DEF JobOk
    <2>5. End(f)' \in {fileSize'[f], Larger(fileSize'[f], job'.off + job'.done)}
        BY <1>9, <1>13 DEF End
    <2>6. End(f) = fileSize'[f] /\ fileSize'[f] \in Nat
        BY <2>1, <2>2, <2>3 DEF End
    <2>7. End(f)' \in Int /\ End(f) <= End(f)'
        BY <2>4, <2>5, <2>6 DEF Larger
    <2>8. Limit(f)' = IF Last.file # f THEN fileSize'[f] ELSE Larger(fileSize'[f], Target(Last))
        BY <1>9 DEF Limit
    <2>9. Limit(f)' \in Int /\ Limit(f) <= Limit(f)'
        BY <2>1, <2>2, <2>3, <2>6, <2>8 DEF Limit, Larger
    <2> QED BY <2>1, <2>7, <2>9 DEF Reaches
<1>15. LastOk'
    BY <1>2, <1>9 DEF LastOk, Fills, Endings
<1> QED BY <1>9, <1>10, <1>11, <1>12, <1>13, <1>14, <1>15 DEF JobsStep

\* A piece a hole is filled with.
ZeroJob(j, f, was, end) ==
    /\ j.kind = "zeros" /\ j.file = f /\ j.v = 0 /\ j.done = 0 /\ j.step = "chunk" /\ j.was = was
    /\ j.off \in Nat /\ j.n \in Nat /\ was <= j.off /\ j.off + j.n <= end

\* What yaffs2_HandleHole asks for: zeros from the size of the file to the start of the
\* write, none when there is no hole.
LEMMA HoleJobsOk ==
    ASSUME Contents, NEW f \in Files, NEW end \in 0 .. MaxSize
    PROVE  /\ HoleJobs(f, end) # <<>> => fileSize[f] < end
           /\ \E m \in Nat : /\ Len(HoleJobs(f, end)) = m /\ DOMAIN HoleJobs(f, end) = 1 .. m
                             /\ \A k \in 1 .. m : ZeroJob(HoleJobs(f, end)[k], f, fileSize[f], end)
<1> DEFINE hole == end - fileSize[f]
           Piece(k) == Job("zeros", f, fileSize[f] + (k - 1) * BytesPerChunk,
                           Smaller(BytesPerChunk, hole - (k - 1) * BytesPerChunk), 0)
           many == (hole + BytesPerChunk - 1) \div BytesPerChunk
           H == HoleJobs(f, end)
<1>1. CASE H = <<>>
    <2>1. Len(H) = 0 /\ DOMAIN H = 1 .. 0
        BY <1>1
    <2> HIDE DEF H
    <2>2. \A k \in 1 .. 0 : FALSE
        OBVIOUS
    <2> QED BY <1>1, <2>1, <2>2 DEF H
<1>2. CASE hole > 0 /\ H = [k \in 1 .. many |-> Piece(k)]
    <2>1. fileSize[f] \in Nat /\ end \in Nat
        BY Amounts DEF Contents
    <2>2. PICK h \in Nat : h = hole /\ h >= 1 /\ h = end - fileSize[f]
        BY <1>2, <2>1
    <2>3. PICK q \in Nat, r \in 0 .. BytesPerChunk - 1 :
              q = many /\ h + BytesPerChunk - 1 = q * BytesPerChunk + r
        <3>1. PICK a \in Nat : a = h + BytesPerChunk - 1
            BY Amounts
        <3>2. /\ a \div BytesPerChunk \in Nat /\ (a % BytesPerChunk) \in 0 .. BytesPerChunk - 1
              /\ a = (a \div BytesPerChunk) * BytesPerChunk + (a % BytesPerChunk)
            BY Amounts, Division
        <3> QED BY <2>2, <3>1, <3>2
    <2>4. ASSUME NEW k \in 1 .. q
          PROVE  ZeroJob(Piece(k), f, fileSize[f], end)
        <3>1. PICK x \in Nat : x = (k - 1) * BytesPerChunk /\ x <= h - 1
            <4>1. PICK i \in Nat, u \in Nat : k = i + 1 /\ q = i + 1 + u
                <5>1. k - 1 \in Nat /\ q - k \in Nat /\ k = (k - 1) + 1 /\ q = (k - 1) + 1 + (q - k)
                    BY <2>3
                <5> QED BY <5>1
            <4>2. q * BytesPerChunk = i * BytesPerChunk + BytesPerChunk + u * BytesPerChunk
                  /\ i * BytesPerChunk \in Nat /\ u * BytesPerChunk \in Nat
                BY <4>1, Amounts
            <4>3. (k - 1) * BytesPerChunk = i * BytesPerChunk
                BY <4>1
            <4>4. PICK a \in Nat, b \in Nat : a = i * BytesPerChunk /\ b = u * BytesPerChunk
                BY <4>2
            <4>5. h - 1 = a + b + r
                BY <2>2, <2>3, <4>2, <4>4, Amounts
            <4>6. (k - 1) * BytesPerChunk \in Nat /\ (k - 1) * BytesPerChunk <= h - 1
                BY <2>2, <2>3, <4>3, <4>4, <4>5, Amounts
            <4> QED BY <4>6
        <3>2. Piece(k) = Job("zeros", f, fileSize[f] + x, Smaller(BytesPerChunk, h - x), 0)
            BY <2>2, <3>1
        <3> HIDE DEF Piece
        <3> QED BY <2>1, <2>2, <3>1, <3>2, Amounts DEF Job, Smaller, ZeroJob
    <2>5. Len(H) = q /\ DOMAIN H = 1 .. q /\ \A k \in 1 .. q : H[k] = Piece(k)
        <3> HIDE DEF Piece, H
        <3>1. H = [k \in 1 .. q |-> Piece(k)]
            BY <1>2, <2>3
        <3> QED BY <3>1
    <2>6. fileSize[f] < end
        BY <2>1, <2>2
    <2> HIDE DEF Piece, H
    <2> QED BY <2>4, <2>5, <2>6 DEF H
<1>3. H = <<>> \/ (hole > 0 /\ H = [k \in 1 .. many |-> Piece(k)])
    BY DEF HoleJobs
<1> QED BY <1>1, <1>2, <1>3

\* A hole is filled before the last job.
FillsFirst(list, j, f, end) ==
    \E n \in Nat :
           /\ n >= 1 /\ Len(list) = n /\ DOMAIN list = 1 .. n /\ list[n] = j
           /\ n > 1 => fileSize[f] < end
           /\ \A k \in 1 .. n - 1 : ZeroJob(list[k], f, fileSize[f], end)

\* Together with the request behind them they are a list that fills the hole first.
LEMMA FilledFirst ==
    ASSUME Contents, NEW f \in Files, NEW end \in 0 .. MaxSize, NEW j \in JobRecords,
           HoleJobs(f, end) \in Seq(JobRecords)
    PROVE  FillsFirst(HoleJobs(f, end) \o <<j>>, j, f, end)
<1>0. PICK list : list = HoleJobs(f, end) \o <<j>>
    OBVIOUS
<1>1. PICK H \in Seq(JobRecords) : H = HoleJobs(f, end)
    OBVIOUS
<1>2. /\ H # <<>> => fileSize[f] < end
      /\ \E m \in Nat : /\ Len(H) = m /\ DOMAIN H = 1 .. m
                        /\ \A k \in 1 .. m : ZeroJob(H[k], f, fileSize[f], end)
    BY <1>1, HoleJobsOk
<1>3. PICK m \in Nat : /\ Len(H) = m /\ DOMAIN H = 1 .. m
                       /\ \A k \in 1 .. m : ZeroJob(H[k], f, fileSize[f], end)
    BY <1>2
<1>4. /\ Len(list) = m + 1 /\ DOMAIN list = 1 .. m + 1 /\ list[m + 1] = j
      /\ \A k \in 1 .. m : list[k] = H[k]
    <2>1. PICK one \in Seq(JobRecords) : one = <<j>> /\ Len(one) = 1 /\ one[1] = j
        <3>1. <<j>> \in Seq(JobRecords)
            OBVIOUS
        <3> QED BY <3>1
    <2>2. list = H \o one
        BY <1>0, <1>1, <2>1
    <2> QED BY <1>3, <2>1, <2>2
<1>5. m >= 1 => fileSize[f] < end
    <2>1. m >= 1 => H # <<>>
        BY <1>3, EmptySeq
    <2> QED BY <1>2, <2>1
<1>6. PICK n \in Nat : n = m + 1
    OBVIOUS
<1>7. \A k \in 1 .. n - 1 : ZeroJob(list[k], f, fileSize[f], end)
    BY <1>3, <1>4, <1>6
<1>8. /\ n >= 1 /\ Len(list) = n /\ DOMAIN list = 1 .. n /\ list[n] = j
      /\ n > 1 => fileSize[f] < end
    BY <1>4, <1>5, <1>6
<1>9. FillsFirst(list, j, f, end)
    BY <1>7, <1>8 DEF FillsFirst
<1> QED BY <1>0, <1>9

\* A request is begun, or goes on, that fills a hole before its last job.
LEMMA FillingStep ==
    ASSUME Typed, Contents, JobsOk, NEW f \in Files, NEW end \in 0 .. MaxSize, NEW j \in JobRecords,
           JobOk(j, status'), j.kind \in {"write", "extend"}, j.file = f, j.step = "chunk", j.done = 0,
           j.was = fileSize[f],
           Target(j) = end, NEW list, list = HoleJobs(f, end) \o <<j>>, jobs' = list,
           jobs = <<>> \/ job.kind = "resize", UNCHANGED fileSize
    PROVE  JobsStep /\ jobs' # <<>> /\ job'.step = "chunk" /\ Last' = j
<1>1. HoleJobs(f, end) \in Seq(JobRecords)
    BY HoleJobsTyped, Amounts
<1>2. PICK n \in Nat :
           /\ n >= 1 /\ Len(list) = n /\ DOMAIN list = 1 .. n /\ list[n] = j
           /\ n > 1 => fileSize[f] < end
           /\ \A k \in 1 .. n - 1 : ZeroJob(list[k], f, fileSize[f], end)
    <2>1. FillsFirst(list, j, f, end)
        BY <1>1, FilledFirst
    <2> QED BY <2>1 DEF FillsFirst
<1>3. /\ fileSize \in [Files -> 0 .. MaxSize] /\ fileSize' = fileSize
      /\ \A g \in Files : fileSize[g] \in Nat
    BY Amounts DEF Contents
<1>4. ASSUME NEW k \in 1 .. n - 1 PROVE JobOk(list[k], status')
    <2>1. PICK i : i = list[k]
        OBVIOUS
    <2>2. ZeroJob(i, f, fileSize[f], end)
        BY <1>2, <2>1
    <2>3. /\ i.off \in Nat /\ i.n \in Nat /\ i.done \in 0 .. i.n /\ i.v \in Bytes /\ i.was \in 0 .. MaxSize
          /\ i.off + i.n <= MaxSize
        BY <1>3, <2>2, Amounts DEF Bytes, ZeroJob
    <2>4. JobOk(i, status')
        BY <2>2, <2>3 DEF JobOk, ZeroJob
    <2> QED BY <2>1, <2>4
<1>5. /\ Len(jobs') = n /\ DOMAIN jobs' = 1 .. n /\ jobs' # <<>>
      /\ job' = list[1] /\ Last' = j
    <2>1. jobs' # <<>>
        <3>1. Len(list) # 0
            BY <1>2
        <3>2. Len(<<>>) = 0
            BY EmptySeq
        <3> QED BY <3>1, <3>2
    <2>2. job' = jobs'[1] /\ Last' = jobs'[Len(jobs')]
        BY NextEnds
    <2> QED BY <1>2, <2>1, <2>2
<1>6. \A k \in 1 .. n : k = n \/ k \in 1 .. n - 1
    BY <1>2
<1>7. JobsOk'
    <2> SUFFICES ASSUME NEW k \in 1 .. n
                 PROVE  /\ JobOk(list[k], status')
                        /\ k > 1 => list[k].step = "chunk" /\ list[k].done = 0
                        /\ list[k].kind \in Endings => k = n
                        /\ list[k].kind = "zeros" => \A i \in 1 .. k : list[i].kind = "zeros"
        BY <1>5 DEF JobsOk
    <2>1. CASE k = n
        BY <1>2, <2>1
    <2>2. CASE k \in 1 .. n - 1
        <3>1. \A i \in 1 .. k : i \in 1 .. n - 1
            BY <2>2
        <3>2. ZeroJob(list[k], f, fileSize[f], end) /\ \A i \in 1 .. k : list[i].kind = "zeros"
            BY <1>2, <2>2, <3>1 DEF ZeroJob
        <3> QED BY <1>2, <1>4, <2>2, <3>2 DEF Endings, ZeroJob
    <2> QED BY <1>6, <2>1, <2>2
<1>8. ZerosFill'
    <2> SUFFICES ASSUME NEW k \in 1 .. n, list[k].kind = "zeros"
                 PROVE  Fills(list[k], list[1], j, fileSize)
        BY <1>3, <1>5 DEF ZerosFill
    <2>1. k \in 1 .. n - 1 /\ 1 \in 1 .. n - 1
        BY <1>2, <1>6
    <2> QED BY <1>2, <1>3, <2>1 DEF Fills, ZeroJob
<1>9. job'.step = "chunk" /\ (job'.kind = "zeros" => job'.was = fileSize[f] /\ job'.file = f)
      /\ (job'.kind # "zeros" => job' = j)
    <2>1. CASE n = 1
        BY <1>2, <1>5, <2>1
    <2>2. CASE 1 \in 1 .. n - 1
        BY <1>2, <1>5, <2>2 DEF ZeroJob
    <2> QED BY <1>2, <2>1, <2>2
<1>10. ASSUME NEW g \in Files PROVE Reaches(g)
    <2>1. End(g) = fileSize[g] /\ Limit(g) = fileSize[g]
        <3>1. CASE jobs = <<>>
            BY <3>1 DEF End, Limit
        <3>2. CASE jobs # <<>> /\ job.kind = "resize"
            <4>1. Last = job
                BY <3>2, HeadOk DEF JobsOk, Endings, Last
            <4> QED BY <1>3, <3>2, <4>1 DEF End, Limit, Target, Larger
        <3> QED BY <3>1, <3>2
    <2>2. j.off + j.done \in Nat /\ Target(j) \in Nat
        BY Amounts DEF JobOk
    <2>3. End(g)' \in {fileSize[g], Larger(fileSize[g], j.off + j.done)}
        BY <1>3, <1>5, <1>9 DEF End
    <2>4. Limit(g)' \in {fileSize[g], Larger(fileSize[g], Target(j))}
        BY <1>3, <1>5 DEF Limit
    <2> QED BY <1>3, <2>1, <2>2, <2>3, <2>4 DEF Reaches, Larger
<1>11. LastOk'
    BY <1>5 DEF LastOk, Endings
<1> QED BY <1>5, <1>7, <1>8, <1>9, <1>10, <1>11 DEF JobsStep

\* A request of jobs that write nothing is begun.
QuietList(list, n, said) ==
    /\ Len(list) = n /\ DOMAIN list = 1 .. n
    /\ \A k \in 1 .. n : /\ JobOk(list[k], said) /\ list[k].step = "chunk" /\ list[k].done = 0
                         /\ list[k].kind \notin {"write", "zeros", "extend"}
                         /\ list[k].kind \in Endings => k = n
    /\ list[n].kind \in Endings \cup {"header"} /\ list[n].was = fileSize[list[n].file]

\* Requests that write nothing of their own leave the ends of the files alone.
LEMMA QuietStep ==
    ASSUME Typed, Contents, jobs = <<>>, NEW list, jobs' = list, NEW n \in 1 .. 3,
           QuietList(list, n, status'), UNCHANGED fileSize
    PROVE  JobsStep
<1> USE DEF QuietList
<1>1. JobsOk' /\ ZerosFill'
    <2>1. DOMAIN jobs' = 1 .. n /\ Len(jobs') = n
        OBVIOUS
    <2> QED BY <2>1 DEF JobsOk, ZerosFill
<1>2. ASSUME NEW g \in Files PROVE Reaches(g)
    <2>1. End(g) = fileSize[g] /\ Limit(g) = fileSize[g] /\ fileSize[g] \in Nat
        BY Amounts DEF End, Limit, Contents
    <2>2. End(g)' = fileSize[g] /\ Limit(g)' = fileSize[g]
        <3>1. 1 \in 1 .. n /\ n \in 1 .. n
            OBVIOUS
        <3>2. job' = list[1] /\ Last' = list[n]
            BY NextEnds
        <3> QED BY <2>1, <3>1, <3>2 DEF End, Limit, Target, Larger
    <2> QED BY <2>1, <2>2 DEF Reaches
<1>3. LastOk'
    <2>1. Last' = list[n]
        BY NextEnds
    <2> QED BY <2>1 DEF LastOk
<1> QED BY <1>1, <1>2, <1>3 DEF JobsStep

(***************************************************************************)
(* What is in the chunks.                                                  *)
(***************************************************************************)
\* More room is room enough.
LEMMA DataMore ==
    ASSUME NEW c \in FileChunks, NEW b, NEW n, NEW end \in Int, NEW limit \in Int,
           NEW end2 \in Int, NEW limit2 \in Int, end <= end2, limit <= limit2,
           DataOk(c, b, n, end, limit)
    PROVE  DataOk(c, b, n, end2, limit2)
<1>1. PICK start \in Int : start = (c - 1) * BytesPerChunk
    BY Amounts
<1>2. \A k \in Offsets : start + k <= end => start + k <= end2
    BY Amounts
<1>3. n \in 0 .. BytesPerChunk => (start + n <= limit => start + n <= limit2)
    BY Amounts
<1> QED BY <1>1, <1>2, <1>3 DEF DataOk

\* What is on the device, and what is to be, is within the files that reach further.
LEMMA WithinReaches ==
    ASSUME Contents, Within, NEW f \in Files, Reaches(f)
    PROVE  /\ \A c \in FileChunks :
                  nand[f][c] # Hole => DataOk(c, nand[f][c].bytes, nand[f][c].n, End(f)', Limit(f)')
           /\ \A e \in Dirty(f) : DataOk(cache[e].chunk, cache[e].bytes, cache[e].n, End(f)', Limit(f)')
<1>1. PICK end, limit, end2, limit2 \in Int :
          /\ end = End(f) /\ limit = Limit(f) /\ end2 = End(f)' /\ limit2 = Limit(f)'
          /\ end <= end2 /\ limit <= limit2
    BY DEF Reaches
<1>2. ASSUME NEW c \in FileChunks, nand[f][c] # Hole
      PROVE  DataOk(c, nand[f][c].bytes, nand[f][c].n, end2, limit2)
    <2>1. DataOk(c, nand[f][c].bytes, nand[f][c].n, end, limit)
        BY <1>1, <1>2 DEF Within
    <2> QED BY <1>1, <2>1, DataMore
<1>3. ASSUME NEW e \in Dirty(f)
      PROVE  DataOk(cache[e].chunk, cache[e].bytes, cache[e].n, end2, limit2)
    <2>1. DataOk(cache[e].chunk, cache[e].bytes, cache[e].n, end, limit)
        BY <1>1 DEF Within
    <2>2. cache[e].chunk \in FileChunks
        BY CacheAssumption DEF Dirty, Of, Contents, EntryOk
    <2> QED BY <1>1, <2>1, <2>2, DataMore
<1> QED BY <1>1, <1>2, <1>3

\* What is left alone keeps its types.
OthersOk ==
    srLastUse' \in Nat /\ fileSize' \in [Files -> 0 .. MaxSize]
    /\ flushing' \in Files \cup {None} /\ nFreeChunks' \in Int

\* An entry is used.
LEMMA UsedKeeps ==
    ASSUME DataInv, NEW e \in Entries, NEW x, NEW f \in Files, Used(e, x), nand' = nand,
           x.object = f, x.chunk \in FileChunks, x.bytes \in ByteLists,
           ~x.dirty => x.bytes = nand[f][x.chunk].bytes,
           x.dirty => DataOk(x.chunk, x.bytes, x.n, End(f)', Limit(f)'),
           \A g \in Files : Reaches(g), OthersOk
    PROVE  DataInv'
<1>1. \A d \in Entries \ {e} : SameData(cache'[d], cache[d]) /\ cache'[d].lastUse \in Nat
    BY DEF Used
<1>2. SameData(cache'[e], x) /\ cache'[e].lastUse \in Nat
    BY DEF Used
<1>3. \A d \in Entries : EntryOk(cache'[d])
    <2> TAKE d \in Entries
    <2>1. CASE d = e
        BY <1>2, <2>1 DEF SameData, EntryOk
    <2>2. CASE d # e
        <3>1. EntryOk(cache[d])
            BY DEF DataInv, Contents
        <3> QED BY <1>1, <2>2, <3>1 DEF SameData, EntryOk
    <2> QED BY <2>1, <2>2
<1>4. Contents'
    BY <1>3 DEF DataInv, Contents, OthersOk
<1>5. CleanIsSaved'
    <2> SUFFICES ASSUME NEW g \in Files, NEW d \in Entries, cache'[d].object = g, ~cache'[d].dirty
                 PROVE  cache'[d].bytes = nand[g][cache'[d].chunk].bytes
        BY DEF CleanIsSaved, Of
    <2>1. CASE d = e
        BY <1>2, <2>1 DEF SameData
    <2>2. CASE d # e
        <3>1. cache[d].object = g /\ ~cache[d].dirty /\ cache'[d].bytes = cache[d].bytes
              /\ cache'[d].chunk = cache[d].chunk
            BY <1>1, <2>2 DEF SameData
        <3> QED BY <3>1 DEF DataInv, CleanIsSaved, Of
    <2> QED BY <2>1, <2>2
<1>6. Within'
    <2> SUFFICES ASSUME NEW g \in Files
                 PROVE  /\ \A c \in FileChunks : nand[g][c] # Hole =>
                               DataOk(c, nand[g][c].bytes, nand[g][c].n, End(g)', Limit(g)')
                        /\ \A d \in Entries : cache'[d].object = g /\ cache'[d].dirty =>
                               DataOk(cache'[d].chunk, cache'[d].bytes, cache'[d].n, End(g)', Limit(g)')
        BY DEF Within, Dirty, Of
    <2>1. /\ \A c \in FileChunks : nand[g][c] # Hole =>
                 DataOk(c, nand[g][c].bytes, nand[g][c].n, End(g)', Limit(g)')
          /\ \A d \in Dirty(g) : DataOk(cache[d].chunk, cache[d].bytes, cache[d].n, End(g)', Limit(g)')
        BY WithinReaches DEF DataInv
    <2>2. ASSUME NEW d \in Entries, cache'[d].object = g, cache'[d].dirty
          PROVE  DataOk(cache'[d].chunk, cache'[d].bytes, cache'[d].n, End(g)', Limit(g)')
        <3>1. CASE d = e
            BY <1>2, <2>2, <3>1 DEF SameData
        <3>2. CASE d # e
            <4>1. /\ d \in Dirty(g) /\ cache'[d].bytes = cache[d].bytes /\ cache'[d].n = cache[d].n
                  /\ cache'[d].chunk = cache[d].chunk
                BY <1>1, <2>2, <3>2 DEF SameData, Dirty, Of
            <4> QED BY <2>1, <4>1
        <3> QED BY <3>1, <3>2
    <2> QED BY <2>1, <2>2
<1> QED BY <1>4, <1>5, <1>6 DEF DataInv

\* Entries are taken out, or none; the device may have changed where no clean entry
\* is left.
Taken(S) ==
    /\ \A e \in Entries : cache'[e] = IF e \in S THEN Unused ELSE cache[e]
    /\ nand' \in [Files -> [FileChunks -> [bytes : ByteLists, n : 0 .. BytesPerChunk]]]
    /\ \A f \in Files : \A e \in Of(f) \ S : ~cache[e].dirty =>
           nand'[f][cache[e].chunk].bytes = nand[f][cache[e].chunk].bytes
    /\ \A f \in Files : \A c \in FileChunks : nand'[f][c] # Hole =>
           DataOk(c, nand'[f][c].bytes, nand'[f][c].n, End(f)', Limit(f)')
    /\ \A f \in Files : Reaches(f) \/ Of(f) \subseteq S
\* Taking what a step takes, from the entries S alone, keeps what entries and chunks hold.
LEMMA TakenKeeps ==
    ASSUME DataInv, NEW S, Taken(S), OthersOk
    PROVE  DataInv'
<1> USE DEF Taken
<1>1. EntryOk(Unused) /\ Unused.object \notin Files
    <2>1. Zeros \in ByteLists
        BY DEF Zeros, ByteLists, Offsets, Bytes
    <2> QED BY <2>1, CacheAssumption DEF Unused, EntryOk
<1>2. \A e \in Entries : EntryOk(cache'[e])
    BY <1>1 DEF DataInv, Contents
<1>3. Contents'
    BY <1>2 DEF Contents, OthersOk
<1>4. CleanIsSaved'
    <2> SUFFICES ASSUME NEW g \in Files, NEW d \in Entries, cache'[d].object = g, ~cache'[d].dirty
                 PROVE  cache'[d].bytes = nand'[g][cache'[d].chunk].bytes
        BY DEF CleanIsSaved, Of
    <2>1. d \in Of(g) \ S /\ cache'[d] = cache[d]
        BY <1>1 DEF Of
    <2>2. cache[d].bytes = nand[g][cache[d].chunk].bytes
        BY <2>1 DEF DataInv, CleanIsSaved
    <2> QED BY <2>1, <2>2
<1>5. Within'
    <2> SUFFICES ASSUME NEW g \in Files, NEW d \in Entries, cache'[d].object = g, cache'[d].dirty
                 PROVE  DataOk(cache'[d].chunk, cache'[d].bytes, cache'[d].n, End(g)', Limit(g)')
        BY DEF Within, Dirty, Of
    <2>1. d \in Dirty(g) /\ d \in Of(g) \ S /\ cache'[d] = cache[d]
        BY <1>1 DEF Of, Dirty
    <2>2. Reaches(g)
        BY <2>1
    <2> QED BY <2>1, <2>2, WithinReaches DEF DataInv
<1> QED BY <1>3, <1>4, <1>5 DEF DataInv

(***************************************************************************)
(* What the jobs promise.                                                  *)
(***************************************************************************)
\* The same jobs, as far as they have got.
SameKinds ==
    /\ Len(jobs') = Len(jobs) /\ DOMAIN jobs' = DOMAIN jobs /\ jobs' # <<>>
    /\ \A i \in DOMAIN jobs : jobs'[i].kind = jobs[i].kind /\ jobs'[i].file = jobs[i].file

\* Replacing the first job by one of the same kind and file.
LEMMA HeadKinds ==
    ASSUME Typed, jobs # <<>>, NEW next, jobs' = [jobs EXCEPT ![1] = next],
           next.kind = job.kind, next.file = job.file
    PROVE  SameKinds /\ job' = next
<1>1. jobs \in Seq(JobRecords) /\ Len(jobs) \in Nat /\ Len(jobs) >= 1 /\ DOMAIN jobs = 1 .. Len(jobs)
      /\ job = jobs[1]
    BY DEF Typed, job
<1>2. Len(jobs') = Len(jobs) /\ DOMAIN jobs' = DOMAIN jobs /\ jobs' # <<>>
    BY <1>1
<1>3. jobs'[1] = next /\ \A i \in DOMAIN jobs \ {1} : jobs'[i] = jobs[i]
    BY <1>1
<1>4. job' = next
    BY <1>3, NextEnds
<1> QED BY <1>1, <1>2, <1>3, <1>4 DEF SameKinds

\* What has been promised, about the file of the last job.
LEMMA PromisesAre ==
    ASSUME NEW g \in Files, jobs' # <<>> => Last'.file = g,
           jobs' # <<>> /\ Last'.kind \in {"resize", "synced"} =>
               /\ \A i \in DOMAIN jobs' : jobs'[i].kind \notin {"write", "zeros"}
               /\ Dirty(g)' = {} \/ flushing' = g \/ FlushIn(jobs', g, Len(jobs') - 1)
    PROVE  Promises'
<1>1. jobs' # <<>> => (Dirty(g)' = {} => Dirty(Last.file)' = {})
    BY DEF Dirty, Of
<1> QED BY <1>1 DEF Promises

\* What was promised to the request that ends the list: no write is left, and what is dirty
\* is being flushed or is to be.
LEMMA PromisesWere ==
    ASSUME NEW g \in Files, jobs # <<>>, Last.file = g, Promises, Last.kind \in {"resize", "synced"}
    PROVE  /\ \A i \in DOMAIN jobs : jobs[i].kind \notin {"write", "zeros"}
           /\ Dirty(g) = {} \/ flushing = g \/ FlushIn(jobs, g, Len(jobs) - 1)
BY DEF Promises

\* A promise is kept while no more is dirty and no flush is broken off.
LEMMA PromisesKept ==
    ASSUME Typed, JobsOk, Promises, jobs # <<>>, SameKinds,
           (\A f \in Files : Dirty(f)' \subseteq Dirty(f)) \/ job.kind \in {"write", "zeros"},
           flushing' = flushing \/ flushing = None \/ \E f \in Files : flushing = f /\ Dirty(f)' = {}
    PROVE  Promises'
<1>1. /\ Len(jobs) \in Nat /\ Len(jobs) >= 1 /\ DOMAIN jobs = 1 .. Len(jobs) /\ job = jobs[1]
      /\ Len(jobs) \in DOMAIN jobs /\ 1 \in DOMAIN jobs /\ Last \in JobRecords
    BY HeadOk DEF Last
<1>2. Last'.kind = Last.kind /\ Last'.file = Last.file
    BY <1>1, NextEnds DEF SameKinds, Last
<1>5. PICK g \in Files : g = Last.file
    BY <1>1 DEF JobRecords
<1> SUFFICES ASSUME Last.kind \in {"resize", "synced"}
             PROVE  /\ \A i \in DOMAIN jobs : jobs'[i].kind \notin {"write", "zeros"}
                    /\ Dirty(g)' = {} \/ flushing' = g \/ FlushIn(jobs', g, Len(jobs) - 1)
    BY <1>2, <1>5, PromisesAre DEF SameKinds
<1>3. /\ \A i \in DOMAIN jobs : jobs[i].kind \notin {"write", "zeros"}
      /\ Dirty(g) = {} \/ flushing = g \/ FlushIn(jobs, g, Len(jobs) - 1)
    BY <1>5, PromisesWere
<1>4. \A f \in Files : Dirty(f)' \subseteq Dirty(f)
    BY <1>1, <1>3
<1>6. FlushIn(jobs, g, Len(jobs) - 1) => FlushIn(jobs', g, Len(jobs) - 1)
    <2>1. \A i \in 1 .. Len(jobs) - 1 : i \in DOMAIN jobs
        BY <1>1
    <2> QED BY <2>1 DEF FlushIn, SameKinds
<1>7. Dirty(g) = {} => Dirty(g)' = {}
    BY <1>4
<1>8. flushing = g => flushing' = g \/ Dirty(g)' = {}
    BY <1>5, CacheAssumption
<1> QED BY <1>3, <1>6, <1>7, <1>8 DEF SameKinds

\* A job is done that has flushed what it was to.
LEMMA TailPromises ==
    ASSUME Typed, JobsOk, Promises, jobs # <<>>, jobs' = Tail(jobs),
           (\A f \in Files : Dirty(f)' \subseteq Dirty(f)) \/ job.kind \in {"write", "zeros"},
           IF job.kind = "flush" THEN flushing = None /\ flushing' = job.file ELSE flushing' = flushing,
           job.kind = "flushall" => \A f \in Files : Dirty(f) = {}
    PROVE  Promises'
<1>1. /\ Len(jobs) \in Nat /\ Len(jobs) >= 1 /\ DOMAIN jobs = 1 .. Len(jobs) /\ job = jobs[1]
      /\ Len(jobs) \in DOMAIN jobs /\ 1 \in DOMAIN jobs /\ Last \in JobRecords
    BY HeadOk DEF Last
<1>2. PICK g \in Files : g = Last.file
    BY <1>1 DEF JobRecords
<1>3. CASE jobs' = <<>>
    BY <1>3 DEF Promises
<1>4. CASE jobs' # <<>>
    <2>1. /\ Last' = Last /\ Len(jobs') = Len(jobs) - 1 /\ DOMAIN jobs' = 1 .. Len(jobs) - 1
          /\ \A k \in 1 .. Len(jobs) - 1 : k + 1 \in 2 .. Len(jobs) /\ jobs'[k] = jobs[k + 1]
        BY <1>1, <1>4, TailIs
    <2> SUFFICES ASSUME Last.kind \in {"resize", "synced"}
                 PROVE  /\ \A i \in 1 .. Len(jobs) - 1 : jobs'[i].kind \notin {"write", "zeros"}
                        /\ Dirty(g)' = {} \/ flushing' = g \/ FlushIn(jobs', g, Len(jobs') - 1)
        BY <1>2, <2>1, PromisesAre
    <2>2. /\ \A i \in DOMAIN jobs : jobs[i].kind \notin {"write", "zeros"}
          /\ Dirty(g) = {} \/ flushing = g \/ FlushIn(jobs, g, Len(jobs) - 1)
        BY <1>2, PromisesWere
    <2>3. \A f \in Files : Dirty(f)' \subseteq Dirty(f)
        BY <1>1, <2>2
    <2>4. \A i \in 1 .. Len(jobs) - 1 : jobs'[i].kind \notin {"write", "zeros"}
        <3> TAKE i \in 1 .. Len(jobs) - 1
        <3>1. i + 1 \in DOMAIN jobs /\ jobs'[i] = jobs[i + 1]
            BY <1>1, <2>1
        <3> QED BY <2>2, <3>1
    <2>5. ASSUME FlushIn(jobs, g, Len(jobs) - 1)
          PROVE  Dirty(g)' = {} \/ flushing' = g \/ FlushIn(jobs', g, Len(jobs') - 1)
        <3>1. PICK i \in 1 .. Len(jobs) - 1 :
                  jobs[i].kind = "flushall" \/ (jobs[i].kind = "flush" /\ jobs[i].file = g)
            BY <2>5 DEF FlushIn
        <3>2. CASE i = 1
            BY <1>1, <1>2, <2>3, <3>1, <3>2
        <3>3. CASE i # 1
            <4>1. PICK k \in 1 .. Len(jobs) - 2 : k + 1 = i
                <5>1. i - 1 \in 1 .. Len(jobs) - 2 /\ (i - 1) + 1 = i
                    BY <1>1, <3>1, <3>3
                <5> QED BY <5>1
            <4>2. k \in 1 .. Len(jobs') - 1 /\ jobs'[k] = jobs[i]
                BY <1>1, <2>1, <4>1
            <4>3. FlushIn(jobs', g, Len(jobs') - 1)
                BY <3>1, <4>2 DEF FlushIn
            <4> QED BY <4>3
        <3> QED BY <3>2, <3>3
    <2>6. Dirty(g) = {} => Dirty(g)' = {}
        BY <2>3
    <2>7. flushing = g => flushing' = g
        BY <1>2, CacheAssumption
    <2> QED BY <2>2, <2>4, <2>5, <2>6, <2>7
<1> QED BY <1>3, <1>4

\* The next job has flushed nothing.
LEMMA FreshHead ==
    ASSUME Typed, JobsOk, jobs # <<>>, jobs' = Tail(jobs)
    PROVE  FlushFrees'
<1>1. jobs' # <<>> => job'.step = "chunk"
    <2> SUFFICES ASSUME jobs' # <<>> PROVE job'.step = "chunk"
        OBVIOUS
    <2>1. job' = jobs[2] /\ 2 \in DOMAIN jobs
        BY TailIs, HeadOk
    <2> QED BY <2>1 DEF JobsOk
<1> QED BY <1>1 DEF FlushFrees

(***************************************************************************)
(* Steps of the jobs, and what a reader sees of them.                      *)
(***************************************************************************)
Unseen == UNCHANGED <<SeenBytes, SavedBytes, fileSize, status, got, Asking>>

\* A step in which nothing is seen is a stutter of the buffered files.
LEMMA UnseenStep == Unseen => UNCHANGED Plain!vars
BY DEF Unseen, Plain!vars

\* What is asked for is the last job.
LEMMA AskingIs ==
    /\ jobs = <<>> => Asking = Plain!NoRequest
    /\ jobs # <<>> => Asking = Asked(Last)
    /\ jobs' = <<>> => Asking' = Plain!NoRequest
    /\ jobs' # <<>> => Asking' = Asked(Last')
    /\ jobs' = jobs => Asking' = Asking
BY DEF Asking, Last, Plain!NoRequest

\* The request is over with its last job.
LEMMA AskingTail ==
    ASSUME Typed, jobs # <<>>, jobs' = Tail(jobs)
    PROVE  /\ Len(jobs) = 1 => Asking = Asked(job) /\ Asking' = Plain!NoRequest
           /\ Len(jobs) # 1 => Asking' = Asking
<1>1. Len(jobs) \in Nat /\ Len(jobs) >= 1 /\ job = jobs[1]
    BY DEF Typed, job
<1>2. CASE Len(jobs) = 1
    <2>1. Last = job
        BY <1>1, <1>2 DEF Last
    <2> QED BY <1>2, <2>1, TailIs, AskingIs
<1>3. CASE Len(jobs) # 1
    <2>1. jobs' # <<>> /\ Last' = Last
        BY <1>1, <1>3, TailIs
    <2> QED BY <1>3, <2>1, AskingIs
<1> QED BY <1>2, <1>3

\* It goes on with its last job.
LEMMA AskingHead ==
    ASSUME Typed, jobs # <<>>, NEW next, jobs' = [jobs EXCEPT ![1] = next]
    PROVE  /\ Len(jobs) = 1 => Asking = Asked(job) /\ Asking' = Asked(next)
           /\ Len(jobs) # 1 => Asking' = Asking
<1>1. /\ Len(jobs) \in Nat /\ Len(jobs) >= 1 /\ job = jobs[1] /\ jobs \in Seq(JobRecords)
      /\ DOMAIN jobs = 1 .. Len(jobs)
    BY DEF Typed, job
<1>2. Len(jobs') = Len(jobs) /\ jobs' # <<>> /\ jobs'[1] = next
    BY <1>1
<1>3. Last' = jobs'[Len(jobs)]
    BY <1>2, NextEnds
<1>4. CASE Len(jobs) = 1
    <2>1. Last = job /\ Last' = next
        BY <1>1, <1>2, <1>3, <1>4 DEF Last
    <2> QED BY <1>2, <1>4, <2>1, AskingIs
<1>5. CASE Len(jobs) # 1
    <2>1. Last' = Last
        BY <1>1, <1>3, <1>5 DEF Last
    <2> QED BY <1>2, <1>5, <2>1, AskingIs
<1> QED BY <1>4, <1>5

\* While zeros are written the request itself has not begun.
LEMMA Filling ==
    ASSUME Typed, Contents, JobsOk, ZerosFill, jobs # <<>>, job.kind = "zeros"
    PROVE  /\ Len(jobs) # 1 /\ Last.kind \in {"write", "extend"} /\ Last.file = job.file
           /\ Plain!Fills(job.file) /\ Asking.at = Target(Last) /\ Asking.at \in Nat
           /\ Asking.was = job.was /\ job.off + job.n <= Asking.at
<1>1. /\ job = jobs[1] /\ 1 \in DOMAIN jobs /\ DOMAIN jobs = 1 .. Len(jobs) /\ Len(jobs) \in Nat
      /\ Len(jobs) >= 1
    BY HeadOk
<1>2. Fills(job, job, Last, fileSize)
    BY <1>1 DEF ZerosFill
<1>3. Len(jobs) # 1
    BY <1>1, <1>2 DEF Fills, Last
<1>4. Last.done = 0 /\ JobOk(Last, status)
    BY <1>1, <1>3 DEF JobsOk, Last
<1>5. Target(Last) \in Nat
    BY Ends
<1>6. Asking = Asked(Last)
    BY AskingIs
<1>7. Asking.at = Target(Last) /\ Asking.off = Asking.at /\ Asking.was = job.was /\ Asking.file = job.file
      /\ Asking.kind \in {"write", "resize"}
    BY <1>2, <1>4, <1>6 DEF Asked, Fills, Target, JobOk
<1>8. Plain!Fills(job.file)
    BY <1>2, <1>7 DEF Fills, Plain!Fills, Plain!Asks, Plain!Untouched
<1> QED BY <1>2, <1>3, <1>5, <1>7, <1>8 DEF Fills

\* Neither an entry nor the device is touched.
LEMMA CacheStands ==
    ASSUME DataInv, UNCHANGED <<cache, srLastUse, nand>>, OthersOk, \A f \in Files : Reaches(f)
    PROVE  /\ DataInv' /\ SeenBytes' = SeenBytes /\ SavedBytes' = SavedBytes
           /\ \A f \in Files : Dirty(f)' = Dirty(f)
<1>1. \A f \in Files : Dirty(f)' = Dirty(f) /\ Of(f)' = Of(f)
    BY DEF Dirty, Of
<1>4. \A f \in Files : \A c \in FileChunks : nand'[f][c] # Hole =>
          DataOk(c, nand'[f][c].bytes, nand'[f][c].n, End(f)', Limit(f)')
    <2> TAKE f \in Files
    <2> QED BY WithinReaches DEF DataInv
<1>5. DataInv'
    <2>1. Taken({})
        BY <1>4 DEF Taken, DataInv, Contents
    <2> QED BY <2>1, TakenKeeps
<1>6. \A f \in Files, c \in FileChunks : Seen(f, c)' = Seen(f, c)
    BY DEF Seen, Find, Of
<1> QED BY <1>1, <1>5, <1>6, SeenKept, SavedKept

\* A flush begins or goes on while the jobs stay as they are.
LEMMA SameJobs ==
    ASSUME Typed, Contents, JobsOk, ZerosFill, UNCHANGED <<jobs, fileSize, status>>
    PROVE  JobsStep /\ (jobs # <<>> => SameKinds /\ job' = job)
<1>1. JobsOk' /\ ZerosFill'
    BY DEF JobsOk, ZerosFill, JobOk, Fills, Last, job
<1>2. \A f \in Files : End(f)' = End(f) /\ Limit(f)' = Limit(f)
    BY DEF End, Limit, Last, job
<1>3. \A f \in Files : Reaches(f)
    BY <1>2, Ends DEF Reaches
<1>4. LastOk => LastOk'
    BY DEF LastOk, Last
<1> QED BY <1>1, <1>3, <1>4 DEF JobsStep, SameKinds, job

\* The end of a flush (yaffs_FlushFilesChunkCache) is not seen.
LEMMA FlushEndsStep ==
    ASSUME FInv, FlushEnds
    PROVE  DataInv' /\ JobsInv' /\ Unseen
<1>1. /\ UNCHANGED <<cache, srLastUse, nand, nFreeChunks, fileSize, jobs, status, got>>
      /\ flushing' = None /\ flushing # None /\ Dirty(flushing) = {}
    BY DEF FlushEnds, store
<1>2. IInv /\ DataInv /\ JobsOk /\ ZerosFill /\ Promises /\ FlushFrees /\ Contents /\ Typed
    BY DEF FInv, JobsInv, DataInv, IInv
<1>3. JobsStep /\ (jobs # <<>> => SameKinds /\ job' = job)
    BY <1>1, <1>2, SameJobs
<1>4. OthersOk
    BY <1>1, <1>2 DEF OthersOk, Contents
<1>5. DataInv' /\ SeenBytes' = SeenBytes /\ SavedBytes' = SavedBytes
      /\ \A f \in Files : Dirty(f)' = Dirty(f)
    BY <1>1, <1>2, <1>3, <1>4, CacheStands DEF JobsStep
<1>6. Promises'
    <2>1. CASE jobs = <<>>
        BY <1>1, <2>1 DEF Promises
    <2>2. CASE jobs # <<>>
        <3>1. PICK f \in Files : flushing = f
            BY <1>1, <1>2 DEF Contents
        <3>2. Dirty(f)' = {}
            BY <1>1, <1>5, <3>1
        <3> QED BY <1>2, <1>3, <1>5, <2>2, <3>1, <3>2, PromisesKept
    <2> QED BY <2>1, <2>2
<1>7. FlushFrees'
    <2>1. Empty' = Empty
        BY <1>1 DEF Empty, Of
    <2> QED BY <1>1, <1>2, <1>3, <2>1 DEF FlushFrees
<1> QED BY <1>1, <1>3, <1>5, <1>6, <1>7, AskingIs DEF FInv, JobsStep, JobsInv, Unseen

\* The entry that was longest not used is an entry.
LEMMA LeastUsedIs ==
    ASSUME Contents
    PROVE  LeastUsed \in Entries
<1> DEFINE Uses == {cache[e].lastUse : e \in Entries}
           Oldest == {e \in Entries : \A d \in Entries : cache[e].lastUse <= cache[d].lastUse}
<1>1. \A e \in Entries : cache[e].lastUse \in Nat
    BY DEF Contents, EntryOk
<1>2. Uses \subseteq Nat /\ Uses # {}
    <2>1. 1 \in Entries
        BY Amounts DEF Entries
    <2> QED BY <1>1, <2>1
<1>3. PICK m \in Uses : \A k \in Uses : m <= k
    BY <1>2, SmallestIs
<1>4. PICK e \in Entries : m = cache[e].lastUse
    BY <1>3
<1>5. e \in Oldest /\ Oldest \subseteq Entries
    BY <1>3, <1>4
<1>6. First(Oldest) \in Oldest
    <2> HIDE DEF Oldest
    <2> QED BY <1>5, FirstIs
<1> QED BY <1>5, <1>6 DEF LeastUsed

\* With no entry free the least used one is of a file.
LEMMA PushedOut ==
    ASSUME Contents, Empty = {}
    PROVE  LeastUsed \in Entries /\ cache[LeastUsed].object \in Files
<1>1. LeastUsed \in Entries
    BY LeastUsedIs
<1>2. EntryOk(cache[LeastUsed]) /\ LeastUsed \notin Of(None)
    BY <1>1 DEF Contents, Empty
<1> QED BY <1>1, <1>2 DEF EntryOk, Of

\* A job is marked, or steps on.
LEMMA MarkedIs ==
    ASSUME Typed, jobs # <<>>, NEW step \in {"chunk", "flushed", "short"}
    PROVE  \E next : /\ [jobs EXCEPT ![1].step = step] = [jobs EXCEPT ![1] = next]
                     /\ next.kind = job.kind /\ next.file = job.file /\ next.off = job.off /\ next.n = job.n
                     /\ next.v = job.v /\ next.was = job.was /\ next.done = job.done /\ next.step = step
<1>1. job = jobs[1] /\ job \in JobRecords /\ 1 \in DOMAIN jobs
    BY HeadTyped DEF Typed, job
<1> WITNESS [jobs[1] EXCEPT !.step = step]
<1> QED BY <1>1 DEF JobRecords

\* What the first job becomes when one chunk of it is done.
LEMMA SteppedIs ==
    ASSUME Typed, jobs # <<>>, Length \in Nat
    PROVE  \E next : /\ Stepped = [jobs EXCEPT ![1] = next]
                     /\ next.kind = job.kind /\ next.file = job.file /\ next.off = job.off /\ next.n = job.n
                     /\ next.v = job.v /\ next.was = job.was /\ next.done = job.done + Length
                     /\ next.step = "chunk"
<1>1. job = jobs[1] /\ job \in JobRecords /\ 1 \in DOMAIN jobs
    BY HeadTyped DEF Typed, job
<1> WITNESS [jobs[1] EXCEPT !.done = @ + Length, !.step = "chunk"]
<1> QED BY <1>1 DEF JobRecords, Stepped

\* The write or read is at the chunk the job is at.
LEMMA Served ==
    ASSUME Typed, JobsOk, jobs # <<>>, job.kind \in {"write", "read"}, More
    PROVE  /\ Len(jobs) = 1 /\ Plain!Asks(job.kind, job.file) /\ Asking.v = job.v
           /\ Asking.at = (Chunk - 1) * BytesPerChunk + From /\ Asking.at \in Nat
           /\ Plain!InService /\ Plain!Current = Chunk /\ Plain!Reached = Asking.at + Length
<1>1. /\ job = jobs[1] /\ 1 \in DOMAIN jobs /\ DOMAIN jobs = 1 .. Len(jobs) /\ Len(jobs) \in Nat
      /\ JobOk(job, status)
    BY HeadOk
<1>2. Len(jobs) = 1
    BY <1>1 DEF JobsOk, Endings
<1>3. Asking = Asked(job)
    BY <1>1, <1>2, AskingIs DEF Last
<1>4. /\ Pos \in Nat /\ From \in 0 .. BytesPerChunk - 1 /\ Chunk \in FileChunks
      /\ Pos = (Chunk - 1) * BytesPerChunk + From
    BY Span
<1>5. /\ Asking.kind = job.kind /\ Asking.file = job.file /\ Asking.v = job.v /\ Asking.at = Pos
      /\ Asking.end = job.off + job.n
    BY <1>3 DEF Asked, Pos, More
<1>6. PICK at, left \in Nat : /\ at = Pos /\ left >= 1 /\ left = job.n - job.done
                              /\ job.off + job.n = at + left
    <2>1. PICK o, d, n \in Nat : o = job.off /\ d = job.done /\ n = job.n /\ d < n
        BY <1>1 DEF JobOk, More
    <2>2. PICK l \in Nat : l = n - d /\ l >= 1
        BY <2>1
    <2>3. o + d \in Nat /\ n = d + l
        BY <2>1, <2>2
    <2>4. o + n = (o + d) + l
        BY <2>3
    <2> QED BY <2>1, <2>2, <2>3, <2>4 DEF Pos
<1>7. Plain!InService
    BY <1>5, <1>6 DEF Plain!InService
<1>8. Plain!Current = Chunk
    <2>1. at + 1 - 1 = at
        BY <1>6
    <2> QED BY <1>5, <1>6, <2>1 DEF Plain!Current, Plain!ChunkOf, Chunk
<1>9. Chunk * BytesPerChunk = at - From + BytesPerChunk
    <2>1. PICK q \in Nat : Chunk = q + 1
        BY <1>4, Amounts DEF FileChunks
    <2>2. PICK m \in Nat : m = q * BytesPerChunk
        BY Amounts
    <2>3. Chunk * BytesPerChunk = m + BytesPerChunk /\ (Chunk - 1) * BytesPerChunk = m
        BY <2>1, <2>2, Amounts
    <2> QED BY <1>4, <1>6, <2>2, <2>3, Amounts
<1>10. Plain!Reached = at + Length
    <2>1. PICK from \in 0 .. BytesPerChunk - 1 : from = From
        BY <1>4
    <2>2. Length = IF left < BytesPerChunk - from THEN left ELSE BytesPerChunk - from
        BY <1>6, <2>1 DEF Length, Smaller
    <2>3. Plain!Reached = IF at + left < at - from + BytesPerChunk THEN at + left ELSE at - from + BytesPerChunk
        BY <1>5, <1>6, <1>8, <1>9, <2>1 DEF Plain!Reached
    <2> QED BY <1>6, <2>1, <2>2, <2>3, Amounts
<1> QED BY <1>2, <1>4, <1>5, <1>6, <1>7, <1>8, <1>10 DEF Plain!Asks

\* It gets through the chunk.
LEMMA ServedOn ==
    ASSUME Typed, JobsOk, jobs # <<>>, job.kind \in {"write", "read"}, More, jobs' = Stepped
    PROVE  Asking' = [Asking EXCEPT !.at = Plain!Reached]
<1>1. Len(jobs) = 1 /\ Plain!Reached = Asking.at + Length
    BY Served
<1>2. Length \in Nat /\ JobOk(job, status)
    BY Span, HeadOk
<1>3. PICK next : /\ jobs' = [jobs EXCEPT ![1] = next]
                  /\ next.kind = job.kind /\ next.file = job.file /\ next.off = job.off /\ next.n = job.n
                  /\ next.v = job.v /\ next.was = job.was /\ next.done = job.done + Length
                  /\ next.step = "chunk"
    BY <1>2, SteppedIs
<1>4. Asking = Asked(job) /\ Asking' = Asked(next)
    BY <1>1, <1>3, AskingHead
<1>5. next.off + next.done = Asking.at + Length
    BY <1>2, <1>3, <1>4 DEF JobOk, Asked
<1> QED BY <1>1, <1>3, <1>4, <1>5 DEF Asked, More

\* It is refused.
LEMMA ServedShort ==
    ASSUME Typed, JobsOk, jobs # <<>>, job.kind = "write", More, jobs' = [jobs EXCEPT ![1].step = "short"]
    PROVE  Asking' = [Asking EXCEPT !.end = Asking.at]
<1>1. Len(jobs) = 1
    BY Served
<1>2. PICK next : /\ jobs' = [jobs EXCEPT ![1] = next]
                  /\ next.kind = job.kind /\ next.file = job.file /\ next.off = job.off /\ next.n = job.n
                  /\ next.v = job.v /\ next.was = job.was /\ next.done = job.done /\ next.step = "short"
    BY MarkedIs
<1>3. Asking = Asked(job) /\ Asking' = Asked(next)
    BY <1>1, <1>2, AskingHead
<1> QED BY <1>2, <1>3 DEF Asked, More

\* The entry the cache gives up must be flushed first.
LEMMA FlushFirstStep ==
    ASSUME FInv, MustFlush, flushing = None, jobs # <<>>, job.kind \in {"write", "zeros", "read"}, More,
           FlushFirst(cache[LeastUsed].object, [jobs EXCEPT ![1].step = "flushed"])
    PROVE  DataInv' /\ JobsInv' /\ Unseen
<1>1. PICK f \in Files : f = cache[LeastUsed].object
    BY PushedOut DEF MustFlush, FInv, DataInv
<1>2. /\ flushing' = f /\ jobs' = [jobs EXCEPT ![1].step = "flushed"]
      /\ UNCHANGED <<cache, srLastUse, nand, nFreeChunks, fileSize, status, got>>
    BY <1>1 DEF FlushFirst, store
<1>3. IInv /\ DataInv /\ JobsOk /\ ZerosFill /\ Promises /\ FlushFrees /\ Contents /\ Typed
    BY DEF FInv, JobsInv, DataInv, IInv
<1>4. PICK next : /\ jobs' = [jobs EXCEPT ![1] = next]
                  /\ next.kind = job.kind /\ next.file = job.file /\ next.off = job.off /\ next.n = job.n
                  /\ next.v = job.v /\ next.was = job.was /\ next.done = job.done /\ next.step = "flushed"
    BY <1>2, <1>3, MarkedIs
<1>5. job.done \in job.done .. job.n
    BY <1>3, HeadOk DEF JobOk
<1>6. JobsStep
    BY <1>2, <1>3, <1>4, <1>5, HeadChanges
<1>7. OthersOk
    BY <1>2, <1>3 DEF OthersOk, Contents
<1>8. DataInv' /\ SeenBytes' = SeenBytes /\ SavedBytes' = SavedBytes
      /\ \A g \in Files : Dirty(g)' = Dirty(g)
    BY <1>2, <1>3, <1>6, <1>7, CacheStands DEF JobsStep
<1>9. SameKinds /\ job' = next
    BY <1>3, <1>4, HeadKinds
<1>10. Promises'
    BY <1>3, <1>8, <1>9, PromisesKept
<1>11. FlushFrees'
    <2>1. LeastUsed \in Dirty(f)
        BY <1>1, <1>3, PushedOut DEF MustFlush, Dirty, Of
    <2> QED BY <1>2, <1>8, <2>1 DEF FlushFrees
<1>12. Asking' = Asking
    <2>1. Asked(next) = Asked(job)
        BY <1>4 DEF Asked, More
    <2> QED BY <1>3, <1>4, <2>1, AskingHead
<1> QED BY <1>2, <1>6, <1>8, <1>10, <1>11, <1>12 DEF FInv, JobsStep, JobsInv, Unseen

\* A job is done that has left the cache and the device as they are.
LEMMA DoneStep ==
    ASSUME FInv, jobs # <<>>, job.kind \notin {"write", "zeros", "extend"}, jobs' = Tail(jobs),
           UNCHANGED <<cache, srLastUse, nand, nFreeChunks, fileSize>>,
           IF job.kind = "flush" THEN flushing = None /\ flushing' = job.file ELSE flushing' = flushing,
           job.kind = "flushall" => \A f \in Files : Dirty(f) = {}
    PROVE  DataInv' /\ JobsInv' /\ SeenBytes' = SeenBytes /\ SavedBytes' = SavedBytes
<1>3. IInv /\ DataInv /\ JobsOk /\ ZerosFill /\ Promises /\ FlushFrees /\ Contents /\ Typed
    BY DEF FInv, JobsInv, DataInv, IInv
<1>6. JobsStep
    BY <1>3, TailStep
<1>7. OthersOk
    BY <1>3, HeadOk DEF OthersOk, Contents
<1>8. DataInv' /\ SeenBytes' = SeenBytes /\ SavedBytes' = SavedBytes
      /\ \A g \in Files : Dirty(g)' = Dirty(g)
    BY <1>3, <1>6, <1>7, CacheStands DEF JobsStep
<1>10. Promises'
    BY <1>3, <1>8, TailPromises
<1>11. FlushFrees'
    BY <1>3, FreshHead
<1> QED BY <1>6, <1>8, <1>10, <1>11 DEF FInv, JobsStep, JobsInv

\* The end of a read.
LEMMA ReadEndsStep ==
    ASSUME FInv, ReadEnds
    PROVE  DataInv' /\ JobsInv' /\ Plain!Next
<1>1. /\ jobs # <<>> /\ job.kind = "read" /\ jobs' = Tail(jobs) /\ ~More
      /\ UNCHANGED <<cache, srLastUse, nand, nFreeChunks, fileSize, flushing, status, got>>
    BY DEF ReadEnds, Serving, store
<1>2. DataInv' /\ JobsInv' /\ SeenBytes' = SeenBytes /\ SavedBytes' = SavedBytes
    BY <1>1, DoneStep
<1>3. /\ job = jobs[1] /\ 1 \in DOMAIN jobs /\ job.file \in Files /\ JobOk(job, status) /\ Typed /\ JobsOk
    BY <1>1, HeadOk DEF FInv, IInv, JobsInv
<1>4. Len(jobs) = 1
    BY <1>1, <1>3 DEF JobsOk, Endings
<1>5. Asking = Asked(job) /\ Asking' = Plain!NoRequest
    BY <1>1, <1>3, <1>4, AskingTail
<1>6. Plain!Asks("read", job.file) /\ ~Plain!InService
    BY <1>1, <1>3, <1>5 DEF Asked, Plain!Asks, Plain!InService, More, JobOk
<1> QED BY <1>1, <1>2, <1>3, <1>5, <1>6, NothingStep

\* Writing the header of a file is not seen.
LEMMA WriteHeaderStep ==
    ASSUME FInv, WriteHeader
    PROVE  DataInv' /\ JobsInv' /\ (Plain!Next \/ Unseen)
<1>1. /\ jobs # <<>> /\ job.kind = "header" /\ jobs' = Tail(jobs)
      /\ UNCHANGED <<cache, srLastUse, nand, nFreeChunks, fileSize, flushing, status, got>>
    BY DEF WriteHeader, Serving, store
<1>2. DataInv' /\ JobsInv' /\ SeenBytes' = SeenBytes /\ SavedBytes' = SavedBytes
    BY <1>1, DoneStep
<1>3. job.file \in Files /\ JobOk(job, status) /\ Typed
    BY <1>1, HeadOk DEF FInv, IInv, JobsInv
<1>4. CASE Len(jobs) = 1
    <2>1. Asking = Asked(job) /\ Asking' = Plain!NoRequest
        BY <1>1, <1>3, <1>4, AskingTail
    <2>2. Plain!Asks("header", job.file) /\ ~Plain!InService
        BY <1>1, <1>3, <2>1 DEF Asked, Plain!Asks, Plain!InService, JobOk
    <2> QED BY <1>1, <1>2, <1>3, <2>1, <2>2, NothingStep
<1>5. CASE Len(jobs) # 1
    <2>1. Asking' = Asking
        BY <1>1, <1>3, <1>5, AskingTail
    <2> QED BY <1>1, <1>2, <2>1 DEF Unseen
<1> QED BY <1>4, <1>5

\* A flush comes before the job it is for.
LEMMA FlushGoesOn ==
    ASSUME FInv, jobs # <<>>, job.kind \in {"flush", "flushall"}, jobs' = Tail(jobs)
    PROVE  Asking' = Asking
<1>1. Typed /\ job = jobs[1] /\ LastOk
    BY HeadOk DEF FInv, IInv, JobsInv
<1>2. Len(jobs) # 1
    BY <1>1 DEF LastOk, Last, Endings
<1> QED BY <1>1, <1>2, AskingTail

\* The start of a flush is not seen.
LEMMA FlushStep ==
    ASSUME FInv, Flush
    PROVE  DataInv' /\ JobsInv' /\ Unseen
<1>1. /\ jobs # <<>> /\ job.kind = "flush" /\ jobs' = Tail(jobs) /\ flushing = None /\ flushing' = job.file
      /\ UNCHANGED <<cache, srLastUse, nand, nFreeChunks, fileSize, status, got>>
    BY DEF Flush, FlushFirst, Serving, store
<1> QED BY <1>1, DoneStep, FlushGoesOn DEF Unseen

\* A file with nothing dirty is on the device as it is seen.
LEMMA CleanIsSeen ==
    ASSUME OneEntryPerChunk, CleanIsSaved, NEW f \in Files, Dirty(f) = {}
    PROVE  \A c \in FileChunks : Seen(f, c) = nand[f][c].bytes
<1> TAKE c \in FileChunks
<1>1. \A e \in Entries : cache[e].object = f /\ cache[e].chunk = c => cache[e].bytes = nand[f][c].bytes
    BY DEF CleanIsSaved, Dirty, Of
<1> QED BY <1>1, SeenIs

\* Nothing is left dirty when the last job is reached that needs it so.
LEMMA PromiseKept ==
    ASSUME FInv, jobs # <<>>, flushing = None, job.kind \in {"resize", "synced"}
    PROVE  Len(jobs) = 1 /\ Last = job /\ job.file \in Files /\ Dirty(job.file) = {}
<1>1. /\ job = jobs[1] /\ job.file \in Files /\ Len(jobs) \in Nat /\ Len(jobs) >= 1 /\ DOMAIN jobs = 1 .. Len(jobs)
      /\ JobsOk /\ Promises
    BY HeadOk DEF FInv, IInv, JobsInv
<1>2. 1 = Len(jobs)
    BY <1>1 DEF JobsOk, Endings
<1>3. Last = job
    BY <1>1, <1>2 DEF Last
<1>4. PICK g \in Files : g = job.file
    BY <1>1
<1>5. Dirty(g) = {} \/ flushing = g \/ FlushIn(jobs, g, Len(jobs) - 1)
    BY <1>1, <1>3, <1>4, PromisesWere
<1>6. ~FlushIn(jobs, g, Len(jobs) - 1)
    <2>1. Len(jobs) - 1 = 0
        BY <1>2
    <2>2. ~FlushIn(jobs, g, 0)
        BY DEF FlushIn
    <2> QED BY <2>1, <2>2
<1> QED BY <1>2, <1>3, <1>4, <1>5, <1>6, CacheAssumption

\* The end of a flush of a file or of all is the abstract Sync: all is saved that is seen.
LEMMA SyncedJobStep ==
    ASSUME FInv, Synced
    PROVE  DataInv' /\ JobsInv' /\ Plain!Next
<1>1. /\ jobs # <<>> /\ job.kind = "synced" /\ jobs' = Tail(jobs) /\ flushing = None /\ status' = "synced"
      /\ UNCHANGED <<cache, srLastUse, nand, nFreeChunks, fileSize, flushing, got>>
    BY DEF Synced, Serving, store
<1>2. DataInv' /\ JobsInv' /\ SeenBytes' = SeenBytes /\ SavedBytes' = SavedBytes
    BY <1>1, DoneStep
<1>3. PICK f \in Files : f = job.file /\ Dirty(f) = {}
    BY <1>1, PromiseKept
<1>4. \A d \in FileChunks : Seen(f, d) = nand[f][d].bytes
    BY <1>3, CleanIsSeen DEF FInv, IInv, DataInv
<1>5. Asking = Asked(job) /\ Asking' = Plain!NoRequest
    BY <1>1, PromiseKept, AskingTail DEF FInv, IInv
<1>6. Plain!Asks("synced", f)
    BY <1>1, <1>3, <1>5 DEF Asked, Plain!Asks
<1> QED BY <1>1, <1>2, <1>3, <1>4, <1>5, <1>6, SyncedStep

\* Picking the next file to flush (yaffs_FlushEntireDeviceCache) is not seen.
LEMMA FlushAllStep ==
    ASSUME FInv, FlushAll
    PROVE  DataInv' /\ JobsInv' /\ Unseen
<1> DEFINE dirty == {e \in Entries : cache[e].object # None /\ cache[e].dirty}
<1>1. /\ jobs # <<>> /\ job.kind = "flushall" /\ flushing = None
      /\ UNCHANGED <<cache, srLastUse, nand, nFreeChunks, fileSize, status, got>>
      /\ IF dirty # {} THEN flushing' = cache[First(dirty)].object /\ jobs' = jobs
         ELSE flushing' = flushing /\ jobs' = Tail(jobs)
    BY DEF FlushAll, FlushFirst, Serving, store
<1>2. IInv /\ DataInv /\ JobsOk /\ ZerosFill /\ Promises /\ FlushFrees /\ Contents /\ Typed
    BY DEF FInv, JobsInv, DataInv, IInv
<1>3. CASE dirty = {}
    <2>1. \A f \in Files : Dirty(f) = {}
        BY <1>3, CacheAssumption DEF Dirty, Of
    <2> HIDE DEF dirty
    <2> QED BY <1>1, <1>3, <2>1, DoneStep, FlushGoesOn DEF Unseen
<1>4. CASE dirty # {}
    <2>1. dirty \subseteq Entries
        OBVIOUS
    <2>2. First(dirty) \in dirty
        <3> HIDE DEF dirty
        <3> QED BY <1>4, <2>1, FirstIs
    <2>3. PICK g \in Files : flushing' = g
        BY <1>1, <1>2, <1>4, <2>2 DEF Contents, EntryOk
    <2> HIDE DEF dirty
    <2>4. JobsStep /\ SameKinds /\ job' = job
        BY <1>1, <1>2, <1>4, SameJobs
    <2>5. OthersOk
        BY <1>1, <1>2, <2>3 DEF OthersOk, Contents
    <2>6. DataInv' /\ SeenBytes' = SeenBytes /\ SavedBytes' = SavedBytes
          /\ \A f \in Files : Dirty(f)' = Dirty(f)
        BY <1>1, <1>2, <2>4, <2>5, CacheStands DEF JobsStep
    <2>7. Promises'
        BY <1>1, <1>2, <2>4, <2>6, PromisesKept
    <2>8. FlushFrees'
        <3>1. Empty' = Empty
            BY <1>1 DEF Empty, Of
        <3>2. flushing \notin Files
            BY <1>1, CacheAssumption
        <3> QED BY <1>1, <1>2, <2>4, <3>1, <3>2 DEF FlushFrees
    <2> QED BY <1>1, <1>4, <2>4, <2>6, <2>7, <2>8, AskingIs DEF FInv, JobsStep, JobsInv, Unseen
<1> QED BY <1>3, <1>4

\* A file is longer now.
LEMMA GrownStep ==
    ASSUME FInv, jobs # <<>>, jobs' = Tail(jobs), NEW f \in Files, NEW n \in 0 .. MaxSize, JobsStep,
           job.kind \in {"write", "zeros"} \/ jobs' = <<>>, job.kind # "flush", job.kind # "flushall",
           fileSize' = [fileSize EXCEPT ![f] = Larger(@, n)],
           UNCHANGED <<cache, srLastUse, nand, nFreeChunks, flushing, status, got>>
    PROVE  DataInv' /\ JobsInv' /\ SeenBytes' = SeenBytes /\ SavedBytes' = SavedBytes
<1>3. IInv /\ DataInv /\ JobsOk /\ ZerosFill /\ Promises /\ FlushFrees /\ Contents /\ Typed
    BY DEF FInv, JobsInv, DataInv, IInv
<1>4. fileSize \in [Files -> 0 .. MaxSize] /\ fileSize[f] \in 0 .. MaxSize
    BY <1>3 DEF Contents
<1>5. PICK m \in 0 .. MaxSize : m = Larger(fileSize[f], n)
    BY <1>4, Amounts DEF Larger
<1>6. fileSize' = [fileSize EXCEPT ![f] = m]
    BY <1>4, <1>5
<1>7. OthersOk
    BY <1>3, <1>4, <1>6 DEF OthersOk, Contents
<1>8. DataInv' /\ SeenBytes' = SeenBytes /\ SavedBytes' = SavedBytes
      /\ \A g \in Files : Dirty(g)' = Dirty(g)
    BY <1>3, <1>7, CacheStands DEF JobsStep
<1>9. Promises'
    <2>1. CASE jobs' = <<>>
        BY <2>1 DEF Promises
    <2>2. CASE job.kind \in {"write", "zeros"}
        BY <1>3, <1>8, <2>2, TailPromises
    <2> QED BY <2>1, <2>2
<1>10. FlushFrees'
    BY <1>3, FreshHead
<1> QED BY <1>8, <1>9, <1>10 DEF FInv, JobsStep, JobsInv

\* The end of a resize upwards gives the file its size.
LEMMA ExtendStep ==
    ASSUME FInv, Extend
    PROVE  DataInv' /\ JobsInv' /\ Plain!Next
<1>1. /\ jobs # <<>> /\ job.kind = "extend" /\ jobs' = Tail(jobs)
      /\ fileSize' = [fileSize EXCEPT ![job.file] = Larger(@, job.n)]
      /\ UNCHANGED <<cache, srLastUse, nand, nFreeChunks, flushing, status, got>>
    BY DEF Extend, Serving, store
<1>2. JobsOk /\ Contents /\ Typed
    BY DEF FInv, JobsInv, DataInv, IInv
<1>3. job.file \in Files /\ job.n \in 0 .. MaxSize
    BY <1>1, <1>2, HeadOk, Amounts DEF JobOk
<1>4. jobs' = <<>> /\ JobsStep
    BY <1>1, <1>2, LastStep DEF Target
<1>5. DataInv' /\ JobsInv' /\ SeenBytes' = SeenBytes /\ SavedBytes' = SavedBytes
    BY <1>1, <1>3, <1>4, GrownStep
<1>6. Asking = Asked(job) /\ Asking' = Plain!NoRequest
    BY <1>1, <1>2, <1>4, TailIs, AskingTail
<1>7. Plain!Asks("resize", job.file) /\ ~Plain!InService /\ Asking.at = job.n
    BY <1>1, <1>3, <1>6 DEF Asked, Plain!Asks, Plain!InService
<1> QED BY <1>1, <1>3, <1>5, <1>6, <1>7, EndStep

\* The end of a write that is not given up is the abstract growth of the file.
LEMMA WrittenStep ==
    ASSUME FInv, WriteEnds, ~(job.kind = "zeros" /\ job.step = "short")
    PROVE  DataInv' /\ JobsInv' /\ Plain!Next
<1>1. /\ jobs # <<>> /\ job.kind \in {"write", "zeros"} /\ jobs' = Tail(jobs)
      /\ fileSize' = [fileSize EXCEPT ![job.file] = Larger(@, job.off + job.done)]
      /\ UNCHANGED <<cache, srLastUse, nand, nFreeChunks, flushing, status, got>>
    BY DEF WriteEnds, Writing, Serving, store
<1>2. JobsOk /\ Contents /\ Typed /\ ZerosFill
    BY DEF FInv, JobsInv, DataInv, IInv
<1>3. job.file \in Files /\ job.off + job.done \in 0 .. MaxSize
    <2>1. job.file \in Files /\ JobOk(job, status)
        BY <1>1, <1>2, HeadOk
    <2>2. PICK o \in Nat, m \in Nat, d \in Nat :
              o = job.off /\ m = job.n /\ d = job.done /\ d <= m /\ o + m <= MaxSize
        BY <1>1, <2>1 DEF JobOk
    <2>3. o + d \in 0 .. MaxSize
        BY <2>2, Amounts
    <2> QED BY <2>1, <2>2, <2>3
<1>4. JobsStep
    BY <1>1, <1>2, LastStep, ZerosStep DEF Target
<1>5. DataInv' /\ JobsInv' /\ SeenBytes' = SeenBytes /\ SavedBytes' = SavedBytes
    BY <1>1, <1>3, <1>4, GrownStep
<1>6. JobOk(job, status) /\ job = jobs[1] /\ 1 \in DOMAIN jobs
    BY <1>1, <1>2, HeadOk
<1>7. CASE job.kind = "write"
    <2>1. Len(jobs) = 1
        BY <1>2, <1>6, <1>7 DEF JobsOk, Endings
    <2>2. Asking = Asked(job) /\ Asking' = Plain!NoRequest
        BY <1>1, <1>2, <2>1, AskingTail
    <2>3. Plain!Asks("write", job.file) /\ Asking.at = job.off + job.done /\ ~Plain!InService
        BY <1>6, <1>7, <2>2 DEF Asked, Plain!Asks, Plain!InService, More, JobOk, WriteEnds
    <2> QED BY <1>1, <1>3, <1>5, <2>2, <2>3, EndStep
<1>8. CASE job.kind = "zeros"
    <2>1. /\ Plain!Fills(job.file) /\ Asking.at \in Nat /\ Len(jobs) # 1
          /\ job.off + job.n <= Asking.at /\ Asking.at = Target(Last)
        BY <1>1, <1>2, <1>8, Filling
    <2>2. Asking' = Asking
        BY <1>1, <1>2, <2>1, AskingTail
    <2>3. PICK size, to \in 0 .. MaxSize : size = fileSize[job.file] /\ to = job.off + job.done
        BY <1>2, <1>3 DEF Contents
    <2>4. to <= Asking.at
        <3>1. PICK o, d, n, at \in Nat : o = job.off /\ d = job.done /\ n = job.n /\ at = Asking.at /\ d <= n
            BY <1>6, <2>1 DEF JobOk
        <3> QED BY <2>1, <2>3, <3>1
    <2>5. size <= Asking.at
        <3>1. Fills(job, job, Last, fileSize)
            BY <1>2, <1>6, <1>8 DEF ZerosFill
        <3> QED BY <2>1, <2>3, <3>1 DEF Fills
    <2>6. PICK m \in 0 .. MaxSize : m = Larger(size, to) /\ m >= size /\ m <= Asking.at
        BY <2>4, <2>5, Amounts DEF Larger
    <2>7. fileSize \in [Files -> 0 .. MaxSize] /\ fileSize' = [fileSize EXCEPT ![job.file] = m]
        BY <1>1, <1>2, <1>3, <2>3, <2>6 DEF Contents
    <2> QED BY <1>1, <1>3, <1>5, <2>1, <2>2, <2>3, <2>6, <2>7, GrowStep
<1> QED BY <1>1, <1>7, <1>8

\* A job that has not begun, and ends a request.
Fresh(j) ==
    /\ JobOk(j, "ok") /\ j.file \in Files /\ j.kind \in Endings \cup {"header"}
    /\ j.step = "chunk" /\ j.done = 0 /\ j.was = fileSize[j.file]

\* What it asks for is a request none of which is done.
LEMMA FreshIs ==
    ASSUME NEW j, Fresh(j)
    PROVE  /\ Asked(j) \in Plain!Askings /\ Asked(j).at = Asked(j).off /\ Asked(j).at <= Asked(j).end
           /\ Asked(j).was = fileSize[Asked(j).file]
<1>1. PICK o, n \in Nat : o = j.off /\ n = j.n
    BY DEF Fresh, JobOk
<1>2. j.v \in Values \cup {0} /\ j.was \in 0 .. MaxSize
    BY DEF Fresh, JobOk, Bytes
<1>3. CASE j.kind \in {"resize", "extend"}
    <2>1. n \in 0 .. MaxSize
        BY <1>1, <1>3, Amounts DEF Fresh, JobOk
    <2>2. /\ Asked(j).kind = "resize" /\ Asked(j).file = j.file /\ Asked(j).off = n /\ Asked(j).at = n
          /\ Asked(j).end = n /\ Asked(j).v = j.v /\ Asked(j).was = j.was
        BY <1>1, <1>3 DEF Asked
    <2>3. Asked(j) = [kind |-> "resize", file |-> j.file, off |-> n, at |-> n, end |-> n, v |-> j.v,
                      was |-> j.was]
        BY <1>1, <1>3 DEF Asked
    <2> QED BY <1>2, <2>1, <2>2, <2>3 DEF Fresh, Plain!Askings
<1>4. CASE j.kind \in {"write", "read", "synced", "header"}
    <2>1. o \in 0 .. MaxSize /\ o + n \in 0 .. MaxSize /\ o <= o + n
        BY <1>1, <1>4, Amounts DEF Fresh, JobOk
    <2>2. j.off + j.done = o
        BY <1>1 DEF Fresh
    <2>3. Asked(j) = [kind |-> j.kind, file |-> j.file, off |-> o, at |-> o, end |-> o + n, v |-> j.v,
                      was |-> j.was]
        BY <1>1, <1>4, <2>2 DEF Asked, Fresh
    <2> QED BY <1>2, <1>4, <2>1, <2>3 DEF Fresh, Plain!Askings
<1> QED BY <1>3, <1>4 DEF Fresh, Endings

\* A request begins.
LEMMA BegunStep ==
    ASSUME FInv, NEW kind, NEW list, Begin(kind, list), JobsStep, Promises', FlushFrees',
           jobs' # <<>>, Fresh(Last')
    PROVE  DataInv' /\ JobsInv' /\ Plain!Next
<1>1. /\ UNCHANGED <<cache, srLastUse, nand, nFreeChunks, fileSize, flushing>>
      /\ status' = "ok" /\ got' = <<>>
    BY DEF Begin, store
<1>2. OthersOk /\ DataInv
    BY <1>1 DEF OthersOk, Contents, FInv, DataInv
<1>3. DataInv' /\ SeenBytes' = SeenBytes /\ SavedBytes' = SavedBytes
    BY <1>1, <1>2, CacheStands DEF JobsStep
<1>4. Plain!Next
    <2>1. jobs = <<>>
        BY DEF Begin, Idle
    <2>2. PICK j : j = Last'
        OBVIOUS
    <2>3. Asking = Plain!NoRequest /\ Asking' = Asked(j)
        BY <2>1, <2>2, AskingIs
    <2>4. Fresh(j)
        BY <1>1, <2>2 DEF Fresh
    <2> QED BY <1>1, <1>3, <2>3, <2>4, FreshIs, StartStep
<1> QED BY <1>3, <1>4 DEF FInv, JobsStep, JobsInv

\* A job of a request that writes nothing.
QuietJob(j, f) ==
    /\ JobOk(j, "ok") /\ j.step = "chunk" /\ j.done = 0 /\ j.file = f /\ j.was = fileSize[f]
    /\ j.kind \notin {"write", "zeros", "extend"}

\* A request that writes nothing is a quiet job.
LEMMA QuietJobIs ==
    ASSUME Contents, NEW f \in Files, NEW kind \in {"read", "resize", "flush", "flushall", "header", "synced"},
           NEW off \in Nat, NEW n \in Nat, off + n <= MaxSize,
           kind \in {"header", "synced"} => off = 0 /\ n = 0
    PROVE  QuietJob(Job(kind, f, off, n, 0), f) /\ Job(kind, f, off, n, 0).kind = kind
<1>1. fileSize[f] \in 0 .. MaxSize /\ 0 \in Bytes
    BY DEF Contents, Bytes
<1>2. n <= MaxSize
    BY Amounts
<1> QED BY <1>1, <1>2 DEF QuietJob, Job, JobOk

\* A list of one to three quiet jobs is a beginning of the abstract files.
LEMMA QuietBegins ==
    ASSUME Typed, Contents, NEW kind, NEW list, Begin(kind, list), NEW f \in Files, NEW n \in 1 .. 3,
           Len(list) = n, DOMAIN list = 1 .. n, \A k \in 1 .. n : QuietJob(list[k], f),
           \A k \in 1 .. n - 1 : list[k].kind \notin Endings, list[n].kind \in Endings \cup {"header"},
           \/ list[n].kind \notin {"resize", "synced"} \/ Dirty(f) = {} \/ FlushIn(list, f, n - 1)
    PROVE  JobsStep /\ (FInv => DataInv' /\ JobsInv' /\ Plain!Next)
<1>1. jobs = <<>> /\ jobs' = list /\ status' = "ok" /\ UNCHANGED <<cache, fileSize>>
    BY DEF Begin, Idle
<1>3. \A k \in 1 .. n : /\ JobOk(list[k], status') /\ list[k].step = "chunk" /\ list[k].done = 0
                        /\ list[k].kind \notin {"write", "zeros", "extend"}
                        /\ list[k].kind \in Endings => k = n
    <2> TAKE k \in 1 .. n
    <2>1. JobOk(list[k], status') /\ list[k].step = "chunk" /\ list[k].done = 0
          /\ list[k].kind \notin {"write", "zeros", "extend"}
        BY <1>1 DEF QuietJob
    <2>2. k = n \/ k \in 1 .. n - 1
        OBVIOUS
    <2> QED BY <2>1, <2>2
<1>4. JobsStep
    <2>1. list[n].was = fileSize[list[n].file]
        BY DEF QuietJob
    <2>2. QuietList(list, n, status')
        BY <1>3, <2>1 DEF QuietList
    <2> QED BY <1>1, <2>2, QuietStep
<1>5. 1 \in 1 .. n /\ n \in 1 .. n /\ job' = list[1] /\ Last' = list[n]
    BY <1>1, NextEnds
<1>6. FlushFrees'
    BY <1>3, <1>5 DEF FlushFrees
<1>7. Promises'
    <2>1. Last'.file = f
        BY <1>5 DEF QuietJob
    <2>2. Dirty(f)' = Dirty(f)
        BY <1>1 DEF Dirty, Of
    <2>3. \A i \in DOMAIN jobs' : jobs'[i].kind \notin {"write", "zeros"}
        BY <1>1 DEF QuietJob
    <2> QED BY <1>1, <1>5, <2>1, <2>2, <2>3, PromisesAre
<1>8. jobs' # <<>> /\ Fresh(Last')
    <2>1. Fresh(list[n])
        BY <1>5 DEF QuietJob, Fresh
    <2>2. list # <<>>
        <3>1. Len(<<>>) = 0
            BY EmptySeq
        <3> QED BY <3>1
    <2>3. Last' = list[n] /\ fileSize' = fileSize
        BY <1>1, <1>5
    <2> QED BY <1>1, <2>1, <2>2, <2>3 DEF Fresh
<1> QED BY <1>4, <1>6, <1>7, <1>8, BegunStep

\* A write begins (yaffs_WriteDataToFile), with the zeros of the hole before it.
LEMMA BeginWriteStep ==
    ASSUME IInv, Contents, JobsOk, NEW f \in Files, NEW w \in Writes, NEW v \in Values, BeginWrite(f, w, v)
    PROVE  JobsStep /\ (FInv => DataInv' /\ JobsInv' /\ Plain!Next)
<1>1. PICK off \in 0 .. MaxSize, n \in Nat : off = w[1] /\ n = w[2] /\ off + n <= MaxSize
    BY CacheAssumption, Amounts
<1>2. PICK j : j = Job("write", f, off, n, v)
    OBVIOUS
<1>3. PICK list : list = HoleJobs(f, off) \o <<j>>
    OBVIOUS
<1>4. Begin("write", list)
    BY <1>1, <1>2, <1>3 DEF BeginWrite
<1>5. jobs = <<>> /\ jobs' = list /\ status' = "ok" /\ UNCHANGED fileSize
    BY <1>4 DEF Begin, Idle
<1>6. Typed /\ Contents /\ JobsOk
    BY DEF IInv
<1>7. fileSize[f] \in 0 .. MaxSize /\ v \in Bytes /\ v \in Int
    BY <1>6, CacheAssumption DEF Contents, Bytes
<1>8. /\ JobOk(j, status') /\ j.kind = "write" /\ j.file = f /\ j.step = "chunk" /\ j.done = 0
      /\ j.was = fileSize[f] /\ Target(j) = off
    BY <1>1, <1>2, <1>5, <1>7 DEF Job, JobOk, Target
<1>9. j \in JobRecords
    BY <1>1, <1>2, <1>6, <1>7, JobTyped DEF Kinds
<1>10. JobsStep /\ jobs' # <<>> /\ job'.step = "chunk" /\ Last' = j
    BY <1>3, <1>5, <1>6, <1>8, <1>9, FillingStep
<1>11. FlushFrees' /\ Promises'
    BY <1>8, <1>10 DEF FlushFrees, Promises
<1>12. Fresh(Last')
    BY <1>5, <1>8, <1>10 DEF Fresh, Endings
<1> QED BY <1>4, <1>10, <1>11, <1>12, BegunStep

\* A read begins (yaffs_ReadDataFromFile).
LEMMA BeginReadStep ==
    ASSUME IInv, Contents, JobsOk, NEW f \in Files, NEW r \in Reads, BeginRead(f, r)
    PROVE  JobsStep /\ (FInv => DataInv' /\ JobsInv' /\ Plain!Next)
<1>1. PICK off \in Nat, n \in Nat : off = r[1] /\ n = r[2] /\ off + n <= MaxSize
    BY CacheAssumption, Amounts
<1>2. PICK j : j = Job("read", f, off, n, 0)
    OBVIOUS
<1>3. QuietJob(j, f) /\ j.kind = "read"
    BY <1>1, <1>2, QuietJobIs
<1>20. PICK list : list = <<j>>
    OBVIOUS
<1>4. list = <<j>> /\ Len(list) = 1 /\ DOMAIN list = 1 .. 1 /\ list[1] = j
    BY <1>20
<1>5. Begin("read", list)
    BY <1>1, <1>2, <1>4 DEF BeginRead
<1> QED BY <1>3, <1>4, <1>5, QuietBegins DEF IInv, Endings

\* A header is to be written.
LEMMA BeginHeaderStep ==
    ASSUME IInv, Contents, JobsOk, NEW f \in Files, BeginHeader(f)
    PROVE  JobsStep /\ (FInv => DataInv' /\ JobsInv' /\ Plain!Next)
<1>1. PICK j : j = Job("header", f, 0, 0, 0)
    OBVIOUS
<1>2. QuietJob(j, f) /\ j.kind = "header"
    BY <1>1, QuietJobIs, Amounts
<1>20. PICK list : list = <<j>>
    OBVIOUS
<1>3. list = <<j>> /\ Len(list) = 1 /\ DOMAIN list = 1 .. 1 /\ list[1] = j
    BY <1>20
<1>4. Begin("header", list)
    BY <1>1, <1>3 DEF BeginHeader
<1> QED BY <1>2, <1>3, <1>4, QuietBegins DEF IInv, Endings

\* A resize begins (yaffs_ResizeFile): a flush first, then the cut or the zeros.
LEMMA BeginResizeStep ==
    ASSUME IInv, Contents, JobsOk, NEW f \in Files, NEW size \in Sizes, BeginResize(f, size)
    PROVE  JobsStep /\ (FInv => DataInv' /\ JobsInv' /\ Plain!Next)
<1>1. size \in Nat /\ 0 + size <= MaxSize
    BY CacheAssumption
<1>2. PICK i, j : i = Job("flush", f, 0, 0, 0) /\ j = Job("resize", f, 0, size, 0)
    OBVIOUS
<1>3. QuietJob(i, f) /\ i.kind = "flush" /\ QuietJob(j, f) /\ j.kind = "resize"
    BY <1>1, <1>2, QuietJobIs, Amounts
<1>20. PICK list : list = <<i, j>>
    OBVIOUS
<1>4. list = <<i, j>> /\ Len(list) = 2 /\ DOMAIN list = 1 .. 2 /\ list[1] = i /\ list[2] = j
    BY <1>20
<1>5. Begin("resize", list)
    BY <1>2, <1>4 DEF BeginResize
<1>6. FlushIn(list, f, 1)
    BY <1>3, <1>4 DEF FlushIn, QuietJob
<1>7. \A k \in 1 .. 2 : QuietJob(list[k], f)
    BY <1>3, <1>4
<1>8. \A k \in 1 .. 1 : list[k].kind \notin Endings
    BY <1>3, <1>4 DEF Endings
<1>9. list[2].kind \in Endings \cup {"header"}
    BY <1>3, <1>4 DEF Endings
<1> QED BY <1>4, <1>5, <1>6, <1>7, <1>8, <1>9, QuietBegins DEF IInv

\* A flush of every file begins (yaffs_FlushEntireDeviceCache).
LEMMA BeginFlushAllStep ==
    ASSUME IInv, Contents, JobsOk, NEW f \in Files, BeginFlushAll(f)
    PROVE  JobsStep /\ (FInv => DataInv' /\ JobsInv' /\ Plain!Next)
<1>2. PICK i, j : i = Job("flushall", f, 0, 0, 0) /\ j = Job("synced", f, 0, 0, 0)
    OBVIOUS
<1>3. QuietJob(i, f) /\ i.kind = "flushall" /\ QuietJob(j, f) /\ j.kind = "synced"
    BY <1>2, QuietJobIs, Amounts
<1>20. PICK list : list = <<i, j>>
    OBVIOUS
<1>4. list = <<i, j>> /\ Len(list) = 2 /\ DOMAIN list = 1 .. 2 /\ list[1] = i /\ list[2] = j
    BY <1>20
<1>5. Begin("sync", list)
    BY <1>2, <1>4 DEF BeginFlushAll
<1>6. FlushIn(list, f, 1)
    BY <1>3, <1>4 DEF FlushIn
<1>7. \A k \in 1 .. 2 : QuietJob(list[k], f)
    BY <1>3, <1>4
<1>8. \A k \in 1 .. 1 : list[k].kind \notin Endings
    BY <1>3, <1>4 DEF Endings
<1>9. list[2].kind \in Endings \cup {"header"}
    BY <1>3, <1>4 DEF Endings
<1> QED BY <1>4, <1>5, <1>6, <1>7, <1>8, <1>9, QuietBegins DEF IInv

\* A list with one more job.
LEMMA Joined ==
    ASSUME NEW S, NEW H \in Seq(S), NEW j \in S, NEW list, list = H \o <<j>>
    PROVE  /\ list \in Seq(S) /\ Len(list) = Len(H) + 1 /\ DOMAIN list = 1 .. Len(H) + 1
           /\ list[Len(H) + 1] = j /\ \A k \in 1 .. Len(H) : list[k] = H[k]
<1>1. PICK one \in Seq(S) : one = <<j>> /\ Len(one) = 1 /\ one[1] = j
    <2>1. <<j>> \in Seq(S)
        OBVIOUS
    <2> QED BY <2>1
<1>2. list = H \o one
    BY <1>1
<1> QED BY <1>1, <1>2

\* A flush of one file begins (yaffs_FlushFile).
LEMMA BeginFlushStep ==
    ASSUME IInv, Contents, JobsOk, NEW f \in Files, NEW dataSync \in BOOLEAN, BeginFlush(f, dataSync)
    PROVE  JobsStep /\ (FInv => DataInv' /\ JobsInv' /\ Plain!Next)
<1>2. PICK i, h, j : /\ i = Job("flush", f, 0, 0, 0) /\ h = Job("header", f, 0, 0, 0)
                     /\ j = Job("synced", f, 0, 0, 0)
    OBVIOUS
<1>3. /\ QuietJob(i, f) /\ i.kind = "flush" /\ QuietJob(h, f) /\ h.kind = "header"
      /\ QuietJob(j, f) /\ j.kind = "synced"
    BY <1>2, QuietJobIs, Amounts
<1>4. PICK list : /\ Begin("flush", list)
                  /\ \/ ~changed[f] /\ list = <<>> \o <<j>>
                     \/ list = (<<i>> \o <<>>) \o <<j>>
                     \/ list = (<<i>> \o <<h>>) \o <<j>>
    BY <1>2 DEF BeginFlush
<1>5. CASE ~changed[f] /\ list = <<j>>
    <2>1. Dirty(f) = {}
        BY <1>4, <1>5 DEF IInv, DirtyIsKnown, Begin, Idle
    <2>2. Len(list) = 1 /\ DOMAIN list = 1 .. 1 /\ list[1] = j
        BY <1>5
    <2> QED BY <1>3, <1>4, <2>1, <2>2, QuietBegins DEF IInv, Endings
<1>6. CASE list = (<<i>> \o <<>>) \o <<j>>
    <2>1. PICK H \in Seq({i, j}) : H = <<i>> \o <<>> /\ Len(H) = 1 /\ H[1] = i
        <3>1. PICK G \in Seq({i, j}) : G = <<i>> /\ Len(G) = 1 /\ G[1] = i
            <4>1. <<i>> \in Seq({i, j})
                OBVIOUS
            <4> QED BY <4>1
        <3>2. G \o <<>> = G
            OBVIOUS
        <3> QED BY <3>1, <3>2
    <2>2. Len(list) = 2 /\ DOMAIN list = 1 .. 2 /\ list[1] = i /\ list[2] = j
        BY <1>6, <2>1, Joined
    <2>3. FlushIn(list, f, 1)
        BY <1>3, <2>2 DEF FlushIn, QuietJob
    <2>4. \A k \in 1 .. 2 : QuietJob(list[k], f)
        BY <1>3, <2>2
    <2>5. \A k \in 1 .. 1 : list[k].kind \notin Endings
        BY <1>3, <2>2 DEF Endings
    <2>6. list[2].kind \in Endings \cup {"header"}
        BY <1>3, <2>2 DEF Endings
    <2> QED BY <1>4, <2>2, <2>3, <2>4, <2>5, <2>6, QuietBegins DEF IInv
<1>7. CASE list = (<<i>> \o <<h>>) \o <<j>>
    <2>1. PICK G \in Seq({i, h, j}) : G = <<i>> /\ Len(G) = 1 /\ G[1] = i
        <3>1. <<i>> \in Seq({i, h, j})
            OBVIOUS
        <3> QED BY <3>1
    <2>2. PICK H : H = G \o <<h>>
        OBVIOUS
    <2>3. H \in Seq({i, h, j}) /\ Len(H) = 2 /\ H[1] = i /\ H[2] = h
        BY <2>1, <2>2, Joined
    <2>4. list = H \o <<j>>
        BY <1>7, <2>1, <2>2
    <2>5. Len(list) = 3 /\ DOMAIN list = 1 .. 3 /\ list[1] = i /\ list[2] = h /\ list[3] = j
        <3>1. PICK S : H \in Seq(S) /\ j \in S
            BY <2>3
        <3>2. Len(list) = Len(H) + 1 /\ DOMAIN list = 1 .. Len(H) + 1 /\ list[Len(H) + 1] = j
              /\ \A k \in 1 .. Len(H) : list[k] = H[k]
            BY <2>4, <3>1, Joined
        <3> QED BY <2>3, <3>2
    <2>6. FlushIn(list, f, 2)
        BY <1>3, <2>5 DEF FlushIn, QuietJob
    <2>7. \A k \in 1 .. 3 : QuietJob(list[k], f)
        BY <1>3, <2>5
    <2>8. \A k \in 1 .. 2 : list[k].kind \notin Endings
        BY <1>3, <2>5 DEF Endings
    <2>9. list[3].kind \in Endings \cup {"header"}
        BY <1>3, <2>5 DEF Endings
    <2> QED BY <1>4, <2>5, <2>6, <2>7, <2>8, <2>9, QuietBegins DEF IInv
<1>8. <<>> \o <<j>> = <<j>>
    OBVIOUS
<1> QED BY <1>4, <1>5, <1>6, <1>7, <1>8

(***************************************************************************)
(* Chunks that are written in the cache.                                   *)
(***************************************************************************)
\* What is saved, and seen, of a file ends where it ends.
LEMMA SavedEnds ==
    ASSUME DataInv, NEW f \in Files, NEW c \in FileChunks, NEW k \in Offsets, nand[f][c].bytes[k] # 0
    PROVE  (c - 1) * BytesPerChunk + k <= End(f)
<1>1. Hole.bytes[k] = 0
    BY DEF Hole, Zeros, Offsets
<1>2. nand[f][c] # Hole
    BY <1>1
<1> QED BY <1>2 DEF DataInv, Within, DataOk

\* What is seen behind the end of a file is zero.
LEMMA SeenEnds ==
    ASSUME IInv, DataInv, NEW f \in Files, NEW c \in FileChunks, NEW k \in Offsets, Seen(f, c)[k] # 0
    PROVE  (c - 1) * BytesPerChunk + k <= End(f)
<1>1. nand[f][c].bytes[k] # 0 => (c - 1) * BytesPerChunk + k <= End(f)
    BY SavedEnds
<1>2. CASE \E e \in Entries : cache[e].object = f /\ cache[e].chunk = c
    <2>1. PICK e \in Entries : cache[e].object = f /\ cache[e].chunk = c
        BY <1>2
    <2>2. Seen(f, c) = cache[e].bytes
        BY <2>1, SeenIs DEF IInv
    <2>3. CASE cache[e].dirty
        <3>1. e \in Dirty(f)
            BY <2>1, <2>3 DEF Dirty, Of
        <3> QED BY <2>1, <2>2, <3>1 DEF DataInv, Within, DataOk
    <2>4. CASE ~cache[e].dirty
        <3>1. Seen(f, c) = nand[f][c].bytes
            BY <2>1, <2>2, <2>4 DEF DataInv, CleanIsSaved, Of
        <3> QED BY <1>1, <3>1
    <2> QED BY <2>3, <2>4
<1>3. CASE ~\E e \in Entries : cache[e].object = f /\ cache[e].chunk = c
    <2>1. Seen(f, c) = nand[f][c].bytes
        BY <1>3, SeenIs DEF IInv
    <2> QED BY <1>1, <2>1
<1> QED BY <1>2, <1>3

\* What is written back of a chunk covers what is written and what was there.
LEMMA Covered ==
    ASSUME Typed, JobsOk, Contents, jobs # <<>>, job.kind \in {"write", "zeros"}, More
    PROVE  /\ ToWriteBack \in 0 .. BytesPerChunk /\ From + Length <= ToWriteBack
           /\ \A k \in Offsets : (Chunk - 1) * BytesPerChunk + k <= fileSize[job.file] => k <= ToWriteBack
           /\ (Chunk - 1) * BytesPerChunk + ToWriteBack <= Larger(fileSize[job.file], Pos + Length)
<1>1. /\ Pos \in Nat /\ From \in 0 .. BytesPerChunk - 1 /\ Chunk \in FileChunks
      /\ Pos = (Chunk - 1) * BytesPerChunk + From
      /\ Length \in Nat /\ Length >= 1 /\ From + Length <= BytesPerChunk
    BY Span
<1>2. job.n \in Nat /\ job.done \in 0 .. job.n /\ job.file \in Files
    BY HeadOk DEF JobOk
<1>3. PICK left \in Nat : left = job.n - job.done /\ From + job.n - job.done = From + left
    <2>1. job.n - job.done \in Nat /\ From + job.n - job.done = From + (job.n - job.done)
        BY <1>1, <1>2
    <2> QED BY <2>1
<1>4. PICK start \in Nat : start = (Chunk - 1) * BytesPerChunk
    <2>1. Pos - From \in Int /\ Pos - From = (Chunk - 1) * BytesPerChunk
        BY <1>1, Amounts
    <2>2. Chunk - 1 \in Nat
        BY <1>1, Amounts
    <2>3. (Chunk - 1) * BytesPerChunk \in Nat
        BY <2>2, Amounts
    <2> QED BY <2>3
<1>5. PICK size \in Nat : size = fileSize[job.file]
    BY <1>2, Amounts DEF Contents
<1>6. Length = Smaller(left, BytesPerChunk - From)
    BY <1>3 DEF Length
<1>7. ToWriteBack = IF From + left >= BytesPerChunk THEN BytesPerChunk
                    ELSE Larger(From + Length, Smaller(BytesPerChunk, Larger(0, size - start)))
    BY <1>3, <1>4, <1>5 DEF ToWriteBack
<1>8. PICK from, len \in Nat : from = From /\ len = Length
    BY <1>1, Amounts
<1>9. PICK back : back = ToWriteBack
    OBVIOUS
<1>10. /\ back \in 0 .. BytesPerChunk /\ from + len <= back
       /\ start + back <= Larger(size, start + from + len)
    BY <1>1, <1>6, <1>7, <1>8, <1>9, Amounts DEF Larger, Smaller
<1>11. ASSUME NEW k \in Offsets, start + k <= size PROVE k <= back
    BY <1>1, <1>6, <1>7, <1>8, <1>9, <1>11, Amounts DEF Larger, Smaller, Offsets
<1> QED BY <1>1, <1>4, <1>5, <1>8, <1>9, <1>10, <1>11

\* The chunk with what is written in it.
LEMMA OverlaidOk ==
    ASSUME FInv, jobs # <<>>, job.kind \in {"write", "zeros"}, More,
           NEW b, b = Seen(job.file, Chunk),
           NEW end \in Int, NEW limit \in Int, End(job.file) <= end, Limit(job.file) <= limit,
           job.kind = "write" => Pos + Length <= end /\ Pos + Length <= limit
    PROVE  Overlay(b) \in ByteLists /\ DataOk(Chunk, Overlay(b), ToWriteBack, end, limit)
<1>1. IInv /\ DataInv /\ JobsOk /\ ZerosFill /\ Contents /\ Typed
    BY DEF FInv, JobsInv, DataInv, IInv
<1>2. /\ Pos \in Nat /\ From \in 0 .. BytesPerChunk - 1 /\ Chunk \in FileChunks
      /\ Pos = (Chunk - 1) * BytesPerChunk + From
      /\ Length \in Nat /\ Length >= 1 /\ From + Length <= BytesPerChunk /\ job.done + Length <= job.n
    BY <1>1, Span
<1>3. /\ ToWriteBack \in 0 .. BytesPerChunk /\ From + Length <= ToWriteBack
      /\ \A k \in Offsets : (Chunk - 1) * BytesPerChunk + k <= fileSize[job.file] => k <= ToWriteBack
      /\ (Chunk - 1) * BytesPerChunk + ToWriteBack <= Larger(fileSize[job.file], Pos + Length)
    BY <1>1, Covered
<1>4. PICK f \in Files : f = job.file
    BY <1>1, HeadOk
<1>5. PICK start \in Int : start = (Chunk - 1) * BytesPerChunk
    <2>1. Pos - From = (Chunk - 1) * BytesPerChunk /\ Pos - From \in Int
        BY <1>2, Amounts
    <2> QED BY <2>1
<1>6. PICK size \in Nat : size = fileSize[f]
    BY <1>1, Amounts DEF Contents
<1>7. /\ End(f) \in Int /\ Limit(f) \in Int /\ size <= Limit(f) /\ JobOk(job, status)
    BY <1>1, <1>6, Ends, HeadOk
<1>8. b \in ByteLists
    BY <1>1, <1>2, <1>4, SeenTyped DEF IInv
<1>9. Overlay(b) \in ByteLists
    BY <1>7, <1>8 DEF Overlay, ByteLists, Offsets, JobOk
<1>10. \A k \in Offsets : Overlay(b)[k] = IF k > From /\ k <= From + Length THEN job.v ELSE b[k]
    BY DEF Overlay, Offsets
<1>11. job.kind = "zeros" => /\ job.v = 0 /\ End(f) = job.was /\ job.was <= size
                             /\ Pos + Length <= Limit(f)
    <2> SUFFICES ASSUME job.kind = "zeros"
                 PROVE  job.v = 0 /\ End(f) = job.was /\ job.was <= size /\ Pos + Length <= Limit(f)
        OBVIOUS
    <2>1. job.v = 0 /\ job.off \in Nat /\ job.n \in Nat /\ job.done \in 0 .. job.n
        BY <1>7 DEF JobOk
    <2>2. End(f) = job.was
        BY <1>4 DEF End
    <2>3. Fills(job, job, Last, fileSize)
        BY <1>1, HeadOk DEF ZerosFill
    <2>4. Limit(f) = Larger(size, Target(Last))
        BY <1>4, <1>6, <2>3 DEF Limit, Fills
    <2>5. Target(Last) \in Nat
        BY <1>1, Ends
    <2>6. Pos = job.off + job.done
        BY DEF Pos
    <2>7. Pos + Length <= job.off + job.n
        <3>1. PICK o \in Nat, m \in Nat, d \in Nat, l \in Nat :
                  o = job.off /\ m = job.n /\ d = job.done /\ l = Length /\ d + l <= m
            BY <1>2, <2>1
        <3>2. Pos + Length = (o + d) + l /\ job.off + job.n = o + m
            BY <2>6, <3>1
        <3>3. d + l <= m
            BY <3>1
        <3>4. (o + d) + l <= o + m
            BY <3>3
        <3> QED BY <3>2, <3>4
    <2>8. job.off + job.n <= Target(Last) /\ job.was <= size
        BY <1>4, <1>6, <2>3 DEF Fills
    <2>9. job.off + job.n \in Nat
        BY <2>1
    <2>10. Pos + Length <= Limit(f)
        BY <1>2, <1>6, <2>4, <2>5, <2>7, <2>8, <2>9 DEF Larger
    <2> QED BY <2>1, <2>2, <2>8, <2>10
<1>12. job.kind = "write" => End(f) = Larger(size, Pos)
    BY <1>4, <1>6 DEF End, Pos
<1>13. PICK e1, l1 \in Int : e1 = End(f) /\ l1 = Limit(f)
    BY <1>7
<1>14. ASSUME NEW k \in Offsets, Overlay(b)[k] # 0
       PROVE  k <= ToWriteBack /\ start + k <= end
    <2>1. CASE k > From /\ k <= From + Length
        <3>1. job.kind = "write"
            BY <1>10, <1>11, <1>14, <2>1
        <3>2. Pos + Length <= end
            BY <3>1
        <3> QED BY <1>2, <1>3, <1>5, <2>1, <3>2, Amounts
    <2>2. CASE ~(k > From /\ k <= From + Length)
        <3>1. Seen(f, Chunk)[k] # 0
            BY <1>4, <1>10, <1>14, <2>2
        <3>2. start + k <= e1
            BY <1>1, <1>2, <1>5, <1>13, <3>1, SeenEnds
        <3>3. k \in Nat
            BY Amounts
        <3>4. start + k <= end
            BY <1>4, <1>13, <3>2, <3>3
        <3>5. start + k <= size => k <= ToWriteBack
            BY <1>3, <1>4, <1>5, <1>6
        <3>6. start + k <= size \/ k <= From
            BY <1>2, <1>5, <1>11, <1>12, <1>13, <3>2, <3>3, Amounts DEF Larger
        <3> QED BY <1>2, <1>3, <3>3, <3>4, <3>5, <3>6, Amounts
    <2> QED BY <2>1, <2>2
<1>15. start + ToWriteBack <= limit
    <2>1. start + ToWriteBack <= Larger(size, Pos + Length)
        BY <1>3, <1>4, <1>5, <1>6
    <2>2. size <= limit /\ Pos + Length <= limit
        BY <1>2, <1>4, <1>6, <1>7, <1>11, <1>13
    <2> QED BY <1>2, <1>3, <1>5, <2>1, <2>2, Amounts DEF Larger
<1> QED BY <1>3, <1>5, <1>9, <1>14, <1>15 DEF DataOk

\* Where the file ends once the job has stepped on.
LEMMA SteppedOn ==
    ASSUME FInv, jobs # <<>>, job.kind \in {"write", "zeros", "read"}, More, jobs' = Stepped,
           UNCHANGED <<fileSize, status>>
    PROVE  /\ JobsStep /\ SameKinds /\ job'.step = "chunk"
           /\ \A f \in Files : job.kind = "write" /\ job.file = f =>
                  Pos + Length <= End(f)' /\ Pos + Length <= Limit(f)'
<1>1. Typed /\ Contents /\ JobsOk /\ ZerosFill
    BY DEF FInv, JobsInv, DataInv, IInv
<1>2. /\ Length \in Nat /\ job.done + Length <= job.n /\ Pos \in Nat
    BY <1>1, Span
<1>3. /\ job.file \in Files /\ JobOk(job, status) /\ DOMAIN jobs = 1 .. Len(jobs) /\ job = jobs[1]
      /\ Len(jobs) \in Nat /\ Len(jobs) >= 1
    BY <1>1, HeadOk
<1>4. PICK next :
          /\ jobs' = [jobs EXCEPT ![1] = next]
          /\ next.kind = job.kind /\ next.file = job.file /\ next.off = job.off /\ next.n = job.n
          /\ next.v = job.v /\ next.was = job.was /\ next.done = job.done + Length
          /\ next.step = "chunk"
    BY <1>1, <1>2, SteppedIs
<1>5. next.done \in job.done .. job.n
    BY <1>2, <1>3, <1>4 DEF JobOk
<1>6. JobsStep
    BY <1>1, <1>4, <1>5, HeadChanges
<1>7. SameKinds /\ job' = next
    BY <1>1, <1>4, HeadKinds
<1>8. ASSUME NEW f \in Files, job.kind = "write", job.file = f
      PROVE  Pos + Length <= End(f)' /\ Pos + Length <= Limit(f)'
    <2>1. f = job.file
        BY <1>8
    <2>2. Len(jobs) = 1
        BY <1>1, <1>3, <1>8 DEF JobsOk, Endings
    <2>3. Last' = next
        <3>1. Len(jobs') = 1
            BY <1>7, <2>2 DEF SameKinds
        <3> QED BY <1>7, <3>1, NextEnds
    <2>4. next.off + next.done = Pos + Length
        BY <1>2, <1>3, <1>4 DEF Pos, JobOk
    <2>5. PICK size, to \in Nat : size = fileSize[f] /\ to = Pos + Length
        <3>1. fileSize[f] \in Nat /\ Pos + Length \in Nat
            BY <1>1, <1>2, Amounts DEF Contents
        <3> QED BY <3>1
    <2>6. End(f)' = Larger(size, to)
        BY <1>4, <1>7, <1>8, <2>1, <2>4, <2>5 DEF End, SameKinds
    <2>7. Limit(f)' = Larger(size, to)
        BY <1>4, <1>7, <1>8, <2>1, <2>3, <2>4, <2>5 DEF Limit, Target, SameKinds
    <2> QED BY <2>5, <2>6, <2>7 DEF Larger
<1> QED BY <1>4, <1>6, <1>7, <1>8

\* The hole reads as zeros where zeros are to be written, and where they will be.
LEMMA HoleIsZeros ==
    ASSUME FInv, jobs # <<>>, job.kind = "zeros", More
    PROVE  /\ job.v = 0
           /\ \A k \in Offsets : k > From => /\ Seen(job.file, Chunk)[k] = 0
                                             /\ nand[job.file][Chunk].bytes[k] = 0
<1>1. IInv /\ DataInv /\ JobsOk /\ ZerosFill /\ Contents /\ Typed
    BY DEF FInv, JobsInv, DataInv, IInv
<1>2. job.file \in Files /\ JobOk(job, status) /\ job = jobs[1] /\ 1 \in DOMAIN jobs
    BY <1>1, HeadOk
<1>3. /\ Chunk \in FileChunks /\ Pos = (Chunk - 1) * BytesPerChunk + From
      /\ From \in 0 .. BytesPerChunk - 1
    BY <1>1, Span
<1>4. PICK was, at \in Nat : was = job.was /\ at = Pos /\ was <= at
    <2>1. PICK o, d, w \in Nat : o = job.off /\ d = job.done /\ w = job.was
        BY <1>2, Amounts DEF JobOk
    <2>2. w <= o
        BY <1>1, <1>2, <2>1 DEF ZerosFill, Fills
    <2>3. o + d \in Nat /\ w <= o + d
        BY <2>2
    <2> QED BY <2>1, <2>3 DEF Pos
<1>5. End(job.file) = was
    BY <1>4 DEF End
<1>6. ASSUME NEW k \in Offsets, k > From
      PROVE  /\ Seen(job.file, Chunk)[k] = 0 /\ nand[job.file][Chunk].bytes[k] = 0
    <2>1. PICK place \in Nat : place = (Chunk - 1) * BytesPerChunk + k
        BY <1>3, PlaceIs, Amounts
    <2>2. place > at
        <3>1. PICK m \in Nat : m = (Chunk - 1) * BytesPerChunk
            <4>1. Chunk - 1 \in Nat
                BY <1>3, Amounts
            <4> QED BY <4>1, Amounts
        <3>2. PICK i, from \in Nat : i = k /\ from = From /\ i > from
            BY <1>3, <1>6, Amounts
        <3> QED BY <1>3, <1>4, <2>1, <3>1, <3>2
    <2>3. ~(place <= was)
        BY <1>4, <2>2
    <2> QED BY <1>1, <1>2, <1>3, <1>5, <2>1, <2>3, SeenEnds, SavedEnds
<1>7. job.v = 0
    BY <1>2 DEF JobOk
<1> QED BY <1>6, <1>7

\* Writing them there changes nothing.
LEMMA ZerosChangeNothing ==
    ASSUME FInv, jobs # <<>>, job.kind = "zeros", More, NEW b \in ByteLists,
           b = Seen(job.file, Chunk) \/ b = nand[job.file][Chunk].bytes
    PROVE  Overlay(b) = b
<1>1. b = [k \in Offsets |-> b[k]]
    BY DEF ByteLists
<1>2. \A k \in Offsets : k > From /\ k <= From + Length => b[k] = job.v
    BY HoleIsZeros
<1> QED BY <1>1, <1>2 DEF Overlay, Offsets

\* And the request itself has not begun.
LEMMA ZerosGoOn ==
    ASSUME FInv, jobs # <<>>, job.kind = "zeros", More,
           jobs' = Stepped \/ jobs' = [jobs EXCEPT ![1].step = "short"]
    PROVE  Asking' = Asking
<1>1. JobsOk /\ ZerosFill /\ Contents /\ Typed
    BY DEF FInv, JobsInv, DataInv, IInv
<1>2. Len(jobs) # 1
    BY <1>1, Filling
<1>3. CASE jobs' = Stepped
    <2>1. Length \in Nat
        BY <1>1, Span
    <2>2. PICK next : jobs' = [jobs EXCEPT ![1] = next]
        BY <1>1, <1>3, <2>1, SteppedIs
    <2> QED BY <1>1, <1>2, <2>2, AskingHead
<1>4. CASE jobs' = [jobs EXCEPT ![1].step = "short"]
    <2>1. PICK next : jobs' = [jobs EXCEPT ![1] = next]
        BY <1>1, <1>4, MarkedIs
    <2> QED BY <1>1, <1>2, <2>1, AskingHead
<1> QED BY <1>3, <1>4

\* The write gets through the chunk, part of it or all.
LEMMA PutOn ==
    ASSUME Typed, JobsOk, jobs # <<>>, job.kind = "write", More, jobs' = Stepped,
           NEW f \in Files, f = job.file, NEW b,
           \A k \in Offsets : b[k] = IF k > From /\ k <= From + Length THEN job.v ELSE Seen(f, Chunk)[k],
           SeenTurns(f, Chunk, b), SavedBytes' = SavedBytes \/ SavedTurns(f, Chunk, b),
           UNCHANGED <<fileSize, status, got>>
    PROVE  Plain!Next
<1>1. PICK c \in FileChunks, from, n \in Nat :
          c = Chunk /\ from = From /\ n = Length /\ from + n <= BytesPerChunk
    <2>1. Chunk \in FileChunks /\ From \in 0 .. BytesPerChunk - 1 /\ Length \in Nat
          /\ From + Length <= BytesPerChunk
        BY Span
    <2>2. From \in Nat
        BY <2>1, Amounts
    <2> QED BY <2>1, <2>2
<1>2. /\ Plain!Asks("write", f) /\ Plain!InService /\ Plain!Current = c /\ Asking.v = job.v
      /\ Asking.at = (c - 1) * BytesPerChunk + from /\ Plain!Reached = Asking.at + n
    BY <1>1, Served
<1>3. Asking' = [Asking EXCEPT !.at = Plain!Reached]
    BY ServedOn
<1>4. PICK v : v = job.v
    OBVIOUS
<1>5. \A k \in Offsets : b[k] = IF k > from /\ k <= from + n THEN v ELSE Seen(f, c)[k]
    BY <1>1, <1>4
<1>6. SeenTurns(f, c, b) /\ (SavedBytes' = SavedBytes \/ SavedTurns(f, c, b))
    BY <1>1
<1> QED BY <1>1, <1>2, <1>3, <1>4, <1>5, <1>6, PutStep

\* A part of the chunk is written in entry e, which is left free for it.
LEMMA ModifyStep ==
    ASSUME FInv, OneEntryPerChunk', Writing, More, NEW e \in Entries, NEW x, IsEntry(x), x.object = job.file,
           x.chunk = Chunk, x.bytes = Seen(job.file, Chunk),
           \/ cache[e].object = job.file /\ cache[e].chunk = Chunk
           \/ cache[e].object \notin Files \/ ~cache[e].dirty,
           Modify(e, x)
    PROVE  DataInv' /\ JobsInv' /\ (Plain!Next \/ Unseen)
<1>1. /\ IInv /\ DataInv /\ JobsOk /\ ZerosFill /\ Contents /\ Typed /\ Promises /\ Cached
      /\ OneEntryPerChunk /\ CleanIsSaved
    BY DEF FInv, JobsInv, DataInv, IInv, Typed
<1>2. jobs # <<>> /\ job.kind \in {"write", "zeros"} /\ flushing = None
    BY DEF Writing, Serving
<1>3. PICK f \in Files, c \in FileChunks : f = job.file /\ c = Chunk
    BY <1>1, <1>2, HeadOk, Span
<1>4. PICK b : b = Seen(f, c)
    OBVIOUS
<1>5. PICK y : y = [x EXCEPT !.dirty = TRUE, !.n = ToWriteBack, !.bytes = Overlay(@)]
    OBVIOUS
<1>6. /\ y.object = f /\ y.chunk = c /\ y.dirty /\ y.n = ToWriteBack /\ y.bytes = Overlay(b) /\ IsEntry(y)
    BY <1>3, <1>4, <1>5 DEF IsEntry
<1>7. /\ Use(e, y) /\ jobs' = Stepped
      /\ UNCHANGED <<nand, nFreeChunks, fileSize, flushing, status, got>>
    BY <1>5 DEF Modify, store
<1>8. /\ JobsStep /\ SameKinds /\ job'.step = "chunk"
      /\ job.kind = "write" => Pos + Length <= End(f)' /\ Pos + Length <= Limit(f)'
    BY <1>1, <1>2, <1>3, <1>7, SteppedOn
<1>9. /\ Seen(f, c)' = y.bytes
      /\ \A g \in Files : \A d : g # f \/ d # c => Seen(g, d)' = Seen(g, d)
      /\ Used(e, y)
    BY <1>1, <1>3, <1>6, <1>7, UseSeen
<1>10. Overlay(b) \in ByteLists /\ DataOk(c, Overlay(b), ToWriteBack, End(f)', Limit(f)')
    <2>1. PICK end, limit \in Int : end = End(f)' /\ limit = Limit(f)' /\ End(f) <= end /\ Limit(f) <= limit
        BY <1>8 DEF JobsStep, Reaches
    <2>2. job.kind = "write" => Pos + Length <= end /\ Pos + Length <= limit
        BY <1>8, <2>1
    <2>3. Overlay(b) \in ByteLists /\ DataOk(Chunk, Overlay(b), ToWriteBack, end, limit)
        BY <1>2, <1>3, <1>4, <2>1, <2>2, OverlaidOk
    <2> QED BY <1>3, <2>1, <2>3
<1>11. OthersOk
    BY <1>1, <1>7, <1>9 DEF OthersOk, Contents, Used
<1>12. DataInv'
    BY <1>1, <1>6, <1>7, <1>8, <1>9, <1>10, <1>11, UsedKeeps DEF JobsStep
<1>13. Promises'
    BY <1>1, <1>2, <1>7, <1>8, PromisesKept
<1>14. FlushFrees'
    BY <1>8 DEF FlushFrees
<1>15. Plain!Next \/ Unseen
    <2>1. SeenTurns(f, c, y.bytes)
        BY <1>9 DEF SeenTurns
    <2>2. SavedBytes' = SavedBytes
        BY <1>7, SavedKept
    <2>3. CASE job.kind = "write"
        <3>1. \A k \in Offsets : y.bytes[k] = IF k > From /\ k <= From + Length THEN job.v ELSE Seen(f, c)[k]
            BY <1>4, <1>6 DEF Overlay, Offsets
        <3> QED BY <1>1, <1>2, <1>3, <1>7, <2>1, <2>2, <2>3, <3>1, PutOn
    <2>4. CASE job.kind = "zeros"
        <3>1. b \in ByteLists
            BY <1>1, <1>3, <1>4, SeenTyped
        <3>2. Overlay(b) = b
            BY <1>2, <1>3, <1>4, <2>4, <3>1, ZerosChangeNothing
        <3>3. \A g \in Files, d \in FileChunks : Seen(g, d)' = Seen(g, d)
            BY <1>4, <1>6, <1>9, <3>2
        <3>4. SeenBytes' = SeenBytes
            BY <3>3, SeenKept
        <3>5. Asking' = Asking
            BY <1>2, <1>7, <2>4, ZerosGoOn
        <3> QED BY <1>7, <2>2, <3>4, <3>5 DEF Unseen
    <2> QED BY <1>2, <2>3, <2>4
<1> QED BY <1>8, <1>12, <1>13, <1>14, <1>15 DEF FInv, JobsStep, JobsInv

\* The entry the cache gives for a chunk holds nothing that is not on the device.
LEMMA GrabbedIs ==
    ASSUME FInv, flushing = None, jobs # <<>>, More, job.step = "chunk" => ~MustFlush
    PROVE  Grabbed \in Entries /\ (cache[Grabbed].object \notin Files \/ ~cache[Grabbed].dirty)
<1>1. Contents /\ FlushFrees /\ Typed
    BY DEF FInv, JobsInv, DataInv, IInv
<1>2. job.step \in {"chunk", "flushed"}
    BY <1>1, HeadTyped DEF More, JobRecords
<1>3. CASE Empty # {}
    <2>1. Empty \subseteq Entries
        BY DEF Empty, Of
    <2>2. First(Empty) \in Empty
        BY <1>3, <2>1, FirstIs
    <2> QED BY <1>3, <2>1, <2>2, CacheAssumption DEF Grabbed, Empty, Of
<1>4. CASE Empty = {}
    <2>1. ~MustFlush
        BY <1>1, <1>2, <1>4, CacheAssumption DEF FlushFrees
    <2> QED BY <1>1, <1>4, <2>1, LeastUsedIs DEF Grabbed, MustFlush
<1> QED BY <1>3, <1>4

\* Only entries of one chunk are taken out, if any.
LEMMA TakenOut ==
    ASSUME OneEntryPerChunk, OneEntryPerChunk', NEW lost, cache' = Without(lost),
           NEW f \in Files, NEW c \in FileChunks, lost = {} \/ lost = {e \in {Find(f, c)} : e # NoEntry},
           \A g \in Files, d \in FileChunks : g # f \/ d # c => nand'[g][d].bytes = nand[g][d].bytes
    PROVE  /\ \A g \in Files, d \in FileChunks : g # f \/ d # c => Seen(g, d)' = Seen(g, d)
           /\ lost # {} => Seen(f, c)' = nand'[f][c].bytes
           /\ (lost = {} /\ nand' = nand) => Seen(f, c)' = Seen(f, c)
           /\ lost = {e \in {Find(f, c)} : e # NoEntry} =>
                  /\ Seen(f, c)' = nand'[f][c].bytes
                  /\ \A e \in Entries \ lost : ~(cache[e].object = f /\ cache[e].chunk = c)
<1>1. \A e \in lost : e \in Entries => cache[e].object = f /\ cache[e].chunk = c
    BY Found DEF Of
<1>2. ASSUME lost = {e \in {Find(f, c)} : e # NoEntry}
      PROVE  \A e \in Entries \ lost : ~(cache[e].object = f /\ cache[e].chunk = c)
    <2> SUFFICES ASSUME NEW e \in Entries, cache[e].object = f, cache[e].chunk = c PROVE e \in lost
        OBVIOUS
    <2>1. Find(f, c) = e
        BY SeenIs
    <2>2. e # NoEntry
        BY Amounts DEF Entries, NoEntry
    <2> QED BY <1>2, <2>1, <2>2
<1>3. lost = {e \in {Find(f, c)} : e # NoEntry} => Seen(f, c)' = nand'[f][c].bytes
    BY <1>2, WithoutSeen
<1>4. ASSUME NEW g \in Files, NEW d \in FileChunks, g # f \/ d # c
      PROVE  Seen(g, d)' = Seen(g, d)
    <2>1. CASE \E e \in Entries \ lost : cache[e].object = g /\ cache[e].chunk = d
        BY <2>1, WithoutSeen
    <2>2. CASE \A e \in Entries \ lost : ~(cache[e].object = g /\ cache[e].chunk = d)
        <3>1. Seen(g, d)' = nand'[g][d].bytes
            BY <2>2, WithoutSeen
        <3>2. \A e \in Entries : ~(cache[e].object = g /\ cache[e].chunk = d)
            BY <1>1, <1>4, <2>2
        <3>3. Seen(g, d) = nand[g][d].bytes
            BY <3>2, SeenIs
        <3> QED BY <1>4, <3>1, <3>3
    <2> QED BY <2>1, <2>2
<1>5. ASSUME lost = {}, nand' = nand PROVE Seen(f, c)' = Seen(f, c)
    <2>1. CASE \E e \in Entries \ lost : cache[e].object = f /\ cache[e].chunk = c
        BY <2>1, WithoutSeen
    <2>2. CASE \A e \in Entries \ lost : ~(cache[e].object = f /\ cache[e].chunk = c)
        <3>1. Seen(f, c)' = nand'[f][c].bytes
            BY <2>2, WithoutSeen
        <3>2. Seen(f, c) = nand[f][c].bytes
            BY <1>5, <2>2, SeenIs
        <3> QED BY <1>5, <3>1, <3>2
    <2> QED BY <2>1, <2>2
<1> QED BY <1>2, <1>3, <1>4, <1>5

\* A write is refused.
LEMMA RefusedStep ==
    ASSUME FInv, OneEntryPerChunk', Writing, More, NEW lost, lost = {} \/ (lost = Overwritten /\ Whole), Refuse(lost)
    PROVE  DataInv' /\ JobsInv' /\ Plain!Next
<1>1. /\ IInv /\ DataInv /\ JobsOk /\ ZerosFill /\ Contents /\ Typed /\ Promises /\ Cached
      /\ OneEntryPerChunk /\ CleanIsSaved
    BY DEF FInv, JobsInv, DataInv, IInv, Typed
<1>2. jobs # <<>> /\ job.kind \in {"write", "zeros"} /\ flushing = None
    BY DEF Writing, Serving
<1>3. PICK f \in Files, c \in FileChunks : f = job.file /\ c = Chunk
    BY <1>1, <1>2, HeadOk, Span
<1>4. /\ jobs' = [jobs EXCEPT ![1].step = "short"] /\ status' = "short" /\ cache' = Without(lost)
      /\ UNCHANGED <<srLastUse, nand, nFreeChunks, fileSize, flushing, got>>
    BY DEF Refuse, store
<1>5. PICK next : /\ jobs' = [jobs EXCEPT ![1] = next]
                  /\ next.kind = job.kind /\ next.file = job.file /\ next.off = job.off /\ next.n = job.n
                  /\ next.v = job.v /\ next.was = job.was /\ next.done = job.done /\ next.step = "short"
    BY <1>1, <1>2, <1>4, MarkedIs
<1>6. job.done \in job.done .. job.n
    BY <1>1, <1>2, HeadOk DEF JobOk
<1>7. JobsStep
    BY <1>1, <1>2, <1>4, <1>5, <1>6, HeadChanges
<1>8. SameKinds /\ job' = next
    BY <1>1, <1>2, <1>5, HeadKinds
<1>9. OthersOk
    BY <1>1, <1>4 DEF OthersOk, Contents
<1>10. lost = {} \/ lost = {e \in {Find(f, c)} : e # NoEntry}
    BY <1>3 DEF Overwritten
<1>11. /\ \A g \in Files, d \in FileChunks : g # f \/ d # c => Seen(g, d)' = Seen(g, d)
       /\ lost = {} => Seen(f, c)' = Seen(f, c)
       /\ lost # {} => Seen(f, c)' = nand[f][c].bytes
    BY <1>1, <1>4, <1>10, TakenOut
<1>12. DataInv'
    <2>1. \A g \in Files : \A d \in FileChunks : nand'[g][d] # Hole =>
              DataOk(d, nand'[g][d].bytes, nand'[g][d].n, End(g)', Limit(g)')
        <3> TAKE g \in Files
        <3>1. Reaches(g)
            BY <1>7 DEF JobsStep
        <3> QED BY <1>1, <1>4, <3>1, WithinReaches DEF DataInv
    <2>2. Taken(lost)
        BY <1>1, <1>4, <1>7, <2>1 DEF Taken, Without, JobsStep, Contents
    <2> QED BY <1>1, <1>9, <2>2, TakenKeeps
<1>13. Promises'
    BY <1>1, <1>2, <1>4, <1>8, PromisesKept
<1>14. FlushFrees'
    BY <1>5, <1>8 DEF FlushFrees
<1>15. Plain!Next
    <2>1. PICK b : b = nand[f][c].bytes
        OBVIOUS
    <2>2. SavedBytes' = SavedBytes
        BY <1>4, SavedKept
    <2>3. CASE job.kind = "write"
        <3>1. /\ Plain!Asks("write", f) /\ Plain!InService /\ Plain!Current = c
              /\ Asking' = [Asking EXCEPT !.end = Asking.at]
            BY <1>1, <1>2, <1>3, <1>4, <2>3, Served, ServedShort
        <3>2. SeenBytes' = SeenBytes \/ SeenTurns(f, c, b)
            <4>1. CASE lost = {}
                BY <1>11, <4>1, SeenKept
            <4>2. CASE lost # {}
                BY <1>11, <2>1, <4>2 DEF SeenTurns
            <4> QED BY <4>1, <4>2
        <3> QED BY <1>4, <2>1, <2>2, <3>1, <3>2, RefuseStep
    <2>4. CASE job.kind = "zeros"
        <3>1. ASSUME lost # {} PROVE Seen(f, c) = b
            <4>1. From = 0
                BY <1>1, <1>2, <3>1, Span, Amounts DEF Whole
            <4>2. \A k \in Offsets : k > From
                BY <4>1, Amounts
            <4>3. \A k \in Offsets : Seen(f, c)[k] = 0 /\ b[k] = 0
                BY <1>2, <1>3, <2>1, <2>4, <4>2, HoleIsZeros
            <4>4. Seen(f, c) \in ByteLists /\ b \in ByteLists
                BY <1>1, <2>1, SeenTyped DEF Contents
            <4>5. PICK a : a = Seen(f, c)
                OBVIOUS
            <4>6. a = b
                BY <4>3, <4>4, <4>5 DEF ByteLists
            <4> QED BY <4>5, <4>6
        <3>2. \A g \in Files, d \in FileChunks : Seen(g, d)' = Seen(g, d)
            BY <1>11, <2>1, <3>1
        <3>3. SeenBytes' = SeenBytes
            BY <3>2, SeenKept
        <3>4. Plain!Fills(f)
            BY <1>1, <1>2, <1>3, <2>4, Filling
        <3>5. Asking' = Asking
            BY <1>2, <1>4, <2>4, ZerosGoOn
        <3> QED BY <1>4, <2>2, <3>3, <3>4, <3>5, RefuseZerosStep
    <2> QED BY <1>2, <2>3, <2>4
<1> QED BY <1>7, <1>12, <1>13, <1>14, <1>15 DEF FInv, JobsStep, JobsInv

\* A part of a chunk written to the entry that holds it.
LEMMA WriteCachedStep ==
    ASSUME FInv, OneEntryPerChunk', WriteCached
    PROVE  DataInv' /\ JobsInv' /\ (Plain!Next \/ Unseen)
<1>1. IInv /\ DataInv /\ JobsOk /\ Contents /\ Typed /\ Cached /\ OneEntryPerChunk
    BY DEF FInv, JobsInv, DataInv, IInv, Typed
<1>2. jobs # <<>> /\ job.kind \in {"write", "zeros"} /\ Writing /\ More
    BY DEF WriteCached, Writing, Serving
<1>3. PICK f \in Files : f = job.file
    BY <1>1, <1>2, HeadOk
<1>4. PICK e : e = Find(f, Chunk) /\ e # NoEntry
    BY <1>3 DEF WriteCached
<1>5. Modify(e, cache[e]) \/ Refuse({})
    BY <1>3, <1>4 DEF WriteCached
<1>6. e \in Entries /\ cache[e].object = f /\ cache[e].chunk = Chunk
    BY <1>1, <1>4, Found DEF Of
<1>7. IsEntry(cache[e]) /\ cache[e].bytes = Seen(f, Chunk)
    BY <1>1, <1>4, <1>6 DEF Cached, Seen
<1>8. CASE Modify(e, cache[e])
    BY <1>2, <1>3, <1>6, <1>7, <1>8, ModifyStep
<1>9. CASE Refuse({})
    BY <1>2, <1>9, RefusedStep
<1> QED BY <1>5, <1>8, <1>9

\* A part of a chunk written to an entry that is grabbed for it.
LEMMA WriteUncachedStep ==
    ASSUME FInv, OneEntryPerChunk', WriteUncached
    PROVE  DataInv' /\ JobsInv' /\ (Plain!Next \/ Unseen)
<1>1. IInv /\ DataInv /\ JobsOk /\ Contents /\ Typed /\ Cached /\ OneEntryPerChunk
    BY DEF FInv, JobsInv, DataInv, IInv, Typed
<1>2. jobs # <<>> /\ job.kind \in {"write", "zeros"} /\ Writing /\ More /\ flushing = None
    BY DEF WriteUncached, Writing, Serving
<1>3. PICK f \in Files : f = job.file
    BY <1>1, <1>2, HeadOk
<1>4. Find(f, Chunk) = NoEntry
    BY <1>3 DEF WriteUncached
<1>5. CASE Refuse({})
    BY <1>2, <1>5, RefusedStep
<1>6. CASE MustFlush /\ FlushFirst(cache[LeastUsed].object, [jobs EXCEPT ![1].step = "flushed"])
    BY <1>2, <1>6, FlushFirstStep
<1>7. CASE (job.step = "chunk" => ~MustFlush) /\ Modify(Grabbed, Loaded(Grabbed, job.file, Chunk))
    <2>1. PICK e \in Entries : e = Grabbed /\ (cache[e].object \notin Files \/ ~cache[e].dirty)
        BY <1>2, <1>7, GrabbedIs
    <2>2. PICK x : x = Loaded(e, f, Chunk)
        OBVIOUS
    <2>3. IsEntry(x) /\ x.object = f /\ x.chunk = Chunk
        BY <1>1, <2>2, LoadedEntry
    <2>4. x.bytes = nand[f][Chunk].bytes
        BY <1>1, <2>2 DEF Loaded, Cached, IsEntry
    <2>5. x.bytes = Seen(f, Chunk)
        BY <1>4, <2>4 DEF Seen
    <2> QED BY <1>2, <1>3, <1>7, <2>1, <2>2, <2>3, <2>5, ModifyStep
<1> QED BY <1>5, <1>6, <1>7 DEF WriteUncached

\* A whole chunk written past the cache (yaffs_WriteChunkDataToObject).
LEMMA WriteWholeStep ==
    ASSUME FInv, OneEntryPerChunk', WriteWhole
    PROVE  DataInv' /\ JobsInv' /\ (Plain!Next \/ Unseen)
<1>1. /\ IInv /\ DataInv /\ JobsOk /\ ZerosFill /\ Contents /\ Typed /\ Promises /\ Cached
      /\ OneEntryPerChunk /\ CleanIsSaved
    BY DEF FInv, JobsInv, DataInv, IInv, Typed
<1>2. jobs # <<>> /\ job.kind \in {"write", "zeros"} /\ flushing = None /\ Writing /\ More /\ Whole
    BY DEF WriteWhole, Writing, Serving
<1>3. PICK f \in Files, c \in FileChunks : f = job.file /\ c = Chunk
    BY <1>1, <1>2, HeadOk, Span
<1>4. CASE Refuse(Overwritten)
    BY <1>2, <1>4, RefusedStep
<1>5. CASE /\ Write(job.file, Chunk, Overlay(Zeros), BytesPerChunk)
           /\ cache' = Without(Overwritten)
           /\ jobs' = Stepped
           /\ UNCHANGED <<srLastUse, fileSize, changed, flushing, status, got, failed, requests>>
    <2>1. PICK new : new = Overlay(Zeros)
        OBVIOUS
    <2>2. PICK lost : lost = {e \in {Find(f, c)} : e # NoEntry} /\ lost = Overwritten
        BY <1>3 DEF Overwritten
    <2>3. /\ nand' = [nand EXCEPT ![f][c] = [bytes |-> new, n |-> BytesPerChunk]]
          /\ cache' = Without(lost) /\ jobs' = Stepped
          /\ UNCHANGED <<srLastUse, fileSize, flushing, status, got>>
          /\ nFreeChunks' = nFreeChunks - Cost(f, c)
        BY <1>3, <1>5, <2>1, <2>2 DEF Write
    <2>4. /\ JobsStep /\ SameKinds /\ job'.step = "chunk"
          /\ job.kind = "write" => Pos + Length <= End(f)' /\ Pos + Length <= Limit(f)'
        BY <1>1, <1>2, <1>3, <2>3, SteppedOn
    <2>5. /\ From = 0 /\ Length = BytesPerChunk /\ ToWriteBack = BytesPerChunk
        <3>1. /\ From \in 0 .. BytesPerChunk - 1 /\ Length = BytesPerChunk
              /\ From + Length <= BytesPerChunk
            BY <1>1, <1>2, Span DEF Whole
        <3>2. From = 0
            BY <3>1, Amounts
        <3>3. ToWriteBack \in 0 .. BytesPerChunk /\ From + Length <= ToWriteBack
            BY <1>1, <1>2, Covered
        <3> QED BY <3>1, <3>2, <3>3, Amounts
    <2>6. PICK b : b = Seen(f, c)
        OBVIOUS
    <2>7. \A k \in Offsets : Overlay(b)[k] = job.v /\ new[k] = job.v
        BY <2>1, <2>5, Amounts DEF Overlay, Offsets
    <2>8. Overlay(b) = new
        <3>1. \A k \in 1 .. BytesPerChunk : k > From /\ k <= From + Length
            BY <2>5, Amounts
        <3> QED BY <2>1, <3>1 DEF Overlay
    <2>9. new \in ByteLists /\ DataOk(c, new, BytesPerChunk, End(f)', Limit(f)')
        <3>1. PICK end, limit \in Int : end = End(f)' /\ limit = Limit(f)' /\ End(f) <= end /\ Limit(f) <= limit
            BY <2>4 DEF JobsStep, Reaches
        <3>2. Overlay(b) \in ByteLists /\ DataOk(Chunk, Overlay(b), ToWriteBack, end, limit)
            BY <1>2, <1>3, <2>4, <2>6, <3>1, OverlaidOk
        <3> QED BY <1>3, <2>5, <2>8, <3>1, <3>2
    <2>10. /\ nand'[f][c].bytes = new /\ nand'[f][c].n = BytesPerChunk
           /\ \A g \in Files, d \in FileChunks : g # f \/ d # c => nand'[g][d] = nand[g][d]
           /\ nand' \in [Files -> [FileChunks -> [bytes : ByteLists, n : 0 .. BytesPerChunk]]]
        <3>1. nand \in [Files -> [FileChunks -> [bytes : ByteLists, n : 0 .. BytesPerChunk]]]
            BY <1>1 DEF Contents
        <3>2. BytesPerChunk \in 0 .. BytesPerChunk
            BY Amounts
        <3>3. [bytes |-> new, n |-> BytesPerChunk] \in [bytes : ByteLists, n : 0 .. BytesPerChunk]
            BY <2>9, <3>2
        <3> QED BY <2>3, <3>1, <3>3
    <2>11. /\ \A g \in Files, d \in FileChunks : g # f \/ d # c => Seen(g, d)' = Seen(g, d)
           /\ Seen(f, c)' = new
           /\ \A e \in Entries \ lost : ~(cache[e].object = f /\ cache[e].chunk = c)
        BY <1>1, <2>2, <2>3, <2>10, TakenOut, ZenonT(60)
    <2>12. OthersOk
        BY <1>1, <2>3 DEF OthersOk, Contents, Cost
    <2>13. DataInv'
        <3>1. \A g \in Files : \A d \in FileChunks : nand'[g][d] # Hole =>
                  DataOk(d, nand'[g][d].bytes, nand'[g][d].n, End(g)', Limit(g)')
            <4> TAKE g \in Files
            <4> TAKE d \in FileChunks
            <4>1. CASE g = f /\ d = c
                BY <2>9, <2>10, <4>1
            <4>2. CASE g # f \/ d # c
                BY <1>1, <2>4, <2>10, <4>2, WithinReaches DEF DataInv, JobsStep
            <4> QED BY <4>1, <4>2
        <3>2. \A g \in Files : \A e \in Of(g) \ lost : ~cache[e].dirty =>
                  nand'[g][cache[e].chunk].bytes = nand[g][cache[e].chunk].bytes
            <4> TAKE g \in Files
            <4> TAKE e \in Of(g) \ lost
            <4>1. e \in Entries /\ cache[e].object = g /\ e \notin lost
                BY DEF Of
            <4>2. cache[e].chunk \in FileChunks
                BY <1>1, <4>1, CacheAssumption DEF Contents, EntryOk
            <4>3. g # f \/ cache[e].chunk # c
                BY <2>11, <4>1
            <4> QED BY <2>10, <4>2, <4>3
        <3>3. Taken(lost)
            BY <2>3, <2>4, <2>10, <3>1, <3>2 DEF Taken, Without, JobsStep
        <3> QED BY <1>1, <2>12, <3>3, TakenKeeps
    <2>14. Promises'
        BY <1>1, <1>2, <2>3, <2>4, PromisesKept
    <2>15. FlushFrees'
        BY <2>4 DEF FlushFrees
    <2>16. Plain!Next \/ Unseen
        <3>1. SeenTurns(f, c, new)
            BY <2>11 DEF SeenTurns
        <3>2. SavedTurns(f, c, new)
            BY <2>10 DEF SavedTurns
        <3>3. CASE job.kind = "write"
            <4>1. \A k \in Offsets : new[k] = IF k > From /\ k <= From + Length THEN job.v ELSE Seen(f, c)[k]
                <5>1. \A k \in Offsets : k > From /\ k <= From + Length
                    <6>1. \A k \in Offsets : k > 0 /\ k <= 0 + BytesPerChunk
                        BY Amounts DEF Offsets
                    <6> QED BY <2>5, <6>1
                <5>2. \A k \in Offsets : new[k] = job.v
                    BY <2>7
                <5> QED BY <5>1, <5>2
            <4> QED BY <1>1, <1>2, <1>3, <2>3, <3>1, <3>2, <3>3, <4>1, PutOn
        <3>4. CASE job.kind = "zeros"
            <4>1. b \in ByteLists
                BY <1>1, <2>6, SeenTyped
            <4>2. b = new
                BY <1>2, <1>3, <2>6, <2>8, <3>4, <4>1, ZerosChangeNothing
            <4>3. nand[f][c].bytes = new
                <5>1. PICK old : old = nand[f][c].bytes /\ old \in ByteLists
                    BY <1>1 DEF Contents
                <5>2. Overlay(old) = old
                    BY <1>2, <1>3, <3>4, <5>1, ZerosChangeNothing
                <5>3. Overlay(old) = new
                    <6>1. \A k \in 1 .. BytesPerChunk : k > From /\ k <= From + Length
                        BY <2>5, Amounts
                    <6> QED BY <2>1, <6>1 DEF Overlay
                <5> QED BY <5>1, <5>2, <5>3
            <4>4. \A g \in Files, d \in FileChunks :
                      Seen(g, d)' = Seen(g, d) /\ nand'[g][d].bytes = nand[g][d].bytes
                BY <2>6, <2>10, <2>11, <4>2, <4>3
            <4>5. SeenBytes' = SeenBytes /\ SavedBytes' = SavedBytes
                BY <4>4, SeenKept, SavedKept
            <4>6. Asking' = Asking
                BY <1>2, <2>3, <3>4, ZerosGoOn
            <4> QED BY <2>3, <4>5, <4>6 DEF Unseen
        <3> QED BY <1>2, <3>3, <3>4
    <2> QED BY <2>4, <2>13, <2>14, <2>15, <2>16 DEF FInv, JobsStep, JobsInv
<1> QED BY <1>4, <1>5 DEF WriteWhole

(***************************************************************************)
(* Reads and flushes.                                                      *)
(***************************************************************************)
\* A reader takes bytes of the chunk as it is seen.
LEMMA ReadStep ==
    ASSUME FInv, Serving("read"), More, Return(Seen(job.file, Chunk)),
           DataInv', SeenBytes' = SeenBytes, nand' = nand, \A f \in Files : Dirty(f)' \subseteq Dirty(f)
    PROVE  JobsInv' /\ Plain!Next
<1>1. /\ IInv /\ DataInv /\ JobsOk /\ ZerosFill /\ Contents /\ Typed /\ Promises
    BY DEF FInv, JobsInv, DataInv, IInv
<1>2. jobs # <<>> /\ job.kind = "read"
    BY DEF Serving
<1>3. PICK f \in Files, c \in FileChunks : f = job.file /\ c = Chunk
    BY <1>1, <1>2, HeadOk, Span
<1>4. /\ jobs' = Stepped /\ UNCHANGED <<fileSize, flushing, status>>
      /\ got' = got \o [k \in 1 .. Length |-> Seen(f, c)[From + k]]
    BY <1>3 DEF Return
<1>5. JobsStep /\ SameKinds /\ job'.step = "chunk"
    BY <1>1, <1>2, <1>4, SteppedOn
<1>6. Promises'
    BY <1>1, <1>2, <1>4, <1>5, PromisesKept
<1>7. FlushFrees'
    BY <1>5 DEF FlushFrees
<1>8. Plain!Next
    <2>1. SavedBytes' = SavedBytes
        BY SavedKept
    <2>2. From \in 0 .. BytesPerChunk - 1 /\ Length \in Nat /\ Length >= 1 /\ From + Length <= BytesPerChunk
        BY <1>1, <1>2, Span
    <2>3. PICK from \in 0 .. BytesPerChunk - 1, n \in Nat :
              from = From /\ n = Length /\ n >= 1 /\ from + n <= BytesPerChunk
        BY <2>2
    <2>4. got' = got \o [k \in 1 .. n |-> Seen(f, c)[from + k]]
        BY <1>4, <2>3
    <2>5. /\ Plain!Asks("read", f) /\ Plain!InService /\ Asking.at = (c - 1) * BytesPerChunk + from
          /\ Plain!Reached = Asking.at + n
        BY <1>1, <1>2, <1>3, <2>3, Served
    <2>6. Asking' = [Asking EXCEPT !.at = Plain!Reached]
        BY <1>1, <1>2, <1>4, ServedOn
    <2> QED BY <1>4, <2>1, <2>3, <2>4, <2>5, <2>6, GetStep
<1> QED BY <1>5, <1>6, <1>7, <1>8 DEF FInv, JobsStep, JobsInv

\* It is read through entry e: one that held it, or one that is left free for it.
LEMMA ReadThrough ==
    ASSUME FInv, OneEntryPerChunk', Serving("read"), More, NEW e \in Entries, NEW x, IsEntry(x),
           x.object = job.file, x.chunk = Chunk, x.bytes = Seen(job.file, Chunk),
           \/ x = cache[e]
           \/ /\ ~x.dirty /\ x.bytes = nand[job.file][Chunk].bytes /\ Find(job.file, Chunk) = NoEntry
              /\ cache[e].object \notin Files \/ ~cache[e].dirty,
           Find(job.file, Chunk) \in {e, NoEntry},
           Use(e, x), Return(x.bytes)
    PROVE  DataInv' /\ JobsInv' /\ Plain!Next
<1>1. /\ IInv /\ DataInv /\ JobsOk /\ ZerosFill /\ Contents /\ Typed /\ Promises
      /\ Cached /\ OneEntryPerChunk /\ CleanIsSaved
    BY DEF FInv, JobsInv, DataInv, IInv, Typed
<1>2. jobs # <<>> /\ job.kind = "read"
    BY DEF Serving
<1>3. PICK f \in Files, c \in FileChunks : f = job.file /\ c = Chunk
    BY <1>1, <1>2, HeadOk, Span
<1>4. /\ jobs' = Stepped /\ UNCHANGED <<nand, nFreeChunks, fileSize, flushing, status>>
    BY DEF Return, store
<1>5. JobsStep
    BY <1>1, <1>2, <1>4, SteppedOn
<1>6. /\ Seen(f, c)' = x.bytes
      /\ \A g \in Files : \A d : g # f \/ d # c => Seen(g, d)' = Seen(g, d)
      /\ Used(e, x)
    BY <1>1, <1>3, <1>4, UseSeen
<1>7. SeenBytes' = SeenBytes
    <2>1. \A g \in Files, d \in FileChunks : Seen(g, d)' = Seen(g, d)
        BY <1>3, <1>6
    <2> QED BY <2>1, SeenKept
<1>8. x.bytes \in ByteLists
    BY <1>1, <1>3, SeenTyped
<1>9. ~x.dirty => x.bytes = nand[f][x.chunk].bytes
    BY <1>1, <1>3 DEF CleanIsSaved, Of
<1>10. x.dirty => DataOk(x.chunk, x.bytes, x.n, End(f)', Limit(f)')
    <2> SUFFICES ASSUME x.dirty PROVE DataOk(x.chunk, x.bytes, x.n, End(f)', Limit(f)')
        OBVIOUS
    <2>1. x = cache[e] /\ e \in Dirty(f)
        BY <1>3 DEF Dirty, Of
    <2>2. Reaches(f)
        BY <1>5 DEF JobsStep
    <2>3. DataOk(cache[e].chunk, cache[e].bytes, cache[e].n, End(f)', Limit(f)')
        BY <1>1, <2>1, <2>2, WithinReaches DEF DataInv
    <2> QED BY <2>1, <2>3
<1>11. OthersOk
    BY <1>1, <1>4, <1>6 DEF OthersOk, Contents, Used
<1>12. DataInv'
    BY <1>1, <1>3, <1>4, <1>5, <1>6, <1>8, <1>9, <1>10, <1>11, UsedKeeps DEF JobsStep
<1>13. \A g \in Files : Dirty(g)' \subseteq Dirty(g)
    <2> SUFFICES ASSUME NEW g \in Files, NEW d \in Entries, cache'[d].object = g, cache'[d].dirty
                 PROVE  cache[d].object = g /\ cache[d].dirty
        BY DEF Dirty, Of
    <2>1. CASE d = e
        BY <1>6, <2>1 DEF Used, SameData
    <2>2. CASE d # e
        BY <1>6, <2>2 DEF Used, SameData
    <2> QED BY <2>1, <2>2
<1>14. Return(Seen(job.file, Chunk))
    OBVIOUS
<1> QED BY <1>4, <1>7, <1>12, <1>13, <1>14, ReadStep

\* A chunk read from the entry that holds it.
LEMMA ReadCachedStep ==
    ASSUME FInv, OneEntryPerChunk', ReadCached
    PROVE  DataInv' /\ JobsInv' /\ Plain!Next
<1>1. IInv /\ DataInv /\ JobsOk /\ Contents /\ Typed /\ Cached /\ OneEntryPerChunk
    BY DEF FInv, JobsInv, DataInv, IInv, Typed
<1>2. jobs # <<>> /\ job.kind = "read" /\ Serving("read") /\ More
    BY DEF ReadCached, Serving
<1>3. PICK f \in Files : f = job.file
    BY <1>1, <1>2, HeadOk
<1>4. PICK e : e = Find(f, Chunk) /\ e # NoEntry /\ Use(e, cache[e]) /\ Return(cache[e].bytes)
    BY <1>3 DEF ReadCached
<1>5. e \in Entries /\ cache[e].object = f /\ cache[e].chunk = Chunk
    BY <1>1, <1>4, Found DEF Of
<1>6. IsEntry(cache[e]) /\ cache[e].bytes = Seen(f, Chunk)
    BY <1>1, <1>4, <1>5 DEF Cached, Seen
<1> QED BY <1>2, <1>3, <1>4, <1>5, <1>6, ReadThrough

\* A part of a chunk read through an entry that is grabbed for it.
LEMMA ReadUncachedStep ==
    ASSUME FInv, OneEntryPerChunk', ReadUncached
    PROVE  DataInv' /\ JobsInv' /\ (Plain!Next \/ Unseen)
<1>1. IInv /\ DataInv /\ JobsOk /\ Contents /\ Typed /\ Cached /\ OneEntryPerChunk
    BY DEF FInv, JobsInv, DataInv, IInv, Typed
<1>2. jobs # <<>> /\ job.kind = "read" /\ Serving("read") /\ More /\ flushing = None
    BY DEF ReadUncached, Serving
<1>3. PICK f \in Files : f = job.file
    BY <1>1, <1>2, HeadOk
<1>4. Find(f, Chunk) = NoEntry
    BY <1>3 DEF ReadUncached
<1>5. PICK e, x : e = Grabbed /\ x = Loaded(e, f, Chunk)
    OBVIOUS
<1>6. CASE MustFlush /\ FlushFirst(cache[LeastUsed].object, [jobs EXCEPT ![1].step = "flushed"])
    BY <1>2, <1>6, FlushFirstStep
<1>7. CASE (job.step = "chunk" => ~MustFlush) /\ Use(e, x) /\ Return(x.bytes)
    <2>1. e \in Entries /\ (cache[e].object \notin Files \/ ~cache[e].dirty)
        BY <1>2, <1>5, <1>7, GrabbedIs
    <2>2. IsEntry(x) /\ x.object = f /\ x.chunk = Chunk /\ ~x.dirty
        BY <1>1, <1>5, <2>1, LoadedEntry
    <2>3. x.bytes = nand[f][Chunk].bytes
        BY <1>1, <1>5, <2>1 DEF Loaded, Cached, IsEntry
    <2>4. x.bytes = Seen(f, Chunk)
        BY <1>4, <2>3 DEF Seen
    <2> QED BY <1>2, <1>3, <1>4, <1>7, <2>1, <2>2, <2>3, <2>4, ReadThrough
<1> QED BY <1>3, <1>5, <1>6, <1>7 DEF ReadUncached

\* A whole chunk read past the cache.
LEMMA ReadWholeStep ==
    ASSUME FInv, ReadWhole
    PROVE  DataInv' /\ JobsInv' /\ Plain!Next
<1>1. /\ IInv /\ DataInv /\ JobsOk /\ ZerosFill /\ Contents /\ Typed
    BY DEF FInv, JobsInv, DataInv, IInv
<1>2. /\ jobs # <<>> /\ job.kind = "read" /\ Serving("read") /\ More /\ Find(job.file, Chunk) = NoEntry
      /\ Return(nand[job.file][Chunk].bytes)
      /\ jobs' = Stepped /\ UNCHANGED <<cache, srLastUse, nand, nFreeChunks, fileSize, flushing, status>>
    BY DEF ReadWhole, Serving, Return, store
<1>3. JobsStep
    BY <1>1, <1>2, SteppedOn
<1>4. OthersOk
    BY <1>1, <1>2 DEF OthersOk, Contents
<1>5. DataInv' /\ SeenBytes' = SeenBytes /\ \A f \in Files : Dirty(f)' = Dirty(f)
    BY <1>1, <1>2, <1>3, <1>4, CacheStands DEF JobsStep
<1>6. Return(Seen(job.file, Chunk))
    BY <1>2 DEF Seen
<1> QED BY <1>2, <1>5, <1>6, ReadStep

\* The dirty chunk that is flushed next is one.
LEMMA LowestIs ==
    ASSUME Contents, NEW f \in Files, flushing = f, Dirty(f) # {}
    PROVE  LowestDirty \in Dirty(f)
<1> DEFINE Places == {cache[e].chunk : e \in Dirty(f)}
<1>1. \A e \in Dirty(f) : cache[e].chunk \in Nat
    BY Amounts, CacheAssumption DEF Contents, EntryOk, Dirty, Of
<1>2. Places \subseteq Nat /\ Places # {}
    BY <1>1
<1>3. PICK m \in Places : \A k \in Places : m <= k
    BY <1>2, SmallestIs
<1>4. PICK e \in Dirty(f) : m = cache[e].chunk
    BY <1>3
<1>5. \A d \in Dirty(f) : cache[e].chunk <= cache[d].chunk
    BY <1>3, <1>4
<1> QED BY <1>4, <1>5 DEF LowestDirty

\* The next dirty entry of the file written to its chunk (yaffs_FlushFilesChunkCache).
LEMMA FlushChunkStep ==
    ASSUME FInv, OneEntryPerChunk', CanWrite, FlushChunk
    PROVE  DataInv' /\ JobsInv' /\ Plain!Next
<1>1. /\ IInv /\ DataInv /\ JobsOk /\ ZerosFill /\ Contents /\ Typed /\ Promises
      /\ Cached /\ OneEntryPerChunk /\ CleanIsSaved
    BY DEF FInv, JobsInv, DataInv, IInv, Typed
<1>2. PICK f \in Files : f = flushing /\ Dirty(f) # {}
    BY <1>1, CacheAssumption DEF FlushChunk, Contents
<1>3. PICK e \in Entries : e = LowestDirty /\ e \in Dirty(f)
    BY <1>1, <1>2, LowestIs DEF Dirty, Of
<1>4. PICK c \in FileChunks : c = cache[e].chunk
    BY <1>1, <1>3, CacheAssumption DEF Contents, EntryOk, Dirty, Of
<1>5. PICK b, n : b = cache[e].bytes /\ n = cache[e].n
    OBVIOUS
<1>6. /\ nand' = [nand EXCEPT ![f][c] = [bytes |-> b, n |-> n]] /\ nFreeChunks' = nFreeChunks - Cost(f, c)
      /\ cache' = Without({e})
      /\ UNCHANGED <<srLastUse, fileSize, jobs, flushing, status, got>>
    BY <1>2, <1>3, <1>4, <1>5 DEF FlushChunk, Write, Flushed
<1>7. /\ JobsStep /\ (jobs # <<>> => SameKinds /\ job' = job)
    BY <1>1, <1>6, SameJobs
<1>8. DataOk(c, b, n, End(f)', Limit(f)')
    BY <1>1, <1>3, <1>4, <1>5, <1>7, WithinReaches DEF DataInv, JobsStep
<1>9. cache[e].object = f /\ Seen(f, c) = b /\ Find(f, c) = e /\ e # NoEntry
    <2>1. cache[e].object = f /\ e # NoEntry
        BY <1>3, Amounts DEF Dirty, Of, Entries, NoEntry
    <2> QED BY <1>1, <1>4, <1>5, <2>1, SeenIs
<1>10. b \in ByteLists /\ n \in 0 .. BytesPerChunk
    BY <1>1, <1>5, <1>8 DEF Contents, EntryOk, DataOk
<1>11. /\ nand'[f][c].bytes = b /\ nand'[f][c].n = n
       /\ \A g \in Files, d \in FileChunks : g # f \/ d # c => nand'[g][d] = nand[g][d]
       /\ nand' \in [Files -> [FileChunks -> [bytes : ByteLists, n : 0 .. BytesPerChunk]]]
    <2>1. nand \in [Files -> [FileChunks -> [bytes : ByteLists, n : 0 .. BytesPerChunk]]]
        BY <1>1 DEF Contents
    <2>2. [bytes |-> b, n |-> n] \in [bytes : ByteLists, n : 0 .. BytesPerChunk]
        BY <1>10
    <2> QED BY <1>6, <2>1, <2>2
<1>12. PICK lost : lost = {e} /\ lost = {d \in {Find(f, c)} : d # NoEntry}
    BY <1>9
<1>13. /\ \A g \in Files, d \in FileChunks : g # f \/ d # c => Seen(g, d)' = Seen(g, d)
       /\ Seen(f, c)' = b
       /\ \A d \in Entries \ lost : ~(cache[d].object = f /\ cache[d].chunk = c)
    BY <1>1, <1>6, <1>11, <1>12, TakenOut, ZenonT(60)
<1>14. SeenBytes' = SeenBytes
    <2>1. \A g \in Files, d \in FileChunks : Seen(g, d)' = Seen(g, d)
        BY <1>9, <1>13
    <2> QED BY <2>1, SeenKept
<1>15. OthersOk
    BY <1>1, <1>6 DEF OthersOk, Contents, Cost
<1>16. DataInv'
    <2>1. \A g \in Files : \A d \in FileChunks : nand'[g][d] # Hole =>
              DataOk(d, nand'[g][d].bytes, nand'[g][d].n, End(g)', Limit(g)')
        <3> TAKE g \in Files
        <3> TAKE d \in FileChunks
        <3>1. CASE g = f /\ d = c
            BY <1>8, <1>11, <3>1
        <3>2. CASE g # f \/ d # c
            BY <1>1, <1>7, <1>11, <3>2, WithinReaches DEF DataInv, JobsStep
        <3> QED BY <3>1, <3>2
    <2>2. \A g \in Files : \A d \in Of(g) \ lost : ~cache[d].dirty =>
              nand'[g][cache[d].chunk].bytes = nand[g][cache[d].chunk].bytes
        <3> TAKE g \in Files
        <3> TAKE d \in Of(g) \ lost
        <3>1. d \in Entries /\ cache[d].object = g /\ d \notin lost
            BY DEF Of
        <3>2. cache[d].chunk \in FileChunks
            BY <1>1, <3>1, CacheAssumption DEF Contents, EntryOk
        <3>3. g # f \/ cache[d].chunk # c
            BY <1>13, <3>1
        <3> QED BY <1>11, <3>2, <3>3
    <2>3. Taken(lost)
        BY <1>6, <1>7, <1>11, <1>12, <2>1, <2>2 DEF Taken, Without, JobsStep
    <2> QED BY <1>1, <1>15, <2>3, TakenKeeps
<1>17. \A g \in Files : Dirty(g)' \subseteq Dirty(g)
    BY <1>1, <1>6, WithoutKeeps
<1>18. Promises'
    <2>1. CASE jobs = <<>>
        BY <1>6, <2>1 DEF Promises
    <2>2. CASE jobs # <<>>
        BY <1>1, <1>6, <1>7, <1>17, <2>2, PromisesKept
    <2> QED BY <2>1, <2>2
<1>19. FlushFrees'
    <2>1. e \in Empty'
        BY <1>6 DEF Empty, Of, Without, Unused
    <2> QED BY <2>1 DEF FlushFrees
<1>20. Plain!Next
    <2>1. SavedTurns(f, c, b)
        BY <1>11 DEF SavedTurns
    <2> QED BY <1>6, <1>9, <1>14, <2>1, AskingIs, SaveStep
<1> QED BY <1>7, <1>16, <1>18, <1>19, <1>20 DEF FInv, JobsStep, JobsInv

(***************************************************************************)
(* Files that are cut.                                                     *)
(***************************************************************************)
\* Where a chunk lies that is behind, before or at the end of the file.
LEMMA SizeIs ==
    ASSUME NEW size \in 0 .. MaxSize
    PROVE  \E q, r \in Nat : /\ q = size \div BytesPerChunk /\ r = size % BytesPerChunk
                             /\ r \in 0 .. BytesPerChunk - 1 /\ size = q * BytesPerChunk + r
<1>1. size \in Nat
    BY Amounts
<1>2. /\ size \div BytesPerChunk \in Nat /\ (size % BytesPerChunk) \in 0 .. BytesPerChunk - 1
      /\ size = (size \div BytesPerChunk) * BytesPerChunk + (size % BytesPerChunk)
    BY <1>1, Amounts, Division
<1> QED BY <1>2, Amounts

\* Multiplication keeps the order of numbers.
LEMMA Times ==
    ASSUME NEW p \in Nat, NEW q \in Nat, NEW b \in Nat
    PROVE  p * b \in Nat /\ (p < q => p * b + b <= q * b) /\ (p <= q => p * b <= q * b)
<1>1. p * b \in Nat
    OBVIOUS
<1>2. ASSUME p < q PROVE p * b + b <= q * b
    <2>1. PICK i \in Nat : q = p + 1 + i
        <3>1. q - p - 1 \in Nat /\ q = p + 1 + (q - p - 1)
            BY <1>2
        <3> QED BY <3>1
    <2>2. i * b \in Nat
        OBVIOUS
    <2>3. q * b = p * b + b + i * b
        BY <2>1
    <2> QED BY <1>1, <2>2, <2>3
<1> QED BY <1>1, <1>2

\* Where a chunk stands to the size a file is cut to.
LEMMA CutAt ==
    ASSUME NEW size \in 0 .. MaxSize, NEW d \in FileChunks, NEW last, last = size \div BytesPerChunk + 1
    PROVE  /\ (d - 1) * BytesPerChunk \in Nat /\ (size % BytesPerChunk) \in 0 .. BytesPerChunk - 1
           /\ d = last => (d - 1) * BytesPerChunk + (size % BytesPerChunk) = size
           /\ ((d - 1) * BytesPerChunk < size /\ (d # last \/ size % BytesPerChunk = 0)) =>
                  (d - 1) * BytesPerChunk + BytesPerChunk <= size
<1>1. PICK q, r \in Nat : /\ q = size \div BytesPerChunk /\ r = size % BytesPerChunk
                          /\ r \in 0 .. BytesPerChunk - 1 /\ size = q * BytesPerChunk + r
    BY SizeIs
<1>2. PICK b, p \in Nat : b = BytesPerChunk /\ b >= 1 /\ p = d - 1
    BY Amounts
<1>3. PICK m, u \in Nat : m = q * b /\ u = p * b
    <2>1. q * b \in Nat /\ p * b \in Nat
        BY Times
    <2> QED BY <2>1
<1>4. p < q => u + b <= m
    BY <1>3, Times
<1>5. p > q => m + b <= u
    BY <1>3, Times
<1>6. p = q => u = m
    BY <1>3
<1>7. d = last <=> p = q
    BY <1>1, <1>2, Amounts
<1>9. size = m + r /\ (d - 1) * BytesPerChunk = u
    BY <1>1, <1>2, <1>3
<1>10. d = last => u + r = size
    BY <1>6, <1>7, <1>9
<1>11. (u < size /\ (d # last \/ r = 0)) => u + b <= size
    BY <1>1, <1>2, <1>3, <1>4, <1>5, <1>6, <1>7, <1>9
<1> QED BY <1>1, <1>2, <1>3, <1>9, <1>10, <1>11

\* A file that ends inside a chunk has that chunk.
LEMMA LastChunkIs ==
    ASSUME NEW size \in 0 .. MaxSize, size % BytesPerChunk # 0
    PROVE  size \div BytesPerChunk + 1 \in FileChunks
<1>1. PICK q, r \in Nat : /\ q = size \div BytesPerChunk /\ r = size % BytesPerChunk
                          /\ r \in 0 .. BytesPerChunk - 1 /\ size = q * BytesPerChunk + r
    BY SizeIs
<1>2. PICK b \in Nat : b = BytesPerChunk
    BY Amounts
<1>3. PICK n \in Nat : n = MaxSize \div BytesPerChunk /\ MaxSize = n * b
    BY <1>2, Amounts
<1>4. size <= MaxSize
    BY Amounts
<1>5. n <= q => n * b <= q * b
    BY Times
<1>6. q * b \in Nat /\ n * b \in Nat
    BY Times
<1>7. PICK m \in Nat : m = q * b
    BY <1>6
<1>8. size = m + r /\ r # 0
    BY <1>1, <1>2, <1>7
<1>9. ~(n <= q)
    <2> SUFFICES ASSUME n <= q PROVE FALSE
        OBVIOUS
    <2>1. MaxSize <= m
        BY <1>3, <1>5, <1>7
    <2> QED BY <1>4, <1>8, <2>1, Amounts
<1> QED BY <1>1, <1>3, <1>9 DEF FileChunks

\* The chunks a file has can be counted.
LEMMA KeptIs ==
    /\ IsFiniteSet(FileChunks)
    /\ \A chunks : Kept(chunks) \in Nat
<1>1. IsFiniteSet(FileChunks)
    BY Amounts, FS_Interval DEF FileChunks
<1>2. \A chunks : Kept(chunks) \in Nat
    <2> TAKE chunks
    <2>1. {c \in FileChunks : chunks[c] # Hole} \subseteq FileChunks
        OBVIOUS
    <2> QED BY <1>1, <2>1, FS_Subset, FS_CardinalityType DEF Kept
<1> QED BY <1>1, <1>2

\* What becomes of the chunk.
CutChunk(f, size, d) ==
    LET start == (d - 1) * BytesPerChunk
    IN \/ nand'[f][d] = Hole /\ start >= size
       \/ nand'[f][d] = nand[f][d] /\ start + BytesPerChunk <= size
       \/ nand'[f][d] = Padded(nand[f][d], size) /\ start + (size % BytesPerChunk) = size

\* What cutting a file (yaffs_ResizeDown) leaves of each chunk: nothing, all of it, or
\* its part before the size.
LEMMA ResizedDown ==
    ASSUME Contents, CanWrite, NEW f \in Files, NEW size \in 0 .. MaxSize, ResizeDown(f, size)
    PROVE  /\ nand' \in [Files -> [FileChunks -> [bytes : ByteLists, n : 0 .. BytesPerChunk]]]
           /\ \A g \in Files \ {f} : nand'[g] = nand[g]
           /\ fileSize' = [fileSize EXCEPT ![f] = size] /\ nFreeChunks' \in Int
           /\ \A d \in FileChunks : CutChunk(f, size, d)
<1> DEFINE last == size \div BytesPerChunk + 1
<1>1. PICK pruned : pruned = Pruned(f, size)
    OBVIOUS
<1>2. PICK left : left = nFreeChunks + Kept(nand[f]) - Kept(pruned)
    OBVIOUS
<1>3. PICK padded : padded = IF size % BytesPerChunk # 0 /\ left > 0
                             THEN [pruned EXCEPT ![last] = Padded(@, size)] ELSE pruned
    OBVIOUS
<1>4. /\ nand' = [nand EXCEPT ![f] = padded] /\ nFreeChunks' = left + Kept(pruned) - Kept(padded)
      /\ fileSize' = [fileSize EXCEPT ![f] = size]
    BY <1>1, <1>2, <1>3 DEF ResizeDown
<1>5. /\ nand \in [Files -> [FileChunks -> [bytes : ByteLists, n : 0 .. BytesPerChunk]]]
      /\ nFreeChunks \in Int
    BY DEF Contents
<1>6. IsFiniteSet(FileChunks)
    BY KeptIs
<1>7. \A chunks : Kept(chunks) \in Nat
    BY KeptIs
<1>8. Kept(pruned) <= Kept(nand[f])
    <2> DEFINE S == {c \in FileChunks : nand[f][c] # Hole}
               T == {c \in FileChunks : pruned[c] # Hole}
    <2>1. T \subseteq S /\ S \subseteq FileChunks
        BY <1>1 DEF Pruned
    <2> HIDE DEF S, T
    <2>2. Cardinality(T) <= Cardinality(S)
        BY <1>6, <2>1, FS_Subset
    <2> QED BY <2>2 DEF Kept, S, T
<1>9. left \in Int /\ left > 0
    <2>1. PICK a, b \in Nat : a = Kept(nand[f]) /\ b = Kept(pruned) /\ b <= a
        BY <1>7, <1>8
    <2> QED BY <1>2, <1>5, <2>1 DEF CanWrite
<1>10. nFreeChunks' \in Int
    <2>1. PICK a, b \in Nat : a = Kept(pruned) /\ b = Kept(padded)
        BY <1>7
    <2> QED BY <1>4, <1>9, <2>1
<1>11. /\ pruned \in [FileChunks -> [bytes : ByteLists, n : 0 .. BytesPerChunk]]
       /\ \A d \in FileChunks : pruned[d] = IF (d - 1) * BytesPerChunk >= size THEN Hole ELSE nand[f][d]
    <2>1. Hole \in [bytes : ByteLists, n : 0 .. BytesPerChunk]
        BY Amounts DEF Hole, Zeros, ByteLists, Offsets, Bytes
    <2> QED BY <1>1, <1>5, <2>1 DEF Pruned
<1>12. \A x \in [bytes : ByteLists, n : 0 .. BytesPerChunk] :
           Padded(x, size) \in [bytes : ByteLists, n : 0 .. BytesPerChunk]
    <2> TAKE x \in [bytes : ByteLists, n : 0 .. BytesPerChunk]
    <2>1. PICK r : r = size % BytesPerChunk /\ r \in 0 .. BytesPerChunk
        <3>1. size \in Nat
            BY Amounts
        <3>2. (size % BytesPerChunk) \in 0 .. BytesPerChunk - 1
            BY <3>1, Amounts, Division
        <3> QED BY <3>2, Amounts
    <2>2. [k \in 1 .. BytesPerChunk |-> IF k <= r THEN x.bytes[k] ELSE 0] \in ByteLists
        BY DEF ByteLists, Offsets, Bytes
    <2> QED BY <2>1, <2>2 DEF Padded
<1>13. CASE size % BytesPerChunk = 0
    <2>1. padded = pruned
        BY <1>3, <1>13
    <2>2. \A d \in FileChunks : CutChunk(f, size, d)
        <3> TAKE d \in FileChunks
        <3>1. nand'[f][d] = pruned[d]
            BY <1>4, <1>5, <2>1
        <3>2. (d - 1) * BytesPerChunk \in Nat
              /\ ((d - 1) * BytesPerChunk < size => (d - 1) * BytesPerChunk + BytesPerChunk <= size)
            BY <1>13, CutAt
        <3>3. size \in Nat
            BY Amounts
        <3> QED BY <1>11, <3>1, <3>2, <3>3 DEF CutChunk
    <2> QED BY <1>4, <1>5, <1>10, <1>11, <2>1, <2>2
<1>14. CASE size % BytesPerChunk # 0
    <2>1. padded = [pruned EXCEPT ![last] = Padded(@, size)]
        BY <1>3, <1>9, <1>14
    <2>2. last \in FileChunks
        BY <1>14, LastChunkIs
    <2>3. padded \in [FileChunks -> [bytes : ByteLists, n : 0 .. BytesPerChunk]]
        BY <1>11, <1>12, <2>1, <2>2
    <2>4. /\ padded[last] = Padded(pruned[last], size)
          /\ \A d \in FileChunks \ {last} : padded[d] = pruned[d]
        BY <1>11, <2>1, <2>2
    <2>5. \A d \in FileChunks : CutChunk(f, size, d)
        <3> TAKE d \in FileChunks
        <3>1. nand'[f][d] = padded[d]
            BY <1>4, <1>5
        <3>2. PICK start \in Nat : start = (d - 1) * BytesPerChunk
            BY CutAt
        <3>3. PICK r \in 0 .. BytesPerChunk - 1 : r = size % BytesPerChunk /\ r # 0
            BY <1>14, CutAt
        <3>4. size \in Nat
            BY Amounts
        <3>5. CASE d = last
            <4>1. start + r = size
                BY <3>2, <3>3, <3>5, CutAt
            <4>2. start < size
                BY <3>3, <3>4, <4>1, Amounts
            <4>3. pruned[d] = nand[f][d]
                BY <1>11, <3>2, <3>4, <4>2
            <4> QED BY <2>4, <3>1, <3>2, <3>3, <3>5, <4>1, <4>3 DEF CutChunk
        <3>6. CASE d # last
            <4>1. start < size => start + BytesPerChunk <= size
                BY <3>2, <3>6, CutAt
            <4> QED BY <1>11, <2>4, <3>1, <3>2, <3>4, <3>6, <4>1 DEF CutChunk
        <3> QED BY <3>5, <3>6
    <2> QED BY <1>4, <1>5, <1>10, <2>3, <2>5
<1> QED BY <1>13, <1>14

\* The chunk's bytes are cut as the file is.
LEMMA CutBytes ==
    ASSUME Contents, NEW f \in Files, NEW size \in 0 .. MaxSize, NEW d \in FileChunks, CutChunk(f, size, d),
           NEW k \in Offsets
    PROVE  /\ nand'[f][d].bytes[k] = IF (d - 1) * BytesPerChunk + k <= size THEN nand[f][d].bytes[k] ELSE 0
           /\ nand'[f][d].bytes = [i \in Offsets |-> nand'[f][d].bytes[i]]
<1>1. PICK start \in Nat, r \in 0 .. BytesPerChunk - 1 :
          start = (d - 1) * BytesPerChunk /\ r = size % BytesPerChunk
    BY CutAt
<1>2. size \in Nat /\ k \in 1 .. BytesPerChunk /\ k \in Nat
    BY Amounts DEF Offsets
<1>3. nand[f][d].bytes \in ByteLists
    BY DEF Contents
<1>4. CASE nand'[f][d] = Hole /\ start >= size
    <2>1. nand'[f][d].bytes = Zeros
        BY <1>4 DEF Hole
    <2> QED BY <1>1, <1>2, <1>4, <2>1 DEF Zeros, Offsets
<1>5. CASE nand'[f][d] = nand[f][d] /\ start + BytesPerChunk <= size
    <2>1. start + k <= size
        BY <1>1, <1>2, <1>5, Amounts
    <2>2. nand[f][d].bytes = [i \in Offsets |-> nand[f][d].bytes[i]]
        BY <1>3 DEF ByteLists
    <2> QED BY <1>1, <1>5, <2>1, <2>2
<1>6. CASE nand'[f][d] = Padded(nand[f][d], size) /\ start + r = size
    <2>1. nand'[f][d].bytes = [i \in Offsets |-> IF i <= r THEN nand[f][d].bytes[i] ELSE 0]
        BY <1>1, <1>6 DEF Padded, Offsets
    <2>2. k <= r <=> start + k <= size
        BY <1>1, <1>2, <1>6, Amounts
    <2> QED BY <1>1, <2>1, <2>2
<1> QED BY <1>1, <1>4, <1>5, <1>6 DEF CutChunk

\* What is left of the chunk lies within the size.
LEMMA CutData ==
    ASSUME Contents, Within, NEW f \in Files, NEW size \in 0 .. MaxSize, NEW d \in FileChunks,
           CutChunk(f, size, d), nand'[f][d] # Hole,
           NEW end \in Int, NEW limit \in Int, size <= end, size <= limit
    PROVE  DataOk(d, nand'[f][d].bytes, nand'[f][d].n, end, limit)
<1>1. PICK start \in Nat, r \in 0 .. BytesPerChunk - 1 :
          start = (d - 1) * BytesPerChunk /\ r = size % BytesPerChunk
    BY CutAt
<1>2. size \in Nat /\ \A k \in Offsets : k \in 1 .. BytesPerChunk /\ k \in Nat
    BY Amounts DEF Offsets
<1>3. CASE nand'[f][d] = nand[f][d] /\ start + BytesPerChunk <= size
    <2>1. DataOk(d, nand[f][d].bytes, nand[f][d].n, End(f), Limit(f))
        BY <1>3 DEF Within
    <2>2. PICK n \in 0 .. BytesPerChunk : n = nand[f][d].n
        BY <2>1 DEF DataOk
    <2>3. start + n <= limit
        BY <1>1, <1>2, <1>3, Amounts
    <2>4. \A k \in Offsets : start + k <= end
        BY <1>1, <1>2, <1>3, Amounts
    <2> QED BY <1>1, <1>3, <2>1, <2>2, <2>3, <2>4 DEF DataOk
<1>4. CASE nand'[f][d] = Padded(nand[f][d], size) /\ start + r = size
    <2>1. /\ nand'[f][d].bytes = [i \in Offsets |-> IF i <= r THEN nand[f][d].bytes[i] ELSE 0]
          /\ nand'[f][d].n = r
        BY <1>1, <1>4 DEF Padded, Offsets
    <2>2. \A k \in Offsets : k <= r => start + k <= end
        BY <1>1, <1>2, <1>4, Amounts
    <2>3. r \in 0 .. BytesPerChunk /\ start + r <= limit
        BY <1>1, <1>4, Amounts
    <2> QED BY <1>1, <2>1, <2>2, <2>3 DEF DataOk
<1> QED BY <1>1, <1>3, <1>4 DEF CutChunk

\* Zeros that could not all be written are taken back.
LEMMA TakenBackStep ==
    ASSUME FInv, CanWrite, WriteEnds, job.kind = "zeros", job.step = "short"
    PROVE  DataInv' /\ JobsInv' /\ Plain!Next
<1>1. /\ IInv /\ DataInv /\ JobsOk /\ ZerosFill /\ Contents /\ Typed /\ Promises
      /\ OneEntryPerChunk /\ CleanIsSaved /\ Within
    BY DEF FInv, JobsInv, DataInv, IInv
<1>2. jobs # <<>> /\ status = "short" /\ JobOk(job, status)
    BY <1>1, HeadOk DEF WriteEnds, Writing, Serving, JobOk
<1>3. PICK f \in Files, size \in 0 .. MaxSize : f = job.file /\ size = job.was
    BY <1>1, <1>2, HeadOk DEF JobOk
<1>4. /\ ResizeDown(f, size) /\ GivesUp
      /\ UNCHANGED <<cache, srLastUse, flushing, status, got>>
    BY <1>3 DEF WriteEnds, GivesUp
<1>5. /\ nand' \in [Files -> [FileChunks -> [bytes : ByteLists, n : 0 .. BytesPerChunk]]]
      /\ \A g \in Files \ {f} : nand'[g] = nand[g]
      /\ fileSize' = [fileSize EXCEPT ![f] = size] /\ nFreeChunks' \in Int
      /\ \A d \in FileChunks : CutChunk(f, size, d)
    BY <1>1, <1>4, ResizedDown
<1>6. /\ JobsStep /\ (\A k \in DOMAIN jobs' : jobs'[k].kind # "zeros") /\ jobs' # <<>>
      /\ job'.step = "chunk" /\ Last' = Last
    BY <1>1, <1>2, <1>3, <1>4, <1>5, TakeBackJobs
<1>7. size <= fileSize[f] /\ Last.kind \in {"write", "extend"}
    <2>1. Fills(job, job, Last, fileSize)
        BY <1>1, <1>2, HeadOk DEF ZerosFill
    <2> QED BY <1>3, <2>1 DEF Fills
<1>8. End(f) = size
    BY <1>2, <1>3 DEF End
<1>9. PICK end, limit \in Int : end = End(f)' /\ limit = Limit(f)' /\ size <= end /\ size <= limit
    <2>1. Reaches(f) /\ fileSize[f] <= Limit(f) /\ fileSize[f] \in Nat
        BY <1>1, <1>6, Ends DEF JobsStep
    <2> QED BY <1>7, <1>8, <2>1 DEF Reaches
<1>10. \A d \in FileChunks, k \in Offsets : (d - 1) * BytesPerChunk + k > size =>
           Seen(f, d)[k] = 0 /\ nand[f][d].bytes[k] = 0
    <2> TAKE d \in FileChunks
    <2> TAKE k \in Offsets
    <2>1. (d - 1) * BytesPerChunk + k \in Nat
        BY PlaceIs, Amounts
    <2>2. Seen(f, d)[k] # 0 => (d - 1) * BytesPerChunk + k <= size
        BY <1>1, <1>8, SeenEnds
    <2>3. nand[f][d].bytes[k] # 0 => (d - 1) * BytesPerChunk + k <= size
        BY <1>1, <1>8, SavedEnds
    <2>4. size \in Nat
        BY Amounts
    <2> QED BY <2>1, <2>2, <2>3, <2>4
<1>11. \A g \in Files, d \in FileChunks : nand'[g][d].bytes = nand[g][d].bytes
    <2> TAKE g \in Files
    <2> TAKE d \in FileChunks
    <2>1. CASE g # f
        BY <1>5, <2>1
    <2>2. CASE g = f
        <3>1. PICK new, old : new = nand'[f][d].bytes /\ old = nand[f][d].bytes
            OBVIOUS
        <3>2. old \in ByteLists /\ new \in ByteLists
            BY <1>1, <1>5, <3>1 DEF Contents
        <3>3. \A k \in Offsets : new[k] = old[k]
            <4> TAKE k \in Offsets
            <4>1. new[k] = IF (d - 1) * BytesPerChunk + k <= size THEN old[k] ELSE 0
                BY <1>1, <1>5, <3>1, CutBytes, ZenonT(60)
            <4>2. (d - 1) * BytesPerChunk + k \in Nat /\ size \in Nat
                BY PlaceIs, Amounts
            <4> QED BY <1>10, <3>1, <4>1, <4>2
        <3>4. new = old
            BY <3>2, <3>3 DEF ByteLists
        <3> QED BY <2>2, <3>1, <3>4
    <2> QED BY <2>1, <2>2
<1>12. SeenBytes' = SeenBytes /\ SavedBytes' = SavedBytes
    <2>1. \A g \in Files, d \in FileChunks : Seen(g, d)' = Seen(g, d)
        BY <1>4, <1>11 DEF Seen, Find, Of
    <2> QED BY <1>11, <2>1, SeenKept, SavedKept
<1>13. OthersOk
    BY <1>1, <1>4, <1>5 DEF OthersOk, Contents
<1>14. DataInv'
    <2>1. \A g \in Files : \A d \in FileChunks : nand'[g][d] # Hole =>
              DataOk(d, nand'[g][d].bytes, nand'[g][d].n, End(g)', Limit(g)')
        <3> TAKE g \in Files
        <3> TAKE d \in FileChunks
        <3>1. CASE g = f
            BY <1>1, <1>5, <1>9, <3>1, CutData
        <3>2. CASE g # f
            BY <1>1, <1>5, <1>6, <3>2, WithinReaches DEF JobsStep
        <3> QED BY <3>1, <3>2
    <2>2. \A g \in Files : \A e \in Of(g) \ {} : ~cache[e].dirty =>
              nand'[g][cache[e].chunk].bytes = nand[g][cache[e].chunk].bytes
        <3> TAKE g \in Files
        <3> TAKE e \in Of(g) \ {}
        <3>1. cache[e].chunk \in FileChunks
            BY <1>1, CacheAssumption DEF Of, Contents, EntryOk
        <3> QED BY <1>11, <3>1
    <2>3. Taken({})
        BY <1>4, <1>5, <1>6, <2>1, <2>2 DEF Taken, JobsStep
    <2> QED BY <1>1, <1>13, <2>3, TakenKeeps
<1>15. Promises' /\ FlushFrees'
    BY <1>6, <1>7 DEF Promises, FlushFrees
<1>16. Plain!Next
    <2>1. fileSize \in [Files -> 0 .. MaxSize]
        BY <1>1 DEF Contents
    <2>2. Plain!Fills(f) /\ Asking.was = size
        BY <1>1, <1>2, <1>3, Filling
    <2>3. Asking' = Asking
        BY <1>2, <1>6, AskingIs
    <2> QED BY <1>2, <1>4, <1>5, <1>7, <1>10, <1>12, <2>1, <2>2, <2>3, TakeBackStep
<1> QED BY <1>6, <1>14, <1>15, <1>16 DEF FInv, JobsStep, JobsInv

\* A file's entries are all taken out.
LEMMA Dropped ==
    ASSUME OneEntryPerChunk, OneEntryPerChunk', NEW f \in Files, cache' = Without(Of(f)),
           \A g \in Files \ {f} : nand'[g] = nand[g]
    PROVE  /\ \A g \in Files \ {f}, d \in FileChunks : Seen(g, d)' = Seen(g, d)
           /\ \A d \in FileChunks : Seen(f, d)' = nand'[f][d].bytes
<1>1. ASSUME NEW g \in Files \ {f}, NEW d \in FileChunks PROVE Seen(g, d)' = Seen(g, d)
    <2>1. CASE \E e \in Entries \ Of(f) : cache[e].object = g /\ cache[e].chunk = d
        BY <2>1, WithoutSeen
    <2>2. CASE \A e \in Entries \ Of(f) : ~(cache[e].object = g /\ cache[e].chunk = d)
        <3>1. Seen(g, d)' = nand'[g][d].bytes
            BY <2>2, WithoutSeen
        <3>2. \A e \in Entries : ~(cache[e].object = g /\ cache[e].chunk = d)
            BY <2>2 DEF Of
        <3>3. Seen(g, d) = nand[g][d].bytes
            BY <3>2, SeenIs
        <3> QED BY <3>1, <3>3
    <2> QED BY <2>1, <2>2
<1>2. ASSUME NEW d \in FileChunks PROVE Seen(f, d)' = nand'[f][d].bytes
    <2>1. \A e \in Entries \ Of(f) : ~(cache[e].object = f /\ cache[e].chunk = d)
        BY DEF Of
    <2> QED BY <2>1, WithoutSeen
<1> QED BY <1>1, <1>2

\* The file ends at its size when no job writes to it.
LEMMA QuietEnds ==
    ASSUME Typed, Contents, JobsOk, jobs = <<>> \/ (job.kind = "resize" /\ Len(jobs) = 1),
           jobs' = <<>>, NEW f \in Files, NEW size \in 0 .. MaxSize, fileSize' = [fileSize EXCEPT ![f] = size]
    PROVE  /\ \A g \in Files \ {f} : Reaches(g)
           /\ End(f)' = size /\ Limit(f)' = size
<1>1. \A g \in Files : fileSize[g] \in Int /\ fileSize'[g] = IF g = f THEN size ELSE fileSize[g]
    BY Amounts DEF Contents
<1>2. \A g \in Files : End(g)' = fileSize'[g] /\ Limit(g)' = fileSize'[g]
    BY DEF End, Limit
<1>3. \A g \in Files : End(g) = fileSize[g] /\ Limit(g) = fileSize[g]
    <2>1. CASE jobs = <<>>
        BY <2>1 DEF End, Limit
    <2>2. CASE jobs # <<>> /\ job.kind = "resize" /\ Len(jobs) = 1
        <3>1. Last = job
            BY <2>2, HeadOk DEF Last
        <3> QED BY <1>1, <2>2, <3>1, Amounts DEF End, Limit, Target, Larger, Contents
    <2> QED BY <2>1, <2>2
<1> QED BY <1>1, <1>2, <1>3 DEF Reaches

\* A file without dirty chunks is cut, or removed, and its entries with it.
LEMMA CutKeeps ==
    ASSUME FInv, jobs = <<>> \/ (job.kind = "resize" /\ Len(jobs) = 1), jobs' = <<>>,
           NEW f \in Files, NEW size \in 0 .. MaxSize, cache' = Without(Of(f)),
           nand' \in [Files -> [FileChunks -> [bytes : ByteLists, n : 0 .. BytesPerChunk]]],
           \A g \in Files \ {f} : nand'[g] = nand[g], \A d \in FileChunks : CutChunk(f, size, d),
           fileSize' = [fileSize EXCEPT ![f] = size], nFreeChunks' \in Int, UNCHANGED <<srLastUse, flushing>>
    PROVE  DataInv' /\ JobsInv'
<1>1. IInv /\ DataInv /\ JobsOk /\ Contents /\ Typed /\ Within
    BY DEF FInv, JobsInv, DataInv, IInv
<1>2. (\A g \in Files \ {f} : Reaches(g)) /\ End(f)' = size /\ Limit(f)' = size
    BY <1>1, QuietEnds
<1>3. OthersOk
    BY <1>1 DEF OthersOk, Contents
<1>4. \A g \in Files : \A d \in FileChunks : nand'[g][d] # Hole =>
          DataOk(d, nand'[g][d].bytes, nand'[g][d].n, End(g)', Limit(g)')
    <2> TAKE g \in Files
    <2> TAKE d \in FileChunks
    <2>1. CASE g = f
        <3>1. size \in Int /\ size <= size
            BY Amounts
        <3> QED BY <1>1, <1>2, <2>1, <3>1, CutData
    <2>2. CASE g # f
        BY <1>1, <1>2, <2>2, WithinReaches
    <2> QED BY <2>1, <2>2
<1>5. \A g \in Files : \A e \in Of(g) \ Of(f) : ~cache[e].dirty =>
          nand'[g][cache[e].chunk].bytes = nand[g][cache[e].chunk].bytes
    <2> TAKE g \in Files
    <2>1. CASE g = f
        BY <2>1
    <2>2. CASE g # f
        BY <2>2
    <2> QED BY <2>1, <2>2
<1>6. Taken(Of(f))
    BY <1>2, <1>4, <1>5 DEF Taken, Without
<1>7. DataInv'
    BY <1>1, <1>3, <1>6, TakenKeeps
<1>8. JobsInv'
    BY DEF JobsInv, JobsOk, ZerosFill, Promises, FlushFrees, LastOk
<1> QED BY <1>7, <1>8

\* Deleting a file (yaffs_DoGenericObjectDeletion): its entries and its chunks are gone and it is empty.
LEMMA RemovedStep ==
    ASSUME FInv, OneEntryPerChunk', NEW f \in Files, Remove(f)
    PROVE  DataInv' /\ JobsInv' /\ Plain!Next
<1>1. IInv /\ Contents /\ OneEntryPerChunk
    BY DEF FInv, DataInv, IInv
<1>2. /\ jobs = <<>> /\ jobs' = <<>> /\ cache' = Without(Of(f))
      /\ nand' = [nand EXCEPT ![f] = [c \in FileChunks |-> Hole]] /\ nFreeChunks' = nFreeChunks + Kept(nand[f])
      /\ fileSize' = [fileSize EXCEPT ![f] = 0] /\ status' = "ok" /\ got' = <<>>
      /\ UNCHANGED <<srLastUse, flushing>>
    BY DEF Remove, Idle
<1>3. nand \in [Files -> [FileChunks -> [bytes : ByteLists, n : 0 .. BytesPerChunk]]] /\ nFreeChunks \in Int
    BY <1>1 DEF Contents
<1>4. Hole \in [bytes : ByteLists, n : 0 .. BytesPerChunk]
    BY Amounts DEF Hole, Zeros, ByteLists, Offsets, Bytes
<1>5. /\ nand' \in [Files -> [FileChunks -> [bytes : ByteLists, n : 0 .. BytesPerChunk]]]
      /\ \A g \in Files \ {f} : nand'[g] = nand[g] /\ \A d \in FileChunks : nand'[f][d] = Hole
    BY <1>2, <1>3, <1>4
<1>6. nFreeChunks' \in Int
    <2>1. Kept(nand[f]) \in Nat
        BY KeptIs
    <2> QED BY <1>2, <1>3, <2>1
<1>7. 0 \in 0 .. MaxSize
    BY Amounts
<1>8. \A d \in FileChunks : CutChunk(f, 0, d)
    <2> TAKE d \in FileChunks
    <2>1. (d - 1) * BytesPerChunk >= 0
        BY <1>7, CutAt
    <2>2. nand'[f][d] = Hole
        BY <1>2, <1>3
    <2> QED BY <2>1, <2>2 DEF CutChunk
<1>9. DataInv' /\ JobsInv'
    <2>1. \A g \in Files \ {f} : nand'[g] = nand[g]
        BY <1>2, <1>3
    <2> QED BY <1>2, <1>5, <1>6, <1>7, <1>8, <2>1, CutKeeps
<1>10. Plain!Next
    <2>1. \A g \in Files \ {f} : nand'[g] = nand[g]
        BY <1>2, <1>3
    <2>2. \A d \in FileChunks : nand'[f][d] = Hole
        BY <1>2, <1>3
    <2>3. /\ \A g \in Files \ {f}, d \in FileChunks : Seen(g, d)' = Seen(g, d)
          /\ \A d \in FileChunks : Seen(f, d)' = nand'[f][d].bytes
        BY <1>1, <1>2, <2>1, Dropped
    <2>4. \A d \in FileChunks : Seen(f, d)' = Zeros /\ nand'[f][d].bytes = Zeros
        BY <2>2, <2>3 DEF Hole
    <2>5. \A g \in Files \ {f}, d \in FileChunks :
              Seen(g, d)' = Seen(g, d) /\ nand'[g][d].bytes = nand[g][d].bytes
        BY <2>1, <2>3
    <2>6. Asking = Plain!NoRequest /\ Asking' = Asking
        BY <1>2, AskingIs
    <2> QED BY <1>2, <2>4, <2>5, <2>6, RemoveStep
<1> QED BY <1>9, <1>10

\* A file that gets longer is filled with zeros first, and then gets its size.
LEMMA LongerFirst ==
    ASSUME Typed, Contents, JobsOk, jobs # <<>>, job.kind = "resize", NEW f \in Files,
           NEW size \in 0 .. MaxSize,
           jobs' = HoleJobs(f, size) \o <<Job("extend", f, 0, size, 0)>> \o Tail(jobs),
           UNCHANGED fileSize
    PROVE  JobsStep /\ jobs' # <<>> /\ job'.step = "chunk" /\ Last' = Job("extend", f, 0, size, 0)
<1>1. Len(jobs) = 1
    <2>1. 1 \in DOMAIN jobs /\ jobs[1].kind \in Endings
        BY HeadOk DEF Endings
    <2> QED BY <2>1 DEF JobsOk
<1>2. Tail(jobs) = <<>>
    <2>1. PICK t \in Seq(JobRecords) : t = Tail(jobs)
        BY HeadTyped
    <2>2. Len(t) = 0
        BY <1>1, <2>1 DEF Typed
    <2> QED BY <2>1, <2>2, EmptySeq
<1>3. PICK j : j = Job("extend", f, 0, size, 0)
    OBVIOUS
<1>4. PICK list : list = HoleJobs(f, size) \o <<j>>
    OBVIOUS
<1>5. j \in JobRecords /\ list \in Seq(JobRecords)
    <2>1. j \in JobRecords
        BY <1>3, JobTyped, Amounts DEF Kinds
    <2>2. HoleJobs(f, size) \in Seq(JobRecords)
        BY HoleJobsTyped, Amounts
    <2> QED BY <1>4, <2>1, <2>2, Joined
<1>6. jobs' = list
    <2>1. jobs' = (HoleJobs(f, size) \o <<j>>) \o <<>>
        BY <1>2, <1>3
    <2>2. list \o <<>> = list
        BY <1>5
    <2> QED BY <1>4, <2>1, <2>2
<1>7. /\ JobOk(j, status') /\ j.kind = "extend" /\ j.file = f /\ j.step = "chunk" /\ j.done = 0
      /\ j.was = fileSize[f] /\ Target(j) = size
    <2>1. fileSize[f] \in 0 .. MaxSize /\ 0 \in Bytes /\ size \in Nat /\ size <= MaxSize
        BY Amounts DEF Contents, Bytes
    <2> QED BY <1>3, <2>1 DEF Job, JobOk, Target
<1> QED BY <1>3, <1>4, <1>5, <1>6, <1>7, FillingStep

\* A file is cut, or longer and gets a hole.
LEMMA ResizeStep ==
    ASSUME FInv, OneEntryPerChunk', CanWrite, Resize
    PROVE  DataInv' /\ JobsInv' /\ (Plain!Next \/ Unseen)
<1>1. /\ IInv /\ DataInv /\ JobsOk /\ Contents /\ Typed /\ OneEntryPerChunk /\ CleanIsSaved
    BY DEF FInv, JobsInv, DataInv, IInv
<1>2. jobs # <<>> /\ job.kind = "resize" /\ flushing = None
    BY DEF Resize, Serving
<1>3. /\ Len(jobs) = 1 /\ Dirty(job.file) = {} /\ job.n \in 0 .. MaxSize /\ job.file \in Files
    <2>1. Len(jobs) = 1 /\ Dirty(job.file) = {} /\ job.file \in Files
        BY <1>2, PromiseKept
    <2>2. job.n \in 0 .. MaxSize
        BY <1>1, <1>2, HeadOk, Amounts DEF JobOk
    <2> QED BY <2>1, <2>2
<1>4. PICK f \in Files, size \in 0 .. MaxSize : f = job.file /\ size = job.n /\ Dirty(f) = {}
    BY <1>3
<1>5. cache' = Without(Of(f)) /\ UNCHANGED <<srLastUse, flushing, status, got>>
    BY <1>4 DEF Resize
<1>6. \A d \in FileChunks : Seen(f, d) = nand[f][d].bytes
    BY <1>1, <1>4, CleanIsSeen
<1>7. Tail(jobs) = <<>>
    <2>1. PICK t \in Seq(JobRecords) : t = Tail(jobs)
        BY <1>1, <1>2, HeadTyped
    <2>2. Len(t) = 0
        BY <1>1, <1>2, <1>3, <2>1 DEF Typed
    <2> QED BY <2>1, <2>2, EmptySeq
<1>8. Asking = Asked(job) /\ job.was = fileSize[f] /\ job.v = 0
    <2>1. Last = job
        BY <1>2, PromiseKept
    <2>2. LastOk /\ JobOk(job, status)
        BY <1>1, <1>2, HeadOk DEF FInv, JobsInv
    <2> QED BY <1>2, <1>4, <2>1, <2>2, AskingIs DEF LastOk, JobOk
<1>9. CASE size < fileSize[f]
    <2>1. jobs' = <<>> /\ ResizeDown(f, size)
        BY <1>4, <1>7, <1>9 DEF Resize
    <2>2. /\ nand' \in [Files -> [FileChunks -> [bytes : ByteLists, n : 0 .. BytesPerChunk]]]
          /\ \A g \in Files \ {f} : nand'[g] = nand[g]
          /\ fileSize' = [fileSize EXCEPT ![f] = size] /\ nFreeChunks' \in Int
          /\ \A d \in FileChunks : CutChunk(f, size, d)
        BY <1>1, <2>1, ResizedDown
    <2>3. DataInv' /\ JobsInv'
        BY <1>2, <1>3, <1>5, <2>1, <2>2, CutKeeps
    <2>4. /\ \A g \in Files \ {f}, d \in FileChunks : Seen(g, d)' = Seen(g, d)
          /\ \A d \in FileChunks : Seen(f, d)' = nand'[f][d].bytes
        BY <1>1, <1>5, <2>2, Dropped
    <2>5. \A g \in Files \ {f}, d \in FileChunks :
              Seen(g, d)' = Seen(g, d) /\ nand'[g][d].bytes = nand[g][d].bytes
        BY <2>2, <2>4
    <2>6. \A d \in FileChunks, k \in Offsets :
              /\ Seen(f, d)'[k] = IF (d - 1) * BytesPerChunk + k <= size THEN Seen(f, d)[k] ELSE 0
              /\ nand'[f][d].bytes[k] = Seen(f, d)'[k]
        <3> TAKE d \in FileChunks
        <3> TAKE k \in Offsets
        <3>1. nand'[f][d].bytes[k] = IF (d - 1) * BytesPerChunk + k <= size THEN nand[f][d].bytes[k] ELSE 0
            BY <1>1, <2>2, CutBytes
        <3> QED BY <1>6, <2>4, <3>1
    <2>7. fileSize \in [Files -> 0 .. MaxSize] /\ size <= fileSize[f]
        <3>1. fileSize[f] \in Nat /\ size \in Nat
            BY <1>1, Amounts DEF Contents
        <3> QED BY <1>1, <1>9, <3>1 DEF Contents
    <2>8. Plain!Asks("resize", f) /\ Asking.at = size /\ Asking' = Plain!NoRequest
        BY <1>2, <1>4, <1>8, <2>1, AskingIs DEF Asked, Plain!Asks
    <2> QED BY <1>5, <1>9, <2>2, <2>3, <2>5, <2>6, <2>7, <2>8, CutStep
<1>10. CASE ~(size < fileSize[f])
    <2>4. /\ jobs' = HoleJobs(f, size) \o <<Job("extend", f, 0, size, 0)>> \o Tail(jobs)
          /\ UNCHANGED <<nand, nFreeChunks, fileSize>>
        BY <1>4, <1>10 DEF Resize, store
    <2>6. JobsStep /\ jobs' # <<>> /\ job'.step = "chunk" /\ Last' = Job("extend", f, 0, size, 0)
        BY <1>1, <1>2, <2>4, LongerFirst
    <2>7. FlushFrees' /\ Promises'
        <3>1. Last'.kind = "extend"
            BY <2>6 DEF Job
        <3> QED BY <2>6, <3>1 DEF FlushFrees, Promises
    <2>8. OthersOk
        BY <1>1, <1>5, <2>4 DEF OthersOk, Contents
    <2>9. \A g \in Files : \A d \in FileChunks : nand'[g][d] # Hole =>
              DataOk(d, nand'[g][d].bytes, nand'[g][d].n, End(g)', Limit(g)')
        <3> TAKE g \in Files
        <3> QED BY <1>1, <2>4, <2>6, WithinReaches DEF DataInv, JobsStep
    <2>10. Taken(Of(f))
        BY <1>1, <1>5, <2>4, <2>6, <2>9 DEF Taken, Without, JobsStep, Contents
    <2>11. DataInv'
        BY <1>1, <2>8, <2>10, TakenKeeps
    <2>12. SeenBytes' = SeenBytes /\ SavedBytes' = SavedBytes
        <3>1. /\ \A g \in Files \ {f}, d \in FileChunks : Seen(g, d)' = Seen(g, d)
              /\ \A d \in FileChunks : Seen(f, d)' = nand'[f][d].bytes
            BY <1>1, <1>5, <2>4, Dropped
        <3>2. \A g \in Files, d \in FileChunks : Seen(g, d)' = Seen(g, d)
            BY <1>6, <2>4, <3>1
        <3> QED BY <2>4, <3>2, SeenKept, SavedKept
    <2>13. Asking' = Asking
        <3>1. PICK j : j = Last' /\ j = Job("extend", f, 0, size, 0)
            BY <2>6
        <3>2. Asked(j) = Asked(job)
            BY <1>2, <1>4, <1>8, <3>1 DEF Asked, Job
        <3>3. Asking' = Asked(j)
            BY <2>6, <3>1, AskingIs
        <3> QED BY <1>8, <3>2, <3>3
    <2> QED BY <1>5, <2>4, <2>6, <2>7, <2>11, <2>12, <2>13 DEF FInv, JobsStep, JobsInv, Unseen
<1> QED BY <1>9, <1>10

(***************************************************************************)
(* All steps together.                                                     *)
(***************************************************************************)
\* At first every file is empty, and so are the abstract files.
LEMMA NoBytesYet ==
    Init => DataInv /\ JobsInv /\ Plain!Init
<1> SUFFICES ASSUME Init PROVE DataInv /\ JobsInv /\ Plain!Init
    OBVIOUS
<1>1. /\ cache = [e \in Entries |-> Unused] /\ srLastUse = 0
      /\ nand = [f \in Files |-> [c \in FileChunks |-> Hole]] /\ nFreeChunks = TotalFree
      /\ fileSize = [f \in Files |-> 0] /\ jobs = <<>> /\ flushing = None /\ status = "ok" /\ got = <<>>
    BY DEF Init
<1>2. Zeros \in ByteLists /\ 0 \in 0 .. MaxSize /\ 0 \in 0 .. BytesPerChunk
    BY Amounts DEF Zeros, ByteLists, Offsets, Bytes
<1>3. /\ Hole \in [bytes : ByteLists, n : 0 .. BytesPerChunk] /\ EntryOk(Unused)
      /\ Unused.object \notin Files
    BY <1>2, CacheAssumption DEF Hole, Unused, EntryOk
<1>4. Contents
    BY <1>1, <1>2, <1>3, CacheAssumption DEF Contents
<1>5. \A f \in Files : Of(f) = {} /\ Dirty(f) = {}
    BY <1>1, <1>3 DEF Dirty, Of
<1>6. CleanIsSaved /\ Within
    BY <1>1, <1>5 DEF CleanIsSaved, Within
<1>7. JobsInv
    BY <1>1 DEF JobsInv, JobsOk, ZerosFill, Promises, FlushFrees, LastOk
<1>8. \A f \in Files, c \in FileChunks : Seen(f, c) = Zeros /\ nand[f][c].bytes = Zeros
    <2> TAKE f \in Files
    <2> TAKE c \in FileChunks
    <2>1. Find(f, c) = NoEntry
        BY <1>5 DEF Find
    <2> QED BY <1>1, <2>1 DEF Seen, Hole
<1>9. Plain!Init
    <2>1. \A f \in Files, j \in 1 .. MaxSize : SeenBytes[f][j] = 0 /\ SavedBytes[f][j] = 0
        <3> TAKE f \in Files
        <3> TAKE j \in 1 .. MaxSize
        <3>1. /\ ChunkAt(j) \in FileChunks /\ PlaceAt(j) \in Offsets
              /\ SeenBytes[f][j] = Seen(f, ChunkAt(j))[PlaceAt(j)]
              /\ SavedBytes[f][j] = nand[f][ChunkAt(j)].bytes[PlaceAt(j)]
            BY At
        <3>2. Zeros[PlaceAt(j)] = 0
            BY <3>1 DEF Zeros, Offsets
        <3> QED BY <1>8, <3>1, <3>2
    <2>2. PICK blank : blank = [j \in 1 .. MaxSize |-> 0]
        OBVIOUS
    <2>3. \A f \in Files : SeenBytes[f] = blank /\ SavedBytes[f] = blank
        <3>1. IsBytes(blank)
            BY <2>2 DEF IsBytes
        <3>2. \A f \in Files, j \in 1 .. MaxSize : SeenBytes[f][j] = blank[j] /\ SavedBytes[f][j] = blank[j]
            BY <2>1, <2>2
        <3> QED BY <3>1, <3>2, IsList
    <2>4. SeenBytes = [f \in Files |-> blank] /\ SavedBytes = [f \in Files |-> blank]
        BY <2>3, Shapes
    <2>5. Asking = Plain!NoRequest
        BY <1>1 DEF Asking, Plain!NoRequest
    <2> QED BY <1>1, <2>2, <2>4, <2>5 DEF Plain!Init, Plain!Blank, Plain!Cells
<1> QED BY <1>4, <1>6, <1>7, <1>9 DEF DataInv

\* A step that changes nothing.
LEMMA RestStep ==
    ASSUME FInv, UNCHANGED vars
    PROVE  DataInv' /\ JobsInv' /\ Unseen
<1>1. UNCHANGED <<cache, srLastUse, nand, nFreeChunks, fileSize, jobs, flushing, status, got>>
    BY DEF vars, store
<1>2. IInv /\ DataInv /\ JobsOk /\ ZerosFill /\ Promises /\ FlushFrees /\ Contents /\ Typed
    BY DEF FInv, JobsInv, DataInv, IInv
<1>3. JobsStep
    BY <1>1, <1>2, SameJobs
<1>4. OthersOk
    BY <1>1, <1>2 DEF OthersOk, Contents
<1>5. DataInv' /\ SeenBytes' = SeenBytes /\ SavedBytes' = SavedBytes
    BY <1>1, <1>2, <1>3, <1>4, CacheStands DEF JobsStep
<1>6. Promises' /\ FlushFrees'
    BY <1>1, <1>2 DEF Promises, FlushFrees, Last, job, Dirty, Of, Empty
<1> QED BY <1>1, <1>3, <1>5, <1>6, AskingIs DEF FInv, JobsStep, JobsInv, Unseen

\* Each request that begins is a beginning of the abstract files.
LEMMA RequestStep ==
    ASSUME FInv, OneEntryPerChunk', NextRequest
    PROVE  DataInv' /\ JobsInv' /\ Plain!Next
<1>1. PICK f \in Files :
          \/ \E w \in Writes, v \in Values : BeginWrite(f, w, v)
          \/ \E r \in Reads : BeginRead(f, r)
          \/ \E size \in Sizes : BeginResize(f, size)
          \/ \E dataSync \in BOOLEAN : BeginFlush(f, dataSync)
          \/ BeginFlushAll(f)
          \/ BeginHeader(f)
          \/ Remove(f)
    BY DEF NextRequest
<1>9. IInv /\ Contents /\ JobsOk
    BY DEF FInv, DataInv, JobsInv
<1>2. CASE \E w \in Writes, v \in Values : BeginWrite(f, w, v)
    BY <1>2, <1>9, BeginWriteStep
<1>3. CASE \E r \in Reads : BeginRead(f, r)
    BY <1>3, <1>9, BeginReadStep
<1>4. CASE \E size \in Sizes : BeginResize(f, size)
    BY <1>4, <1>9, BeginResizeStep
<1>5. CASE \E dataSync \in BOOLEAN : BeginFlush(f, dataSync)
    BY <1>5, <1>9, BeginFlushStep
<1>6. CASE BeginFlushAll(f)
    BY <1>6, <1>9, BeginFlushAllStep
<1>7. CASE BeginHeader(f)
    BY <1>7, <1>9, BeginHeaderStep
<1>8. CASE Remove(f)
    BY <1>8, RemovedStep
<1> QED BY <1>1, <1>2, <1>3, <1>4, <1>5, <1>6, <1>7, <1>8

\* Every step keeps the invariant, and is one of the files or is not seen.
LEMMA FilesStep ==
    FInv /\ CanWrite /\ [Next]_vars => FInv' /\ [Plain!Next]_(Plain!vars)
<1> SUFFICES ASSUME FInv, CanWrite, [Next]_vars PROVE FInv' /\ [Plain!Next]_(Plain!vars)
    OBVIOUS
<1>0. IInv'
    BY NextInvariant DEF FInv
<1>1. OneEntryPerChunk'
    BY <1>0 DEF IInv
<1> SUFFICES DataInv' /\ JobsInv' /\ (Plain!Next \/ Unseen)
    BY <1>0, UnseenStep DEF FInv
<1>2. CASE NextRequest
    BY <1>1, <1>2, RequestStep
<1>3. CASE UNCHANGED vars
    BY <1>3, RestStep
<1>4. CASE NextJob
    <2>1. CASE WriteCached
        BY <1>1, <2>1, WriteCachedStep
    <2>2. CASE WriteUncached
        BY <1>1, <2>2, WriteUncachedStep
    <2>3. CASE WriteWhole
        BY <1>1, <2>3, WriteWholeStep
    <2>4. CASE WriteEnds
        BY <2>4, WrittenStep, TakenBackStep
    <2>5. CASE ReadCached
        BY <1>1, <2>5, ReadCachedStep
    <2>6. CASE ReadUncached
        BY <1>1, <2>6, ReadUncachedStep
    <2>7. CASE ReadWhole
        BY <2>7, ReadWholeStep
    <2>8. CASE ReadEnds
        BY <2>8, ReadEndsStep
    <2>9. CASE Resize
        BY <1>1, <2>9, ResizeStep
    <2>10. CASE Extend
        BY <2>10, ExtendStep
    <2>11. CASE Flush
        BY <2>11, FlushStep
    <2>12. CASE FlushAll
        BY <2>12, FlushAllStep
    <2>13. CASE WriteHeader
        BY <2>13, WriteHeaderStep
    <2>14. CASE Synced
        BY <2>14, SyncedJobStep
    <2>15. CASE FlushChunk
        BY <1>1, <2>15, FlushChunkStep
    <2>16. CASE FlushEnds
        BY <2>16, FlushEndsStep
    <2> QED BY <1>4, <2>1, <2>2, <2>3, <2>4, <2>5, <2>6, <2>7, <2>8, <2>9, <2>10, <2>11, <2>12,
               <2>13, <2>14, <2>15, <2>16 DEF NextJob
<1> QED BY <1>2, <1>3, <1>4 DEF Next

\* The inductive invariant of the files holds while there is a chunk to write to.
THEOREM FilesInvariant == Spec /\ []CanWrite => []FInv
<1>1. Init => FInv
    BY InitInvariant, NoBytesYet DEF FInv
<1>2. FInv /\ CanWrite /\ [Next]_vars => FInv'
    BY FilesStep
<1> QED BY <1>1, <1>2, PTL DEF Spec

\* While the reserve is not used up, the files behind the cache are plain files:
\* reads return what was written last, whatever was pushed out, flushed, overwritten
\* around the cache or cut meanwhile, a flush that is reported as done has saved the
\* file, and a write that is refused loses at most what its chunk had not saved
\* (yaffs_ReadDataFromFile, yaffs_DoWriteDataToFile, yaffs_ResizeFile, yaffs_FlushFile).
THEOREM CacheImplementsFiles == Spec /\ []CanWrite => ImplementsFiles
<1>1. Init => Plain!Init
    BY NoBytesYet
<1>2. FInv /\ CanWrite /\ [Next]_vars => [Plain!Next]_(Plain!vars)
    BY FilesStep
<1> QED BY <1>1, <1>2, FilesInvariant, PTL DEF Spec, ImplementsFiles, Plain!Spec

\* Then nothing lies behind the end of a file between requests, neither in a chunk
\* nor in its count, so no scan makes the file longer and no growth shows what was
\* cut off (yaffs_ResizeDown, yaffs2_HandleHole).
THEOREM EndIsTheEnd == Spec /\ []CanWrite => []NothingBehindTheEnd
<1>1. FInv => NothingBehindTheEnd
    <2> SUFFICES ASSUME FInv, Idle, NEW f \in Files, NEW c \in FileChunks
                 PROVE  /\ nand[f][c] # Hole => (c - 1) * BytesPerChunk + nand[f][c].n <= fileSize[f]
                        /\ \A e \in Dirty(f) : cache[e].chunk = c =>
                               (c - 1) * BytesPerChunk + cache[e].n <= fileSize[f]
                        /\ \A k \in Offsets : (c - 1) * BytesPerChunk + k > fileSize[f] => Seen(f, c)[k] = 0
        BY DEF NothingBehindTheEnd, Offsets
    <2>1. IInv /\ DataInv /\ Within
        BY DEF FInv, DataInv
    <2>2. End(f) = fileSize[f] /\ Limit(f) = fileSize[f] /\ fileSize[f] \in Nat
        BY <2>1, Amounts DEF Idle, End, Limit, DataInv, Contents
    <2>3. ASSUME NEW k \in Offsets, (c - 1) * BytesPerChunk + k > fileSize[f]
          PROVE  Seen(f, c)[k] = 0
        <3>1. (c - 1) * BytesPerChunk + k \in Nat
            BY PlaceIs, Amounts
        <3>2. Seen(f, c)[k] # 0 => (c - 1) * BytesPerChunk + k <= fileSize[f]
            BY <2>1, <2>2, SeenEnds
        <3> QED BY <2>2, <2>3, <3>1, <3>2
    <2> QED BY <2>1, <2>2, <2>3 DEF Within, DataOk
<1> QED BY <1>1, FilesInvariant, PTL

\* And no byte that was written lies behind the count in its chunk's tags, however
\* the write was split over the cache (nBytes in yaffs_DoWriteDataToFile).
THEOREM WrittenIsCounted == Spec /\ []CanWrite => []CountCovers
<1>1. FInv => CountCovers
    <2> SUFFICES ASSUME FInv, NEW f \in Files, NEW c \in FileChunks, NEW k \in Offsets,
                        nand[f][c].bytes[k] # 0
                 PROVE  k <= nand[f][c].n
        BY DEF CountCovers, Offsets
    <2>1. nand[f][c] # Hole
        <3>1. Hole.bytes[k] = 0
            BY DEF Hole, Zeros, Offsets
        <3> QED BY <3>1
    <2> QED BY <2>1 DEF FInv, DataInv, Within, DataOk
<1> QED BY <1>1, FilesInvariant, PTL

(***************************************************************************)
(* Types, and what is counted as free.  Nothing of this needs a chunk to   *)
(* write to.                                                               *)
(***************************************************************************)
EntryRecords == [object : Files \cup {None}, chunk : FileChunks \cup {0}, dirty : BOOLEAN,
                 n : 0 .. BytesPerChunk, lastUse : 0 .. UseLimit + 1, bytes : ByteLists]
ChunkRecords == [bytes : ByteLists, n : 0 .. BytesPerChunk]

\* An entry is one of a chunk of its file; what is to be written has bytes.
Filled(x) == /\ x \in EntryRecords
             /\ x.object # None => x.chunk \in FileChunks
             /\ x.dirty => x.n >= 1

CacheTyped == /\ cache \in [Entries -> EntryRecords] /\ \A e \in Entries : Filled(cache[e])
              /\ srLastUse \in 0 .. UseLimit + 1

\* The chunks that files have take what is not free.
Held == {p \in Files \X FileChunks : nand[p[1]][p[2]] # Hole}
Counted == /\ IsFiniteSet(Held) /\ nFreeChunks = TotalFree - Cardinality(Held)
           /\ nFreeChunks >= 0
StoreTyped == nand \in [Files -> [FileChunks -> ChunkRecords]] /\ Counted

WorkTyped == fileSize \in [Files -> 0 .. MaxSize] /\ JobsOk /\ ZerosFill
RestTyped == /\ flushing \in Files \cup {None} /\ status \in {"ok", "short", "synced"}
             /\ failed \in BOOLEAN /\ requests \in 0 .. MaxRequests

TInv == IInv /\ CacheTyped /\ StoreTyped /\ WorkTyped /\ RestTyped

\* What the steps need of the types.
LEMMA TypesGive ==
    ASSUME TInv
    PROVE  /\ IInv /\ Typed /\ Contents /\ JobsOk /\ ZerosFill /\ CacheTyped /\ StoreTyped
           /\ WorkTyped /\ RestTyped /\ OneEntryPerChunk
<1>1. nFreeChunks \in Int
    <2>1. Cardinality(Held) \in Nat
        BY FS_CardinalityType DEF TInv, StoreTyped, Counted
    <2> QED BY <2>1, CacheAssumption DEF TInv, StoreTyped, Counted
<1>2. \A e \in Entries : EntryOk(cache[e])
    <2> TAKE e \in Entries
    <2>1. Filled(cache[e])
        BY DEF TInv, CacheTyped
    <2>2. cache[e].lastUse \in 0 .. UseLimit + 1
        BY <2>1 DEF Filled, EntryRecords
    <2>3. cache[e].lastUse \in Nat
        BY <2>2, CacheAssumption
    <2> QED BY <2>1, <2>3 DEF Filled, EntryRecords, EntryOk
<1>3. srLastUse \in Nat
    BY CacheAssumption DEF TInv, CacheTyped
<1>4. Contents
    BY <1>1, <1>2, <1>3 DEF TInv, StoreTyped, WorkTyped, RestTyped, Contents, ChunkRecords
<1> QED BY <1>4 DEF TInv, IInv, WorkTyped

\* Using an entry leaves the cache typed (yaffs_UseChunkCache).
LEMMA UseTyped ==
    ASSUME CacheTyped, NEW e \in Entries, NEW x, Filled(x), Use(e, x)
    PROVE  CacheTyped'
<1>1. PICK now : now = IF Over THEN 1 ELSE srLastUse + 1
    OBVIOUS
<1>2. /\ srLastUse' = now
      /\ cache' = [d \in Entries |-> IF d = e THEN [x EXCEPT !.lastUse = now]
                                     ELSE IF Over /\ d > 1 THEN [cache[d] EXCEPT !.lastUse = 0]
                                     ELSE cache[d]]
    BY <1>1 DEF Use
<1>3. now \in 0 .. UseLimit + 1 /\ 0 \in 0 .. UseLimit + 1
    BY <1>1, CacheAssumption DEF Over, CacheTyped
<1>4. \A y, t : Filled(y) /\ t \in 0 .. UseLimit + 1 => Filled([y EXCEPT !.lastUse = t])
    BY DEF Filled, EntryRecords
<1>5. \A d \in Entries : Filled(cache[d])
    BY DEF CacheTyped
<1>6. \A d \in Entries : Filled(cache'[d])
    <2> TAKE d \in Entries
    <2> QED BY <1>2, <1>3, <1>4, <1>5
<1>7. cache' \in [Entries -> EntryRecords]
    BY <1>2, <1>6 DEF Filled
<1> QED BY <1>2, <1>3, <1>6, <1>7 DEF CacheTyped

\* So does taking entries out.
LEMMA WithoutTyped ==
    ASSUME CacheTyped, NEW S, cache' = Without(S), srLastUse' = srLastUse
    PROVE  CacheTyped'
<1>1. Filled(Unused)
    BY Amounts, CacheAssumption DEF Filled, EntryRecords, Unused, Zeros, ByteLists, Offsets, Bytes
<1>2. \A d \in Entries : Filled(cache'[d])
    BY <1>1 DEF CacheTyped, Without
<1>3. cache' \in [Entries -> EntryRecords]
    BY <1>2 DEF Filled, Without
<1> QED BY <1>2, <1>3 DEF CacheTyped

\* The chunks of one file are a row of those that are held.
Row(f, list) == {f} \X {c \in FileChunks : list[c] # Hole}

\* There are as many of them as are kept.
LEMMA RowIs ==
    ASSUME NEW f, NEW list
    PROVE  IsFiniteSet(Row(f, list)) /\ Cardinality(Row(f, list)) = Kept(list)
<1>1. PICK S : S = {c \in FileChunks : list[c] # Hole}
    OBVIOUS
<1>2. IsFiniteSet(S)
    BY <1>1, KeptIs, FS_Subset
<1>3. IsFiniteSet({f}) /\ Cardinality({f}) = 1
    BY FS_Singleton
<1>4. IsFiniteSet({f} \X S) /\ Cardinality({f} \X S) = 1 * Cardinality(S)
    BY <1>2, <1>3, FS_Product
<1>5. Cardinality(S) \in Nat
    BY <1>2, FS_CardinalityType
<1> QED BY <1>1, <1>4, <1>5 DEF Row, Kept

\* When the chunks of one file change, what is held changes by as much.
LEMMA HeldChanges ==
    ASSUME StoreTyped, NEW f \in Files, NEW list \in [FileChunks -> ChunkRecords],
           nand' = [nand EXCEPT ![f] = list]
    PROVE  /\ nand' \in [Files -> [FileChunks -> ChunkRecords]]
           /\ IsFiniteSet(Held')
           /\ Cardinality(Held') = Cardinality(Held) - Kept(nand[f]) + Kept(list)
           /\ Cardinality(Held') \in Nat /\ Cardinality(Held) \in Nat
           /\ Kept(nand[f]) \in Nat /\ Kept(list) \in Nat
<1>1. nand \in [Files -> [FileChunks -> ChunkRecords]] /\ IsFiniteSet(Held)
    BY DEF StoreTyped, Counted
<1>2. /\ nand' \in [Files -> [FileChunks -> ChunkRecords]]
      /\ nand'[f] = list /\ \A g \in Files \ {f} : nand'[g] = nand[g]
    BY <1>1
<1>3. PICK Others : Others = {p \in Held : p[1] # f}
    OBVIOUS
<1>4. Held = Others \cup Row(f, nand[f]) /\ Others \cap Row(f, nand[f]) = {}
    BY <1>3 DEF Held, Row
<1>5. Held' = Others \cup Row(f, list) /\ Others \cap Row(f, list) = {}
    BY <1>2, <1>3 DEF Held, Row
<1>6. IsFiniteSet(Others)
    BY <1>1, <1>3, FS_Subset
<1>7. /\ IsFiniteSet(Row(f, nand[f])) /\ Cardinality(Row(f, nand[f])) = Kept(nand[f])
      /\ IsFiniteSet(Row(f, list)) /\ Cardinality(Row(f, list)) = Kept(list)
    BY RowIs
<1>8. Cardinality({}) = 0
    BY FS_EmptySet
<1>9. PICK k : k = Cardinality(Others)
    OBVIOUS
<1>10. k \in Nat /\ Kept(nand[f]) \in Nat /\ Kept(list) \in Nat
    BY <1>6, <1>9, KeptIs, FS_CardinalityType
<1>11. Cardinality(Held) = k + Kept(nand[f]) - 0
    BY <1>4, <1>6, <1>7, <1>8, <1>9, FS_Union
<1>12. IsFiniteSet(Held') /\ Cardinality(Held') = k + Kept(list) - 0
    BY <1>5, <1>6, <1>7, <1>8, <1>9, FS_Union
<1> QED BY <1>2, <1>10, <1>11, <1>12

\* One chunk more.
LEMMA KeptOneMore ==
    ASSUME NEW list \in [FileChunks -> ChunkRecords], NEW c \in FileChunks, NEW r \in ChunkRecords,
           r # Hole
    PROVE  /\ [list EXCEPT ![c] = r] \in [FileChunks -> ChunkRecords]
           /\ Kept([list EXCEPT ![c] = r]) = Kept(list) + (IF list[c] = Hole THEN 1 ELSE 0)
<1>1. PICK new : new = [list EXCEPT ![c] = r]
    OBVIOUS
<1>2. new \in [FileChunks -> ChunkRecords]
    BY <1>1
<1>3. PICK S : S = {d \in FileChunks : list[d] # Hole}
    OBVIOUS
<1>4. IsFiniteSet(S)
    BY <1>3, KeptIs, FS_Subset
<1>5. {d \in FileChunks : new[d] # Hole} = S \cup {c}
    BY <1>1, <1>3
<1>6. Cardinality(S \cup {c}) = IF c \in S THEN Cardinality(S) ELSE Cardinality(S) + 1
    BY <1>4, FS_AddElement
<1>7. Cardinality(S) \in Nat
    BY <1>4, FS_CardinalityType
<1> QED BY <1>1, <1>2, <1>3, <1>5, <1>6, <1>7 DEF Kept

\* Writing a chunk (yaffs_WriteChunkDataToObject) takes one, unless the file had it.
LEMMA WriteTyped ==
    ASSUME StoreTyped, CanWrite, NEW f \in Files, NEW c \in FileChunks, NEW b \in ByteLists,
           NEW n \in 1 .. BytesPerChunk, Write(f, c, b, n)
    PROVE  StoreTyped'
<1>1. PICK r : r = [bytes |-> b, n |-> n]
    OBVIOUS
<1>2. r \in ChunkRecords /\ r # Hole
    BY <1>1, Amounts DEF ChunkRecords, Hole
<1>3. nand \in [Files -> [FileChunks -> ChunkRecords]]
    BY DEF StoreTyped
<1>4. PICK list : list = [nand[f] EXCEPT ![c] = r]
    OBVIOUS
<1>5. nand' = [nand EXCEPT ![f] = list] /\ nFreeChunks' = nFreeChunks - Cost(f, c)
    BY <1>1, <1>3, <1>4 DEF Write
<1>6. /\ list \in [FileChunks -> ChunkRecords]
      /\ Kept(list) = Kept(nand[f]) + (IF nand[f][c] = Hole THEN 1 ELSE 0)
    BY <1>2, <1>3, <1>4, KeptOneMore
<1>7. /\ nand' \in [Files -> [FileChunks -> ChunkRecords]]
      /\ IsFiniteSet(Held')
      /\ Cardinality(Held') = Cardinality(Held) - Kept(nand[f]) + Kept(list)
      /\ Cardinality(Held') \in Nat /\ Cardinality(Held) \in Nat
      /\ Kept(nand[f]) \in Nat /\ Kept(list) \in Nat
    BY <1>5, <1>6, HeldChanges
<1>8. Cost(f, c) = IF nand[f][c] = Hole THEN 1 ELSE 0
    BY DEF Cost
<1>9. nFreeChunks = TotalFree - Cardinality(Held) /\ nFreeChunks > 0
    BY DEF StoreTyped, Counted, CanWrite
<1>10. nFreeChunks' = TotalFree - Cardinality(Held') /\ nFreeChunks' >= 0
    BY <1>5, <1>6, <1>7, <1>8, <1>9, CacheAssumption
<1> QED BY <1>7, <1>10 DEF StoreTyped, Counted

\* Cutting a file (yaffs_ResizeDown) frees what is cut off, and takes a chunk for the
\* part that is left of the last one only if there is one.
LEMMA CutTyped ==
    ASSUME StoreTyped, NEW f \in Files, NEW size \in 0 .. MaxSize, ResizeDown(f, size)
    PROVE  StoreTyped'
<1> DEFINE last == size \div BytesPerChunk + 1
<1>1. PICK pruned : pruned = Pruned(f, size)
    OBVIOUS
<1>2. PICK left : left = nFreeChunks + Kept(nand[f]) - Kept(pruned)
    OBVIOUS
<1>3. PICK padded : padded = IF size % BytesPerChunk # 0 /\ left > 0
                             THEN [pruned EXCEPT ![last] = Padded(@, size)] ELSE pruned
    OBVIOUS
<1>4. nand' = [nand EXCEPT ![f] = padded] /\ nFreeChunks' = left + Kept(pruned) - Kept(padded)
    BY <1>1, <1>2, <1>3 DEF ResizeDown
<1>5. /\ nand \in [Files -> [FileChunks -> ChunkRecords]] /\ Hole \in ChunkRecords
      /\ pruned = [c \in FileChunks |-> IF (c - 1) * BytesPerChunk >= size THEN Hole ELSE nand[f][c]]
    <2>1. Hole \in ChunkRecords
        BY Amounts DEF Hole, Zeros, ByteLists, Offsets, Bytes, ChunkRecords
    <2> QED BY <1>1, <2>1 DEF StoreTyped, Pruned
<1>6. pruned \in [FileChunks -> ChunkRecords]
    BY <1>5
<1>7. Kept(pruned) <= Kept(nand[f])
    <2> DEFINE S == {c \in FileChunks : nand[f][c] # Hole}
               T == {c \in FileChunks : pruned[c] # Hole}
    <2>1. T \subseteq S
        BY <1>5
    <2>2. IsFiniteSet(S)
        BY KeptIs, FS_Subset
    <2> HIDE DEF S, T
    <2>3. Cardinality(T) <= Cardinality(S)
        BY <2>1, <2>2, FS_Subset
    <2> QED BY <2>3 DEF Kept, S, T
<1>8. padded \in [FileChunks -> ChunkRecords] /\ ((Kept(padded) <= Kept(pruned) + 1 /\ left > 0) \/ padded = pruned)
    <2>1. CASE size % BytesPerChunk # 0 /\ left > 0
        <3>1. last \in FileChunks
            BY <2>1, LastChunkIs
        <3>2. (size % BytesPerChunk) \in 1 .. BytesPerChunk
            <4>1. PICK r : r = size % BytesPerChunk
                OBVIOUS
            <4>2. size \in Nat
                BY Amounts
            <4>3. r \in 0 .. BytesPerChunk - 1
                BY <4>1, <4>2, Amounts, Division
            <4> QED BY <2>1, <4>1, <4>3, Amounts
        <3>3. PICK r : r = Padded(pruned[last], size)
            OBVIOUS
        <3>4. pruned[last] \in ChunkRecords
            BY <1>6, <3>1
        <3>5. r \in ChunkRecords /\ r # Hole
            <4>1. PICK m \in 1 .. BytesPerChunk : m = size % BytesPerChunk
                BY <3>2
            <4>2. [k \in 1 .. BytesPerChunk |-> IF k <= m THEN pruned[last].bytes[k] ELSE 0] \in ByteLists
                BY <3>4 DEF ByteLists, Offsets, Bytes, ChunkRecords
            <4>3. r = [bytes |-> [k \in 1 .. BytesPerChunk |-> IF k <= m THEN pruned[last].bytes[k] ELSE 0],
                       n |-> m]
                BY <3>3, <4>1 DEF Padded
            <4>4. m \in 0 .. BytesPerChunk /\ m # 0
                BY Amounts
            <4> QED BY <4>2, <4>3, <4>4 DEF ChunkRecords, Hole
        <3>6. padded = [pruned EXCEPT ![last] = r]
            BY <1>3, <2>1, <3>3
        <3>7. /\ padded \in [FileChunks -> ChunkRecords]
              /\ Kept(padded) = Kept(pruned) + (IF pruned[last] = Hole THEN 1 ELSE 0)
            BY <1>6, <3>1, <3>5, <3>6, KeptOneMore
        <3>8. Kept(pruned) \in Nat
            BY KeptIs
        <3> HIDE DEF last
        <3> QED BY <2>1, <3>7, <3>8
    <2>2. CASE ~(size % BytesPerChunk # 0 /\ left > 0)
        BY <1>3, <1>6, <2>2
    <2> QED BY <2>1, <2>2
<1>9. /\ nand' \in [Files -> [FileChunks -> ChunkRecords]]
      /\ IsFiniteSet(Held')
      /\ Cardinality(Held') = Cardinality(Held) - Kept(nand[f]) + Kept(padded)
      /\ Cardinality(Held') \in Nat /\ Cardinality(Held) \in Nat
      /\ Kept(nand[f]) \in Nat /\ Kept(padded) \in Nat
    BY <1>4, <1>8, HeldChanges
<1>10. Kept(pruned) \in Nat
    BY KeptIs
<1>11. nFreeChunks = TotalFree - Cardinality(Held) /\ nFreeChunks >= 0
    BY DEF StoreTyped, Counted
<1>12. nFreeChunks' = TotalFree - Cardinality(Held') /\ nFreeChunks' >= 0
    BY <1>2, <1>4, <1>7, <1>8, <1>9, <1>10, <1>11, CacheAssumption
<1> QED BY <1>9, <1>12 DEF StoreTyped, Counted

\* Deleting a file frees its chunks.
LEMMA RemovedTyped ==
    ASSUME StoreTyped, NEW f \in Files, nand' = [nand EXCEPT ![f] = [c \in FileChunks |-> Hole]],
           nFreeChunks' = nFreeChunks + Kept(nand[f])
    PROVE  StoreTyped'
<1>1. PICK list : list = [c \in FileChunks |-> Hole]
    OBVIOUS
<1>2. list \in [FileChunks -> ChunkRecords]
    BY <1>1, Amounts DEF Hole, Zeros, ByteLists, Offsets, Bytes, ChunkRecords
<1>3. Kept(list) = 0
    <2>1. {c \in FileChunks : list[c] # Hole} = {}
        BY <1>1
    <2> QED BY <2>1, FS_EmptySet DEF Kept
<1>4. /\ nand' \in [Files -> [FileChunks -> ChunkRecords]]
      /\ IsFiniteSet(Held')
      /\ Cardinality(Held') = Cardinality(Held) - Kept(nand[f]) + Kept(list)
      /\ Cardinality(Held') \in Nat /\ Cardinality(Held) \in Nat
      /\ Kept(nand[f]) \in Nat /\ Kept(list) \in Nat
    BY <1>1, <1>2, HeldChanges
<1>5. nFreeChunks' = TotalFree - Cardinality(Held') /\ nFreeChunks' >= 0
    BY <1>3, <1>4, CacheAssumption DEF StoreTyped, Counted
<1> QED BY <1>4, <1>5 DEF StoreTyped, Counted

\* The store stays typed when nothing is written.
LEMMA StoreStands == ASSUME StoreTyped, UNCHANGED store PROVE StoreTyped'
<1>1. Held' = Held
    BY DEF Held, store
<1> QED BY <1>1 DEF StoreTyped, Counted, store

\* So does the cache when it is not touched.
LEMMA CacheStays == ASSUME CacheTyped, UNCHANGED <<cache, srLastUse>> PROVE CacheTyped'
BY DEF CacheTyped

\* The jobs stay right when the steps on them do.
LEMMA WorkStays ==
    ASSUME JobsStep, fileSize' \in [Files -> 0 .. MaxSize]
    PROVE  WorkTyped'
BY DEF WorkTyped, JobsStep

\* What is seen by the steps that need nothing more.
TypesHold == CacheTyped' /\ StoreTyped' /\ WorkTyped' /\ RestTyped'

\* The first job goes on, or is refused.
LEMMA HeadGoesOn ==
    ASSUME TInv, jobs # <<>>, job.kind \in {"write", "zeros", "read"}, UNCHANGED fileSize,
           \/ More /\ jobs' = Stepped /\ UNCHANGED status
           \/ jobs' = [jobs EXCEPT ![1].step = "flushed"] /\ UNCHANGED status
           \/ jobs' = [jobs EXCEPT ![1].step = "short"] /\ status' = "short"
    PROVE  WorkTyped'
<1>1. Typed /\ Contents /\ JobsOk /\ ZerosFill /\ fileSize \in [Files -> 0 .. MaxSize]
    BY TypesGive DEF WorkTyped
<1>2. job.done \in Nat /\ job.n \in Nat /\ job.done <= job.n
    BY <1>1, HeadOk DEF JobOk
<1>3. PICK next : /\ jobs' = [jobs EXCEPT ![1] = next]
                  /\ next.kind = job.kind /\ next.file = job.file /\ next.off = job.off /\ next.n = job.n
                  /\ next.v = job.v /\ next.was = job.was /\ next.done \in job.done .. job.n
                  /\ next.step = "short" => status' = "short"
    <2>1. CASE More /\ jobs' = Stepped
        <3>1. Length \in Nat /\ job.done + Length <= job.n
            BY <1>1, <2>1, Span
        <3>2. job.done + Length \in job.done .. job.n
            BY <1>2, <3>1
        <3> QED BY <1>1, <2>1, <3>1, <3>2, SteppedIs
    <2>2. job.done \in job.done .. job.n
        BY <1>2
    <2>3. ASSUME NEW step \in {"flushed", "short"}, jobs' = [jobs EXCEPT ![1].step = step],
                 step = "short" => status' = "short"
          PROVE  \E next : /\ jobs' = [jobs EXCEPT ![1] = next]
                           /\ next.kind = job.kind /\ next.file = job.file /\ next.off = job.off
                           /\ next.n = job.n /\ next.v = job.v /\ next.was = job.was
                           /\ next.done \in job.done .. job.n
                           /\ next.step = "short" => status' = "short"
        <3>0. step \in {"chunk", "flushed", "short"}
            OBVIOUS
        <3>1. PICK next : /\ [jobs EXCEPT ![1].step = step] = [jobs EXCEPT ![1] = next]
                          /\ next.kind = job.kind /\ next.file = job.file /\ next.off = job.off
                          /\ next.n = job.n /\ next.v = job.v /\ next.was = job.was
                          /\ next.done = job.done /\ next.step = step
            BY <1>1, <3>0, MarkedIs
        <3>2. next.done \in job.done .. job.n
            BY <2>2, <3>1
        <3> QED BY <2>3, <3>1, <3>2
    <2> QED BY <2>1, <2>2, <2>3
<1>4. JobsStep
    BY <1>1, <1>3, HeadChanges
<1> QED BY <1>1, <1>4, WorkStays

\* A job that writes nothing more is done.
LEMMA TailGoesOn ==
    ASSUME TInv, jobs # <<>>, job.kind \notin {"write", "zeros", "extend"}, jobs' = Tail(jobs),
           UNCHANGED fileSize
    PROVE  WorkTyped'
BY TypesGive, TailStep, WorkStays DEF WorkTyped

\* The bytes that are written over those of a chunk.
LEMMA OverlayTyped ==
    ASSUME TInv, jobs # <<>>, NEW b \in ByteLists
    PROVE  Overlay(b) \in ByteLists
<1>1. job.v \in Bytes
    BY TypesGive, HeadOk DEF JobOk
<1> QED BY <1>1 DEF Overlay, ByteLists, Offsets

\* The rest stays typed.
LEMMA RestStays ==
    ASSUME RestTyped, UNCHANGED <<flushing, status, failed, requests>>
    PROVE  RestTyped'
BY DEF RestTyped

\* There is always an entry to take (yaffs_GrabChunkCache).
LEMMA GrabbedEntry == ASSUME TInv PROVE Grabbed \in Entries
<1>1. Empty # {} => First(Empty) \in Entries
    BY FirstIs DEF Empty, Of
<1>2. LeastUsed \in Entries
    BY TypesGive, LeastUsedIs
<1> QED BY <1>1, <1>2 DEF Grabbed

\* A chunk that is read into an entry fills it.
LEMMA LoadedFilled ==
    ASSUME TInv, NEW e \in Entries, NEW f \in Files, NEW c \in FileChunks
    PROVE  Filled(Loaded(e, f, c)) /\ Loaded(e, f, c).object = f /\ Loaded(e, f, c).chunk = c
<1>1. cache[e] \in EntryRecords
    BY TypesGive DEF CacheTyped, Filled
<1>2. nand[f][c].bytes \in ByteLists
    <2>1. nand[f][c] \in ChunkRecords
        BY TypesGive DEF StoreTyped
    <2> QED BY <2>1 DEF ChunkRecords
<1>3. 0 \in 0 .. BytesPerChunk
    BY Amounts
<1> QED BY <1>1, <1>2, <1>3 DEF Filled, EntryRecords, Loaded

\* A chunk found in the cache is in an entry of its own.
LEMMA FoundFilled ==
    ASSUME TInv, NEW f \in Files, NEW c, Find(f, c) # NoEntry
    PROVE  /\ Find(f, c) \in Entries /\ Filled(cache[Find(f, c)])
           /\ cache[Find(f, c)].object = f /\ cache[Find(f, c)].chunk = c
<1>1. Find(f, c) \in Of(f) /\ cache[Find(f, c)].chunk = c
    BY TypesGive, Found
<1> QED BY <1>1, TypesGive DEF Of, CacheTyped

\* Writing a chunk in the cache gives it bytes to write back.
LEMMA ModifyTyped ==
    ASSUME TInv, Writing, More, NEW e \in Entries, NEW x, Filled(x), x.object = job.file,
           x.chunk = Chunk, Modify(e, x)
    PROVE  TypesHold
<1>1. /\ Typed /\ Contents /\ JobsOk /\ CacheTyped /\ StoreTyped /\ RestTyped
      /\ jobs # <<>> /\ job.kind \in {"write", "zeros"}
    BY TypesGive DEF Writing, Serving
<1>2. PICK n \in 1 .. BytesPerChunk : n = ToWriteBack
    <2>1. /\ From \in 0 .. BytesPerChunk - 1 /\ Length \in Nat /\ Length >= 1
        BY <1>1, Span
    <2>2. ToWriteBack \in 0 .. BytesPerChunk /\ From + Length <= ToWriteBack
        BY <1>1, Covered
    <2>3. ToWriteBack \in 1 .. BytesPerChunk
        BY <2>1, <2>2, Amounts
    <2> QED BY <2>3
<1>3. PICK b \in ByteLists : b = Overlay(x.bytes)
    <2>1. x.bytes \in ByteLists
        BY DEF Filled, EntryRecords
    <2> QED BY <1>1, <2>1, OverlayTyped
<1>4. PICK y : y = [x EXCEPT !.dirty = TRUE, !.n = n, !.bytes = b]
    OBVIOUS
<1>5. n \in 0 .. BytesPerChunk /\ n >= 1
    BY Amounts
<1>6. x.chunk \in FileChunks
    BY <1>1, Span
<1>7. Filled(y)
    BY <1>4, <1>5, <1>6 DEF Filled, EntryRecords
<1>8. Use(e, y)
    BY <1>2, <1>3, <1>4 DEF Modify
<1>9. CacheTyped'
    BY <1>1, <1>7, <1>8, UseTyped
<1>10. WorkTyped'
    BY <1>1, HeadGoesOn DEF Modify
<1>11. StoreTyped' /\ RestTyped'
    BY <1>1, StoreStands, RestStays DEF Modify
<1> QED BY <1>9, <1>10, <1>11 DEF TypesHold

\* Nothing is written when a write is refused.
LEMMA RefuseTyped ==
    ASSUME TInv, Writing, NEW lost, Refuse(lost)
    PROVE  TypesHold
<1>1. /\ CacheTyped /\ StoreTyped /\ RestTyped /\ jobs # <<>> /\ job.kind \in {"write", "zeros"}
    BY TypesGive DEF Writing, Serving
<1>2. CacheTyped'
    BY <1>1, WithoutTyped DEF Refuse
<1>3. WorkTyped'
    BY <1>1, HeadGoesOn DEF Refuse
<1>4. StoreTyped' /\ RestTyped'
    BY <1>1, StoreStands DEF Refuse, RestTyped
<1> QED BY <1>2, <1>3, <1>4 DEF TypesHold

\* Nor when another file has to be flushed first.
LEMMA FlushFirstTyped ==
    ASSUME TInv, MustFlush, jobs # <<>>, job.kind \in {"write", "zeros", "read"},
           FlushFirst(cache[LeastUsed].object, [jobs EXCEPT ![1].step = "flushed"])
    PROVE  TypesHold
<1>1. CacheTyped /\ StoreTyped /\ RestTyped /\ Contents
    BY TypesGive
<1>2. cache[LeastUsed].object \in Files
    BY <1>1, PushedOut DEF MustFlush
<1>3. WorkTyped'
    BY HeadGoesOn DEF FlushFirst
<1>4. CacheTyped' /\ StoreTyped' /\ RestTyped'
    BY <1>1, <1>2, StoreStands, CacheStays DEF FlushFirst, RestTyped
<1> QED BY <1>3, <1>4 DEF TypesHold

\* The steps of a write (yaffs_DoWriteDataToFile).
LEMMA WriteCachedTyped == ASSUME TInv, WriteCached PROVE TypesHold
<1> DEFINE e == Find(job.file, Chunk)
<1>1. Writing /\ More /\ jobs # <<>> /\ job.file \in Files
    BY TypesGive, HeadOk DEF WriteCached, Writing, Serving
<1>2. e # NoEntry /\ (Modify(e, cache[e]) \/ Refuse({}))
    BY DEF WriteCached
<1>3. e \in Entries /\ Filled(cache[e]) /\ cache[e].object = job.file /\ cache[e].chunk = Chunk
    BY <1>1, <1>2, FoundFilled
<1> HIDE DEF e
<1> QED BY <1>1, <1>2, <1>3, ModifyTyped, RefuseTyped

\* A part of a chunk that is not cached leaves everything typed (yaffs_GrabChunkCache).
LEMMA WriteUncachedTyped == ASSUME TInv, WriteUncached PROVE TypesHold
<1>1. Writing /\ More /\ jobs # <<>> /\ job.kind \in {"write", "zeros"} /\ job.file \in Files
    BY TypesGive, HeadOk DEF WriteUncached, Writing, Serving
<1>2. CASE Refuse({})
    BY <1>1, <1>2, RefuseTyped
<1>3. CASE MustFlush /\ FlushFirst(cache[LeastUsed].object, [jobs EXCEPT ![1].step = "flushed"])
    BY <1>1, <1>3, FlushFirstTyped
<1>4. CASE Modify(Grabbed, Loaded(Grabbed, job.file, Chunk))
    <2>1. Grabbed \in Entries
        BY GrabbedEntry
    <2>2. Chunk \in FileChunks
        BY <1>1, TypesGive, Span
    <2>3. PICK x : x = Loaded(Grabbed, job.file, Chunk)
        OBVIOUS
    <2>4. Filled(x) /\ x.object = job.file /\ x.chunk = Chunk
        BY <1>1, <2>1, <2>2, <2>3, LoadedFilled
    <2> QED BY <1>1, <1>4, <2>1, <2>3, <2>4, ModifyTyped
<1> QED BY <1>2, <1>3, <1>4 DEF WriteUncached

\* So does a whole chunk: the only one that writes past the cache.
LEMMA WriteWholeTyped == ASSUME TInv, WriteWhole PROVE TypesHold
<1>1. /\ Writing /\ More /\ Whole /\ jobs # <<>> /\ job.kind \in {"write", "zeros"} /\ job.file \in Files
      /\ CacheTyped /\ StoreTyped /\ RestTyped
    BY TypesGive, HeadOk DEF WriteWhole, Writing, Serving
<1>2. CASE Refuse(Overwritten)
    BY <1>1, <1>2, RefuseTyped
<1>3. CASE ~Refuse(Overwritten)
    <2>1. /\ CanWrite /\ Write(job.file, Chunk, Overlay(Zeros), BytesPerChunk)
          /\ cache' = Without(Overwritten) /\ jobs' = Stepped
          /\ UNCHANGED <<srLastUse, fileSize, changed, flushing, status, got, failed, requests>>
        BY <1>3 DEF WriteWhole
    <2>2. Zeros \in ByteLists
        BY DEF Zeros, ByteLists, Offsets, Bytes
    <2>3. PICK b \in ByteLists : b = Overlay(Zeros)
        BY <1>1, <2>2, OverlayTyped
    <2>4. Chunk \in FileChunks /\ BytesPerChunk \in 1 .. BytesPerChunk
        BY <1>1, TypesGive, Span, Amounts
    <2>5. StoreTyped'
        BY <1>1, <2>1, <2>3, <2>4, WriteTyped
    <2>6. CacheTyped'
        BY <1>1, <2>1, WithoutTyped
    <2>7. WorkTyped'
        BY <1>1, <2>1, HeadGoesOn
    <2>8. RestTyped'
        BY <1>1, <2>1, RestStays
    <2> QED BY <2>5, <2>6, <2>7, <2>8 DEF TypesHold
<1> QED BY <1>2, <1>3

\* The end of a write: the size is set, or the zeros are taken back.
LEMMA WriteEndsTyped == ASSUME TInv, WriteEnds PROVE TypesHold
<1>1. /\ Typed /\ Contents /\ JobsOk /\ ZerosFill /\ CacheTyped /\ StoreTyped /\ RestTyped
      /\ fileSize \in [Files -> 0 .. MaxSize]
      /\ jobs # <<>> /\ job.kind \in {"write", "zeros"} /\ job.file \in Files /\ JobOk(job, status)
    BY TypesGive, HeadOk DEF WriteEnds, Writing, Serving, WorkTyped
<1>2. CacheTyped' /\ RestTyped'
    BY <1>1, CacheStays, RestStays DEF WriteEnds
<1>3. CASE job.kind = "zeros" /\ job.step = "short"
    <2>1. /\ ResizeDown(job.file, job.was) /\ GivesUp /\ job.was \in 0 .. MaxSize
        BY <1>1, <1>3 DEF WriteEnds, GivesUp, JobOk
    <2>2. fileSize' = [fileSize EXCEPT ![job.file] = job.was]
        BY <2>1 DEF ResizeDown
    <2>3. StoreTyped'
        BY <1>1, <2>1, CutTyped
    <2>4. JobsStep
        BY <1>1, <1>3, <2>1, <2>2, TakeBackJobs
    <2>5. fileSize' \in [Files -> 0 .. MaxSize]
        BY <1>1, <2>1, <2>2
    <2> QED BY <1>2, <2>3, <2>4, <2>5, WorkStays DEF TypesHold
<1>4. CASE ~(job.kind = "zeros" /\ job.step = "short")
    <2>1. /\ fileSize' = [fileSize EXCEPT ![job.file] = Larger(@, job.off + job.done)]
          /\ jobs' = Tail(jobs) /\ UNCHANGED store
        BY <1>4 DEF WriteEnds
    <2>2. StoreTyped'
        BY <1>1, <2>1, StoreStands
    <2>3. job.off + job.done \in 0 .. MaxSize
        BY <1>1, Amounts DEF JobOk
    <2>4. fileSize' \in [Files -> 0 .. MaxSize]
        BY <1>1, <2>1, <2>3 DEF Larger
    <2>5. JobsStep
        <3>1. CASE job.kind = "zeros"
            BY <1>1, <2>1, <3>1, ZerosStep
        <3>2. CASE job.kind = "write"
            <4>1. Target(job) = job.off + job.done
                BY <3>2 DEF Target
            <4> QED BY <1>1, <2>1, <3>2, <4>1, LastStep
        <3> QED BY <1>1, <3>1, <3>2
    <2> QED BY <1>2, <2>2, <2>4, <2>5, WorkStays DEF TypesHold
<1> QED BY <1>3, <1>4

\* The steps of a read (yaffs_ReadDataFromFile).
LEMMA ReadTyped ==
    ASSUME TInv, jobs # <<>>, job.kind = "read", More, CacheTyped',
           jobs' = Stepped, UNCHANGED <<store, fileSize, flushing, status, failed, requests>>
    PROVE  TypesHold
<1>1. StoreTyped' /\ RestTyped'
    BY TypesGive, StoreStands, RestStays
<1>2. WorkTyped'
    BY HeadGoesOn
<1> QED BY <1>1, <1>2 DEF TypesHold

\* Reading a chunk that is cached only counts a use.
LEMMA ReadCachedTyped == ASSUME TInv, ReadCached PROVE TypesHold
<1> DEFINE e == Find(job.file, Chunk)
<1>1. jobs # <<>> /\ job.kind = "read" /\ More /\ job.file \in Files /\ CacheTyped
    BY TypesGive, HeadOk DEF ReadCached, Serving
<1>2. e # NoEntry /\ Use(e, cache[e]) /\ Return(cache[e].bytes)
    BY DEF ReadCached
<1>3. e \in Entries /\ Filled(cache[e])
    BY <1>1, <1>2, FoundFilled
<1> HIDE DEF e
<1>4. CacheTyped'
    BY <1>1, <1>2, <1>3, UseTyped
<1> QED BY <1>1, <1>2, <1>4, ReadTyped DEF Return

\* Reading one that is not loads it as it is on the device.
LEMMA ReadUncachedTyped == ASSUME TInv, ReadUncached PROVE TypesHold
<1>1. jobs # <<>> /\ job.kind = "read" /\ More /\ job.file \in Files /\ CacheTyped
    BY TypesGive, HeadOk DEF ReadUncached, Serving
<1>2. CASE MustFlush /\ FlushFirst(cache[LeastUsed].object, [jobs EXCEPT ![1].step = "flushed"])
    BY <1>1, <1>2, FlushFirstTyped
<1>3. CASE ~(MustFlush /\ FlushFirst(cache[LeastUsed].object, [jobs EXCEPT ![1].step = "flushed"]))
    <2>1. PICK x : x = Loaded(Grabbed, job.file, Chunk)
        OBVIOUS
    <2>2. Use(Grabbed, x) /\ Return(x.bytes)
        BY <1>3, <2>1 DEF ReadUncached
    <2>3. Grabbed \in Entries /\ Chunk \in FileChunks
        BY <1>1, TypesGive, GrabbedEntry, Span
    <2>4. Filled(x)
        BY <1>1, <2>1, <2>3, LoadedFilled
    <2>5. CacheTyped'
        BY <1>1, <2>2, <2>3, <2>4, UseTyped
    <2> QED BY <1>1, <2>2, <2>5, ReadTyped DEF Return
<1> QED BY <1>2, <1>3

\* Reading a whole chunk leaves the cache alone.
LEMMA ReadWholeTyped == ASSUME TInv, ReadWhole PROVE TypesHold
<1>1. jobs # <<>> /\ job.kind = "read" /\ More /\ CacheTyped
    BY TypesGive DEF ReadWhole, Serving
<1>2. CacheTyped'
    BY <1>1, CacheStays DEF ReadWhole
<1> QED BY <1>1, <1>2, ReadTyped DEF ReadWhole, Return

\* A job that is done and changes nothing that is stored.
LEMMA DoneTyped ==
    ASSUME TInv, jobs # <<>>, job.kind \notin {"write", "zeros", "extend"}, jobs' = Tail(jobs),
           UNCHANGED <<cache, srLastUse, store, fileSize, failed, requests>>,
           flushing' \in Files \cup {None}, status' \in {"ok", "short", "synced"}
    PROVE  TypesHold
<1>1. CacheTyped' /\ StoreTyped'
    BY TypesGive, CacheStays, StoreStands
<1>2. WorkTyped'
    BY TailGoesOn
<1>3. RestTyped'
    BY TypesGive DEF RestTyped
<1> QED BY <1>1, <1>2, <1>3 DEF TypesHold

\* A job that ends without touching cache or device.
LEMMA DoneJobsTyped ==
    ASSUME TInv, ReadEnds \/ Flush \/ WriteHeader \/ Synced
    PROVE  TypesHold
<1>1. RestTyped /\ (jobs # <<>> => job.file \in Files)
    BY TypesGive, HeadOk
<1>2. CASE ReadEnds
    BY <1>1, <1>2, DoneTyped DEF ReadEnds, Serving, RestTyped
<1>3. CASE Flush
    <2>1. /\ jobs # <<>> /\ job.kind = "flush" /\ jobs' = Tail(jobs) /\ flushing' = job.file
          /\ UNCHANGED <<cache, srLastUse, store, fileSize, changed, status, got, failed, requests>>
        BY <1>3 DEF Flush, FlushFirst, Serving
    <2> QED BY <1>1, <2>1, DoneTyped DEF RestTyped
<1>4. CASE WriteHeader
    BY <1>1, <1>4, DoneTyped DEF WriteHeader, Serving, RestTyped
<1>5. CASE Synced
    BY <1>1, <1>5, DoneTyped DEF Synced, Serving, RestTyped
<1> QED BY <1>2, <1>3, <1>4, <1>5

\* The jobs that are left stay as they are.
LEMMA SameWork ==
    ASSUME TInv, UNCHANGED <<jobs, fileSize, status>>
    PROVE  WorkTyped'
BY TypesGive, SameJobs, WorkStays DEF WorkTyped

\* A flush of every file starts with the next dirty one, or is done.
LEMMA FlushAllTyped == ASSUME TInv, FlushAll PROVE TypesHold
<1> DEFINE dirty == {e \in Entries : cache[e].object # None /\ cache[e].dirty}
<1>1. RestTyped /\ CacheTyped /\ StoreTyped /\ jobs # <<>> /\ job.kind = "flushall"
    BY TypesGive DEF FlushAll, Serving
<1>2. CASE dirty # {}
    <2>1. First(dirty) \in dirty
        BY <1>2, FirstIs
    <2>2. cache[First(dirty)].object \in Files
        BY <1>1, <2>1 DEF CacheTyped, Filled, EntryRecords
    <2>3. FlushFirst(cache[First(dirty)].object, jobs)
        BY <1>2 DEF FlushAll
    <2> HIDE DEF dirty
    <2>4. CacheTyped' /\ StoreTyped' /\ RestTyped'
        BY <1>1, <2>2, <2>3, CacheStays, StoreStands DEF FlushFirst, RestTyped
    <2>5. WorkTyped'
        BY <2>3, SameWork DEF FlushFirst
    <2> QED BY <2>4, <2>5 DEF TypesHold
<1>3. CASE dirty = {}
    BY <1>1, <1>3, DoneTyped DEF FlushAll, RestTyped
<1> QED BY <1>2, <1>3

\* A resize cuts the file, or fills the hole first.
LEMMA ResizeTyped == ASSUME TInv, Resize PROVE TypesHold
<1>1. /\ Typed /\ Contents /\ JobsOk /\ CacheTyped /\ StoreTyped /\ RestTyped
      /\ fileSize \in [Files -> 0 .. MaxSize]
      /\ jobs # <<>> /\ job.kind = "resize" /\ job.file \in Files /\ JobOk(job, status)
    BY TypesGive, HeadOk DEF Resize, Serving, WorkTyped
<1>2. job.n \in 0 .. MaxSize
    BY <1>1, Amounts DEF JobOk
<1>3. CacheTyped' /\ RestTyped'
    BY <1>1, WithoutTyped, RestStays DEF Resize
<1>4. CASE job.n < fileSize[job.file]
    <2>1. ResizeDown(job.file, job.n) /\ jobs' = Tail(jobs)
        BY <1>4 DEF Resize
    <2>2. fileSize' = [fileSize EXCEPT ![job.file] = job.n]
        BY <2>1 DEF ResizeDown
    <2>3. StoreTyped'
        BY <1>1, <1>2, <2>1, CutTyped
    <2>4. fileSize' \in [Files -> 0 .. MaxSize]
        BY <1>1, <1>2, <2>2
    <2>5. jobs' = <<>>
        <3>1. 1 \in DOMAIN jobs /\ jobs[1].kind \in Endings /\ Len(jobs) \in Nat
            BY <1>1, HeadOk DEF Endings
        <3>2. Len(jobs) = 1
            BY <1>1, <3>1 DEF JobsOk
        <3> QED BY <1>1, <2>1, <3>2, TailIs
    <2>6. JobsOk' /\ ZerosFill'
        BY <2>5 DEF JobsOk, ZerosFill
    <2> QED BY <1>3, <2>3, <2>4, <2>6 DEF TypesHold, WorkTyped
<1>5. CASE ~(job.n < fileSize[job.file])
    <2>1. /\ UNCHANGED <<store, fileSize, changed>>
          /\ jobs' = HoleJobs(job.file, job.n) \o <<Job("extend", job.file, 0, job.n, 0)>> \o Tail(jobs)
        BY <1>5 DEF Resize
    <2>2. JobsStep
        BY <1>1, <1>2, <2>1, LongerFirst
    <2>3. StoreTyped'
        BY <1>1, <2>1, StoreStands
    <2> QED BY <1>1, <1>3, <2>1, <2>2, <2>3, WorkStays DEF TypesHold
<1> QED BY <1>4, <1>5

\* A file gets the size it was asked for.
LEMMA ExtendTyped == ASSUME TInv, Extend PROVE TypesHold
<1>1. /\ Typed /\ Contents /\ JobsOk /\ CacheTyped /\ StoreTyped /\ RestTyped
      /\ fileSize \in [Files -> 0 .. MaxSize]
      /\ jobs # <<>> /\ job.kind = "extend" /\ job.file \in Files /\ JobOk(job, status)
    BY TypesGive, HeadOk DEF Extend, Serving, WorkTyped
<1>2. CacheTyped' /\ StoreTyped' /\ RestTyped'
    BY <1>1, CacheStays, StoreStands, RestStays DEF Extend
<1>3. fileSize' = [fileSize EXCEPT ![job.file] = Larger(@, job.n)] /\ jobs' = Tail(jobs)
    BY DEF Extend
<1>4. job.n \in 0 .. MaxSize
    BY <1>1, Amounts DEF JobOk
<1>5. fileSize' \in [Files -> 0 .. MaxSize]
    BY <1>1, <1>3, <1>4 DEF Larger
<1>6. Target(job) = job.n
    BY <1>1 DEF Target
<1>7. JobsStep
    BY <1>1, <1>3, <1>6, LastStep
<1> QED BY <1>2, <1>5, <1>7, WorkStays DEF TypesHold

\* A chunk that is flushed has bytes; one that cannot be is dropped.
LEMMA FlushChunkTyped == ASSUME TInv, FlushChunk PROVE TypesHold
<1> DEFINE x == cache[LowestDirty]
<1>1. /\ Contents /\ CacheTyped /\ StoreTyped /\ RestTyped /\ flushing \in Files
    BY TypesGive DEF FlushChunk, RestTyped
<1>2. LowestDirty \in Dirty(flushing)
    BY <1>1, LowestIs DEF FlushChunk
<1>3. Filled(x) /\ x.object = flushing /\ x.dirty
    BY <1>1, <1>2 DEF Dirty, Of, CacheTyped
<1>4. PICK f \in Files : f = flushing
    BY <1>1
<1>5. f # None
    BY CacheAssumption
<1>6. PICK c \in FileChunks : c = x.chunk
    BY <1>3, <1>4, <1>5 DEF Filled
<1>7. PICK b \in ByteLists : b = x.bytes
    BY <1>3 DEF Filled, EntryRecords
<1>8. PICK n \in 1 .. BytesPerChunk : n = x.n
    <2>1. x.n \in 0 .. BytesPerChunk /\ x.n >= 1
        BY <1>3 DEF Filled, EntryRecords
    <2>2. x.n \in 1 .. BytesPerChunk
        BY <2>1, Amounts
    <2> QED BY <2>2
<1>9. /\ cache' = Without({LowestDirty})
      /\ UNCHANGED <<srLastUse, fileSize, changed, jobs, status, got, requests>>
    BY DEF FlushChunk, Flushed
<1>10. CacheTyped'
    BY <1>1, <1>9, WithoutTyped
<1>11. WorkTyped'
    BY <1>9, SameWork
<1>12. CASE CanWrite
    <2>1. Write(f, c, b, n) /\ UNCHANGED <<flushing, failed>>
        BY <1>4, <1>6, <1>7, <1>8, <1>12 DEF FlushChunk
    <2>2. StoreTyped'
        BY <1>1, <1>12, <2>1, WriteTyped
    <2>3. RestTyped'
        BY <1>1, <1>9, <2>1, RestStays
    <2> QED BY <1>10, <1>11, <2>2, <2>3 DEF TypesHold
<1>13. CASE ~CanWrite
    <2>1. flushing' = None /\ failed' = TRUE /\ UNCHANGED store
        BY <1>13 DEF FlushChunk
    <2>2. StoreTyped' /\ RestTyped'
        BY <1>1, <1>9, <2>1, StoreStands DEF RestTyped
    <2> QED BY <1>10, <1>11, <2>2 DEF TypesHold
<1> QED BY <1>12, <1>13

\* A flush ends when nothing of the file is dirty.
LEMMA FlushEndsTyped == ASSUME TInv, FlushEnds PROVE TypesHold
<1>1. CacheTyped' /\ StoreTyped' /\ RestTyped'
    BY TypesGive, CacheStays, StoreStands DEF FlushEnds, RestTyped
<1>2. WorkTyped'
    BY SameWork DEF FlushEnds
<1> QED BY <1>1, <1>2 DEF TypesHold

\* A request that begins stores nothing.
LEMMA BegunTyped ==
    ASSUME TInv, NEW kind, NEW list, Begin(kind, list), JobsStep
    PROVE  TypesHold
<1>1. /\ CacheTyped /\ StoreTyped /\ RestTyped /\ fileSize \in [Files -> 0 .. MaxSize]
      /\ requests < MaxRequests
    BY TypesGive DEF WorkTyped, Begin
<1>2. requests + 1 \in 0 .. MaxRequests
    BY <1>1, CacheAssumption DEF RestTyped
<1>3. CacheTyped' /\ StoreTyped' /\ RestTyped'
    BY <1>1, <1>2, CacheStays, StoreStands DEF Begin, RestTyped
<1>4. WorkTyped'
    BY <1>1, WorkStays DEF Begin
<1> QED BY <1>3, <1>4 DEF TypesHold

\* A file that is removed gives all its chunks back.
LEMMA RemoveTyped == ASSUME TInv, NEW f \in Files, Remove(f) PROVE TypesHold
<1>1. /\ Typed /\ Contents /\ JobsOk /\ CacheTyped /\ StoreTyped /\ RestTyped
      /\ fileSize \in [Files -> 0 .. MaxSize]
    BY TypesGive DEF WorkTyped
<1>2. requests + 1 \in 0 .. MaxRequests
    BY <1>1, CacheAssumption DEF Remove, RestTyped
<1>3. CacheTyped'
    BY <1>1, WithoutTyped DEF Remove
<1>4. StoreTyped'
    BY <1>1, RemovedTyped DEF Remove
<1>5. RestTyped'
    BY <1>1, <1>2 DEF Remove, RestTyped
<1>6. WorkTyped'
    <2>1. jobs = <<>> /\ jobs' = <<>> /\ fileSize' = [fileSize EXCEPT ![f] = 0]
        BY DEF Remove, Idle
    <2>2. JobsOk' /\ ZerosFill'
        BY <2>1 DEF JobsOk, ZerosFill
    <2>3. 0 \in 0 .. MaxSize
        BY Amounts
    <2> QED BY <1>1, <2>1, <2>2, <2>3 DEF WorkTyped
<1> QED BY <1>3, <1>4, <1>5, <1>6 DEF TypesHold

\* Every request leaves everything typed.
LEMMA RequestTyped == ASSUME TInv, NextRequest PROVE TypesHold
<1>1. PICK f \in Files :
          \/ \E w \in Writes, v \in Values : BeginWrite(f, w, v)
          \/ \E r \in Reads : BeginRead(f, r)
          \/ \E size \in Sizes : BeginResize(f, size)
          \/ \E dataSync \in BOOLEAN : BeginFlush(f, dataSync)
          \/ BeginFlushAll(f)
          \/ BeginHeader(f)
          \/ Remove(f)
    BY DEF NextRequest
<1>9. IInv /\ Contents /\ JobsOk
    BY TypesGive
<1>2. CASE \E w \in Writes, v \in Values : BeginWrite(f, w, v)
    <2>1. PICK w \in Writes, v \in Values : BeginWrite(f, w, v)
        BY <1>2
    <2>2. JobsStep
        BY <1>9, <2>1, BeginWriteStep
    <2> QED BY <2>1, <2>2, BegunTyped DEF BeginWrite
<1>3. CASE \E r \in Reads : BeginRead(f, r)
    <2>1. PICK r \in Reads : BeginRead(f, r)
        BY <1>3
    <2>2. JobsStep
        BY <1>9, <2>1, BeginReadStep
    <2> QED BY <2>1, <2>2, BegunTyped DEF BeginRead
<1>4. CASE \E size \in Sizes : BeginResize(f, size)
    <2>1. PICK size \in Sizes : BeginResize(f, size)
        BY <1>4
    <2>2. JobsStep
        BY <1>9, <2>1, BeginResizeStep
    <2> QED BY <2>1, <2>2, BegunTyped DEF BeginResize
<1>5. CASE \E dataSync \in BOOLEAN : BeginFlush(f, dataSync)
    <2>1. PICK dataSync \in BOOLEAN : BeginFlush(f, dataSync)
        BY <1>5
    <2>2. JobsStep
        BY <1>9, <2>1, BeginFlushStep
    <2> QED BY <2>1, <2>2, BegunTyped DEF BeginFlush
<1>6. CASE BeginFlushAll(f)
    <2>1. JobsStep
        BY <1>6, <1>9, BeginFlushAllStep
    <2> QED BY <1>6, <2>1, BegunTyped DEF BeginFlushAll
<1>7. CASE BeginHeader(f)
    <2>1. JobsStep
        BY <1>7, <1>9, BeginHeaderStep
    <2> QED BY <1>7, <2>1, BegunTyped DEF BeginHeader
<1>8. CASE Remove(f)
    BY <1>8, RemoveTyped
<1> QED BY <1>1, <1>2, <1>3, <1>4, <1>5, <1>6, <1>7, <1>8

\* An empty device is typed.
LEMMA InitTyped == Init => TInv
<1> SUFFICES ASSUME Init PROVE TInv
    OBVIOUS
<1>1. IInv
    BY InitInvariant
<1>2. CacheTyped
    <2>1. Filled(Unused)
        BY Amounts, CacheAssumption DEF Filled, EntryRecords, Unused, Zeros, ByteLists, Offsets, Bytes
    <2>2. \A e \in Entries : Filled(cache[e])
        BY <2>1 DEF Init
    <2>3. cache \in [Entries -> EntryRecords] /\ srLastUse \in 0 .. UseLimit + 1
        BY <2>1, CacheAssumption DEF Init, Filled
    <2> QED BY <2>2, <2>3 DEF CacheTyped
<1>3. StoreTyped
    <2>1. Hole \in ChunkRecords
        BY Amounts DEF Hole, Zeros, ByteLists, Offsets, Bytes, ChunkRecords
    <2>2. nand \in [Files -> [FileChunks -> ChunkRecords]]
        BY <2>1 DEF Init
    <2>3. Held = {}
        BY DEF Init, Held
    <2>4. IsFiniteSet(Held) /\ Cardinality(Held) = 0
        BY <2>3, FS_EmptySet
    <2> QED BY <2>2, <2>4, CacheAssumption DEF StoreTyped, Counted, Init
<1>4. WorkTyped
    BY Amounts DEF Init, WorkTyped, JobsOk, ZerosFill
<1>5. RestTyped
    <2>1. 0 \in 0 .. MaxRequests
        BY CacheAssumption
    <2> QED BY <2>1 DEF Init, RestTyped
<1> QED BY <1>1, <1>2, <1>3, <1>4, <1>5 DEF TInv

\* Every step keeps the types and the count of the free chunks.
LEMMA TypesStep == TInv /\ [Next]_vars => TInv'
<1> SUFFICES ASSUME TInv, [Next]_vars PROVE TInv'
    OBVIOUS
<1>1. IInv'
    BY NextInvariant, TypesGive
<1> SUFFICES TypesHold
    BY <1>1 DEF TypesHold, TInv
<1>2. CASE NextRequest
    BY <1>2, RequestTyped
<1>3. CASE UNCHANGED vars
    <2>1. CacheTyped' /\ StoreTyped' /\ RestTyped'
        BY <1>3, TypesGive, CacheStays, StoreStands, RestStays DEF vars
    <2>2. WorkTyped'
        BY <1>3, SameWork DEF vars
    <2> QED BY <2>1, <2>2 DEF TypesHold
<1>4. CASE NextJob
    BY <1>4, WriteCachedTyped, WriteUncachedTyped, WriteWholeTyped, WriteEndsTyped, ReadCachedTyped,
       ReadUncachedTyped, ReadWholeTyped, DoneJobsTyped, ResizeTyped, ExtendTyped, FlushAllTyped,
       FlushChunkTyped, FlushEndsTyped DEF NextJob
<1> QED BY <1>2, <1>3, <1>4 DEF Next

\* The types, the work left to do and the count of the free chunks, inductively: one chunk
\* less is free for every one that a file holds (nFreeChunks).
THEOREM TypesInvariant == Spec => []TInv
<1> QED BY InitTyped, TypesStep, PTL DEF Spec

\* Whatever is written, cut, refused or dropped, also where the reserve is used up: the
\* count of the free chunks never falls below zero nor rises above what the device has,
\* what is written back of a chunk fits into it, and no file outgrows its limit.
THEOREM Types == Spec => []TypeOK
<1>1. TInv => TypeOK
    <2> SUFFICES ASSUME TInv PROVE TypeOK
        OBVIOUS
    <2>1. CacheTyped /\ StoreTyped /\ WorkTyped /\ RestTyped /\ Typed
        BY TypesGive
    <2>2. nFreeChunks \in 0 .. TotalFree
        <3>1. Cardinality(Held) \in Nat
            BY <2>1, FS_CardinalityType DEF StoreTyped, Counted
        <3> QED BY <2>1, <3>1, CacheAssumption DEF StoreTyped, Counted
    <2>3. /\ cache \in [Entries -> EntryRecords] /\ srLastUse \in 0 .. UseLimit + 1
          /\ nand \in [Files -> [FileChunks -> ChunkRecords]]
        BY <2>1 DEF CacheTyped, StoreTyped
    <2>4. EntryRecords = [object : Files \cup {None}, chunk : FileChunks \cup {0}, dirty : BOOLEAN,
                          n : 0 .. BytesPerChunk, lastUse : 0 .. UseLimit + 1,
                          bytes : [1 .. BytesPerChunk -> Bytes]]
        BY DEF EntryRecords, ByteLists, Offsets
    <2>5. ChunkRecords = ChunkData
        BY DEF ChunkRecords, ChunkData, ByteLists, Offsets
    <2>6. /\ fileSize \in [Files -> 0 .. MaxSize] /\ changed \in [Files -> BOOLEAN]
          /\ flushing \in Files \cup {None} /\ status \in {"ok", "short", "synced"}
          /\ failed \in BOOLEAN /\ requests \in 0 .. MaxRequests
        BY <2>1 DEF WorkTyped, RestTyped, Typed
    <2> QED BY <2>2, <2>3, <2>4, <2>5, <2>6 DEF TypeOK
<1> QED BY <1>1, TypesInvariant, PTL

(***************************************************************************)
(* A reserve that covers the cache.                                        *)
(*                                                                         *)
(* What is claimed of the free chunks is a chunk for every one that a file *)
(* has or that is dirty in the cache.  A write is only let in where the    *)
(* reserve stays free, so what is claimed beyond that fits in the entries  *)
(* of the cache: a flush always finds a chunk.  Padding the last chunk of  *)
(* a file that is cut is the only step that claims one unasked; so sizes   *)
(* are whole chunks here.  (Zeros that are taken back pad as well, but a   *)
(* chunk that was claimed when the first of them was written.)             *)
(***************************************************************************)
ReserveCovers == /\ Reserve >= NCaches /\ TotalFree >= Reserve
                 /\ \A size \in Sizes : size % BytesPerChunk = 0

Backed(f, c) == nand[f][c] # Hole \/ \E e \in Dirty(f) : cache[e].chunk = c
Absent(f, c) == \A e \in Entries : ~(cache[e].object = f /\ cache[e].chunk = c)
Claimed == {p \in Files \X FileChunks : Backed(p[1], p[2])}
Claims == Cardinality(Claimed)
Spared(n) == Claims + Reserve + n <= TotalFree + NCaches

\* A write for which an entry has been flushed takes one chunk more.
FlushedSpares ==
    jobs # <<>> /\ job.kind \in {"write", "zeros"} /\ job.step = "flushed" =>
        Spared(2) /\ Absent(job.file, Chunk)

\* The zeros are at their first byte, and let in.
Starts == /\ job.off = job.was /\ job.done = 0 /\ job.n >= 1
          /\ (job.step = "chunk" /\ Space(1)) \/ job.step = "flushed"

\* Zeros that have started have claimed the chunk that is padded if they are taken back.
ZerosCover ==
    jobs # <<>> /\ job.kind = "zeros" =>
        /\ flushing # None => job.step = "flushed"
        /\ job.was % BytesPerChunk # 0 => Backed(job.file, job.was \div BytesPerChunk + 1) \/ Starts

RightJobs == {j \in JobRecords : /\ j.kind = "resize" => j.n % BytesPerChunk = 0
                                 /\ j.kind = "zeros" => j.was <= j.off}
JobsRight == jobs \in Seq(RightJobs)

SInv == Spared(1) /\ FlushedSpares /\ ZerosCover /\ JobsRight
RInv == FInv /\ TInv /\ SInv

\* Besides what is held there is at most one chunk for each entry.
LEMMA ClaimCount ==
    ASSUME NEW held, IsFiniteSet(held), NEW pair, NEW S, S \subseteq held \cup {pair[e] : e \in Entries}
    PROVE  /\ IsFiniteSet(S) /\ Cardinality(S) \in Nat /\ Cardinality(held) \in Nat
           /\ Cardinality(S) <= Cardinality(held) + NCaches
<1> DEFINE T == {pair[e] : e \in Entries}
           F == [e \in Entries |-> pair[e]]
<1>1. IsFiniteSet(Entries) /\ Cardinality(Entries) = NCaches
    BY CacheAssumption, FS_Interval DEF Entries
<1>2. F \in Surjection(Entries, T)
    BY DEF Surjection
<1> HIDE DEF F
<1>3. IsFiniteSet(T) /\ Cardinality(T) <= NCaches
    BY <1>1, <1>2, FS_Surjection
<1> HIDE DEF T
<1>4. /\ IsFiniteSet(held \cup T)
      /\ Cardinality(held \cup T) = Cardinality(held) + Cardinality(T) - Cardinality(held \cap T)
    BY <1>3, FS_Union
<1>5. IsFiniteSet(held \cap T)
    BY <1>3, FS_Intersection
<1>6. Cardinality(held) \in Nat /\ Cardinality(T) \in Nat /\ Cardinality(held \cap T) \in Nat
    BY <1>3, <1>5, FS_CardinalityType
<1>7. S \subseteq held \cup T
    BY DEF T
<1>8. IsFiniteSet(S) /\ Cardinality(S) <= Cardinality(held \cup T)
    BY <1>4, <1>7, FS_Subset
<1>9. Cardinality(S) \in Nat
    BY <1>8, FS_CardinalityType
<1> QED BY <1>3, <1>4, <1>6, <1>8, <1>9, CacheAssumption

\* What is claimed now, and after a step.
LEMMA ClaimsAre ==
    ASSUME TInv
    PROVE  /\ IsFiniteSet(Claimed) /\ Claims \in Nat /\ TotalFree - nFreeChunks <= Claims
           /\ nFreeChunks \in Nat
<1>1. IsFiniteSet(Held) /\ nFreeChunks = TotalFree - Cardinality(Held) /\ nFreeChunks >= 0
    BY TypesGive DEF StoreTyped, Counted
<1>2. PICK pair : pair = [e \in Entries |-> <<cache[e].object, cache[e].chunk>>]
    OBVIOUS
<1>3. Claimed \subseteq Held \cup {pair[e] : e \in Entries}
    BY <1>2 DEF Claimed, Backed, Held, Dirty, Of
<1>4. IsFiniteSet(Claimed) /\ Cardinality(Claimed) \in Nat /\ Cardinality(Held) \in Nat
    BY <1>1, <1>3, ClaimCount
<1>5. Held \subseteq Claimed
    BY DEF Held, Claimed, Backed
<1>6. Cardinality(Held) <= Cardinality(Claimed)
    BY <1>4, <1>5, FS_Subset
<1> QED BY <1>1, <1>4, <1>6, CacheAssumption DEF Claims

\* After a step at most every entry claims a chunk beyond those that files have.
LEMMA ClaimsNext ==
    ASSUME StoreTyped'
    PROVE  /\ IsFiniteSet(Claimed') /\ Claims' \in Nat
           /\ Claims' <= TotalFree - nFreeChunks' + NCaches
<1>1. IsFiniteSet(Held') /\ nFreeChunks' = TotalFree - Cardinality(Held')
    BY DEF StoreTyped, Counted
<1>2. PICK pair : pair = [e \in Entries |-> <<cache'[e].object, cache'[e].chunk>>]
    OBVIOUS
<1>3. Claimed' \subseteq Held' \cup {pair[e] : e \in Entries}
    BY <1>2 DEF Claimed, Backed, Held, Dirty, Of
<1>4. /\ IsFiniteSet(Claimed') /\ Cardinality(Claimed') \in Nat /\ Cardinality(Held') \in Nat
      /\ Cardinality(Claimed') <= Cardinality(Held') + NCaches
    BY <1>1, <1>3, ClaimCount
<1> QED BY <1>1, <1>4, CacheAssumption DEF Claims

\* With the reserve there is always a chunk to write to.
LEMMA ReserveGives ==
    ASSUME ReserveCovers, TInv, Spared(1)
    PROVE  CanWrite
BY ClaimsAre, CacheAssumption DEF ReserveCovers, Spared, CanWrite

\* Where nothing more is claimed as much is spared.
LEMMA SparedKept ==
    ASSUME TInv, NEW n \in Nat, Spared(n),
           \A f \in Files, c \in FileChunks : Backed(f, c)' => Backed(f, c)
    PROVE  Spared(n)'
<1>1. Claimed' \subseteq Claimed
    BY DEF Claimed
<1>2. IsFiniteSet(Claimed') /\ Cardinality(Claimed') <= Cardinality(Claimed)
    BY <1>1, ClaimsAre, FS_Subset
<1>3. Cardinality(Claimed') \in Nat
    BY <1>2, FS_CardinalityType
<1> QED BY <1>2, <1>3, ClaimsAre, CacheAssumption DEF Spared, Claims

\* One chunk more takes what was spared for it.
LEMMA SparedOneMore ==
    ASSUME TInv, Spared(2), NEW g \in Files, NEW d \in FileChunks,
           \A f \in Files, c \in FileChunks : Backed(f, c)' => Backed(f, c) \/ (f = g /\ c = d)
    PROVE  Spared(1)'
<1>1. Claimed' \subseteq Claimed \cup {<<g, d>>}
    BY DEF Claimed
<1>2. /\ IsFiniteSet(Claimed \cup {<<g, d>>})
      /\ Cardinality(Claimed \cup {<<g, d>>}) = IF <<g, d>> \in Claimed THEN Claims ELSE Claims + 1
    BY ClaimsAre, FS_AddElement DEF Claims
<1>3. IsFiniteSet(Claimed') /\ Cardinality(Claimed') <= Cardinality(Claimed \cup {<<g, d>>})
    BY <1>1, <1>2, FS_Subset
<1>4. Cardinality(Claimed') \in Nat
    BY <1>3, FS_CardinalityType
<1> QED BY <1>2, <1>3, <1>4, ClaimsAre, CacheAssumption DEF Spared, Claims

\* What is free beyond the reserve is spared, whatever is dirty.
LEMMA SparedBySpace ==
    ASSUME StoreTyped', NEW n \in Nat, nFreeChunks' >= Reserve + n
    PROVE  Spared(n)'
<1>1. nFreeChunks' \in Int
    <2>1. Cardinality(Held') \in Nat
        BY FS_CardinalityType DEF StoreTyped, Counted
    <2> QED BY <2>1, CacheAssumption DEF StoreTyped, Counted
<1> QED BY <1>1, ClaimsNext, CacheAssumption DEF Spared

\* What changes nothing claims nothing.
LEMMA BackedSame ==
    ASSUME UNCHANGED <<cache, nand>>
    PROVE  \A f \in Files, c \in FileChunks : Backed(f, c)' = Backed(f, c)
BY DEF Backed, Dirty, Of

\* What an entry that is used claims.
LEMMA BackedUsed ==
    ASSUME Cached, NEW e \in Entries, NEW x, IsEntry(x), Use(e, x), nand' = nand
    PROVE  \A f \in Files, c \in FileChunks :
               /\ Backed(f, c)' => Backed(f, c) \/ (x.dirty /\ x.object = f /\ x.chunk = c)
               /\ Backed(f, c) => Backed(f, c)'
                                  \/ (cache[e].dirty /\ cache[e].object = f /\ cache[e].chunk = c)
               /\ x.dirty /\ x.object = f /\ x.chunk = c => Backed(f, c)'
<1>1. SameData(cache'[e], x) /\ \A d \in Entries \ {e} : SameData(cache'[d], cache[d])
    <2>1. PICK now : now = IF Over THEN 1 ELSE srLastUse + 1
        OBVIOUS
    <2>2. cache' = [d \in Entries |-> IF d = e THEN [x EXCEPT !.lastUse = now]
                                      ELSE IF Over /\ d > 1 THEN [cache[d] EXCEPT !.lastUse = 0]
                                      ELSE cache[d]]
        BY <2>1 DEF Use
    <2>3. \A y, t : IsEntry(y) => SameData([y EXCEPT !.lastUse = t], y)
        BY DEF IsEntry, SameData
    <2>4. \A d \in Entries : IsEntry(cache[d])
        BY DEF Cached
    <2>5. \A y : SameData(y, y)
        BY DEF SameData
    <2> QED BY <2>2, <2>3, <2>4, <2>5
<1> TAKE f \in Files
<1> TAKE c \in FileChunks
<1> QED BY <1>1 DEF Backed, Dirty, Of, SameData

\* Taking entries out claims nothing.
LEMMA BackedWithout ==
    ASSUME NEW S, cache' = Without(S),
           \A f \in Files, c \in FileChunks : nand'[f][c] # Hole => Backed(f, c)
    PROVE  \A f \in Files, c \in FileChunks : Backed(f, c)' => Backed(f, c)
<1> TAKE f \in Files
<1> TAKE c \in FileChunks
<1>1. \A e \in Dirty(f)' : e \in Dirty(f) /\ cache'[e] = cache[e]
    BY CacheAssumption DEF Dirty, Of, Without, Unused
<1> QED BY <1>1 DEF Backed

\* The first job keeps being one that is right.
LEMMA RightHead ==
    ASSUME Typed, Typed', JobsRight, jobs # <<>>, NEW next, jobs' = [jobs EXCEPT ![1] = next],
           next.kind = job.kind, next.off = job.off, next.n = job.n, next.was = job.was
    PROVE  JobsRight'
<1>1. jobs \in Seq(RightJobs) /\ job = jobs[1] /\ 1 \in DOMAIN jobs
    BY DEF JobsRight, job
<1>2. job \in RightJobs
    BY <1>1
<1>3. jobs'[1] = next /\ jobs' \in Seq(JobRecords) /\ 1 \in DOMAIN jobs'
    BY <1>1 DEF Typed
<1>4. next \in JobRecords
    BY <1>3
<1>5. next \in RightJobs
    BY <1>2, <1>4 DEF RightJobs
<1>6. jobs' \in Seq(RightJobs)
    BY <1>1, <1>5
<1> QED BY <1>6 DEF JobsRight

\* So do those that are left.
LEMMA RightTail == ASSUME JobsRight, jobs # <<>>, jobs' = Tail(jobs) PROVE JobsRight'
BY DEF JobsRight

\* A step that claims nothing and leaves no write half way.
LEMMA QuietSpares ==
    ASSUME TInv, SInv, \A f \in Files, c \in FileChunks : Backed(f, c)' => Backed(f, c), JobsRight',
           jobs' # <<>> => job'.kind # "zeros" /\ (job'.kind = "write" => job'.step # "flushed")
    PROVE  SInv'
<1>1. Spared(1)'
    BY SparedKept DEF SInv
<1> QED BY <1>1 DEF SInv, FlushedSpares, ZerosCover

\* A step of the first job that leaves nothing to be flushed first.
LEMMA HeadSpares ==
    ASSUME TInv, SInv, Typed', jobs # <<>>, flushing' = None, NEW next, jobs' = [jobs EXCEPT ![1] = next],
           next.kind = job.kind, next.file = job.file, next.off = job.off, next.n = job.n,
           next.was = job.was, next.step \in {"chunk", "short"}, Spared(1)',
           NEW g, g = job.file, NEW k, k = job.was \div BytesPerChunk + 1,
           job.kind = "zeros" /\ job.was % BytesPerChunk # 0 => Backed(g, k)'
    PROVE  SInv'
<1>1. Typed /\ JobsRight
    BY TypesGive DEF SInv
<1>2. job' = next
    BY <1>1, HeadKinds
<1>3. JobsRight'
    BY <1>1, RightHead
<1>4. FlushedSpares'
    BY <1>2 DEF FlushedSpares
<1>5. job'.file = g /\ job'.was \div BytesPerChunk + 1 = k
    BY <1>2
<1>6. Backed(g, k)' => Backed(job.file, job.was \div BytesPerChunk + 1)'
    BY <1>5 DEF Backed, Dirty, Of
<1>7. ZerosCover'
    BY <1>2, <1>6 DEF ZerosCover
<1> QED BY <1>3, <1>4, <1>7 DEF SInv

\* A step that leaves the jobs as they are.
LEMMA SameJobsSpare ==
    ASSUME TInv, SInv, UNCHANGED jobs,
           \A f \in Files, c \in FileChunks : Backed(f, c)' => Backed(f, c),
           \A f \in Files, c \in FileChunks : Backed(f, c) => Backed(f, c)',
           \A f \in Files : \A c : Absent(f, c) => Absent(f, c)',
           flushing' = flushing \/ flushing' = None, flushing # None \/ nFreeChunks' = nFreeChunks
    PROVE  SInv'
<1>1. Spared(1)' /\ (Spared(2) => Spared(2)')
    BY SparedKept DEF SInv
<1>2. JobsRight' /\ job' = job /\ Chunk' = Chunk
    BY DEF SInv, JobsRight, job, Chunk, Pos
<1>3. jobs # <<>> => job.file \in Files /\ job.was \in 0 .. MaxSize
    BY TypesGive, HeadOk DEF JobOk
<1>4. FlushedSpares'
    <2> SUFFICES ASSUME jobs # <<>>, job.kind \in {"write", "zeros"}, job.step = "flushed"
                 PROVE  Spared(2)' /\ Absent(job.file, Chunk)'
        BY <1>2 DEF FlushedSpares
    <2>1. Spared(2) /\ Absent(job.file, Chunk)
        BY DEF SInv, FlushedSpares
    <2>2. PICK g, d : g \in Files /\ g = job.file /\ d = Chunk
        BY <1>3
    <2>3. Absent(g, d)'
        BY <2>1, <2>2
    <2> QED BY <1>1, <1>2, <2>1, <2>2, <2>3 DEF Absent
<1>5. ZerosCover'
    <2> SUFFICES ASSUME jobs # <<>>, job.kind = "zeros"
                 PROVE  /\ flushing' # None => job.step = "flushed"
                        /\ job.was % BytesPerChunk # 0 =>
                               Backed(job.file, job.was \div BytesPerChunk + 1)' \/ Starts'
        BY <1>2 DEF ZerosCover
    <2>1. flushing # None => job.step = "flushed"
        BY DEF SInv, ZerosCover
    <2>2. ASSUME job.was % BytesPerChunk # 0
          PROVE  Backed(job.file, job.was \div BytesPerChunk + 1)' \/ Starts'
        <3>1. PICK g \in Files, k \in FileChunks : g = job.file /\ k = job.was \div BytesPerChunk + 1
            BY <1>3, <2>2, LastChunkIs
        <3>2. CASE Backed(g, k)
            <4>1. Backed(g, k)'
                BY <3>2
            <4> QED BY <1>2, <3>1, <4>1 DEF Backed, Dirty, Of
        <3>3. CASE Starts
            BY <1>2, <2>1, <3>3 DEF Starts, Space
        <3> QED BY <2>2, <3>1, <3>2, <3>3 DEF SInv, ZerosCover
    <2> QED BY <2>1, <2>2
<1> QED BY <1>1, <1>2, <1>4, <1>5 DEF SInv

\* A chunk that is written in the cache has been let in, was dirty already, or takes the
\* entry that was flushed for it.
LEMMA ModifySpares ==
    ASSUME TInv, SInv, Typed', StoreTyped', Writing, More, NEW e \in Entries, NEW x, IsEntry(x),
           x.object = job.file, x.chunk = Chunk, Modify(e, x),
           \/ cache[e].object = job.file /\ cache[e].chunk = Chunk
           \/ cache[e].object \notin Files \/ ~cache[e].dirty,
           \/ Space(1) \/ job.step = "flushed"
           \/ cache[e].dirty /\ cache[e].object = job.file /\ cache[e].chunk = Chunk
    PROVE  SInv'
<1>1. /\ Typed /\ Contents /\ JobsOk /\ Cached /\ jobs # <<>> /\ job.kind \in {"write", "zeros"}
      /\ flushing = None
    BY TypesGive DEF Writing, Serving, Typed
<1>2. /\ job.file \in Files /\ JobOk(job, status) /\ Chunk \in FileChunks /\ Length \in Nat
    BY <1>1, HeadOk, Span
<1>3. PICK g \in Files, d \in FileChunks : g = job.file /\ d = Chunk
    BY <1>2
<1>4. PICK k : k = job.was \div BytesPerChunk + 1
    OBVIOUS
<1>5. PICK y : y = [x EXCEPT !.dirty = TRUE, !.n = ToWriteBack, !.bytes = Overlay(@)]
    OBVIOUS
<1>6. IsEntry(y) /\ y.object = g /\ y.chunk = d /\ y.dirty
    BY <1>3, <1>5 DEF IsEntry
<1>7. /\ Use(e, y) /\ jobs' = Stepped /\ nand' = nand /\ nFreeChunks' = nFreeChunks /\ flushing' = None
    BY <1>1, <1>5 DEF Modify, store
<1>8. \A f \in Files, c \in FileChunks :
          /\ Backed(f, c)' => Backed(f, c) \/ (f = g /\ c = d)
          /\ Backed(f, c) => Backed(f, c)' \/ (cache[e].dirty /\ cache[e].object = f /\ cache[e].chunk = c)
          /\ f = g /\ c = d => Backed(f, c)'
    BY <1>1, <1>6, <1>7, BackedUsed
<1>9. PICK next :
          /\ jobs' = [jobs EXCEPT ![1] = next]
          /\ next.kind = job.kind /\ next.file = job.file /\ next.off = job.off /\ next.n = job.n
          /\ next.v = job.v /\ next.was = job.was /\ next.done = job.done + Length
          /\ next.step = "chunk"
    BY <1>1, <1>2, <1>7, SteppedIs
<1>10. Spared(1)'
    <2>1. CASE Space(1)
        <3>1. nFreeChunks' >= Reserve + 1
            BY <1>7, <2>1, ClaimsAre, CacheAssumption DEF Space
        <3> QED BY <3>1, SparedBySpace
    <2>2. CASE cache[e].dirty /\ cache[e].object = job.file /\ cache[e].chunk = Chunk
        <3>1. Backed(g, d)
            BY <1>3, <2>2 DEF Backed, Dirty, Of
        <3>2. \A f \in Files, c \in FileChunks : Backed(f, c)' => Backed(f, c)
            BY <1>8, <3>1
        <3> QED BY <3>2, SparedKept DEF SInv
    <2>3. CASE job.step = "flushed"
        <3>1. Spared(2)
            BY <1>1, <2>3 DEF SInv, FlushedSpares
        <3> QED BY <1>8, <3>1, SparedOneMore
    <2> QED BY <2>1, <2>2, <2>3
<1>11. ASSUME job.kind = "zeros", job.was % BytesPerChunk # 0 PROVE Backed(g, k)'
    <2>1. k \in FileChunks
        BY <1>2, <1>4, <1>11, LastChunkIs DEF JobOk
    <2>2. CASE Starts
        <3>1. d = k
            <4>1. job.off + job.done = job.was
                BY <1>2, <2>2 DEF Starts, JobOk
            <4> QED BY <1>3, <1>4, <4>1 DEF Chunk, Pos
        <3> QED BY <1>8, <2>1, <3>1
    <2>3. CASE Backed(g, k)
        BY <1>3, <1>8, <2>1, <2>3
    <2> QED BY <1>1, <1>3, <1>4, <1>11, <2>2, <2>3 DEF SInv, ZerosCover
<1> QED BY <1>1, <1>3, <1>4, <1>7, <1>9, <1>10, <1>11, HeadSpares

\* A write that is refused claims nothing.
LEMMA RefuseSpares ==
    ASSUME TInv, SInv, Typed', Writing, NEW lost, Refuse(lost),
           job.kind = "zeros" /\ job.was % BytesPerChunk # 0 =>
               /\ ~Starts
               /\ \A e \in lost : cache[e].object # job.file \/ cache[e].chunk # job.was \div BytesPerChunk + 1
    PROVE  SInv'
<1>1. /\ Typed /\ JobsOk /\ Contents /\ jobs # <<>> /\ flushing = None /\ job.file \in Files
      /\ job.was \in 0 .. MaxSize
    BY TypesGive, HeadOk DEF Writing, Serving, JobOk
<1>2. /\ jobs' = [jobs EXCEPT ![1].step = "short"] /\ cache' = Without(lost) /\ nand' = nand
      /\ flushing' = None
    BY <1>1 DEF Refuse, store
<1>3. PICK next : /\ jobs' = [jobs EXCEPT ![1] = next]
                  /\ next.kind = job.kind /\ next.file = job.file /\ next.off = job.off /\ next.n = job.n
                  /\ next.v = job.v /\ next.was = job.was /\ next.done = job.done /\ next.step = "short"
    BY <1>1, <1>2, MarkedIs
<1>4. Spared(1)'
    <2>1. \A f \in Files, c \in FileChunks : nand'[f][c] # Hole => Backed(f, c)
        BY <1>2 DEF Backed
    <2>2. \A f \in Files, c \in FileChunks : Backed(f, c)' => Backed(f, c)
        BY <1>2, <2>1, BackedWithout
    <2> QED BY <2>2, SparedKept DEF SInv
<1>5. PICK g, k : g \in Files /\ g = job.file /\ k = job.was \div BytesPerChunk + 1
    BY <1>1
<1>6. ASSUME job.kind = "zeros", job.was % BytesPerChunk # 0 PROVE Backed(g, k)'
    <2>1. Backed(g, k) /\ \A e \in lost : cache[e].object # g \/ cache[e].chunk # k
        BY <1>1, <1>5, <1>6 DEF SInv, ZerosCover
    <2> QED BY <1>2, <2>1 DEF Backed, Dirty, Of, Without
<1> QED BY <1>1, <1>2, <1>3, <1>4, <1>5, <1>6, HeadSpares

\* Zeros that start are part of a chunk, and no whole chunk is the one they started in.
LEMMA StartIsPart ==
    ASSUME TInv, SInv, Writing, More, Whole, job.kind = "zeros", job.was % BytesPerChunk # 0
    PROVE  ~Starts /\ Chunk # job.was \div BytesPerChunk + 1
<1>1. /\ Typed /\ JobsOk /\ Contents /\ jobs # <<>> /\ JobOk(job, status)
    BY TypesGive, HeadOk DEF Writing, Serving
<1>2. /\ From \in 0 .. BytesPerChunk - 1 /\ Chunk \in FileChunks /\ Pos = (Chunk - 1) * BytesPerChunk + From
      /\ From + Length <= BytesPerChunk /\ Length = BytesPerChunk
    BY <1>1, Span DEF Whole
<1>3. From = 0 /\ Chunk \in Nat
    BY <1>2, Amounts
<1>4. PICK q \in Nat, r \in 0 .. BytesPerChunk - 1 :
          /\ q = job.was \div BytesPerChunk /\ r = job.was % BytesPerChunk
          /\ job.was = q * BytesPerChunk + r
    BY <1>1, SizeIs DEF JobOk
<1>5. job.was <= Pos /\ Pos \in Nat
    <2>1. job \in RightJobs
        BY <1>1 DEF SInv, JobsRight, job
    <2>2. job.was <= job.off
        BY <2>1 DEF RightJobs
    <2> QED BY <1>1, <2>2, Amounts DEF JobOk, Pos
<1>6. Chunk # q + 1
    <2> SUFFICES ASSUME Chunk = q + 1 PROVE FALSE
        OBVIOUS
    <2>1. (Chunk - 1) * BytesPerChunk = q * BytesPerChunk
        BY <1>4
    <2>2. PICK a \in Nat : a = q * BytesPerChunk
        BY <1>4, Amounts
    <2> QED BY <1>2, <1>3, <1>4, <1>5, <2>1, <2>2
<1>7. ~Starts
    <2> SUFFICES ASSUME Starts PROVE FALSE
        OBVIOUS
    <2>1. Pos = job.was
        BY <1>1 DEF Starts, Pos, JobOk
    <2>2. From = job.was % BytesPerChunk
        BY <2>1 DEF From
    <2> QED BY <1>3, <2>2
<1> QED BY <1>4, <1>6, <1>7

\* A part of a chunk is written (yaffs_DoWriteDataToFile).
LEMMA WriteCachedSpares == ASSUME TInv, SInv, Typed', StoreTyped', WriteCached PROVE SInv'
<1>1. Writing /\ More /\ jobs # <<>> /\ job.file \in Files /\ Cached
      /\ job.kind \in {"write", "zeros"}
    BY TypesGive, HeadOk DEF WriteCached, Writing, Serving, Typed
<1>2. PICK e : e = Find(job.file, Chunk)
    OBVIOUS
<1>3. /\ e # NoEntry /\ IF cache[e].dirty \/ Space(1) THEN Modify(e, cache[e]) ELSE Refuse({})
    BY <1>2 DEF WriteCached
<1>4. e \in Entries /\ cache[e].object = job.file /\ cache[e].chunk = Chunk
    BY <1>1, <1>2, <1>3, FoundFilled
<1>5. IsEntry(cache[e])
    BY <1>1, <1>4 DEF Cached
<1>6. CASE cache[e].dirty \/ Space(1)
    <2>1. Modify(e, cache[e])
        BY <1>3, <1>6
    <2> QED BY <1>1, <1>4, <1>5, <1>6, <2>1, ModifySpares
<1>7. CASE ~(cache[e].dirty \/ Space(1))
    <2>1. Refuse({})
        BY <1>3, <1>7
    <2>2. job.step # "flushed"
        BY <1>1, <1>4 DEF SInv, FlushedSpares, Absent
    <2>3. ~Starts
        BY <1>7, <2>2 DEF Starts
    <2> QED BY <1>1, <2>1, <2>3, RefuseSpares
<1> QED BY <1>6, <1>7

\* An entry has been flushed for a write that was let in.
LEMMA FlushFirstSpares ==
    ASSUME TInv, SInv, Typed', StoreTyped', Writing, Space(1), Find(job.file, Chunk) = NoEntry,
           NEW h, FlushFirst(h, [jobs EXCEPT ![1].step = "flushed"])
    PROVE  SInv'
<1>1. /\ Typed /\ JobsOk /\ Contents /\ OneEntryPerChunk /\ JobsRight
      /\ jobs # <<>> /\ flushing = None /\ job.file \in Files /\ job.was \in 0 .. MaxSize
    BY TypesGive, HeadOk DEF Writing, Serving, JobOk, SInv
<1>2. /\ jobs' = [jobs EXCEPT ![1].step = "flushed"]
      /\ UNCHANGED <<cache, nand, nFreeChunks>>
    BY DEF FlushFirst, store
<1>3. PICK next : /\ jobs' = [jobs EXCEPT ![1] = next]
                  /\ next.kind = job.kind /\ next.file = job.file /\ next.off = job.off /\ next.n = job.n
                  /\ next.v = job.v /\ next.was = job.was /\ next.done = job.done /\ next.step = "flushed"
    BY <1>1, <1>2, MarkedIs
<1>4. job' = next /\ JobsRight'
    BY <1>1, <1>3, HeadKinds, RightHead
<1>5. Spared(1)' /\ Spared(2)'
    <2>1. nFreeChunks' >= Reserve + 1 /\ nFreeChunks' >= Reserve + 2
        BY <1>2, ClaimsAre, CacheAssumption DEF Space
    <2> QED BY <2>1, SparedBySpace
<1>6. Absent(job.file, Chunk)'
    <2>1. \A e \in Of(job.file) : cache[e].chunk # Chunk
        BY <1>1, NotFound
    <2>2. Chunk' = Chunk /\ job'.file = job.file
        BY <1>3, <1>4 DEF Chunk, Pos
    <2> QED BY <1>2, <2>1, <2>2 DEF Absent, Of
<1>7. ZerosCover'
    <2> SUFFICES ASSUME job.kind = "zeros", job.was % BytesPerChunk # 0
                 PROVE  Backed(job.file, job.was \div BytesPerChunk + 1)' \/ Starts'
        BY <1>3, <1>4 DEF ZerosCover
    <2>1. CASE Starts
        BY <1>3, <1>4, <2>1 DEF Starts
    <2>2. CASE Backed(job.file, job.was \div BytesPerChunk + 1)
        BY <1>2, <1>3, <1>4, <2>2 DEF Backed, Dirty, Of
    <2> QED BY <1>1, <2>1, <2>2 DEF SInv, ZerosCover
<1> QED BY <1>4, <1>5, <1>6, <1>7 DEF SInv, FlushedSpares

\* A part of a chunk that is not cached: refused, let in, or let in before the flush that
\* made room for it.
LEMMA WriteUncachedSpares ==
    ASSUME FInv, TInv, SInv, Typed', StoreTyped', WriteUncached
    PROVE  SInv'
<1>1. Writing /\ More /\ jobs # <<>> /\ job.file \in Files /\ Cached /\ flushing = None
      /\ job.kind \in {"write", "zeros"} /\ Find(job.file, Chunk) = NoEntry /\ Chunk \in FileChunks
      /\ job.step \in {"chunk", "flushed"}
    <2>1. /\ Typed /\ JobsOk /\ Contents /\ Writing /\ More /\ jobs # <<>> /\ flushing = None
          /\ job.kind \in {"write", "zeros"} /\ Find(job.file, Chunk) = NoEntry /\ job.step # "short"
        BY TypesGive DEF WriteUncached, Writing, Serving, More
    <2>2. job \in JobRecords /\ job.file \in Files /\ Chunk \in FileChunks
        BY <2>1, HeadOk, Span
    <2> QED BY <2>1, <2>2 DEF JobRecords, Typed
<1>2. CASE job.step = "chunk" /\ ~Space(1)
    <2>1. Refuse({})
        BY <1>2 DEF WriteUncached
    <2>2. ~Starts
        BY <1>2 DEF Starts
    <2> QED BY <1>1, <2>1, <2>2, RefuseSpares
<1>3. CASE job.step = "chunk" /\ Space(1) /\ MustFlush
    <2>1. FlushFirst(cache[LeastUsed].object, [jobs EXCEPT ![1].step = "flushed"])
        BY <1>3 DEF WriteUncached
    <2> QED BY <1>1, <1>3, <2>1, FlushFirstSpares
<1>4. CASE job.step = "flushed" \/ (Space(1) /\ ~MustFlush)
    <2>1. PICK e, x : e = Grabbed /\ x = Loaded(Grabbed, job.file, Chunk)
        OBVIOUS
    <2>2. Modify(e, x)
        BY <1>4, <2>1 DEF WriteUncached
    <2>3. e \in Entries /\ (cache[e].object \notin Files \/ ~cache[e].dirty)
        BY <1>1, <1>4, <2>1, GrabbedIs
    <2>4. IsEntry(x) /\ x.object = job.file /\ x.chunk = Chunk
        BY <1>1, <2>1, <2>3, LoadedEntry
    <2> QED BY <1>1, <1>4, <2>2, <2>3, <2>4, ModifySpares
<1> QED BY <1>1, <1>2, <1>3, <1>4

\* A whole chunk is written past the cache.
LEMMA WriteWholeSpares == ASSUME TInv, SInv, Typed', StoreTyped', WriteWhole PROVE SInv'
<1>1. /\ Typed /\ JobsOk /\ Contents /\ OneEntryPerChunk /\ Writing /\ More /\ Whole /\ jobs # <<>>
      /\ flushing = None /\ job.kind \in {"write", "zeros"}
    BY TypesGive DEF WriteWhole, Writing, Serving
<1>2. PICK g \in Files, d \in FileChunks : g = job.file /\ d = Chunk
    BY <1>1, HeadOk, Span
<1>3. PICK k : k = job.was \div BytesPerChunk + 1
    OBVIOUS
<1>4. job.kind = "zeros" /\ job.was % BytesPerChunk # 0 => ~Starts /\ d # k
    BY <1>1, <1>2, <1>3, StartIsPart
<1>5. \A e \in Overwritten : cache[e].chunk = d
    BY <1>1, <1>2, Found DEF Overwritten
<1>6. CASE Refuse(Overwritten)
    BY <1>1, <1>3, <1>4, <1>5, <1>6, RefuseSpares
<1>7. CASE ~Refuse(Overwritten)
    <2>1. /\ Space(1) /\ Write(g, d, Overlay(Zeros), BytesPerChunk)
          /\ cache' = Without(Overwritten) /\ jobs' = Stepped /\ flushing' = None
        BY <1>1, <1>2, <1>7 DEF WriteWhole
    <2>2. Length \in Nat
        BY <1>1, Span
    <2>3. PICK next :
              /\ jobs' = [jobs EXCEPT ![1] = next]
              /\ next.kind = job.kind /\ next.file = job.file /\ next.off = job.off /\ next.n = job.n
              /\ next.v = job.v /\ next.was = job.was /\ next.done = job.done + Length
              /\ next.step = "chunk"
        BY <1>1, <2>1, <2>2, SteppedIs
    <2>4. Spared(1)'
        <3>1. nFreeChunks' >= nFreeChunks - 1
            BY <2>1, ClaimsAre DEF Write, Cost
        <3>2. nFreeChunks' \in Int
            BY <2>1, ClaimsAre DEF Write, Cost
        <3>3. nFreeChunks' >= Reserve + 1
            BY <2>1, <3>1, <3>2, ClaimsAre, CacheAssumption DEF Space
        <3> QED BY <3>3, SparedBySpace
    <2>5. ASSUME job.kind = "zeros", job.was % BytesPerChunk # 0 PROVE Backed(g, k)'
        <3>1. Backed(g, k) /\ d # k
            BY <1>1, <1>2, <1>3, <1>4, <2>5 DEF SInv, ZerosCover
        <3>2. nand'[g][k] = nand[g][k]
            <4>1. nand \in [Files -> [FileChunks -> ChunkRecords]]
                BY TypesGive DEF StoreTyped
            <4> QED BY <2>1, <3>1, <4>1 DEF Write
        <3> QED BY <1>5, <2>1, <3>1, <3>2 DEF Backed, Dirty, Of, Without
    <2> QED BY <1>1, <1>2, <1>3, <2>1, <2>3, <2>4, <2>5, HeadSpares
<1> QED BY <1>6, <1>7

\* Cutting a file claims at most the chunk that is padded (yaffs_ResizeDown).
LEMMA CutClaims ==
    ASSUME StoreTyped, NEW f \in Files, NEW size \in 0 .. MaxSize, ResizeDown(f, size)
    PROVE  \A g \in Files, c \in FileChunks : nand'[g][c] # Hole =>
               nand[g][c] # Hole
               \/ (g = f /\ size % BytesPerChunk # 0 /\ c = size \div BytesPerChunk + 1)
<1> DEFINE last == size \div BytesPerChunk + 1
<1>1. PICK pruned : pruned = Pruned(f, size)
    OBVIOUS
<1>2. PICK padded : \/ padded = pruned
                    \/ size % BytesPerChunk # 0 /\ padded = [pruned EXCEPT ![last] = Padded(@, size)]
    OBVIOUS
<1>3. nand' = [nand EXCEPT ![f] = pruned]
      \/ (size % BytesPerChunk # 0 /\ nand' = [nand EXCEPT ![f] = [pruned EXCEPT ![last] = Padded(@, size)]])
    BY <1>1 DEF ResizeDown
<1>4. /\ nand \in [Files -> [FileChunks -> ChunkRecords]]
      /\ \A c \in FileChunks : pruned[c] # Hole => nand[f][c] # Hole
    BY <1>1 DEF StoreTyped, Pruned
<1>5. pruned = [c \in FileChunks |-> pruned[c]]
    BY <1>1 DEF Pruned
<1> HIDE DEF last
<1> SUFFICES ASSUME NEW g \in Files, NEW c \in FileChunks, nand'[g][c] # Hole
             PROVE  nand[g][c] # Hole \/ (g = f /\ size % BytesPerChunk # 0 /\ c = last)
    BY DEF last
<1> QED BY <1>3, <1>4, <1>5

\* The end of a write claims nothing: zeros that are taken back have their chunk.
LEMMA WriteEndsSpares == ASSUME TInv, SInv, Typed', StoreTyped', WriteEnds PROVE SInv'
<1>1. /\ Typed /\ JobsOk /\ ZerosFill /\ Contents /\ StoreTyped /\ jobs # <<>> /\ flushing = None /\ JobsRight
      /\ job.kind \in {"write", "zeros"} /\ ~More /\ flushing' = None /\ cache' = cache
    BY TypesGive DEF WriteEnds, Writing, Serving, SInv
<1>2. /\ job.file \in Files /\ JobOk(job, status) /\ job = jobs[1] /\ DOMAIN jobs = 1 .. Len(jobs)
      /\ Len(jobs) \in Nat /\ Len(jobs) >= 1
    BY <1>1, HeadOk
<1>3. ~Starts
    BY <1>1, <1>2 DEF Starts, More, JobOk
<1>4. CASE job.kind = "zeros" /\ job.step = "short"
    <2>1. PICK f \in Files, size \in 0 .. MaxSize : f = job.file /\ size = job.was
        BY <1>2 DEF JobOk
    <2>2. ResizeDown(f, size) /\ GivesUp
        BY <1>4, <2>1 DEF WriteEnds, GivesUp
    <2>3. fileSize' = [fileSize EXCEPT ![job.file] = job.was]
        BY <2>1, <2>2 DEF ResizeDown
    <2>4. (\A i \in DOMAIN jobs' : jobs'[i].kind # "zeros") /\ jobs' # <<>> /\ job'.step = "chunk"
        BY <1>1, <1>4, <2>2, <2>3, TakeBackJobs
    <2>5. job'.kind # "zeros"
        <3>1. 1 \in DOMAIN jobs'
            BY <2>4 DEF Typed
        <3> QED BY <2>4, <3>1, NextEnds
    <2>6. JobsRight'
        <3>1. Zeroing \in Nat
            <4>1. IsFiniteSet(1 .. Len(jobs))
                BY <1>2, FS_Interval
            <4>2. IsFiniteSet({i \in DOMAIN jobs : jobs[i].kind = "zeros"})
                BY <1>2, <4>1, FS_Subset
            <4> QED BY <4>2, FS_CardinalityType DEF Zeroing
        <3>2. SubSeq(jobs, Zeroing + 1, Len(jobs)) \in Seq(RightJobs)
            BY <1>1, <1>2, <3>1 DEF JobsRight
        <3> QED BY <2>2, <3>2 DEF GivesUp, JobsRight
    <2>7. size % BytesPerChunk # 0 => Backed(f, size \div BytesPerChunk + 1)
        BY <1>1, <1>3, <1>4, <2>1 DEF SInv, ZerosCover
    <2>8. \A g \in Files, c \in FileChunks : Backed(g, c)' => Backed(g, c)
        <3> TAKE g \in Files
        <3> TAKE c \in FileChunks
        <3>1. nand'[g][c] # Hole => nand[g][c] # Hole
                  \/ (g = f /\ size % BytesPerChunk # 0 /\ c = size \div BytesPerChunk + 1)
            BY <1>1, <2>2, CutClaims
        <3>2. nand'[g][c] # Hole => Backed(g, c)
            BY <2>7, <3>1 DEF Backed
        <3> QED BY <1>1, <3>2 DEF Backed, Dirty, Of
    <2> QED BY <2>4, <2>5, <2>6, <2>8, QuietSpares
<1>5. CASE ~(job.kind = "zeros" /\ job.step = "short")
    <2>1. jobs' = Tail(jobs) /\ nand' = nand
        BY <1>5 DEF WriteEnds, store
    <2>2. \A f \in Files, c \in FileChunks : Backed(f, c)' = Backed(f, c)
        BY <1>1, <2>1, BackedSame
    <2>3. JobsRight' /\ Spared(1)'
        BY <1>1, <2>1, <2>2, RightTail, SparedKept DEF SInv
    <2>4. jobs' # <<>> => 2 \in DOMAIN jobs /\ job' = jobs[2] /\ job'.step = "chunk"
        <3>1. jobs' # <<>> => Len(jobs) > 1 /\ job' = jobs[2]
            BY <1>1, <1>2, <2>1, TailIs
        <3> QED BY <1>1, <1>2, <3>1 DEF JobsOk
    <2>5. FlushedSpares'
        BY <2>4 DEF FlushedSpares
    <2>6. ASSUME jobs' # <<>>, job'.kind = "zeros", job'.was % BytesPerChunk # 0
          PROVE  Backed(job.file, job.was \div BytesPerChunk + 1)'
        <3>1. 2 \in DOMAIN jobs /\ jobs[2].kind = "zeros" /\ jobs[2] = job'
            BY <2>4, <2>6
        <3>2. Fills(jobs[2], job, Last, fileSize) /\ jobs[1].kind = "zeros"
            BY <1>1, <3>1 DEF JobsOk, ZerosFill
        <3>3. job.kind = "zeros" /\ job'.file = job.file /\ job'.was = job.was
            BY <1>2, <3>1, <3>2 DEF Fills
        <3>4. Backed(job.file, job.was \div BytesPerChunk + 1)
            BY <1>1, <1>3, <2>6, <3>3 DEF SInv, ZerosCover
        <3> QED BY <1>1, <2>1, <3>3, <3>4 DEF Backed, Dirty, Of
    <2>7. ZerosCover'
        BY <1>1, <2>6 DEF ZerosCover
    <2> QED BY <2>3, <2>5, <2>7 DEF SInv
<1> QED BY <1>4, <1>5

\* A read marks nothing as dirty (yaffs_ReadDataFromFile).
LEMMA ReadSpares ==
    ASSUME TInv, SInv, Typed', jobs # <<>>, job.kind = "read", NEW step \in {"chunk", "flushed"},
           jobs' = Stepped \/ jobs' = [jobs EXCEPT ![1].step = step], More,
           \A f \in Files, c \in FileChunks : Backed(f, c)' => Backed(f, c)
    PROVE  SInv'
<1>1. Typed /\ JobsOk /\ Contents /\ JobsRight
    BY TypesGive DEF SInv
<1>2. \E next : /\ jobs' = [jobs EXCEPT ![1] = next]
                /\ next.kind = job.kind /\ next.file = job.file /\ next.off = job.off /\ next.n = job.n
                /\ next.was = job.was
    <2>1. CASE jobs' = Stepped
        <3>1. Length \in Nat
            BY <1>1, Span
        <3> QED BY <1>1, <2>1, <3>1, SteppedIs
    <2>2. CASE jobs' = [jobs EXCEPT ![1].step = step]
        <3>1. PICK mark \in {"chunk", "flushed", "short"} : mark = step
            OBVIOUS
        <3>2. jobs' = [jobs EXCEPT ![1].step = mark]
            BY <2>2, <3>1
        <3>3. PICK next :
                  /\ jobs' = [jobs EXCEPT ![1] = next]
                  /\ next.kind = job.kind /\ next.file = job.file /\ next.off = job.off /\ next.n = job.n
                  /\ next.v = job.v /\ next.was = job.was /\ next.done = job.done /\ next.step = mark
            BY <1>1, <3>2, MarkedIs
        <3> QED BY <3>3
    <2> QED BY <2>1, <2>2
<1>3. PICK next : /\ jobs' = [jobs EXCEPT ![1] = next]
                  /\ next.kind = job.kind /\ next.file = job.file /\ next.off = job.off /\ next.n = job.n
                  /\ next.was = job.was
    BY <1>2
<1>4. job' = next /\ JobsRight'
    BY <1>1, <1>3, HeadKinds, RightHead
<1> QED BY <1>3, <1>4, QuietSpares

\* A read may load a chunk into the cache, but a clean one.
LEMMA ReadsSpare ==
    ASSUME FInv, TInv, SInv, Typed', ReadCached \/ ReadUncached \/ ReadWhole
    PROVE  SInv'
<1>1. /\ Typed /\ Contents /\ Cached /\ jobs # <<>> /\ job.kind = "read" /\ More /\ flushing = None
      /\ job.file \in Files
    BY TypesGive, HeadOk DEF ReadCached, ReadUncached, ReadWhole, Serving, Typed
<1>2. CASE \E e, x : Use(e, x) /\ e \in Entries /\ IsEntry(x) /\ Return(x.bytes)
                     /\ (x = cache[e] \/ ~x.dirty)
    <2>1. PICK e, x : Use(e, x) /\ e \in Entries /\ IsEntry(x) /\ Return(x.bytes)
                      /\ (x = cache[e] \/ ~x.dirty)
        BY <1>2
    <2>2. jobs' = Stepped /\ nand' = nand
        BY <2>1 DEF Return, store
    <2>3. \A f \in Files, c \in FileChunks :
              Backed(f, c)' => Backed(f, c) \/ (x.dirty /\ x.object = f /\ x.chunk = c)
        BY <1>1, <2>1, <2>2, BackedUsed
    <2>4. \A f \in Files, c \in FileChunks : Backed(f, c)' => Backed(f, c)
        BY <2>1, <2>3 DEF Backed, Dirty, Of
    <2> QED BY <1>1, <2>2, <2>4, ReadSpares
<1>3. CASE ReadCached
    <2>1. PICK e : e = Find(job.file, Chunk)
        OBVIOUS
    <2>2. e # NoEntry /\ Use(e, cache[e]) /\ Return(cache[e].bytes)
        BY <1>3, <2>1 DEF ReadCached
    <2>3. e \in Entries
        BY <1>1, <2>1, <2>2, FoundFilled
    <2>4. IsEntry(cache[e])
        BY <1>1, <2>3 DEF Cached
    <2> QED BY <1>2, <2>2, <2>3, <2>4
<1>4. CASE ReadUncached
    <2>1. CASE FlushFirst(cache[LeastUsed].object, [jobs EXCEPT ![1].step = "flushed"])
        <3>1. jobs' = [jobs EXCEPT ![1].step = "flushed"] /\ UNCHANGED <<cache, nand>>
            BY <2>1 DEF FlushFirst, store
        <3> QED BY <1>1, <3>1, BackedSame, ReadSpares
    <2>2. CASE ~FlushFirst(cache[LeastUsed].object, [jobs EXCEPT ![1].step = "flushed"])
        <3>1. PICK e, x : e = Grabbed /\ x = Loaded(Grabbed, job.file, Chunk)
            OBVIOUS
        <3>2. Use(e, x) /\ Return(x.bytes)
            BY <1>4, <2>2, <3>1 DEF ReadUncached
        <3>3. e \in Entries
            BY <3>1, GrabbedEntry
        <3>4. IsEntry(x) /\ ~x.dirty
            BY <1>1, <3>1, <3>3, LoadedEntry
        <3> QED BY <1>2, <3>2, <3>3, <3>4
    <2> QED BY <2>1, <2>2
<1>5. CASE ReadWhole
    <2>1. jobs' = Stepped /\ UNCHANGED <<cache, nand>>
        BY <1>5 DEF ReadWhole, Return, store
    <2> QED BY <1>1, <2>1, BackedSame, ReadSpares
<1> QED BY <1>3, <1>4, <1>5

\* A job that is done, behind which there are no zeros.
LEMMA DoneSpares ==
    ASSUME TInv, SInv, jobs # <<>>, job.kind # "zeros", jobs' = Tail(jobs), UNCHANGED <<cache, nand>>
    PROVE  SInv'
<1>1. /\ Typed /\ JobsOk /\ JobsRight /\ job = jobs[1] /\ DOMAIN jobs = 1 .. Len(jobs)
      /\ Len(jobs) \in Nat /\ Len(jobs) >= 1
    BY TypesGive, HeadOk DEF SInv
<1>2. JobsRight'
    BY <1>1, RightTail
<1>3. jobs' # <<>> => Len(jobs) > 1 /\ job' = jobs[2]
    BY <1>1, TailIs
<1>4. jobs' # <<>> => job'.kind # "zeros" /\ job'.step = "chunk"
    BY <1>1, <1>3 DEF JobsOk
<1> QED BY <1>2, <1>4, BackedSame, QuietSpares

\* Jobs that end, or start a flush, claim nothing.
LEMMA DoneJobsSpare ==
    ASSUME TInv, SInv, ReadEnds \/ Extend \/ Flush \/ FlushAll \/ WriteHeader \/ Synced
    PROVE  SInv'
<1>1. CASE jobs # <<>> /\ job.kind # "zeros" /\ jobs' = Tail(jobs) /\ UNCHANGED <<cache, nand>>
    BY <1>1, DoneSpares
<1>2. CASE jobs # <<>> /\ job.kind = "flushall" /\ jobs' = jobs /\ UNCHANGED <<cache, nand>>
    <2>1. JobsRight' /\ job' = job
        BY <1>2 DEF SInv, JobsRight, job
    <2> QED BY <1>2, <2>1, BackedSame, QuietSpares
<1> QED BY <1>1, <1>2 DEF ReadEnds, Extend, Flush, FlushAll, FlushFirst, WriteHeader, Synced, Serving, store

\* The pieces of a hole begin at its start, and there is room for all of them.
LEMMA HoleStarts ==
    ASSUME Typed, Contents, NEW f \in Files, NEW end \in 0 .. MaxSize, NEW H, H = HoleJobs(f, end)
    PROVE  /\ \A k \in DOMAIN H : H[k].kind = "zeros" /\ H[k].was <= H[k].off
           /\ 1 \in DOMAIN H => /\ Space(SmallHole + 1) /\ H[1].off = H[1].was /\ H[1].done = 0
                                /\ H[1].n >= 1 /\ H[1].step = "chunk"
<1> DEFINE hole == end - fileSize[f]
           Piece(k) == Job("zeros", f, fileSize[f] + (k - 1) * BytesPerChunk,
                           Smaller(BytesPerChunk, hole - (k - 1) * BytesPerChunk), 0)
           many == (hole + BytesPerChunk - 1) \div BytesPerChunk
<1>1. CASE H = <<>>
    <2>1. DOMAIN H = {}
        BY <1>1
    <2> QED BY <2>1
<1>2. CASE hole > 0 /\ Space(SmallHole + 1) /\ H = [k \in 1 .. many |-> Piece(k)]
    <2>1. fileSize[f] \in Nat /\ end \in Nat
        BY Amounts DEF Contents
    <2>2. PICK h \in Nat : h = hole /\ h >= 1 /\ h = end - fileSize[f]
        BY <1>2, <2>1
    <2>3. PICK q \in Nat : q = many
        <3>1. PICK a \in Nat : a = h + BytesPerChunk - 1
            BY Amounts
        <3>2. a \div BytesPerChunk \in Nat
            BY Amounts, Division
        <3> QED BY <2>2, <3>1, <3>2
    <2>4. ASSUME NEW k \in 1 .. q
          PROVE  Piece(k).kind = "zeros" /\ Piece(k).was <= Piece(k).off
        <3>1. PICK i \in Nat : i = k - 1
            BY <2>3
        <3>2. PICK x \in Nat : x = (k - 1) * BytesPerChunk
            BY <3>1, Times, Amounts
        <3>3. Piece(k) = Job("zeros", f, fileSize[f] + x, Smaller(BytesPerChunk, h - x), 0)
            BY <2>2, <3>2
        <3> HIDE DEF Piece
        <3> QED BY <2>1, <3>2, <3>3 DEF Job
    <2>5. /\ Piece(1).off = Piece(1).was /\ Piece(1).done = 0 /\ Piece(1).n >= 1
          /\ Piece(1).step = "chunk"
        <3>1. (1 - 1) * BytesPerChunk = 0
            BY Amounts
        <3>2. Piece(1) = Job("zeros", f, fileSize[f] + 0, Smaller(BytesPerChunk, h - 0), 0)
            BY <2>2, <3>1
        <3> HIDE DEF Piece
        <3> QED BY <2>1, <2>2, <3>2, Amounts DEF Job, Smaller
    <2> HIDE DEF Piece
    <2>6. H = [k \in 1 .. q |-> Piece(k)]
        BY <1>2, <2>3
    <2>7. DOMAIN H = 1 .. q /\ \A k \in 1 .. q : H[k] = Piece(k)
        BY <2>6
    <2> HIDE DEF hole, many
    <2> QED BY <1>2, <2>4, <2>5, <2>7
<1>3. H = <<>> \/ (hole > 0 /\ Space(SmallHole + 1) /\ H = [k \in 1 .. many |-> Piece(k)])
    BY DEF HoleJobs
<1> QED BY <1>1, <1>2, <1>3

\* A hole is filled by zeros that start where they have been let in.
LEMMA FillSpares ==
    ASSUME TInv, SInv, NEW f \in Files, NEW end \in 0 .. MaxSize, NEW j \in JobRecords,
           j.kind \in {"write", "extend"}, j.step = "chunk",
           jobs' = HoleJobs(f, end) \o <<j>>, flushing' = None, nFreeChunks' = nFreeChunks,
           \A g \in Files, c \in FileChunks : Backed(g, c)' => Backed(g, c)
    PROVE  SInv'
<1>1. Typed /\ Contents /\ nFreeChunks \in Nat
    BY TypesGive, ClaimsAre
<1>2. PICK H \in Seq(JobRecords) : H = HoleJobs(f, end)
    BY <1>1, HoleJobsTyped, Amounts
<1>3. /\ \A k \in DOMAIN H : H[k].kind = "zeros" /\ H[k].was <= H[k].off
      /\ 1 \in DOMAIN H => /\ Space(SmallHole + 1) /\ H[1].off = H[1].was /\ H[1].done = 0
                           /\ H[1].n >= 1 /\ H[1].step = "chunk"
    BY <1>1, <1>2, HoleStarts
<1>4. \A k \in DOMAIN H : H[k] \in RightJobs
    <2> TAKE k \in DOMAIN H
    <2>1. H[k] \in JobRecords
        BY <1>2
    <2> QED BY <1>3, <2>1 DEF RightJobs
<1>5. H \in Seq(RightJobs) /\ j \in RightJobs
    BY <1>2, <1>4 DEF RightJobs
<1>6. /\ jobs' \in Seq(RightJobs) /\ Len(jobs') = Len(H) + 1 /\ jobs'[Len(H) + 1] = j
      /\ \A k \in 1 .. Len(H) : jobs'[k] = H[k]
    BY <1>2, <1>5, Joined
<1>7. JobsRight'
    BY <1>6 DEF JobsRight
<1>8. job' = j \/ (1 \in DOMAIN H /\ job' = H[1])
    <2>1. Len(H) \in Nat /\ DOMAIN H = 1 .. Len(H)
        BY <1>2
    <2>2. CASE Len(H) = 0
        BY <1>6, <2>2, NextEnds
    <2>3. CASE Len(H) # 0
        <3>1. 1 \in 1 .. Len(H)
            BY <2>1, <2>3
        <3> QED BY <1>6, <2>1, <3>1, NextEnds
    <2> QED BY <2>2, <2>3
<1>9. Spared(1)'
    BY SparedKept DEF SInv
<1>10. job'.step = "chunk" /\ (job'.kind = "zeros" => Starts')
    <2>1. CASE job' = j
        BY <2>1
    <2>2. CASE 1 \in DOMAIN H /\ job' = H[1]
        <3>1. Space(1)'
            BY <1>1, <1>3, <2>2, CacheAssumption DEF Space
        <3> QED BY <1>3, <2>2, <3>1 DEF Starts
    <2> QED BY <1>8, <2>1, <2>2
<1> QED BY <1>7, <1>9, <1>10 DEF SInv, FlushedSpares, ZerosCover

\* A file is cut at the end of a chunk, or gets a hole.
LEMMA ResizeSpares == ASSUME TInv, SInv, Resize PROVE SInv'
<1>1. /\ Typed /\ Contents /\ JobsOk /\ StoreTyped /\ jobs # <<>> /\ job.kind = "resize" /\ flushing = None
      /\ job.file \in Files /\ JobOk(job, status) /\ JobsRight /\ job = jobs[1]
      /\ DOMAIN jobs = 1 .. Len(jobs) /\ Len(jobs) \in Nat /\ Len(jobs) >= 1
    BY TypesGive, HeadOk DEF Resize, Serving, SInv
<1>2. job.n \in 0 .. MaxSize /\ job.n % BytesPerChunk = 0
    <2>1. job \in RightJobs
        BY <1>1 DEF JobsRight
    <2> QED BY <1>1, <2>1, Amounts DEF RightJobs, JobOk
<1>3. PICK f \in Files, size \in 0 .. MaxSize : f = job.file /\ size = job.n
    BY <1>1, <1>2
<1>4. cache' = Without(Of(f)) /\ flushing' = None
    BY <1>1, <1>3 DEF Resize
<1>5. Tail(jobs) = <<>>
    <2>1. 1 = Len(jobs)
        BY <1>1 DEF JobsOk, Endings
    <2>2. PICK t \in Seq(JobRecords) : t = Tail(jobs)
        BY <1>1, HeadTyped
    <2>3. Len(t) = 0
        BY <1>1, <2>1, <2>2 DEF Typed
    <2> QED BY <2>2, <2>3, EmptySeq
<1>6. CASE size < fileSize[f]
    <2>1. ResizeDown(f, size) /\ jobs' = <<>>
        BY <1>3, <1>5, <1>6 DEF Resize
    <2>2. \A g \in Files, c \in FileChunks : nand'[g][c] # Hole => nand[g][c] # Hole
        BY <1>1, <1>2, <1>3, <2>1, CutClaims
    <2>3. \A g \in Files, c \in FileChunks : nand'[g][c] # Hole => Backed(g, c)
        BY <2>2 DEF Backed
    <2>4. \A g \in Files, c \in FileChunks : Backed(g, c)' => Backed(g, c)
        BY <1>4, <2>3, BackedWithout
    <2>5. JobsRight'
        BY <2>1 DEF JobsRight
    <2> QED BY <2>1, <2>4, <2>5, QuietSpares
<1>7. CASE ~(size < fileSize[f])
    <2>1. PICK j : j = Job("extend", f, 0, size, 0)
        OBVIOUS
    <2>2. j \in JobRecords /\ j.kind = "extend" /\ j.step = "chunk"
        <3>1. j \in JobRecords
            BY <1>1, <2>1, JobTyped, Amounts DEF Kinds
        <3> QED BY <2>1, <3>1 DEF Job
    <2>3. /\ nand' = nand /\ nFreeChunks' = nFreeChunks
          /\ jobs' = (HoleJobs(f, size) \o <<j>>) \o <<>>
        BY <1>3, <1>5, <1>7, <2>1 DEF Resize, store
    <2>4. jobs' = HoleJobs(f, size) \o <<j>>
        <3>1. PICK list : list = HoleJobs(f, size) \o <<j>>
            OBVIOUS
        <3>2. HoleJobs(f, size) \in Seq(JobRecords)
            BY <1>1, HoleJobsTyped, Amounts
        <3>3. list \in Seq(JobRecords)
            BY <2>2, <3>1, <3>2, Joined
        <3>4. list \o <<>> = list
            BY <3>3
        <3> QED BY <2>3, <3>1, <3>4
    <2>5. \A g \in Files, c \in FileChunks : nand'[g][c] # Hole => Backed(g, c)
        BY <2>3 DEF Backed
    <2>6. \A g \in Files, c \in FileChunks : Backed(g, c)' => Backed(g, c)
        BY <1>4, <2>5, BackedWithout
    <2> QED BY <1>4, <2>2, <2>3, <2>4, <2>6, FillSpares
<1> QED BY <1>6, <1>7

\* A chunk that is flushed was claimed when it was written in the cache.
LEMMA FlushChunkSpares == ASSUME TInv, SInv, CanWrite, FlushChunk PROVE SInv'
<1>1. /\ Contents /\ CacheTyped /\ StoreTyped /\ flushing \in Files /\ flushing # None
    BY TypesGive DEF FlushChunk, RestTyped
<1>2. PICK f \in Files : f = flushing /\ Dirty(f) # {}
    BY <1>1 DEF FlushChunk
<1>3. PICK e \in Entries : e = LowestDirty /\ e \in Dirty(f)
    BY <1>1, <1>2, LowestIs DEF Dirty, Of
<1>4. PICK c \in FileChunks : c = cache[e].chunk /\ cache[e].n >= 1
    BY <1>1, <1>3, CacheAssumption DEF CacheTyped, Filled, Dirty, Of
<1>5. PICK r : r = [bytes |-> cache[e].bytes, n |-> cache[e].n]
    OBVIOUS
<1>6. /\ cache' = Without({e}) /\ nand' = [nand EXCEPT ![f][c] = r]
      /\ UNCHANGED <<jobs, flushing>>
    BY <1>2, <1>3, <1>4, <1>5 DEF FlushChunk, Flushed, Write
<1>7. r # Hole
    BY <1>4, <1>5 DEF Hole
<1>8. Backed(f, c)
    BY <1>3, <1>4 DEF Backed
<1>9. /\ nand'[f][c] = r
      /\ \A g \in Files, d \in FileChunks : g # f \/ d # c => nand'[g][d] = nand[g][d]
    <2>1. nand \in [Files -> [FileChunks -> ChunkRecords]]
        BY <1>1 DEF StoreTyped
    <2> QED BY <1>6, <2>1
<1>10. \A g \in Files, d \in FileChunks : Backed(g, d)' => Backed(g, d)
    <2>1. \A g \in Files, d \in FileChunks : nand'[g][d] # Hole => Backed(g, d)
        BY <1>8, <1>9 DEF Backed
    <2> QED BY <1>6, <2>1, BackedWithout
<1>11. \A g \in Files, d \in FileChunks : Backed(g, d) => Backed(g, d)'
    <2> SUFFICES ASSUME NEW g \in Files, NEW d \in FileChunks, Backed(g, d) PROVE Backed(g, d)'
        OBVIOUS
    <2>1. CASE g = f /\ d = c
        BY <1>7, <1>9, <2>1 DEF Backed
    <2>2. CASE ~(g = f /\ d = c)
        <3>1. \A b \in Dirty(g) : cache[b].chunk = d => b # e
            BY <1>3, <1>4, <2>2 DEF Dirty, Of
        <3>2. \A b \in Dirty(g) : b # e => b \in Dirty(g)' /\ cache'[b] = cache[b]
            BY <1>6 DEF Dirty, Of, Without
        <3> QED BY <1>9, <2>2, <3>1, <3>2 DEF Backed
    <2> QED BY <2>1, <2>2
<1>12. \A g \in Files : \A d : Absent(g, d) => Absent(g, d)'
    BY <1>6, CacheAssumption DEF Absent, Without, Unused
<1> QED BY <1>1, <1>6, <1>10, <1>11, <1>12, SameJobsSpare

\* Requests that write nothing themselves.
QuietJobs == {j \in RightJobs : j.kind \notin {"write", "zeros"} /\ j.step = "chunk"}

\* A request that begins with such a job claims nothing.
LEMMA QuietRequestSpares ==
    ASSUME TInv, SInv, NEW list \in Seq(QuietJobs), NEW kind, Begin(kind, list)
    PROVE  SInv'
<1>1. jobs' = list /\ UNCHANGED <<cache, nand>>
    BY DEF Begin, store
<1>2. list \in Seq(RightJobs)
    BY DEF QuietJobs
<1>3. list # <<>> => Head(list) \in QuietJobs
    OBVIOUS
<1>4. JobsRight'
    BY <1>1, <1>2 DEF JobsRight
<1>5. job' = Head(list)
    BY <1>1 DEF job
<1>6. jobs' # <<>> => job'.kind # "zeros" /\ job'.kind # "write"
    BY <1>1, <1>3, <1>5 DEF QuietJobs
<1> QED BY <1>1, <1>4, <1>6, BackedSame, QuietSpares

\* The jobs of reads, resizes, flushes and headers are such jobs.
LEMMA QuietJobMade ==
    ASSUME Typed, NEW kind \in Kinds \ {"write", "zeros"}, NEW f \in Files, NEW off \in Int, NEW n \in Int,
           kind = "resize" => n % BytesPerChunk = 0
    PROVE  Job(kind, f, off, n, 0) \in QuietJobs
<1>1. Job(kind, f, off, n, 0) \in JobRecords
    BY JobTyped
<1> QED BY <1>1 DEF QuietJobs, RightJobs, Job

\* Every request leaves the reserve as spared as it was.
LEMMA RequestSpares == ASSUME ReserveCovers, TInv, SInv, NextRequest PROVE SInv'
<1>0. Typed /\ Contents /\ JobsOk /\ 0 \in Int
    BY TypesGive
<1>1. PICK f \in Files :
          \/ \E w \in Writes, v \in Values : BeginWrite(f, w, v)
          \/ \E r \in Reads : BeginRead(f, r)
          \/ \E size \in Sizes : BeginResize(f, size)
          \/ \E dataSync \in BOOLEAN : BeginFlush(f, dataSync)
          \/ BeginFlushAll(f)
          \/ BeginHeader(f)
          \/ Remove(f)
    BY DEF NextRequest
<1>2. CASE \E w \in Writes, v \in Values : BeginWrite(f, w, v)
    <2>1. PICK w \in Writes, v \in Values : BeginWrite(f, w, v)
        BY <1>2
    <2>2. PICK off \in 0 .. MaxSize, n \in Nat : off = w[1] /\ n = w[2]
        BY CacheAssumption, Amounts
    <2>3. PICK j : j = Job("write", f, off, n, v)
        OBVIOUS
    <2>4. j \in JobRecords /\ j.kind = "write" /\ j.step = "chunk"
        <3>1. v \in Int /\ off \in Int /\ n \in Int
            BY CacheAssumption, Amounts
        <3>2. j \in JobRecords
            BY <1>0, <2>3, <3>1, JobTyped DEF Kinds
        <3> QED BY <2>3, <3>2 DEF Job
    <2>5. /\ jobs' = HoleJobs(f, off) \o <<j>> /\ flushing' = None
          /\ UNCHANGED <<cache, nand, nFreeChunks>>
        BY <2>1, <2>2, <2>3 DEF BeginWrite, Begin, Idle, store
    <2> QED BY <2>4, <2>5, BackedSame, FillSpares
<1>3. CASE \E r \in Reads : BeginRead(f, r)
    <2>1. PICK r \in Reads : BeginRead(f, r)
        BY <1>3
    <2>2. PICK off \in Int, n \in Int : off = r[1] /\ n = r[2]
        BY CacheAssumption
    <2>3. PICK j \in QuietJobs : j = Job("read", f, off, n, 0)
        BY <1>0, QuietJobMade DEF Kinds
    <2>4. Begin("read", <<j>>) /\ <<j>> \in Seq(QuietJobs)
        BY <2>1, <2>2, <2>3 DEF BeginRead
    <2> QED BY <2>4, QuietRequestSpares
<1>4. CASE \E size \in Sizes : BeginResize(f, size)
    <2>1. PICK size \in Sizes : BeginResize(f, size)
        BY <1>4
    <2>2. size \in Int /\ size % BytesPerChunk = 0
        BY CacheAssumption DEF ReserveCovers
    <2>3. PICK i \in QuietJobs, j \in QuietJobs :
              i = Job("flush", f, 0, 0, 0) /\ j = Job("resize", f, 0, size, 0)
        BY <1>0, <2>2, QuietJobMade DEF Kinds
    <2>4. Begin("resize", <<i, j>>) /\ <<i, j>> \in Seq(QuietJobs)
        BY <2>1, <2>3 DEF BeginResize
    <2> QED BY <2>4, QuietRequestSpares
<1>5. CASE \E dataSync \in BOOLEAN : BeginFlush(f, dataSync)
    <2>1. PICK dataSync \in BOOLEAN : BeginFlush(f, dataSync)
        BY <1>5
    <2>2. PICK i \in QuietJobs, h \in QuietJobs, j \in QuietJobs :
              /\ i = Job("flush", f, 0, 0, 0) /\ h = Job("header", f, 0, 0, 0)
              /\ j = Job("synced", f, 0, 0, 0)
        BY <1>0, QuietJobMade DEF Kinds
    <2>3. PICK list : list = (IF ~changed[f] THEN <<>> ELSE <<i>> \o (IF dataSync THEN <<>> ELSE <<h>>))
                             \o <<j>>
        OBVIOUS
    <2>4. list \in Seq(QuietJobs)
        <3>1. PICK none, one, two, three : none = <<>> /\ one = <<i>> /\ two = <<h>> /\ three = <<j>>
            OBVIOUS
        <3>2. /\ none \in Seq(QuietJobs) /\ one \in Seq(QuietJobs)
              /\ two \in Seq(QuietJobs) /\ three \in Seq(QuietJobs)
            BY <3>1
        <3>3. one \o none \in Seq(QuietJobs) /\ one \o two \in Seq(QuietJobs)
            BY <3>2
        <3>4. PICK G \in Seq(QuietJobs) :
                  G = IF ~changed[f] THEN none ELSE one \o (IF dataSync THEN none ELSE two)
            BY <3>2, <3>3
        <3>5. list = G \o three
            BY <2>3, <3>1, <3>4
        <3> QED BY <3>2, <3>5
    <2>5. Begin("flush", list)
        BY <2>1, <2>2, <2>3 DEF BeginFlush
    <2> QED BY <2>4, <2>5, QuietRequestSpares
<1>6. CASE BeginFlushAll(f)
    <2>1. PICK i \in QuietJobs, j \in QuietJobs :
              i = Job("flushall", f, 0, 0, 0) /\ j = Job("synced", f, 0, 0, 0)
        BY <1>0, QuietJobMade DEF Kinds
    <2>2. Begin("sync", <<i, j>>) /\ <<i, j>> \in Seq(QuietJobs)
        BY <1>6, <2>1 DEF BeginFlushAll
    <2> QED BY <2>2, QuietRequestSpares
<1>7. CASE BeginHeader(f)
    <2>1. PICK j \in QuietJobs : j = Job("header", f, 0, 0, 0)
        BY <1>0, QuietJobMade DEF Kinds
    <2>2. Begin("header", <<j>>) /\ <<j>> \in Seq(QuietJobs)
        BY <1>7, <2>1 DEF BeginHeader
    <2> QED BY <2>2, QuietRequestSpares
<1>8. CASE Remove(f)
    <2>1. /\ cache' = Without(Of(f)) /\ nand' = [nand EXCEPT ![f] = [c \in FileChunks |-> Hole]]
          /\ jobs' = <<>>
        BY <1>8 DEF Remove, Idle
    <2>2. \A g \in Files, c \in FileChunks : nand'[g][c] # Hole => Backed(g, c)
        <3>1. nand \in [Files -> [FileChunks -> ChunkRecords]]
            BY TypesGive DEF StoreTyped
        <3> QED BY <2>1, <3>1 DEF Backed
    <2>3. \A g \in Files, c \in FileChunks : Backed(g, c)' => Backed(g, c)
        BY <2>1, <2>2, BackedWithout
    <2>4. JobsRight'
        BY <2>1 DEF JobsRight
    <2> QED BY <2>1, <2>3, <2>4, QuietSpares
<1> QED BY <1>1, <1>2, <1>3, <1>4, <1>5, <1>6, <1>7, <1>8

\* At first nothing is claimed.
LEMMA InitSpares == ASSUME ReserveCovers, Init PROVE SInv
<1>1. Claimed = {}
    <2>1. \A f \in Files : Dirty(f) = {}
        BY CacheAssumption DEF Init, Dirty, Of, Unused
    <2> QED BY <2>1 DEF Init, Claimed, Backed
<1>2. Claims = 0
    BY <1>1, FS_EmptySet DEF Claims
<1>3. Spared(1)
    BY <1>2, CacheAssumption DEF ReserveCovers, Spared
<1>4. jobs = <<>>
    BY DEF Init
<1>5. JobsRight
    BY <1>4 DEF JobsRight
<1> QED BY <1>3, <1>4, <1>5 DEF SInv, FlushedSpares, ZerosCover

\* Every step leaves in reserve what the flush of the cache takes.
LEMMA SparedStep == ASSUME ReserveCovers, FInv, TInv, SInv, TInv', [Next]_vars PROVE SInv'
<1>1. CanWrite /\ Typed' /\ StoreTyped' /\ Typed
    <2>1. CanWrite /\ Typed
        BY ReserveGives, TypesGive DEF SInv
    <2>2. IInv' /\ StoreTyped'
        BY DEF TInv
    <2> QED BY <2>1, <2>2 DEF IInv
<1>2. CASE UNCHANGED <<cache, nand, nFreeChunks, jobs, flushing>> \/ FlushEnds
    <2>1. UNCHANGED <<cache, nand, nFreeChunks, jobs>> /\ (flushing' = flushing \/ flushing' = None)
        BY <1>2 DEF FlushEnds, store
    <2>2. \A f \in Files : \A c : Absent(f, c) => Absent(f, c)'
        BY <2>1 DEF Absent
    <2> QED BY <2>1, <2>2, BackedSame, SameJobsSpare
<1>3. CASE NextRequest
    BY <1>3, RequestSpares
<1>4. CASE NextJob
    <2>1. CASE WriteCached
        BY <1>1, <2>1, WriteCachedSpares
    <2>2. CASE WriteUncached
        BY <1>1, <2>2, WriteUncachedSpares
    <2>3. CASE WriteWhole
        BY <1>1, <2>3, WriteWholeSpares
    <2>4. CASE WriteEnds
        BY <1>1, <2>4, WriteEndsSpares
    <2>5. CASE ReadCached \/ ReadUncached \/ ReadWhole
        BY <1>1, <2>5, ReadsSpare
    <2>6. CASE ReadEnds \/ Extend \/ Flush \/ FlushAll \/ WriteHeader \/ Synced
        BY <2>6, DoneJobsSpare
    <2>7. CASE Resize
        BY <2>7, ResizeSpares
    <2>8. CASE FlushChunk
        BY <1>1, <2>8, FlushChunkSpares
    <2> QED BY <1>2, <1>4, <2>1, <2>2, <2>3, <2>4, <2>5, <2>6, <2>7, <2>8 DEF NextJob
<1> QED BY <1>2, <1>3, <1>4 DEF Next, vars, store

\* So the invariants of the files, of the types and of the reserve hold together.
THEOREM ReserveInvariant == ASSUME ReserveCovers PROVE Spec => []RInv
<1>1. Init => RInv
    BY InitInvariant, NoBytesYet, InitTyped, InitSpares DEF RInv, FInv
<1>2. RInv /\ [Next]_vars => RInv'
    <2> SUFFICES ASSUME RInv, [Next]_vars PROVE RInv'
        OBVIOUS
    <2>1. FInv /\ TInv /\ SInv /\ CanWrite
        BY ReserveGives DEF RInv, SInv
    <2>2. FInv'
        BY <2>1, FilesStep
    <2>3. TInv'
        BY <2>1, TypesStep
    <2>4. SInv'
        BY <2>1, <2>3, SparedStep
    <2> QED BY <2>2, <2>3, <2>4 DEF RInv
<1> QED BY <1>1, <1>2, PTL DEF Spec

\* Only a flush that finds no chunk loses anything (yaffs_FlushFilesChunkCache).
LEMMA FailedStays == ASSUME CanWrite, [Next]_vars PROVE UNCHANGED failed
BY DEF Next, NextRequest, NextJob, vars, FlushChunk, FlushEnds, FlushFirst, WriteCached,
    WriteUncached, WriteWhole, WriteEnds, ReadCached, ReadUncached, ReadWhole, ReadEnds, Resize,
    Extend, Flush, FlushAll, WriteHeader, Synced, Modify, Refuse, Return, Begin, BeginWrite,
    BeginRead, BeginResize, BeginFlush, BeginFlushAll, BeginHeader, Remove

\* A reserve of a chunk for every entry of the cache is enough: whatever is written, cut
\* at a chunk or removed, however full the device, a chunk that was accepted into the
\* cache finds one to be flushed to (yaffs_CheckSpaceForAllocation is asked before an
\* entry becomes dirty, yaffs_FlushFilesChunkCache writes with the reserve).
THEOREM ReserveKeepsCached == ASSUME ReserveCovers PROVE Spec => []CachedIsKept
<1>1. Init => CachedIsKept
    BY DEF Init, CachedIsKept
<1>2. RInv /\ CachedIsKept /\ [Next]_vars => CachedIsKept'
    <2> SUFFICES ASSUME RInv, CachedIsKept, [Next]_vars PROVE CachedIsKept'
        OBVIOUS
    <2>1. CanWrite
        BY ReserveGives DEF RInv, SInv
    <2>2. UNCHANGED failed
        BY <2>1, FailedStays
    <2> QED BY <2>2 DEF CachedIsKept
<1> QED BY <1>1, <1>2, ReserveInvariant, PTL DEF Spec

\* And then the cache implements plain files, with no assumption on the free chunks.
THEOREM ReserveCoversFiles == ASSUME ReserveCovers PROVE Spec => ImplementsFiles
<1>1. RInv => CanWrite
    BY ReserveGives DEF RInv, SInv
<1> QED BY <1>1, ReserveInvariant, CacheImplementsFiles, PTL

\* Nothing lies behind the end of a file, and no byte behind the count of its chunk, then
\* (yaffs_ResizeDown, yaffs2_HandleHole, nBytes in yaffs_DoWriteDataToFile).
THEOREM ReserveKeepsEnds == ASSUME ReserveCovers PROVE Spec => [](NothingBehindTheEnd /\ CountCovers)
<1>1. RInv => CanWrite
    BY ReserveGives DEF RInv, SInv
<1> QED BY <1>1, ReserveInvariant, EndIsTheEnd, WrittenIsCounted, PTL
=============================================================================
