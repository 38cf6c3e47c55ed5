--------------------------- MODULE BufferedFiles ---------------------------
(***************************************************************************)
(* What files behind a write-back cache promise, one request at a time.    *)
(*                                                                         *)
(* A reader sees one array of bytes per file; part of it may not be saved  *)
(* yet.  A byte that is seen changes only when the write in progress gets  *)
(* to it, which gives it the value written; when the resize in progress    *)
(* cuts it off; when its file is removed; or when that write is refused:   *)
(* what was not saved of the chunk it is at may then be lost.  Saving, at  *)
(* any time and in any order, changes nothing that is seen.  A read        *)
(* returns the bytes asked for, in order, and a request that says that it  *)
(* saved its file did.                                                     *)
(***************************************************************************)
EXTENDS Integers, Sequences

CONSTANTS Files, BytesPerChunk, MaxSize, Values

Cells == 1 .. MaxSize
ChunkOf(j) == (j - 1) \div BytesPerChunk + 1
Chunks == {ChunkOf(j) : j \in Cells}
Blank == [j \in Cells |-> 0]
Larger(a, b) == IF a > b THEN a ELSE b

VARIABLES
    seen,       \* the bytes a reader sees
    saved,      \* the bytes that are on the device
    len,        \* the size of each file
    request,    \* what is asked for, and how much of it has been done
    status,     \* what the last request said
    got         \* the bytes the last read returned
vars == <<seen, saved, len, request, status, got>>

\* The bytes from off to end of a file, done up to at: to be read or given the
\* value v.  A resize asks for the size off.  was is the size before the request.
Askings == [kind : {"write", "read", "resize", "synced", "header"}, file : Files,
             off : 0 .. MaxSize, at : 0 .. MaxSize, end : 0 .. MaxSize,
             v : Values \cup {0}, was : 0 .. MaxSize]
NoRequest == [kind |-> "none"]
Asks(kind, f) == request.kind = kind /\ request.file = f
Untouched == request.at = request.off

TypeOK ==
    /\ seen \in [Files -> [Cells -> Values \cup {0}]]
    /\ saved \in [Files -> [Cells -> Values \cup {0}]]
    /\ len \in [Files -> 0 .. MaxSize]
    /\ request \in Askings \cup {NoRequest}
    /\ status \in {"ok", "short", "synced"}
    /\ got \in Seq(Values \cup {0})

Init ==
    /\ seen = [f \in Files |-> Blank] /\ saved = seen
    /\ len = [f \in Files |-> 0]
    /\ request = NoRequest
    /\ status = "ok" /\ got = <<>>

OnChunk(old, c, new) == [j \in Cells |-> IF ChunkOf(j) = c THEN new[j] ELSE old[j]]

\* How far the request gets in the chunk it is at, and that chunk.
Current == ChunkOf(request.at + 1)
Reached == IF request.end < Current * BytesPerChunk THEN request.end
           ELSE Current * BytesPerChunk
InService == request.at < request.end

Finish == request' = NoRequest

\* A request begins.
Start ==
    /\ request = NoRequest
    /\ request' \in Askings /\ request'.at = request'.off /\ request'.at <= request'.end
    /\ request'.was = len[request'.file]
    /\ status' = "ok" /\ got' = <<>>
    /\ UNCHANGED <<seen, saved, len>>

\* The write gets through a chunk, which may be saved at once.
Put(f) ==
    /\ Asks("write", f) /\ InService
    /\ seen' = [seen EXCEPT ![f] =
                   [j \in Cells |-> IF request.at < j /\ j <= Reached THEN request.v ELSE @[j]]]
    /\ \/ UNCHANGED saved
       \/ saved' = [saved EXCEPT ![f] = OnChunk(@, Current, seen'[f])]
    /\ request' = [request EXCEPT !.at = Reached]
    /\ UNCHANGED <<len, status, got>>

Save(f, c) ==
    /\ saved' = [saved EXCEPT ![f] = OnChunk(@, c, seen[f])]
    /\ UNCHANGED <<seen, len, request, status, got>>

\* The rest of the write is refused; what was not saved of its chunk may be lost.
Refuse(f) ==
    /\ Asks("write", f) /\ InService
    /\ status' = "short"
    /\ seen' \in {seen, [seen EXCEPT ![f] = OnChunk(@, Current, saved[f])]}
    /\ request' = [request EXCEPT !.end = request.at]
    /\ UNCHANGED <<saved, len, got>>

\* A hole before what is written, or up to the new size, is filled with zeros.
Fills(f) == (Asks("write", f) \/ Asks("resize", f)) /\ Untouched /\ request.was < request.at

Grow(f) ==
    /\ Fills(f)
    /\ len' \in {[len EXCEPT ![f] = n] : n \in len[f] .. request.at}
    /\ UNCHANGED <<seen, saved, request, status, got>>

\* Zeros that cannot all be written are taken back.
RefuseZeros(f) ==
    /\ Fills(f)
    /\ status' = "short"
    /\ UNCHANGED <<seen, saved, len, request, got>>

TakeBack(f) ==
    /\ Fills(f) /\ status = "short" /\ request.was <= len[f]
    /\ \A j \in Cells : j > request.was => seen[f][j] = 0 /\ saved[f][j] = 0
    /\ len' = [len EXCEPT ![f] = request.was]
    /\ UNCHANGED <<seen, saved, request, status, got>>

\* A write ends, or a resize that cuts nothing off.
End(f) ==
    /\ Asks("write", f) \/ Asks("resize", f)
    /\ ~InService /\ Finish
    /\ len' = [len EXCEPT ![f] = Larger(@, request.at)]
    /\ UNCHANGED <<seen, saved, status, got>>

Cut(f) ==
    /\ Asks("resize", f) /\ request.at < len[f] /\ Finish
    /\ seen' = [seen EXCEPT ![f] = [j \in Cells |-> IF j <= request.at THEN @[j] ELSE 0]]
    /\ saved' = [saved EXCEPT ![f] = seen'[f]]
    /\ len' = [len EXCEPT ![f] = request.at]
    /\ UNCHANGED <<status, got>>

\* The read gets through a chunk.
Get(f) ==
    /\ Asks("read", f) /\ InService
    /\ got' = got \o [k \in 1 .. Reached - request.at |-> seen[f][request.at + k]]
    /\ request' = [request EXCEPT !.at = Reached]
    /\ UNCHANGED <<seen, saved, len, status>>

Done(f) ==
    /\ Asks("read", f) \/ Asks("header", f)
    /\ ~InService /\ Finish
    /\ UNCHANGED <<seen, saved, len, status, got>>

Synced(f) ==
    /\ Asks("synced", f) /\ Finish
    /\ saved[f] = seen[f]
    /\ status' = "synced"
    /\ UNCHANGED <<seen, saved, len, got>>

Remove(f) ==
    /\ request = NoRequest
    /\ seen' = [seen EXCEPT ![f] = Blank] /\ saved' = [saved EXCEPT ![f] = Blank]
    /\ len' = [len EXCEPT ![f] = 0]
    /\ status' = "ok" /\ got' = <<>>
    /\ UNCHANGED request

Next ==
    \/ Start
    \/ \E f \in Files :
           \/ \E c \in Chunks : Save(f, c)
           \/ Put(f) \/ Refuse(f) \/ Grow(f) \/ RefuseZeros(f) \/ TakeBack(f) \/ End(f)
           \/ Cut(f) \/ Get(f) \/ Done(f) \/ Synced(f) \/ Remove(f)

Spec == Init /\ [][Next]_vars
=============================================================================
