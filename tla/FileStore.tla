----------------------------- MODULE FileStore -----------------------------
(***************************************************************************)
(* What yaffs_guts.c promises of a file system that may lose power at any  *)
(* moment: the names and the contents that the next mount would find.      *)
(* Each changes only in the service of a request, and by steps that are    *)
(* whole: a name appears, disappears or moves at once, even onto another   *)
(* name; a write changes nothing but the bytes it was asked to change; a   *)
(* truncation nothing but the bytes it was asked to cut off.  Of a file    *)
(* whose unlinking is interrupted nothing is promised but its name.        *)
(***************************************************************************)
EXTENDS Integers, Sequences

CONSTANTS Ids, Names, None

VARIABLES
    op,     \* the request in service
    dir,    \* the file each name means, or None
    data,   \* the bytes of each file that has a name
    torn    \* the files whose size is in doubt: a write or truncation of them
            \* was interrupted, or found no space

vars == <<op, dir, data, torn>>
NoOp == [kind |-> "none"]

Init == /\ op = NoOp /\ dir = [n \in Names |-> None]
        /\ data = [i \in Ids |-> <<>>]
        /\ torn = {}

Begin == op = NoOp /\ op'.kind # "none" /\ UNCHANGED <<dir, data, torn>>

\* A request ends, or a power failure ends it.
End == /\ op # NoOp /\ op' = NoOp /\ UNCHANGED <<dir, data>>
       /\ \A i \in torn' \ torn :
             i = IF op.kind = "unlink" THEN dir[op.name] ELSE op.id
       /\ torn' \subseteq torn \/ op.kind \in {"write", "truncate", "unlink"}
       /\ torn \subseteq torn'

NamesOf(i) == {n \in Names : dir[n] = i}
\* The bytes of files whose last name is gone are of no interest.
OnlyNamed(d, f) ==
    [i \in Ids |-> IF \E n \in Names : d[n] = i THEN f[i] ELSE <<>>]

Byte(f, j) == IF j \in DOMAIN f THEN f[j] ELSE 0

\* The names become d.  How many zeros a file in doubt ends with is open.
SetDir(d) ==
    /\ dir' = d /\ torn' \subseteq torn /\ UNCHANGED op
    /\ \A i \in Ids :
          LET old == OnlyNamed(d, data)[i]
              new == data'[i]
          IN IF i \in torn
             THEN \A j \in DOMAIN old \cup DOMAIN new : Byte(old, j) = Byte(new, j)
             ELSE new = old

Settle == SetDir(dir)

Create ==
    /\ op.kind = "create" /\ dir[op.name] = None /\ NamesOf(op.id) = {}
    /\ SetDir([dir EXCEPT ![op.name] = op.id])

Link ==
    /\ op.kind = "link" /\ dir[op.name] = None /\ NamesOf(op.id) # {}
    /\ SetDir([dir EXCEPT ![op.name] = op.id])

Unlink ==
    /\ op.kind = "unlink" /\ dir[op.name] # None
    /\ SetDir([dir EXCEPT ![op.name] = None])

Rename ==
    /\ op.kind = "rename" /\ dir[op.from] # None
    /\ SetDir([dir EXCEPT ![op.to] = dir[op.from], ![op.from] = None])

Change(i, f) == /\ data' = [data EXCEPT ![i] = f]
                /\ torn' \subseteq torn \cup {i}
                /\ UNCHANGED <<op, dir>>

\* A write, or a part of it: bytes in its range are old or new, the others are
\* as they were, and a gap before it reads as zeros.  Zeros that did not all
\* fit may be taken back, down to the size there was (op.was).
Write ==
    /\ op.kind = "write"
    /\ \E i \in {op.id} :
       LET old == data[i]
           new == data'[i]
       IN /\ NamesOf(i) = {} => new = old
          /\ Change(i, new)
          /\ Len(new) < Len(old) => Len(new) >= op.was
          /\ Len(new) > Len(old) => Len(new) <= op.end
          /\ \A j \in 1 .. Len(new) :
                \/ new[j] = Byte(old, j)
                \/ j > op.off /\ j <= op.end /\ new[j] = op.v

\* A truncation, or a part of it: what is below the new size stays.  What is
\* above may be gone, or be what it was before it was last overwritten.  Until
\* the end the file may be too short, but only by zeros, or as long as it was.
CutTo(i, size, was) ==
    LET old == data[i]
        new == data'[i]
    IN /\ NamesOf(i) = {} => new = old
       /\ Change(i, new)
       /\ \A j \in 1 .. size : Byte(new, j) = Byte(old, j)
       /\ Len(new) > Len(old) => Len(new) <= was \/ Len(new) <= size

Truncate == op.kind = "truncate" /\ CutTo(op.id, op.size, op.was)

\* What is to be unlinked is emptied while it has its name.
Empty == op.kind = "unlink" /\ dir[op.name] # None /\ CutTo(dir[op.name], 0, op.was)

Next == Begin \/ End \/ Settle \/ Create \/ Link \/ Unlink \/ Rename \/ Write \/ Truncate
        \/ Empty

Spec == Init /\ [][Next]_vars
=============================================================================
