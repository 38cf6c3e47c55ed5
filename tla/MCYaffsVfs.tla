----------------------------- MODULE MCYaffsVfs -----------------------------
(***************************************************************************)
(* Small instances for TLC.                                                *)
(***************************************************************************)
EXTENDS YaffsVfs

CONSTANTS A, B, m, n

Entry(i, d, x, target) == [id |-> i, dir |-> d, name |-> x, target |-> target]

\* Two files in one directory, and a file with a hard link in another.
SomeContents == {{Entry(1, A, m, NoId), Entry(2, A, n, NoId)},
                 {Entry(1, A, m, NoId), Entry(2, B, n, 1)}}
=============================================================================
