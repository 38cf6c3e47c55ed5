------------------------------ MODULE MCYaffs1 ------------------------------
(***************************************************************************)
(* Small instances for TLC.                                                *)
(***************************************************************************)
EXTENDS Yaffs1

\* A header and two chunks of one file, and three chunks of one.
FileKeys == {<<257, 0>>, <<257, 1>>, <<257, 2>>}
DataKeys == {<<257, 1>>, <<257, 2>>, <<257, 3>>}
=============================================================================
