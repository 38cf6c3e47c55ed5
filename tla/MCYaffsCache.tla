---------------------------- MODULE MCYaffsCache ----------------------------
(***************************************************************************)
(* Two small files and a cache of two entries for TLC.                     *)
(***************************************************************************)
EXTENDS YaffsCache, TLC

SomeWrites == {<<0, 1>>, <<1, 5>>, <<3, 1>>}
SomeReads == {<<3, 1>>, <<1, 3>>}
Symmetry == Permutations(Files)
=============================================================================
