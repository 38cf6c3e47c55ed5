----------------------------- MODULE MCYaffsLog -----------------------------
(***************************************************************************)
(* Small file systems for TLC.                                             *)
(***************************************************************************)
EXTENDS YaffsLog, TLC

Across == {<<1, 2>>}
Symmetry == Permutations(Names) \cup Permutations(Ids)
=============================================================================
