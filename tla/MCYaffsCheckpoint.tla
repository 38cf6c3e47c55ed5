------------------------- MODULE MCYaffsCheckpoint -------------------------
(***************************************************************************)
(* Small devices for TLC.                                                  *)
(***************************************************************************)
EXTENDS YaffsCheckpoint, TLC

Symmetry == Permutations(Keys)
=============================================================================
