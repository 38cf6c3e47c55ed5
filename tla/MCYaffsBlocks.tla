--------------------------- MODULE MCYaffsBlocks ---------------------------
(* The instances of YaffsBlocks that TLC checks: see the .cfg files. *)
EXTENDS YaffsBlocks

\* What the scan finds at mount, in blocks of two pages.
FourOldBlocks == <<{0, 1}, {0, 1}, {0}, {0, 1}>>
FiveOldBlocks == <<{0, 1}, {0}, {0, 1}, {1}, {0}>>
ThreeOldBlocks == <<{0, 1}, {0}, {0, 1}>>
SixLivePages == <<{0, 1}, {0}, {1}, {0}, {1}>>
TwoFullBlocks == <<{0, 1}, {0, 1}>>
=============================================================================
