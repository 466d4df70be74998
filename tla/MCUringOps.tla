----------------------------- MODULE MCUringOps -----------------------------
(* A small instance of UringOps: two blocks, four awaits.                   *)
EXTENDS UringOps, TLC

CONSTANTS b1, b2, o1, o2, o3, o4

MCFrames == {b1, b2}
MCFds    == {5, 6}
MCOps    == {o1, o2, o3, o4}
Symmetry == Permutations(MCFrames) \cup Permutations(MCOps)
=============================================================================
