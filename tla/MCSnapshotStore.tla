--------------------------- MODULE MCSnapshotStore --------------------------
(***************************************************************************)
(* SnapshotStore on a small instance: one model tensor, two block          *)
(* contents, windows of 1 and 2 versions and the unlimited window, so that *)
(* eviction, growing and shrinking of the window all happen.               *)
(***************************************************************************)
EXTENDS SnapshotStore

CONSTANTS zero, data, w1

MCVals    == {zero, data}
MCWeights == {w1}
MCWindows == {0, 1, 2}
=============================================================================
