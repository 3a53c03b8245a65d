--------------------------- MODULE MCSegmentList ---------------------------
(***************************************************************************)
(* SegmentList with cells that have no order: one is as good as another.   *)
(***************************************************************************)
EXTENDS SegmentList, TLC

Symmetry == Permutations(Cell)
=============================================================================
