---------------------------- MODULE MC_SliceDiff ----------------------------
(***************************************************************************)
(* SliceDiff for TLC: the values of the elements may be permuted.          *)
(***************************************************************************)
EXTENDS SliceDiff, TLC

Symmetry == Permutations(Elems)
=============================================================================
