-------------------------- MODULE MC_ActivityList --------------------------
(***************************************************************************)
(* ActivityList for TLC, scaled down: ints of 5 bits, a window of a few    *)
(* rows, two instants to the millisecond, and a page number that makes the *)
(* offset wrap.                                                            *)
(***************************************************************************)
EXTENDS ActivityList, TLC

Symmetry == Permutations(Docs) \cup Permutations(Traces)

WalkNums == {-1, 3, 9}
WalkSizes == {2, 3}
AnySizes == {2}
AnyNums == -15..15
=============================================================================
