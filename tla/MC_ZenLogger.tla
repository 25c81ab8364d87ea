---------------------------- MODULE MC_ZenLogger ----------------------------
(***************************************************************************)
(* ZenLogger for TLC: callers and closers are model values, and            *)
(* interchangeable in the runs that check safety only.                     *)
(***************************************************************************)
EXTENDS ZenLogger, TLC

Symmetry == Permutations(Callers) \cup Permutations(Closers)
=============================================================================
