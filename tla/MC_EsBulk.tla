----------------------------- MODULE MC_EsBulk ------------------------------
(* EsBulk for TLC: the documents are model values.                           *)
EXTENDS EsBulk, TLC
=============================================================================
