--------------------------- MODULE MC_EnsureIndex ---------------------------
(* EnsureIndex for TLC: an old version of the service and a new one, which   *)
(* registers one more attr key.                                              *)
EXTENDS EnsureIndex, TLC

CONSTANTS old, new, k1, k2

MCInstances == {old, new}
MCKeys == {k1, k2}
MCKeysOf == old :> {k1} @@ new :> {k1, k2}
=============================================================================
