-------------------------- MODULE MC_GracefulExit --------------------------
(* GracefulExit for TLC: the requests are model values.                      *)
EXTENDS GracefulExit, TLC
=============================================================================
