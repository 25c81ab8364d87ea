----------------------------- MODULE MC_ZenPage -----------------------------
(***************************************************************************)
(* ZenPage for TLC, scaled down: ints of 5 bits, and limits of every kind: *)
(* sane ones, one without a default, one whose default page is larger than *)
(* its largest, and one whose last page wraps.                             *)
(***************************************************************************)
EXTENDS ZenPage, TLC

L(def, size, num) == [DefaultPageSize |-> def, MaxPageSize |-> size, MaxPageNum |-> num]

MCLimits == {L(2, 3, 5), L(1, 2, 3), L(3, 3, 4), L(0, 3, 5), L(3, 2, 3), L(2, 3, 15)}
MCNums == {-1, 0, 1, 2, 3, 4, 5, 6, 15}
MCSizes == -1..4
=============================================================================
