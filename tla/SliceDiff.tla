------------------------------ MODULE SliceDiff ------------------------------
(***************************************************************************)
(* How zenalog compares two slices (diff.go, diffSlice): an edit-distance  *)
(* table, filled cell by cell; a walk from its last cell back to the first *)
(* one that collects the operations; the changes, written in the order of  *)
(* the slices.  Slices longer than MaxLevenshteinLen are compared position *)
(* by position instead.                                                    *)
(*                                                                         *)
(* The elements are leaves (canonical tells them apart, the recursive diff *)
(* of a pair reports one change iff they differ); slices are numbered from *)
(* 0 in the code and in the field of a change, from 1 here.                *)
(***************************************************************************)
EXTENDS Integers, Sequences, FiniteSets

CONSTANTS
    Elems,              \* the values of the elements
    NoElem,             \* nilText, in the From of an added element or the To of a deleted one
    MaxLevenshteinLen,
    MaxLen              \* bound: length of a slice

ASSUME LenAssumption == MaxLevenshteinLen \in Nat /\ MaxLen \in Nat
ASSUME ElemAssumption == NoElem \notin Elems

VARIABLES
    before, after,      \* the slices: bc and ac
    stage,              \* "fill", "walk", "emit", "position", "done"
    i, j,               \* loop variables of the fill and of the walk
    dp,                 \* the table
    ops,                \* what the walk collected, last position first
    out                 \* the changes

vars == <<before, after, stage, i, j, dp, ops, out>>

n == Len(before)
m == Len(after)

Slices == UNION {[1..k -> Elems] : k \in 0..MaxLen}

Op == [kind : {"pair", "delete", "insert"}, bi : 0..MaxLen, ai : 0..MaxLen]
Change == [field : 1..MaxLen, from : Elems \cup {NoElem}, to : Elems \cup {NoElem}]

TypeOK ==
    /\ before \in Slices /\ after \in Slices
    /\ stage \in {"fill", "walk", "emit", "position", "done"}
    /\ i \in 0..(MaxLen + 1) /\ j \in 0..(MaxLen + 1)
    /\ dp \in [0..n -> [0..m -> 0..(n + m)]]
    /\ ops \in Seq(Op)
    /\ out \in Seq(Change)
-----------------------------------------------------------------------------
Smaller(a, b) == IF a < b THEN a ELSE b

\* Altered: a replacement costs nothing.
CellReplaceFree(r, c) ==
    Smaller(dp[r - 1][c - 1], Smaller(dp[r - 1][c] + 1, dp[r][c - 1] + 1))

\* The value the fill stores in a cell.
Cell(r, c) ==
    Smaller(dp[r - 1][c - 1] + (IF before[r] = after[c] THEN 0 ELSE 1),
            Smaller(dp[r - 1][c] + 1, dp[r][c - 1] + 1))

\* The change at an index, and what d.diff reports of two elements paired there.
At(k, b, a) == <<[field |-> k, from |-> b, to |-> a]>>
PairAt(k, b, a) == IF b = a THEN <<>> ELSE At(k, b, a)

TooLong == n > MaxLevenshteinLen \/ m > MaxLevenshteinLen

\* The table starts as zeros with its first row and column filled in.
Init ==
    /\ before \in Slices /\ after \in Slices
    /\ stage = IF TooLong THEN "position" ELSE "fill"
    /\ i = 1 /\ j = 1
    /\ dp = [r \in 0..n |-> [c \in 0..m |-> IF r = 0 THEN c ELSE IF c = 0 THEN r ELSE 0]]
    /\ ops = <<>> /\ out = <<>>

FillCell ==
    /\ stage = "fill" /\ i <= n /\ j <= m
    /\ dp' = [dp EXCEPT ![i][j] = Cell(i, j)]
    /\ j' = j + 1
    /\ UNCHANGED <<before, after, stage, i, ops, out>>

FillNextRow ==
    /\ stage = "fill" /\ i <= n /\ j > m
    /\ i' = i + 1 /\ j' = 1
    /\ UNCHANGED <<before, after, stage, dp, ops, out>>

FillDone ==
    /\ stage = "fill" /\ i > n
    /\ stage' = "walk"
    /\ i' = n /\ j' = m
    /\ UNCHANGED <<before, after, dp, ops, out>>

\* Altered: elements are taken for equal when the table charges nothing.
KeepsByCost == i > 0 /\ j > 0 /\ dp[i][j] = dp[i - 1][j - 1]

\* The cases of the walk, in the order of the switch.
Keeps == i > 0 /\ j > 0 /\ before[i] = after[j] /\ dp[i][j] = dp[i - 1][j - 1]
Replaces == ~Keeps /\ i > 0 /\ j > 0 /\ dp[i][j] = dp[i - 1][j - 1] + 1

\* Altered: the table is not consulted before an element is deleted.
DeletesUnchecked == ~Keeps /\ ~Replaces /\ i > 0

Deletes == ~Keeps /\ ~Replaces /\ i > 0 /\ dp[i][j] = dp[i - 1][j] + 1

WalkKeep ==
    /\ stage = "walk" /\ Keeps
    /\ i' = i - 1 /\ j' = j - 1
    /\ UNCHANGED <<before, after, stage, dp, ops, out>>

WalkReplace ==
    /\ stage = "walk" /\ Replaces
    /\ ops' = Append(ops, [kind |-> "pair", bi |-> i, ai |-> j])
    /\ i' = i - 1 /\ j' = j - 1
    /\ UNCHANGED <<before, after, stage, dp, out>>

WalkDelete ==
    /\ stage = "walk" /\ Deletes
    /\ ops' = Append(ops, [kind |-> "delete", bi |-> i, ai |-> 0])
    /\ i' = i - 1
    /\ UNCHANGED <<before, after, stage, j, dp, out>>

\* The default case tests nothing.
WalkInsert ==
    /\ stage = "walk" /\ (i > 0 \/ j > 0) /\ ~Keeps /\ ~Replaces /\ ~Deletes
    /\ ops' = Append(ops, [kind |-> "insert", bi |-> 0, ai |-> j])
    /\ j' = j - 1
    /\ UNCHANGED <<before, after, stage, i, dp, out>>

WalkDone ==
    /\ stage = "walk" /\ i = 0 /\ j = 0
    /\ stage' = "emit"
    /\ i' = Len(ops)
    /\ UNCHANGED <<before, after, j, dp, ops, out>>

\* Altered: a deletion is filed under the index of the new slice.
ChangesOfMisfiled(o) ==
    CASE o.kind = "pair"   -> PairAt(o.ai, before[o.bi], after[o.ai])
      [] o.kind = "delete" -> At(o.ai, before[o.bi], NoElem)
      [] o.kind = "insert" -> At(o.ai, NoElem, after[o.ai])

\* What is written for one operation of the walk.
ChangesOf(o) ==
    CASE o.kind = "pair"   -> PairAt(o.ai, before[o.bi], after[o.ai])
      [] o.kind = "delete" -> At(o.bi, before[o.bi], NoElem)
      [] o.kind = "insert" -> At(o.ai, NoElem, after[o.ai])

\* Altered: the operations are written in the order the walk found them.
EmitForward ==
    /\ stage = "emit" /\ i > 0
    /\ out' = out \o ChangesOf(ops[Len(ops) + 1 - i])
    /\ i' = i - 1
    /\ UNCHANGED <<before, after, stage, j, dp, ops>>

Emit ==
    /\ stage = "emit" /\ i > 0
    /\ out' = out \o ChangesOf(ops[i])
    /\ i' = i - 1
    /\ UNCHANGED <<before, after, stage, j, dp, ops>>

EmitDone ==
    /\ stage = "emit" /\ i = 0
    /\ stage' = "done"
    /\ UNCHANGED <<before, after, i, j, dp, ops, out>>

\* diffSlicePositional, one element.
Positional ==
    /\ stage = "position" /\ (i <= n \/ i <= m)
    /\ out' = out \o (IF i <= n /\ i <= m THEN PairAt(i, before[i], after[i])
                      ELSE IF i <= n THEN At(i, before[i], NoElem)
                      ELSE At(i, NoElem, after[i]))
    /\ i' = i + 1
    /\ UNCHANGED <<before, after, stage, j, dp, ops>>

PositionalDone ==
    /\ stage = "position" /\ i > n /\ i > m
    /\ stage' = "done"
    /\ UNCHANGED <<before, after, i, j, dp, ops, out>>

Next ==
    \/ FillCell \/ FillNextRow \/ FillDone
    \/ WalkKeep \/ WalkReplace \/ WalkDelete \/ WalkInsert \/ WalkDone
    \/ Emit \/ EmitDone
    \/ Positional \/ PositionalDone

Spec == Init /\ [][Next]_vars
-----------------------------------------------------------------------------
Changes == {out[k] : k \in 1..Len(out)}
Gone == {c.field : c \in {d \in Changes : d.to = NoElem}}
New == {c.field : c \in {d \in Changes : d.from = NoElem}}
Kept == (1..n) \ Gone
Room == (1..m) \ New
Rank(x, S) == Cardinality({y \in S : y < x})

\* The k-th element left of the old slice is the k-th element of the new one
\* that was not added, but for the change filed under its new index.
Continues(x, y) ==
    \/ before[x] = after[y]
    \/ [field |-> y, from |-> before[x], to |-> after[y]] \in Changes

\* The changes tell the whole difference: deleting, adding and replacing what
\* they name, at the indices they name, turns the old slice into the new one.
ChangesReplay ==
    stage = "done" =>
      /\ Cardinality(Kept) = Cardinality(Room)
      /\ \A x \in Kept, y \in Room : Rank(x, Kept) = Rank(y, Room) => Continues(x, y)
      /\ \A c \in Changes :
           /\ c.to = NoElem => c.field \in 1..n /\ before[c.field] = c.from
           /\ c.to # NoElem => c.field \in 1..m /\ after[c.field] = c.to

\* The pairs of indices of an alignment, which keeps the order of both slices,
\* and the number of changes it takes.
Alignments ==
    {A \in SUBSET ((1..n) \X (1..m)) :
        \A p, q \in A : p = q \/ (p[1] < q[1] /\ p[2] < q[2]) \/ (q[1] < p[1] /\ q[2] < p[2])}
Cost(A) ==
    n + m - 2 * Cardinality(A) + Cardinality({p \in A : before[p[1]] # after[p[2]]})

\* No alignment of the two slices takes fewer changes than were reported.
ChangesMinimal ==
    stage = "done" /\ ~TooLong => \A A \in Alignments : Len(out) <= Cost(A)

\* The walk stays on a cheapest path: what it has collected and what the table
\* says of the way still to go add up to the distance of the slices.
WalkOnCheapestPath ==
    stage = "walk" => Len(ops) + dp[i][j] = dp[n][m]

\* The changes come in the order of the slices: indices of the old slice and
\* indices of the new one never go back.
ChangesInOrder ==
    \A k, l \in 1..Len(out) :
        k < l /\ ((out[k].to = NoElem) <=> (out[l].to = NoElem)) => out[k].field < out[l].field
=============================================================================
