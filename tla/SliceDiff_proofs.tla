-------------------------- MODULE SliceDiff_proofs --------------------------
(***************************************************************************)
(* Proofs about SliceDiff, for slices of any length over any values.       *)
(*                                                                         *)
(* The table satisfies the recurrence of Cell in every cell filled so far  *)
(* (TableInv).  Of the three ways into a cell one therefore has the cell's *)
(* value, and this is what the walk goes by: where it neither keeps,       *)
(* replaces nor deletes, an insertion is what the table says, although the *)
(* default case of the switch does not look.                               *)
(*                                                                         *)
(* The recurrence bounds every cell by the cost of each alignment of what  *)
(* precedes it (CellIsLeast): no shorter list of changes exists.  And the  *)
(* walk, whichever way it takes, collects an order-preserving match of     *)
(* what it does not delete with what it does not insert (Matching), which  *)
(* is what makes the list a replay.                                        *)
(***************************************************************************)
EXTENDS SliceDiff, SequenceTheorems, FiniteSetTheorems, TLAPS

Larger(a, b) == IF a < b THEN b ELSE a

\* The types of the variables that the fill and the walk go by.
Typing ==
    /\ before \in Slices /\ after \in Slices
    /\ stage \in {"fill", "walk", "emit", "position", "done"}
    /\ i \in 0..(MaxLen + 1) /\ j \in 0..(MaxLen + 1)
    /\ dp \in [0..n -> [0..m -> Nat]]
    /\ ops \in Seq(Op)

\* The cells that the fill is past, in its order.
Filled(r, c) == stage = "fill" => r < i \/ (r = i /\ c < j)

TableInv ==
    /\ \A r \in 0..n, c \in 0..m : dp[r][c] <= Larger(r, c)
    /\ stage \in {"fill", "walk", "emit"} =>
         /\ \A r \in 0..n : dp[r][0] = r
         /\ \A c \in 0..m : dp[0][c] = c
         /\ \A r \in 1..n, c \in 1..m : Filled(r, c) => dp[r][c] = Cell(r, c)

\* Where the loop variables are, and the distance that is left.
LoopInv ==
    /\ stage = "fill" => i \in 1..(n + 1) /\ j \in 1..(m + 1) /\ ops = << >>
    /\ stage = "walk" => i \in 0..n /\ j \in 0..m /\ Len(ops) + dp[i][j] = dp[n][m]
    /\ stage = "emit" => i \in 0..Len(ops)
    /\ stage = "position" => i > 0

WalkInv == Typing /\ TableInv /\ LoopInv

LEMMA SliceLength ==
    ASSUME NEW s \in Slices
    PROVE  s \in Seq(Elems) /\ Len(s) \in 0..MaxLen /\ Len(s) \in Nat
<1>1. PICK k \in 0..MaxLen : s \in [1..k -> Elems]
  BY DEF Slices
<1>2. k \in Nat
  BY LenAssumption
<1>3. s \in Seq(Elems) /\ Len(s) = k
  BY <1>1, <1>2
<1> QED
  BY <1>1, <1>2, <1>3

LEMMA Sizes == Typing => n \in 0..MaxLen /\ m \in 0..MaxLen /\ n \in Nat /\ m \in Nat
BY SliceLength DEF Typing, n, m

\* A cell of the table is a number.
LEMMA CellsAreNat ==
    ASSUME NEW a \in Nat, NEW b \in Nat, NEW t \in [0..a -> [0..b -> Nat]],
           NEW r \in 0..a, NEW c \in 0..b
    PROVE  t[r][c] \in Nat
<1>1. t[r] \in [0..b -> Nat]
  OBVIOUS
<1> QED
  BY <1>1

LEMMA WalkInit == Init => WalkInv
<1> SUFFICES ASSUME Init PROVE WalkInv
  OBVIOUS
<1>1. n \in 0..MaxLen /\ m \in 0..MaxLen /\ n \in Nat /\ m \in Nat
  BY SliceLength DEF Init, n, m
<1>2. Typing
  BY <1>1, LenAssumption DEF Init, Typing
<1>3. TableInv
  <2>1. \A r \in 0..n, c \in 0..m : dp[r][c] = IF r = 0 THEN c ELSE IF c = 0 THEN r ELSE 0
    BY <1>1 DEF Init
  <2>2. \A r \in 1..n, c \in 1..m : stage = "fill" => ~Filled(r, c)
    BY <1>1 DEF Init, Filled
  <2> QED
    BY <1>1, <2>1, <2>2 DEF Init, TableInv, Larger
<1>4. LoopInv
  BY <1>1 DEF Init, LoopInv
<1> QED
  BY <1>2, <1>3, <1>4 DEF WalkInv

\* In a full table one of the four cases of the walk is what the table says; the
\* last is the default of the switch.
LEMMA CellWay ==
    ASSUME WalkInv, stage = "walk", i > 0 \/ j > 0, ~Keeps, ~Replaces, ~Deletes
    PROVE  j > 0 /\ dp[i][j] = dp[i][j - 1] + 1
<1>1. n \in Nat /\ m \in Nat /\ i \in 0..n /\ j \in 0..m
  BY Sizes DEF WalkInv, LoopInv
<1>2. dp \in [0..n -> [0..m -> Nat]]
  BY DEF WalkInv, Typing
<1>6. \A r \in 0..n, c \in 0..m : dp[r][c] \in Nat
  BY <1>1, <1>2, CellsAreNat
<1>3. CASE j = 0
  <2>1. dp[i][0] = i /\ dp[i - 1][0] = i - 1
    BY <1>1, <1>3 DEF WalkInv, TableInv
  <2> QED
    BY <1>1, <1>3, <2>1 DEF Keeps, Replaces, Deletes
<1>4. CASE i = 0 /\ j > 0
  <2>1. dp[0][j] = j /\ dp[0][j - 1] = j - 1
    BY <1>1, <1>4 DEF WalkInv, TableInv
  <2> QED
    BY <1>1, <1>4, <2>1
<1>5. CASE i > 0 /\ j > 0
  <2>1. i - 1 \in 0..n /\ j - 1 \in 0..m
    BY <1>1, <1>5
  <2>2. dp[i - 1][j - 1] \in Nat /\ dp[i - 1][j] \in Nat /\ dp[i][j - 1] \in Nat
    BY <1>6, <1>1, <2>1
  <2>3. dp[i][j] = Cell(i, j)
    BY <1>1, <1>5 DEF WalkInv, TableInv, Filled
  <2>4. CASE before[i] = after[j]
    BY <1>5, <2>2, <2>3, <2>4 DEF Cell, Smaller, Keeps, Replaces, Deletes
  <2>5. CASE before[i] # after[j]
    BY <1>5, <2>2, <2>3, <2>5 DEF Cell, Smaller, Keeps, Replaces, Deletes
  <2> QED
    BY <2>4, <2>5
<1> QED
  BY <1>1, <1>3, <1>4, <1>5

\* Filling a cell leaves the cells filled before, and what they rest on, alone.
LEMMA FillTable == WalkInv /\ FillCell => TableInv'
<1> SUFFICES ASSUME WalkInv, FillCell PROVE TableInv'
  OBVIOUS
<1>1. n \in Nat /\ m \in Nat /\ i \in 1..n /\ j \in 1..m
  BY Sizes DEF WalkInv, LoopInv, FillCell
<1>2. dp \in [0..n -> [0..m -> Nat]]
  BY DEF WalkInv, Typing
<1>3. n' = n /\ m' = m /\ stage = "fill" /\ stage' = "fill" /\ i' = i /\ j' = j + 1
      /\ before' = before /\ after' = after
  BY DEF FillCell, n, m
<1>4. \A r \in 0..n, c \in 0..m : dp'[r][c] = IF r = i /\ c = j THEN Cell(i, j) ELSE dp[r][c]
  BY <1>1, <1>2 DEF FillCell
<1>5. \A r \in 1..n, c \in 1..m : Filled(r, c)' => Cell(r, c)' = Cell(r, c)
  <2> SUFFICES ASSUME NEW r \in 1..n, NEW c \in 1..m, Filled(r, c)' PROVE Cell(r, c)' = Cell(r, c)
    OBVIOUS
  <2>1. r < i \/ (r = i /\ c <= j)
    BY <1>1, <1>3 DEF Filled
  <2>2. r - 1 \in 0..n /\ c - 1 \in 0..m
    BY <1>1
  <2>3. dp'[r - 1][c - 1] = dp[r - 1][c - 1] /\ dp'[r - 1][c] = dp[r - 1][c]
        /\ dp'[r][c - 1] = dp[r][c - 1]
    BY <1>1, <1>4, <2>1, <2>2
  <2> QED
    BY <1>3, <2>3 DEF Cell
<1>6. \A r \in 1..n, c \in 1..m : Filled(r, c)' => dp'[r][c] = Cell(r, c)'
  <2> SUFFICES ASSUME NEW r \in 1..n, NEW c \in 1..m, Filled(r, c)' PROVE dp'[r][c] = Cell(r, c)
    BY <1>5
  <2>1. CASE r = i /\ c = j
    BY <1>1, <1>4, <2>1
  <2>2. CASE ~(r = i /\ c = j)
    <3>1. Filled(r, c)
      BY <1>1, <1>3, <2>2 DEF Filled
    <3> QED
      BY <1>1, <1>3, <1>4, <2>2, <3>1 DEF WalkInv, TableInv
  <2> QED
    BY <2>1, <2>2
<1>10. \A r \in 0..n, c \in 0..m : dp[r][c] \in Nat
  BY <1>1, <1>2, CellsAreNat
<1>7. Cell(i, j) <= Larger(i, j)
  <2>1. i - 1 \in 0..n /\ j - 1 \in 0..m /\ i \in 0..n /\ j \in 0..m
    BY <1>1
  <2>2. dp[i - 1][j - 1] \in Nat /\ dp[i - 1][j] \in Nat /\ dp[i][j - 1] \in Nat
    BY <1>10, <2>1
  <2>3. dp[i - 1][j - 1] <= Larger(i - 1, j - 1)
    BY <1>1, <1>3, <2>1 DEF WalkInv, TableInv
  <2> QED
    BY <1>1, <2>2, <2>3 DEF Cell, Smaller, Larger
<1>8. \A r \in 0..n, c \in 0..m : dp'[r][c] <= Larger(r, c)
  BY <1>1, <1>3, <1>4, <1>7 DEF WalkInv, TableInv
<1>9. (\A r \in 0..n : dp'[r][0] = r) /\ (\A c \in 0..m : dp'[0][c] = c)
  BY <1>1, <1>3, <1>4 DEF WalkInv, TableInv
<1> QED
  BY <1>3, <1>6, <1>8, <1>9 DEF TableInv

\* The distance is at most the length of the longer slice.
LEMMA DistanceBound == WalkInv /\ stage = "walk" => dp[n][m] \in 0..MaxLen
BY Sizes, LenAssumption DEF WalkInv, Typing, TableInv, Larger

LEMMA WalkNext == WalkInv /\ [Next]_vars => WalkInv'
<1> SUFFICES ASSUME WalkInv, [Next]_vars PROVE WalkInv'
  OBVIOUS
<1>1. n \in 0..MaxLen /\ m \in 0..MaxLen /\ n \in Nat /\ m \in Nat /\ MaxLen \in Nat
  BY Sizes, LenAssumption DEF WalkInv
<1>2. Typing /\ TableInv /\ LoopInv /\ ops \in Seq(Op)
  BY DEF WalkInv, Typing
<1>17. dp \in [0..n -> [0..m -> Nat]]
  BY DEF WalkInv, Typing
<1>20. \A r \in 0..n, c \in 0..m : dp[r][c] \in Nat
  BY <1>1, <1>17, CellsAreNat
<1>18. stage = "walk" => i \in 0..n /\ j \in 0..m /\ Len(ops) + dp[i][j] = dp[n][m]
  BY DEF WalkInv, LoopInv
<1>19. stage = "walk" => Len(ops) \in Nat /\ dp[i][j] \in Nat /\ dp[n][m] \in Nat
  BY <1>1, <1>2, <1>18, <1>20
<1>3. ASSUME before' = before, after' = after, dp' = dp, stage \in {"walk", "emit"},
             stage' # "fill"
      PROVE  n' = n /\ m' = m /\ TableInv'
  <2>1. n' = n /\ m' = m /\ \A r, c : Cell(r, c)' = Cell(r, c)
    BY <1>3 DEF n, m, Cell
  <2>2. \A r \in 1..n, c \in 1..m : Filled(r, c)
    BY <1>3 DEF Filled
  <2> QED
    BY <1>2, <1>3, <2>1, <2>2 DEF TableInv
<1>4. CASE FillCell
  <2>1. i \in 1..n /\ j \in 1..m
    BY <1>1, <1>2, <1>4 DEF LoopInv, FillCell
  <2>2. i - 1 \in 0..n /\ j - 1 \in 0..m /\ i \in 0..n /\ j \in 0..m
    BY <1>1, <2>1
  <2>3. dp[i - 1][j - 1] \in Nat /\ dp[i - 1][j] \in Nat /\ dp[i][j - 1] \in Nat
    BY <1>20, <2>2
  <2>4. Cell(i, j) \in Nat
    BY <2>3 DEF Cell, Smaller
  <2>5. n' = n /\ m' = m
    BY <1>4 DEF FillCell, n, m
  <2>6. dp' \in [0..n' -> [0..m' -> Nat]]
    <3>1. [dp[i] EXCEPT ![j] = Cell(i, j)] \in [0..m -> Nat]
      BY <1>17, <2>1, <2>4
    <3> QED
      BY <1>17, <1>4, <2>1, <2>5, <3>1 DEF FillCell
  <2>8. Typing'
    <3>1. before' = before /\ after' = after /\ stage' = "fill" /\ ops' = ops /\ i' = i /\ j' = j + 1
      BY <1>4, <2>1 DEF FillCell
    <3>2. j + 1 \in 0..(MaxLen + 1)
      BY <1>1, <1>2, <2>1
    <3> QED
      BY <1>2, <2>6, <3>1, <3>2 DEF Typing
  <2>7. LoopInv'
    BY <1>1, <1>2, <1>4, <2>1, <2>5 DEF LoopInv, FillCell
  <2> QED
    BY <1>4, <2>7, <2>8, FillTable DEF WalkInv
<1>5. CASE FillNextRow
  <2>1. n' = n /\ m' = m /\ \A r, c : Cell(r, c)' = Cell(r, c)
    BY <1>5 DEF FillNextRow, n, m, Cell
  <2>2. Typing' /\ LoopInv'
    BY <1>1, <1>2, <1>5, <2>1 DEF Typing, LoopInv, FillNextRow
  <2>3. \A r \in 1..n, c \in 1..m : Filled(r, c)' => Filled(r, c)
    BY <1>1, <1>2, <1>5 DEF Filled, FillNextRow, LoopInv
  <2>4. TableInv'
    BY <1>2, <1>5, <2>1, <2>3 DEF TableInv, FillNextRow
  <2> QED
    BY <2>2, <2>4 DEF WalkInv
<1>6. CASE FillDone
  <2>1. n' = n /\ m' = m /\ \A r, c : Cell(r, c)' = Cell(r, c)
    BY <1>6 DEF FillDone, n, m, Cell
  <2>2. Typing'
    BY <1>1, <1>2, <1>6, <2>1 DEF Typing, FillDone
  <2>3. LoopInv'
    BY <1>1, <1>2, <1>6, <2>1 DEF Typing, LoopInv, FillDone
  <2>4. \A r \in 1..n, c \in 1..m : Filled(r, c)
    BY <1>1, <1>2, <1>6 DEF Filled, FillDone, LoopInv
  <2>5. TableInv'
    BY <1>2, <1>6, <2>1, <2>4 DEF TableInv, FillDone
  <2> QED
    BY <2>2, <2>3, <2>5 DEF WalkInv
<1>7. CASE WalkKeep
  <2>1. i \in 1..n /\ j \in 1..m
    BY <1>1, <1>7, <1>18 DEF WalkKeep, Keeps
  <2>2. TableInv' /\ n' = n /\ m' = m
    BY <1>3, <1>7 DEF WalkKeep
  <2>3. i - 1 \in 0..n /\ j - 1 \in 0..m
    BY <1>1, <2>1
  <2>4. Typing'
    BY <1>1, <1>2, <1>7, <2>1, <2>2 DEF Typing, WalkKeep
  <2>5. Len(ops) + dp[i - 1][j - 1] = dp[n][m]
    BY <1>7, <1>18 DEF WalkKeep, Keeps
  <2>6. LoopInv'
    BY <1>7, <2>2, <2>3, <2>5 DEF LoopInv, WalkKeep
  <2> QED
    BY <2>2, <2>4, <2>6 DEF WalkInv
<1>8. CASE WalkReplace
  <2>1. i \in 1..n /\ j \in 1..m
    BY <1>1, <1>8, <1>18 DEF WalkReplace, Replaces
  <2>2. TableInv' /\ n' = n /\ m' = m
    BY <1>3, <1>8 DEF WalkReplace
  <2>3. [kind |-> "pair", bi |-> i, ai |-> j] \in Op
    BY <1>1, <2>1 DEF Op
  <2>4. ops' \in Seq(Op) /\ Len(ops') = Len(ops) + 1 /\ Len(ops) \in Nat
    BY <1>2, <1>8, <2>3 DEF WalkReplace
  <2>5. i - 1 \in 0..n /\ j - 1 \in 0..m
    BY <1>1, <2>1
  <2>6. dp[i - 1][j - 1] \in Nat
    BY <1>20, <2>5
  <2>7. Typing'
    <3>1. before' = before /\ after' = after /\ stage' = "walk" /\ dp' = dp /\ i' = i - 1 /\ j' = j - 1
      BY <1>8 DEF WalkReplace, Replaces
    <3>2. i - 1 \in 0..(MaxLen + 1) /\ j - 1 \in 0..(MaxLen + 1)
      BY <1>1, <1>2, <2>1
    <3>3. dp' \in [0..n' -> [0..m' -> Nat]]
      BY <1>17, <2>2, <3>1
    <3> QED
      BY <1>2, <2>4, <3>1, <3>2, <3>3 DEF Typing
  <2>8. Len(ops) + 1 + dp[i - 1][j - 1] = dp[n][m]
    <3>1. stage = "walk" /\ dp[i][j] = dp[i - 1][j - 1] + 1
      BY <1>8 DEF WalkReplace, Replaces
    <3>2. Len(ops) + dp[i][j] = dp[n][m] /\ Len(ops) \in Nat /\ dp[n][m] \in Nat
      BY <1>18, <1>19, <3>1
    <3> QED
      BY <2>6, <3>1, <3>2
  <2>9. LoopInv'
    BY <1>8, <2>2, <2>4, <2>5, <2>8 DEF LoopInv, WalkReplace
  <2> QED
    BY <2>2, <2>7, <2>9 DEF WalkInv
<1>9. CASE WalkDelete
  <2>1. i \in 1..n /\ j \in 0..m
    BY <1>1, <1>9, <1>18 DEF WalkDelete, Deletes
  <2>2. TableInv' /\ n' = n /\ m' = m
    BY <1>3, <1>9 DEF WalkDelete
  <2>3. [kind |-> "delete", bi |-> i, ai |-> 0] \in Op
    BY <1>1, <2>1 DEF Op
  <2>4. ops' \in Seq(Op) /\ Len(ops') = Len(ops) + 1 /\ Len(ops) \in Nat
    BY <1>2, <1>9, <2>3 DEF WalkDelete
  <2>5. i - 1 \in 0..n
    BY <1>1, <2>1
  <2>6. dp[i - 1][j] \in Nat
    BY <1>20, <2>1, <2>5
  <2>7. Typing'
    BY <1>1, <1>2, <1>9, <2>1, <2>2, <2>4, <2>5 DEF Typing, WalkDelete
  <2>8. Len(ops) + 1 + dp[i - 1][j] = dp[n][m]
    <3>1. stage = "walk" /\ dp[i][j] = dp[i - 1][j] + 1
      BY <1>9 DEF WalkDelete, Deletes
    <3>2. Len(ops) + dp[i][j] = dp[n][m] /\ Len(ops) \in Nat /\ dp[n][m] \in Nat
      BY <1>18, <1>19, <3>1
    <3> QED
      BY <2>6, <3>1, <3>2
  <2>9. LoopInv'
    BY <1>9, <2>1, <2>2, <2>4, <2>5, <2>8 DEF LoopInv, WalkDelete
  <2> QED
    BY <2>2, <2>7, <2>9 DEF WalkInv
<1>10. CASE WalkInsert
  <2>1. j > 0 /\ dp[i][j] = dp[i][j - 1] + 1
    BY <1>10, CellWay DEF WalkInsert
  <2>2. i \in 0..n /\ j \in 1..m /\ j - 1 \in 0..m
    BY <1>1, <1>10, <1>18, <2>1 DEF WalkInsert
  <2>3. TableInv' /\ n' = n /\ m' = m
    BY <1>3, <1>10 DEF WalkInsert
  <2>4. [kind |-> "insert", bi |-> 0, ai |-> j] \in Op
    BY <1>1, <2>2 DEF Op
  <2>5. ops' \in Seq(Op) /\ Len(ops') = Len(ops) + 1 /\ Len(ops) \in Nat
    BY <1>2, <1>10, <2>4 DEF WalkInsert
  <2>6. dp[i][j - 1] \in Nat
    BY <1>17, <2>2
  <2>7. Typing'
    BY <1>1, <1>2, <1>10, <2>2, <2>3, <2>5 DEF Typing, WalkInsert
  <2>8. Len(ops) + 1 + dp[i][j - 1] = dp[n][m]
    <3>1. stage = "walk" /\ dp[i][j] = dp[i][j - 1] + 1
      BY <1>10, <2>1 DEF WalkInsert
    <3>2. Len(ops) + dp[i][j] = dp[n][m] /\ Len(ops) \in Nat /\ dp[n][m] \in Nat
      BY <1>18, <1>19, <3>1
    <3> QED
      BY <2>6, <3>1, <3>2
  <2>9. LoopInv'
    BY <1>10, <2>2, <2>3, <2>5, <2>8 DEF LoopInv, WalkInsert
  <2> QED
    BY <2>3, <2>7, <2>9 DEF WalkInv
<1>11. CASE WalkDone
  <2>1. TableInv' /\ n' = n /\ m' = m
    BY <1>3, <1>11 DEF WalkDone
  <2>2. dp[0][0] = 0 /\ Len(ops) \in Nat
    BY <1>1, <1>2, <1>11 DEF TableInv, WalkDone
  <2>3. Len(ops) = dp[n][m] /\ dp[n][m] \in 0..MaxLen
    BY <1>2, <1>11, <2>2, DistanceBound DEF LoopInv, WalkDone
  <2>4. Typing' /\ LoopInv'
    BY <1>1, <1>2, <1>11, <2>1, <2>3 DEF Typing, LoopInv, WalkDone
  <2> QED
    BY <2>1, <2>4 DEF WalkInv
<1>12. CASE Emit
  <2>1. TableInv' /\ n' = n /\ m' = m
    BY <1>3, <1>12 DEF Emit
  <2>2. Typing' /\ LoopInv'
    BY <1>1, <1>2, <1>12, <2>1 DEF Typing, LoopInv, Emit
  <2> QED
    BY <2>1, <2>2 DEF WalkInv
<1>13. CASE EmitDone
  <2>1. TableInv' /\ n' = n /\ m' = m
    BY <1>3, <1>13 DEF EmitDone
  <2>2. Typing' /\ LoopInv'
    BY <1>1, <1>2, <1>13, <2>1 DEF Typing, LoopInv, EmitDone
  <2> QED
    BY <2>1, <2>2 DEF WalkInv
<1>14. CASE Positional
  <2>1. n' = n /\ m' = m
    BY <1>14 DEF Positional, n, m
  <2>2. Typing' /\ LoopInv' /\ TableInv'
    BY <1>1, <1>2, <1>14, <2>1 DEF Typing, LoopInv, TableInv, Positional
  <2> QED
    BY <2>2 DEF WalkInv
<1>15. CASE PositionalDone
  <2>1. n' = n /\ m' = m
    BY <1>15 DEF PositionalDone, n, m
  <2>2. Typing' /\ LoopInv' /\ TableInv'
    BY <1>1, <1>2, <1>15, <2>1 DEF Typing, LoopInv, TableInv, PositionalDone
  <2> QED
    BY <2>2 DEF WalkInv
<1>16. CASE UNCHANGED vars
  <2>1. n' = n /\ m' = m /\ \A r, c : Cell(r, c)' = Cell(r, c) /\ Filled(r, c)' = Filled(r, c)
    BY <1>16 DEF vars, n, m, Cell, Filled
  <2>2. Typing' /\ LoopInv' /\ TableInv'
    BY <1>2, <1>16, <2>1 DEF vars, Typing, LoopInv, TableInv
  <2> QED
    BY <2>2 DEF WalkInv
<1> QED
  BY <1>4, <1>5, <1>6, <1>7, <1>8, <1>9, <1>10, <1>11, <1>12, <1>13, <1>14, <1>15, <1>16 DEF Next

\* Whatever the slices, the walk never leaves a cheapest path, and the default case
\* of its switch, which tests nothing, is taken only where the table says insertion.
THEOREM WalkStaysCheapest == Spec => []WalkOnCheapestPath
<1>1. WalkInv => WalkOnCheapestPath
  BY DEF WalkInv, LoopInv, WalkOnCheapestPath
<1> QED
  BY <1>1, WalkInit, WalkNext, PTL DEF Spec
-----------------------------------------------------------------------------
(* The changes.                                                            *)

\* The operations name elements that exist, those of each slice from its end.
OpsInv ==
    /\ \A k \in 1..Len(ops) :
         /\ ops[k].kind # "insert" => ops[k].bi \in 1..n
         /\ ops[k].kind # "delete" => ops[k].ai \in 1..m
         /\ stage = "walk" => /\ ops[k].kind # "insert" => ops[k].bi > i
                              /\ ops[k].kind # "delete" => ops[k].ai > j
    /\ \A k, l \in 1..Len(ops) : k < l =>
         /\ ops[k].kind = "delete" /\ ops[l].kind = "delete" => ops[k].bi > ops[l].bi
         /\ ops[k].kind # "delete" /\ ops[l].kind # "delete" => ops[k].ai > ops[l].ai

\* The index that the change of an operation is filed under.
FieldOf(o) == IF o.kind = "delete" THEN o.bi ELSE o.ai

\* Every change written so far comes before those still to be written.
OutInv ==
    /\ out \in Seq(Change)
    /\ ChangesInOrder
    /\ stage \in {"fill", "walk"} => out = << >>
    /\ stage = "emit" =>
         \A x \in 1..Len(out), k \in 1..i :
           ((out[x].to = NoElem) <=> (ops[k].kind = "delete")) => out[x].field < FieldOf(ops[k])
    /\ stage = "position" => \A x \in 1..Len(out) : out[x].field < i

IInv == WalkInv /\ OpsInv /\ OutInv

\* One operation at the end of the list.
LEMMA PushOp ==
    ASSUME Typing, NEW o \in Op
    PROVE  /\ Len(Append(ops, o)) = Len(ops) + 1 /\ Len(ops) \in Nat
           /\ \A k \in 1..(Len(ops) + 1) :
                Append(ops, o)[k] = IF k = Len(ops) + 1 THEN o ELSE ops[k]
BY DEF Typing

\* An operation o that lies before all that was collected keeps the list in order.
LEMMA OpsStep ==
    ASSUME WalkInv, OpsInv, stage = "walk", stage' = "walk", n' = n, m' = m,
           NEW o \in Op, ops' = Append(ops, o),
           o.kind # "insert" => o.bi \in 1..n /\ o.bi <= i /\ o.bi > i',
           o.kind # "delete" => o.ai \in 1..m /\ o.ai <= j /\ o.ai > j',
           i \in Nat, j \in Nat, i' \in Nat, j' \in Nat, i' <= i, j' <= j
    PROVE  OpsInv'
<1>1. Len(ops') = Len(ops) + 1 /\ Len(ops) \in Nat
      /\ \A k \in 1..(Len(ops) + 1) : ops'[k] = IF k = Len(ops) + 1 THEN o ELSE ops[k]
  BY PushOp DEF WalkInv
<1>2. n \in Nat /\ m \in Nat /\ ops \in Seq(Op)
  BY Sizes DEF WalkInv, Typing
<1>3. ASSUME NEW k \in 1..Len(ops') PROVE
         /\ ops'[k].kind # "insert" => ops'[k].bi \in 1..n /\ ops'[k].bi > i'
         /\ ops'[k].kind # "delete" => ops'[k].ai \in 1..m /\ ops'[k].ai > j'
  <2>1. CASE k = Len(ops) + 1
    BY <1>1, <2>1
  <2>2. CASE k \in 1..Len(ops)
    BY <1>1, <1>2, <2>2 DEF OpsInv
  <2> QED
    BY <1>1, <2>1, <2>2
<1>4. ASSUME NEW k \in 1..Len(ops'), NEW l \in 1..Len(ops'), k < l PROVE
         /\ ops'[k].kind = "delete" /\ ops'[l].kind = "delete" => ops'[k].bi > ops'[l].bi
         /\ ops'[k].kind # "delete" /\ ops'[l].kind # "delete" => ops'[k].ai > ops'[l].ai
  <2>1. k \in 1..Len(ops) /\ ops'[k] = ops[k]
    BY <1>1, <1>4
  <2>2. CASE l = Len(ops) + 1
    <3>1. ops'[l] = o
      BY <1>1, <2>2
    <3>2. ops[k].kind = "delete" => ops[k].bi \in 1..n /\ ops[k].bi > i
      BY <2>1 DEF OpsInv
    <3>3. ops[k].kind # "delete" => ops[k].ai \in 1..m /\ ops[k].ai > j
      BY <2>1 DEF OpsInv
    <3> QED
      BY <1>2, <2>1, <3>1, <3>2, <3>3
  <2>3. CASE l \in 1..Len(ops)
    <3>1. ops'[l] = ops[l]
      BY <1>1, <2>3
    <3> QED
      BY <1>4, <2>1, <2>3, <3>1 DEF OpsInv
  <2> QED
    BY <1>1, <2>2, <2>3
<1> QED
  BY <1>3, <1>4 DEF OpsInv

LEMMA OpsNext == WalkInv /\ OpsInv /\ [Next]_vars => OpsInv'
<1> SUFFICES ASSUME WalkInv, OpsInv, [Next]_vars PROVE OpsInv'
  OBVIOUS
<1>1. n \in 0..MaxLen /\ m \in 0..MaxLen /\ n \in Nat /\ m \in Nat /\ MaxLen \in Nat
  BY Sizes, LenAssumption DEF WalkInv
<1>2. stage = "walk" => i \in 0..n /\ j \in 0..m
  BY DEF WalkInv, LoopInv
<1>3. CASE FillCell \/ FillNextRow \/ FillDone
  <2>1. ops' = << >> /\ n' = n /\ m' = m
    BY <1>3 DEF WalkInv, LoopInv, FillCell, FillNextRow, FillDone, n, m
  <2> QED
    BY <2>1 DEF OpsInv
<1>4. CASE WalkKeep
  <2>1. n' = n /\ m' = m
    BY <1>4 DEF WalkKeep, n, m
  <2>2. ASSUME NEW k \in 1..Len(ops)
        PROVE  /\ ops[k].kind # "insert" => ops[k].bi \in 1..n /\ ops[k].bi > i - 1
               /\ ops[k].kind # "delete" => ops[k].ai \in 1..m /\ ops[k].ai > j - 1
    BY <1>1, <1>2, <1>4 DEF OpsInv, WalkKeep
  <2>3. ops' = ops /\ i' = i - 1 /\ j' = j - 1
    BY <1>4 DEF WalkKeep
  <2> QED
    BY <2>1, <2>2, <2>3 DEF OpsInv
<1>5. CASE WalkReplace
  <2> DEFINE o == [kind |-> "pair", bi |-> i, ai |-> j]
  <2>1. n' = n /\ m' = m /\ stage = "walk" /\ stage' = "walk" /\ ops' = Append(ops, o)
        /\ i' = i - 1 /\ j' = j - 1
    BY <1>5 DEF WalkReplace, n, m
  <2>2. i \in 1..n /\ j \in 1..m
    BY <1>1, <1>2, <1>5, <2>1 DEF WalkReplace, Replaces
  <2>3. o \in Op
    BY <1>1, <2>2 DEF Op
  <2> QED
    BY <1>1, <2>1, <2>2, <2>3, OpsStep
<1>6. CASE WalkDelete
  <2> DEFINE o == [kind |-> "delete", bi |-> i, ai |-> 0]
  <2>1. n' = n /\ m' = m /\ stage = "walk" /\ stage' = "walk" /\ ops' = Append(ops, o)
        /\ i' = i - 1 /\ j' = j
    BY <1>6 DEF WalkDelete, n, m
  <2>2. i \in 1..n /\ j \in 0..m
    BY <1>1, <1>2, <1>6, <2>1 DEF WalkDelete, Deletes
  <2>3. o \in Op
    BY <1>1, <2>2 DEF Op
  <2> QED
    BY <1>1, <2>1, <2>2, <2>3, OpsStep
<1>7. CASE WalkInsert
  <2> DEFINE o == [kind |-> "insert", bi |-> 0, ai |-> j]
  <2>1. n' = n /\ m' = m /\ stage = "walk" /\ stage' = "walk" /\ ops' = Append(ops, o)
        /\ i' = i /\ j' = j - 1
    BY <1>7 DEF WalkInsert, n, m
  <2>2. j > 0
    BY <1>7, CellWay DEF WalkInsert
  <2>3. i \in 0..n /\ j \in 1..m
    BY <1>1, <1>2, <2>1, <2>2
  <2>4. o \in Op
    BY <1>1, <2>3 DEF Op
  <2> QED
    BY <1>1, <2>1, <2>3, <2>4, OpsStep
<1>8. CASE WalkDone \/ Emit \/ EmitDone \/ Positional \/ PositionalDone
  <2>1. n' = n /\ m' = m /\ ops' = ops /\ stage' # "walk"
    BY <1>8 DEF WalkDone, Emit, EmitDone, Positional, PositionalDone, n, m
  <2> QED
    BY <2>1 DEF OpsInv
<1>9. CASE UNCHANGED vars
  <2>1. n' = n /\ m' = m
    BY <1>9 DEF vars, n, m
  <2> QED
    BY <1>9, <2>1 DEF OpsInv, vars
<1> QED
  BY <1>3, <1>4, <1>5, <1>6, <1>7, <1>8, <1>9 DEF Next

LEMMA ElementTypes ==
    ASSUME Typing
    PROVE  /\ \A k \in 1..n : before[k] \in Elems
           /\ \A k \in 1..m : after[k] \in Elems
BY SliceLength DEF Typing, n, m

\* A change filed under an index of a slice has the type of a change.
LEMMA AtType ==
    ASSUME NEW k \in 1..MaxLen, NEW b \in Elems \cup {NoElem}, NEW a \in Elems \cup {NoElem}
    PROVE  \E c \in Change : At(k, b, a) = <<c>> /\ c.field = k /\ c.from = b /\ c.to = a
<1> DEFINE c == [field |-> k, from |-> b, to |-> a]
<1>1. c \in Change
  BY DEF Change
<1>2. At(k, b, a) = <<c>>
  BY DEF At
<1> QED
  BY <1>1, <1>2

\* What one operation writes: nothing, or one change under its own index.
LEMMA ChangesOfOp ==
    ASSUME Typing, OpsInv, NEW k \in 1..Len(ops)
    PROVE  \/ ChangesOf(ops[k]) = << >>
           \/ \E c \in Change : /\ ChangesOf(ops[k]) = <<c>>
                                /\ c.field = FieldOf(ops[k])
                                /\ (c.to = NoElem) <=> (ops[k].kind = "delete")
<1>1. n \in 0..MaxLen /\ m \in 0..MaxLen /\ MaxLen \in Nat
  BY Sizes, LenAssumption
<1>2. ops[k] \in Op
  BY DEF Typing
<1>3. CASE ops[k].kind = "pair"
  <2>1. ops[k].ai \in 1..MaxLen /\ before[ops[k].bi] \in Elems /\ after[ops[k].ai] \in Elems
    BY <1>1, <1>3, ElementTypes DEF OpsInv
  <2>2. ChangesOf(ops[k]) = PairAt(ops[k].ai, before[ops[k].bi], after[ops[k].ai])
    BY <1>3 DEF ChangesOf
  <2> QED
    BY <1>3, <2>1, <2>2, AtType, ElemAssumption DEF PairAt, FieldOf
<1>4. CASE ops[k].kind = "delete"
  <2>1. ops[k].bi \in 1..MaxLen /\ before[ops[k].bi] \in Elems
    BY <1>1, <1>4, ElementTypes DEF OpsInv
  <2>2. ChangesOf(ops[k]) = At(ops[k].bi, before[ops[k].bi], NoElem)
    BY <1>4 DEF ChangesOf
  <2> QED
    BY <1>4, <2>1, <2>2, AtType DEF FieldOf
<1>5. CASE ops[k].kind = "insert"
  <2>1. ops[k].ai \in 1..MaxLen /\ after[ops[k].ai] \in Elems
    BY <1>1, <1>5, ElementTypes DEF OpsInv
  <2>2. ChangesOf(ops[k]) = At(ops[k].ai, NoElem, after[ops[k].ai])
    BY <1>5 DEF ChangesOf
  <2> QED
    BY <1>5, <2>1, <2>2, AtType, ElemAssumption DEF FieldOf
<1> QED
  BY <1>2, <1>3, <1>4, <1>5 DEF Op

\* A change that lies behind all others of its slice may be appended.
LEMMA OutStep ==
    ASSUME out \in Seq(Change), ChangesInOrder, NEW c \in Change, out' = out \o <<c>>,
           \A x \in 1..Len(out) :
               ((out[x].to = NoElem) <=> (c.to = NoElem)) => out[x].field < c.field
    PROVE  /\ out' \in Seq(Change) /\ ChangesInOrder'
           /\ Len(out') = Len(out) + 1 /\ Len(out) \in Nat
           /\ \A x \in 1..Len(out) : out'[x] = out[x]
           /\ out'[Len(out) + 1] = c
<1>1. out' = Append(out, c)
  OBVIOUS
<1>2. /\ out' \in Seq(Change) /\ Len(out') = Len(out) + 1 /\ Len(out) \in Nat
      /\ \A x \in 1..Len(out) : out'[x] = out[x]
      /\ out'[Len(out) + 1] = c
  BY <1>1
<1>3. ASSUME NEW k \in 1..Len(out'), NEW l \in 1..Len(out'), k < l,
             (out'[k].to = NoElem) <=> (out'[l].to = NoElem)
      PROVE  out'[k].field < out'[l].field
  <2>1. k \in 1..Len(out) /\ out'[k] = out[k]
    BY <1>2, <1>3
  <2>2. CASE l = Len(out) + 1
    BY <1>2, <1>3, <2>1, <2>2
  <2>3. CASE l \in 1..Len(out)
    <3>1. out'[l] = out[l]
      BY <1>2, <2>3
    <3> QED
      BY <1>3, <2>1, <2>3, <3>1 DEF ChangesInOrder
  <2> QED
    BY <1>2, <2>2, <2>3
<1> QED
  BY <1>2, <1>3 DEF ChangesInOrder

LEMMA EmitOut == WalkInv /\ OpsInv /\ OutInv /\ Emit => OutInv'
<1> SUFFICES ASSUME WalkInv, OpsInv, OutInv, Emit PROVE OutInv'
  OBVIOUS
<1>1. stage = "emit" /\ stage' = "emit" /\ i \in 1..Len(ops) /\ i' = i - 1 /\ ops' = ops
  BY DEF WalkInv, LoopInv, Emit
<1>2. out \in Seq(Change) /\ ChangesInOrder /\ Typing /\ Len(ops) \in Nat
  BY DEF OutInv, WalkInv, Typing
<1>3. CASE ChangesOf(ops[i]) = << >>
  <2>1. out' = out
    BY <1>2, <1>3 DEF Emit
  <2> QED
    BY <1>1, <1>2, <2>1 DEF OutInv, ChangesInOrder
<1>4. ASSUME NEW c \in Change, ChangesOf(ops[i]) = <<c>>, c.field = FieldOf(ops[i]),
             (c.to = NoElem) <=> (ops[i].kind = "delete")
      PROVE  OutInv'
  <2>1. \A x \in 1..Len(out) :
            ((out[x].to = NoElem) <=> (c.to = NoElem)) => out[x].field < c.field
    BY <1>1, <1>4 DEF OutInv
  <2>2. out' = out \o <<c>>
    BY <1>4 DEF Emit
  <2>3. /\ out' \in Seq(Change) /\ ChangesInOrder'
        /\ Len(out') = Len(out) + 1 /\ Len(out) \in Nat
        /\ \A x \in 1..Len(out) : out'[x] = out[x]
        /\ out'[Len(out) + 1] = c
    BY <1>2, <2>1, <2>2, OutStep
  <2>4. ASSUME NEW x \in 1..Len(out'), NEW k \in 1..(i - 1),
               (out'[x].to = NoElem) <=> (ops[k].kind = "delete")
        PROVE  out'[x].field < FieldOf(ops[k])
    <3>1. k \in 1..Len(ops) /\ k \in 1..i /\ k < i
      BY <1>1, <1>2
    <3>2. CASE x \in 1..Len(out)
      BY <1>1, <2>3, <2>4, <3>1, <3>2 DEF OutInv
    <3>3. CASE x = Len(out) + 1
      <4>1. (ops[i].kind = "delete") <=> (ops[k].kind = "delete")
        BY <1>4, <2>3, <2>4, <3>3
      <4>2. FieldOf(ops[i]) \in Nat /\ FieldOf(ops[k]) \in Nat
        <5>1. ops[i] \in Op /\ ops[k] \in Op
          BY <1>1, <1>2, <3>1 DEF Typing
        <5> QED
          BY <5>1, LenAssumption DEF Op, FieldOf
      <4>3. FieldOf(ops[k]) > FieldOf(ops[i])
        BY <1>1, <3>1, <4>1 DEF OpsInv, FieldOf
      <4> QED
        BY <1>4, <2>3, <3>3, <4>2, <4>3
    <3> QED
      BY <2>3, <3>2, <3>3
  <2> QED
    BY <1>1, <2>3, <2>4 DEF OutInv
<1> QED
  BY <1>1, <1>2, <1>3, <1>4, ChangesOfOp

LEMMA PositionalOut == WalkInv /\ OutInv /\ Positional => OutInv'
<1> SUFFICES ASSUME WalkInv, OutInv, Positional PROVE OutInv'
  OBVIOUS
<1>1. n \in 0..MaxLen /\ m \in 0..MaxLen /\ MaxLen \in Nat
  BY Sizes, LenAssumption DEF WalkInv
<1>2. stage = "position" /\ stage' = "position" /\ i' = i + 1 /\ i \in 1..MaxLen
      /\ (i <= n \/ i <= m)
  BY <1>1 DEF WalkInv, Typing, LoopInv, Positional
<1>3. out \in Seq(Change) /\ ChangesInOrder /\ \A x \in 1..Len(out) : out[x].field < i
  BY <1>2 DEF OutInv
<1>4. \/ out' = out
      \/ \E c \in Change : out' = out \o <<c>> /\ c.field = i
  <2>1. CASE i <= n /\ i <= m
    <3>1. before[i] \in Elems /\ after[i] \in Elems
      BY <1>1, <1>2, <2>1, ElementTypes DEF WalkInv
    <3>2. out' = out \o PairAt(i, before[i], after[i])
      BY <2>1 DEF Positional
    <3>3. PICK c \in Change : At(i, before[i], after[i]) = <<c>> /\ c.field = i
      BY <1>2, <3>1, AtType
    <3>4. CASE before[i] = after[i]
      <4>1. out' = out \o << >>
        BY <3>2, <3>4 DEF PairAt
      <4> QED
        BY <1>3, <4>1
    <3>5. CASE before[i] # after[i]
      BY <3>2, <3>3, <3>5 DEF PairAt
    <3> QED
      BY <3>4, <3>5
  <2>2. CASE i <= n /\ ~(i <= m)
    <3>1. before[i] \in Elems
      BY <1>1, <1>2, <2>2, ElementTypes DEF WalkInv
    <3>2. out' = out \o At(i, before[i], NoElem)
      BY <2>2 DEF Positional
    <3>3. PICK c \in Change : At(i, before[i], NoElem) = <<c>> /\ c.field = i
      BY <1>2, <3>1, AtType
    <3> QED
      BY <3>2, <3>3
  <2>3. CASE ~(i <= n)
    <3>1. after[i] \in Elems
      BY <1>1, <1>2, <2>3, ElementTypes DEF WalkInv
    <3>2. out' = out \o At(i, NoElem, after[i])
      BY <2>3 DEF Positional
    <3>3. PICK c \in Change : At(i, NoElem, after[i]) = <<c>> /\ c.field = i
      BY <1>2, <3>1, AtType
    <3> QED
      BY <3>2, <3>3
  <2> QED
    BY <2>1, <2>2, <2>3
<1>5. CASE out' = out
  <2>1. \A x \in 1..Len(out) : out[x].field \in 1..MaxLen
    <3>1. \A x \in 1..Len(out) : out[x] \in Change
      BY <1>3
    <3> QED
      BY <3>1 DEF Change
  <2>2. \A x \in 1..Len(out) : out[x].field < i + 1
    BY <1>1, <1>2, <1>3, <2>1
  <2> QED
    BY <1>2, <1>3, <1>5, <2>2 DEF OutInv, ChangesInOrder
<1>6. ASSUME NEW c \in Change, out' = out \o <<c>>, c.field = i PROVE OutInv'
  <2>1. /\ out' \in Seq(Change) /\ ChangesInOrder'
        /\ Len(out') = Len(out) + 1 /\ Len(out) \in Nat
        /\ \A x \in 1..Len(out) : out'[x] = out[x]
        /\ out'[Len(out) + 1] = c
    BY <1>3, <1>6, OutStep
  <2>2. \A x \in 1..Len(out') : out'[x].field < i + 1
    <3> SUFFICES ASSUME NEW x \in 1..Len(out') PROVE out'[x].field < i + 1
      OBVIOUS
    <3>1. out'[x] \in Change
      BY <2>1
    <3>2. CASE x \in 1..Len(out)
      <4>1. out'[x].field \in 1..MaxLen /\ out'[x].field < i
        BY <1>3, <2>1, <3>1, <3>2 DEF Change
      <4> QED
        BY <1>1, <1>2, <4>1
    <3>3. CASE x = Len(out) + 1
      BY <1>2, <1>6, <2>1, <3>3
    <3> QED
      BY <2>1, <3>2, <3>3
  <2> QED
    BY <1>2, <2>1, <2>2 DEF OutInv
<1> QED
  BY <1>4, <1>5, <1>6

LEMMA OutNext == WalkInv /\ OpsInv /\ OutInv /\ [Next]_vars => OutInv'
<1> SUFFICES ASSUME WalkInv, OpsInv, OutInv, [Next]_vars PROVE OutInv'
  OBVIOUS
<1> DEFINE Collecting == \/ FillCell \/ FillNextRow \/ FillDone
                         \/ WalkKeep \/ WalkReplace \/ WalkDelete \/ WalkInsert \/ WalkDone
<1>1. CASE Collecting
  <2>1. out' = << >> /\ stage' \in {"fill", "walk", "emit"}
    BY <1>1 DEF OutInv, FillCell, FillNextRow, FillDone, WalkKeep, WalkReplace, WalkDelete,
                WalkInsert, WalkDone
  <2> QED
    BY <2>1 DEF OutInv, ChangesInOrder
<1>2. CASE EmitDone \/ PositionalDone
  BY <1>2 DEF OutInv, ChangesInOrder, EmitDone, PositionalDone
<1>3. CASE UNCHANGED vars
  BY <1>3 DEF OutInv, ChangesInOrder, vars
<1> QED
  BY <1>1, <1>2, <1>3, EmitOut, PositionalOut DEF Next

LEMMA Invariance == Spec => []IInv
<1>1. Init => IInv
  <2>1. Init => OpsInv /\ OutInv
    BY DEF Init, OpsInv, OutInv, ChangesInOrder
  <2> QED
    BY <2>1, WalkInit DEF IInv
<1>2. IInv /\ [Next]_vars => IInv'
  BY WalkNext, OpsNext, OutNext DEF IInv
<1> QED
  BY <1>1, <1>2, PTL DEF Spec

\* Every variable keeps its type: no step of the walk leaves the table, and no change
\* is made of an element outside its slice.
THEOREM DiffTypeCorrect == Spec => []TypeOK
<1>1. IInv => TypeOK
  <2> SUFFICES ASSUME IInv PROVE TypeOK
    OBVIOUS
  <2>1. Typing /\ TableInv /\ out \in Seq(Change) /\ n \in Nat /\ m \in Nat
    BY Sizes DEF IInv, WalkInv, OutInv
  <2>2. dp \in [0..n -> [0..m -> 0..(n + m)]]
    <3>1. dp \in [0..n -> [0..m -> Nat]]
      BY <2>1 DEF Typing
    <3>2. ASSUME NEW r \in 0..n, NEW c \in 0..m PROVE dp[r][c] \in 0..(n + m)
      <4>1. dp[r][c] \in Nat
        BY <3>1
      <4>2. dp[r][c] <= Larger(r, c) /\ r \in Nat /\ c \in Nat /\ r <= n /\ c <= m
        BY <2>1 DEF TableInv
      <4> QED
        BY <2>1, <4>1, <4>2 DEF Larger
    <3>3. ASSUME NEW r \in 0..n PROVE dp[r] \in [0..m -> 0..(n + m)]
      BY <3>1, <3>2
    <3> QED
      BY <3>1, <3>3
  <2> QED
    BY <2>1, <2>2 DEF TypeOK, Typing
<1> QED
  BY <1>1, Invariance, PTL

\* Whatever the slices, on either way of comparing them, the changes are listed in the
\* order of the slices.
THEOREM ChangesStayInOrder == Spec => []ChangesInOrder
<1>1. IInv => ChangesInOrder
  BY DEF IInv, OutInv
<1> QED
  BY <1>1, Invariance, PTL
-----------------------------------------------------------------------------
(* The distance: no alignment costs less than the table says.              *)

\* The alignments of the first r elements with the first c, what they cost, and the
\* pairs they put on unequal elements.
AlignmentsTo(r, c) ==
    {A \in SUBSET ((1..r) \X (1..c)) :
        \A p, q \in A : p = q \/ (p[1] < q[1] /\ p[2] < q[2]) \/ (q[1] < p[1] /\ q[2] < p[2])}
Unequal(A) == {p \in A : before[p[1]] # after[p[2]]}
CostTo(r, c, A) == r + c - 2 * Cardinality(A) + Cardinality(Unequal(A))

LEMMA LeastOf ==
    ASSUME NEW S \in SUBSET Nat, S # {}
    PROVE  \E x \in S : \A y \in S : x <= y
<1> DEFINE below == OpToRel(<, Nat)
<1>1. PICK x \in S : \A y \in S : ~(<<y, x>> \in below)
  <2>1. IsWellFoundedOn(below, Nat)
    BY NatLessThanWellFounded
  <2> HIDE DEF below
  <2> QED
    BY <2>1, WFMin
<1>2. ASSUME NEW y \in S PROVE x <= y
  <2>1. CASE y < x
    <3>1. <<y, x>> \in below
      BY <2>1 DEF OpToRel
    <3> QED
      BY <1>1, <3>1
  <2> QED
    BY <2>1
<1> QED
  BY <1>2

\* An alignment is finite, and so is what is unequal in it.
LEMMA AlignmentCounts ==
    ASSUME NEW r \in Nat, NEW c \in Nat, NEW A \in SUBSET ((1..r) \X (1..c))
    PROVE  /\ IsFiniteSet(A) /\ Cardinality(A) \in Nat
           /\ IsFiniteSet(Unequal(A)) /\ Cardinality(Unequal(A)) \in Nat
<1>1. IsFiniteSet(1..r) /\ IsFiniteSet(1..c)
  BY FS_Interval
<1>2. IsFiniteSet((1..r) \X (1..c))
  BY <1>1, FS_Product
<1>3. IsFiniteSet(A)
  BY <1>2, FS_Subset
<1>4. Unequal(A) \in SUBSET A
  BY DEF Unequal
<1>5. IsFiniteSet(Unequal(A))
  BY <1>3, <1>4, FS_Subset
<1> QED
  BY <1>3, <1>5, FS_CardinalityType

\* Without its last pair an alignment is one of shorter slices.
LEMMA WithoutLastPair ==
    ASSUME NEW r \in Nat \ {0}, NEW c \in Nat \ {0}, NEW A \in AlignmentsTo(r, c),
           <<r, c>> \in A, NEW B, B = A \ {<<r, c>>}
    PROVE  /\ B \in AlignmentsTo(r - 1, c - 1)
           /\ CostTo(r, c, A) = CostTo(r - 1, c - 1, B)
                                + (IF before[r] = after[c] THEN 0 ELSE 1)
<1>1. A \in SUBSET ((1..r) \X (1..c))
      /\ \A p, q \in A : p = q \/ (p[1] < q[1] /\ p[2] < q[2]) \/ (q[1] < p[1] /\ q[2] < p[2])
  BY DEF AlignmentsTo
<1>2. ASSUME NEW p \in B PROVE p \in (1..(r - 1)) \X (1..(c - 1))
  <2>1. p \in A /\ p # <<r, c>> /\ p[1] \in 1..r /\ p[2] \in 1..c /\ p = <<p[1], p[2]>>
    BY <1>1
  <2>2. p[1] < r /\ p[2] < c
    BY <1>1, <2>1
  <2> QED
    BY <2>1, <2>2
<1>3. B \in AlignmentsTo(r - 1, c - 1)
  BY <1>1, <1>2 DEF AlignmentsTo
<1>4. IsFiniteSet(A) /\ Cardinality(A) \in Nat /\ Cardinality(B) = Cardinality(A) - 1
  BY <1>1, AlignmentCounts, FS_RemoveElement
<1>5. IsFiniteSet(Unequal(A)) /\ Cardinality(Unequal(A)) \in Nat
  BY <1>1, AlignmentCounts
<1>6. CASE before[r] = after[c]
  <2>1. Unequal(B) = Unequal(A)
    BY <1>6 DEF Unequal
  <2> QED
    BY <1>3, <1>4, <1>5, <1>6, <2>1 DEF CostTo
<1>7. CASE before[r] # after[c]
  <2>1. Unequal(B) = Unequal(A) \ {<<r, c>>} /\ <<r, c>> \in Unequal(A)
    BY <1>7 DEF Unequal
  <2>2. Cardinality(Unequal(B)) = Cardinality(Unequal(A)) - 1
    BY <1>5, <2>1, FS_RemoveElement
  <2> QED
    BY <1>3, <1>4, <1>5, <1>7, <2>2 DEF CostTo
<1> QED
  BY <1>6, <1>7

\* An alignment without the last pair leaves one of the last elements alone.
LEMMA WithoutLastElement ==
    ASSUME NEW r \in Nat \ {0}, NEW c \in Nat \ {0}, NEW A \in AlignmentsTo(r, c), <<r, c>> \notin A
    PROVE  \/ A \in AlignmentsTo(r - 1, c) /\ CostTo(r, c, A) = CostTo(r - 1, c, A) + 1
           \/ A \in AlignmentsTo(r, c - 1) /\ CostTo(r, c, A) = CostTo(r, c - 1, A) + 1
<1>1. A \in SUBSET ((1..r) \X (1..c))
      /\ \A p, q \in A : p = q \/ (p[1] < q[1] /\ p[2] < q[2]) \/ (q[1] < p[1] /\ q[2] < p[2])
  BY DEF AlignmentsTo
<1>2. Cardinality(A) \in Nat /\ Cardinality(Unequal(A)) \in Nat
  BY <1>1, AlignmentCounts
<1>3. \A p \in A : p[1] \in 1..r /\ p[2] \in 1..c /\ p = <<p[1], p[2]>>
  BY <1>1
<1>4. CASE \A p \in A : p[1] # r
  <2>1. \A p \in A : p \in (1..(r - 1)) \X (1..c)
    BY <1>3, <1>4
  <2> QED
    BY <1>1, <1>2, <2>1 DEF AlignmentsTo, CostTo
<1>5. CASE \A p \in A : p[2] # c
  <2>1. \A p \in A : p \in (1..r) \X (1..(c - 1))
    BY <1>3, <1>5
  <2> QED
    BY <1>1, <1>2, <2>1 DEF AlignmentsTo, CostTo
<1>6. ASSUME NEW p \in A, NEW q \in A, p[1] = r, q[2] = c PROVE FALSE
  <2>1. p # q
    BY <1>3, <1>6
  <2>2. (p[1] < q[1] /\ p[2] < q[2]) \/ (q[1] < p[1] /\ q[2] < p[2])
    BY <1>1, <2>1
  <2>3. q[1] \in 1..r /\ p[2] \in 1..c
    BY <1>3
  <2> QED
    BY <1>6, <2>2, <2>3
<1> QED
  BY <1>4, <1>5, <1>6

\* In a full table no cell exceeds the cost of any alignment of the elements before it.
LEMMA CellIsLeast ==
    ASSUME WalkInv, stage = "emit", NEW r \in 0..n, NEW c \in 0..m, NEW A \in AlignmentsTo(r, c)
    PROVE  dp[r][c] <= CostTo(r, c, A)
<1> DEFINE Bad(a, b) == \E B \in AlignmentsTo(a, b) : ~(dp[a][b] <= CostTo(a, b, B))
           Sums == {k \in Nat : \E a \in 0..n, b \in 0..m : k = a + b /\ Bad(a, b)}
<1>1. n \in Nat /\ m \in Nat
  BY Sizes DEF WalkInv
<1>2. dp \in [0..n -> [0..m -> Nat]]
  BY DEF WalkInv, Typing
<1>3. \A a \in 0..n, b \in 0..m : dp[a][b] \in Nat
  BY <1>1, <1>2, CellsAreNat
<1>4. ASSUME Sums # {} PROVE FALSE
  <2>1. PICK k \in Sums : \A l \in Sums : k <= l
    <3>1. Sums \in SUBSET Nat
      OBVIOUS
    <3> HIDE DEF Sums
    <3> QED
      BY <1>4, <3>1, LeastOf
  <2>2. PICK a \in 0..n, b \in 0..m : k = a + b /\ Bad(a, b)
    BY <2>1
  <2>3. PICK B \in AlignmentsTo(a, b) : ~(dp[a][b] <= CostTo(a, b, B))
    BY <2>2
  <2>4. B \in SUBSET ((1..a) \X (1..b)) /\ a \in Nat /\ b \in Nat
    BY <1>1 DEF AlignmentsTo
  <2>5. \A x \in 0..n, y \in 0..m : \A C \in AlignmentsTo(x, y) :
           x + y < a + b => dp[x][y] <= CostTo(x, y, C)
    <3> SUFFICES ASSUME NEW x \in 0..n, NEW y \in 0..m, NEW C \in AlignmentsTo(x, y), x + y < a + b,
                        ~(dp[x][y] <= CostTo(x, y, C))
                 PROVE  FALSE
      OBVIOUS
    <3>1. Bad(x, y) /\ x + y \in Nat
      BY <1>1
    <3>2. x + y \in Sums
      BY <3>1
    <3> HIDE DEF Sums, Bad
    <3> QED
      BY <1>1, <2>1, <2>2, <2>4, <3>1, <3>2
  <2>6. CASE a = 0 \/ b = 0
    <3>1. B = {}
      BY <2>4, <2>6
    <3>2. Unequal(B) = {}
      BY <3>1 DEF Unequal
    <3>3. CostTo(a, b, B) = a + b
      <4>1. Cardinality(B) = 0 /\ Cardinality(Unequal(B)) = 0
        BY <3>1, <3>2, FS_EmptySet
      <4> QED
        BY <2>4, <4>1 DEF CostTo
    <3>4. dp[a][b] = a + b
      BY <1>1, <2>4, <2>6 DEF WalkInv, TableInv
    <3> QED
      BY <2>3, <2>4, <3>3, <3>4
  <2>7. CASE a > 0 /\ b > 0
    <3>1. a \in 1..n /\ b \in 1..m /\ a - 1 \in 0..n /\ b - 1 \in 0..m
      BY <1>1, <2>7
    <3>2. dp[a][b] = Cell(a, b)
      BY <3>1 DEF WalkInv, TableInv, Filled
    <3>3. dp[a - 1][b - 1] \in Nat /\ dp[a - 1][b] \in Nat /\ dp[a][b - 1] \in Nat
      BY <1>3, <3>1
    <3> DEFINE step == IF before[a] = after[b] THEN 0 ELSE 1
    <3>4. step \in {0, 1}
      OBVIOUS
    <3>5. dp[a][b] = Smaller(dp[a - 1][b - 1] + step, Smaller(dp[a - 1][b] + 1, dp[a][b - 1] + 1))
      BY <3>2 DEF Cell
    <3> HIDE DEF step
    <3>6. /\ dp[a][b] <= dp[a - 1][b - 1] + step
          /\ dp[a][b] <= dp[a - 1][b] + 1
          /\ dp[a][b] <= dp[a][b - 1] + 1
      BY <3>3, <3>4, <3>5 DEF Smaller
    <3>7. CASE <<a, b>> \in B
      <4> DEFINE C == B \ {<<a, b>>}
      <4>1. C \in AlignmentsTo(a - 1, b - 1)
            /\ CostTo(a, b, B) = CostTo(a - 1, b - 1, C) + step
        BY <2>4, <2>7, <3>7, WithoutLastPair DEF step
      <4>2. dp[a - 1][b - 1] <= CostTo(a - 1, b - 1, C)
        BY <2>4, <2>5, <3>1, <4>1
      <4>3. CostTo(a - 1, b - 1, C) \in Int
        <5>1. C \in SUBSET ((1..(a - 1)) \X (1..(b - 1))) /\ a - 1 \in Nat /\ b - 1 \in Nat
          BY <2>4, <2>7, <4>1 DEF AlignmentsTo
        <5>2. Cardinality(C) \in Nat /\ Cardinality(Unequal(C)) \in Nat
          <6> HIDE DEF C
          <6> QED
            BY <5>1, AlignmentCounts
        <5> QED
          BY <2>4, <5>2 DEF CostTo
      <4> HIDE DEF C
      <4>4. dp[a][b] \in Nat
        BY <1>3
      <4> QED
        BY <2>3, <3>3, <3>4, <3>6, <4>1, <4>2, <4>3, <4>4
    <3>8. CASE <<a, b>> \notin B
      <4>1. Cardinality(B) \in Nat /\ Cardinality(Unequal(B)) \in Nat
        BY <2>4, AlignmentCounts
      <4>2. CostTo(a - 1, b, B) \in Int /\ CostTo(a, b - 1, B) \in Int /\ dp[a][b] \in Nat
        BY <1>3, <2>4, <4>1 DEF CostTo
      <4>3. CASE B \in AlignmentsTo(a - 1, b) /\ CostTo(a, b, B) = CostTo(a - 1, b, B) + 1
        <5>1. dp[a - 1][b] <= CostTo(a - 1, b, B)
          BY <2>4, <2>5, <3>1, <4>3
        <5> QED
          BY <2>3, <3>3, <3>6, <4>2, <4>3, <5>1
      <4>4. CASE B \in AlignmentsTo(a, b - 1) /\ CostTo(a, b, B) = CostTo(a, b - 1, B) + 1
        <5>1. dp[a][b - 1] <= CostTo(a, b - 1, B)
          BY <2>4, <2>5, <3>1, <4>4
        <5> QED
          BY <2>3, <3>3, <3>6, <4>2, <4>4, <5>1
      <4> QED
        BY <2>4, <2>7, <3>8, <4>3, <4>4, WithoutLastElement
    <3> QED
      BY <3>7, <3>8
  <2> QED
    BY <2>4, <2>6, <2>7
<1>5. CASE ~(dp[r][c] <= CostTo(r, c, A))
  <2>1. Bad(r, c) /\ r + c \in Nat
    BY <1>1, <1>5
  <2>2. r + c \in Sums
    BY <2>1
  <2> QED
    BY <1>4, <2>2
<1> QED
  BY <1>5

\* How far the operations, and the changes written of them, are from the distance.
MinInv ==
    /\ stage = "position" => TooLong
    /\ stage = "emit" => Len(ops) = dp[n][m] /\ Len(out) + i <= Len(ops)
    /\ ChangesMinimal

LEMMA TableIsLeast ==
    ASSUME WalkInv, stage = "emit", NEW A \in Alignments
    PROVE  dp[n][m] <= Cost(A)
<1>1. n \in 0..n /\ m \in 0..m
  BY Sizes DEF WalkInv
<1>2. A \in AlignmentsTo(n, m)
  BY DEF Alignments, AlignmentsTo
<1>3. dp[n][m] <= CostTo(n, m, A)
  BY <1>1, <1>2, CellIsLeast
<1> QED
  BY <1>3 DEF CostTo, Cost, Unequal

LEMMA MinNext == IInv /\ MinInv /\ [Next]_vars => MinInv'
<1> SUFFICES ASSUME IInv, MinInv, [Next]_vars PROVE MinInv'
  OBVIOUS
<1>1. n \in Nat /\ m \in Nat /\ dp \in [0..n -> [0..m -> Nat]] /\ ops \in Seq(Op) /\ out \in Seq(Change)
  BY Sizes DEF IInv, WalkInv, Typing, OutInv
<1>2. CASE FillCell \/ FillNextRow \/ FillDone \/ WalkKeep \/ WalkReplace \/ WalkDelete \/ WalkInsert
  <2>1. stage' \in {"fill", "walk"}
    BY <1>2 DEF FillCell, FillNextRow, FillDone, WalkKeep, WalkReplace, WalkDelete, WalkInsert
  <2> QED
    BY <2>1 DEF MinInv, ChangesMinimal
<1>3. CASE WalkDone
  <2>1. /\ stage = "walk" /\ i = 0 /\ j = 0 /\ stage' = "emit" /\ i' = Len(ops)
        /\ UNCHANGED <<before, after, dp, ops, out>>
    BY <1>3 DEF WalkDone
  <2>2. Len(ops) + dp[0][0] = dp[n][m]
    BY <2>1 DEF IInv, WalkInv, LoopInv
  <2>3. dp[0][0] = 0 /\ 0 \in 0..n
    BY <1>1, <2>1 DEF IInv, WalkInv, TableInv
  <2>4. Len(ops) = dp[n][m] /\ Len(out) = 0 /\ Len(ops) \in Nat
    BY <1>1, <2>1, <2>2, <2>3 DEF IInv, OutInv
  <2>5. n' = n /\ m' = m
    BY <2>1 DEF n, m
  <2> QED
    BY <2>1, <2>4, <2>5 DEF MinInv, ChangesMinimal
<1>4. CASE Emit
  <2>1. /\ stage = "emit" /\ stage' = "emit" /\ i \in 1..Len(ops) /\ i' = i - 1
        /\ out' = out \o ChangesOf(ops[i])
        /\ UNCHANGED <<before, after, dp, ops>>
    BY <1>1, <1>4 DEF Emit, IInv, WalkInv, LoopInv
  <2>2. Len(out') <= Len(out) + 1 /\ Len(out') \in Nat /\ Len(out) \in Nat
    <3>1. CASE ChangesOf(ops[i]) = << >>
      BY <1>1, <2>1, <3>1
    <3>2. CASE \E c \in Change : ChangesOf(ops[i]) = <<c>>
      BY <1>1, <2>1, <3>2
    <3> QED
      BY <2>1, <3>1, <3>2, ChangesOfOp DEF IInv, WalkInv
  <2>3. n' = n /\ m' = m
    BY <2>1 DEF n, m
  <2>4. Len(ops) = dp[n][m] /\ Len(out) + i <= Len(ops) /\ Len(ops) \in Nat
    BY <1>1, <2>1 DEF MinInv
  <2> QED
    BY <2>1, <2>2, <2>3, <2>4 DEF MinInv, ChangesMinimal
<1>5. CASE EmitDone
  <2>1. /\ stage = "emit" /\ stage' = "done" /\ i = 0
        /\ UNCHANGED <<before, after, out>>
    BY <1>5 DEF EmitDone
  <2>2. Len(out) <= dp[n][m] /\ Len(out) \in Nat /\ dp[n][m] \in Nat
    BY <1>1, <2>1 DEF MinInv
  <2>3. ASSUME NEW A \in Alignments PROVE Len(out) <= Cost(A)
    <3>1. dp[n][m] <= Cost(A)
      BY <2>1, TableIsLeast DEF IInv
    <3>2. Cost(A) \in Int
      <4>1. A \in SUBSET ((1..n) \X (1..m))
        BY DEF Alignments
      <4>2. Cardinality(A) \in Nat /\ Cardinality(Unequal(A)) \in Nat
        BY <1>1, <4>1, AlignmentCounts
      <4> QED
        BY <1>1, <4>2 DEF Cost, Unequal
    <3> QED
      BY <2>2, <3>1, <3>2
  <2>4. n' = n /\ m' = m
    BY <2>1 DEF n, m
  <2>5. Alignments' = Alignments
    BY <2>4 DEF Alignments
  <2>6. \A A \in Alignments : Cost(A)' = Cost(A)
    BY <2>1, <2>4 DEF Cost
  <2>7. ChangesMinimal'
    BY <2>1, <2>3, <2>5, <2>6 DEF ChangesMinimal
  <2> QED
    BY <2>1, <2>7 DEF MinInv
<1>6. CASE Positional
  <2>1. stage = "position" /\ stage' = "position" /\ UNCHANGED <<before, after>>
    BY <1>6 DEF Positional
  <2>2. TooLong'
    BY <2>1 DEF MinInv, TooLong, n, m
  <2> QED
    BY <2>1, <2>2 DEF MinInv, ChangesMinimal
<1>7. CASE PositionalDone
  <2>1. stage = "position" /\ stage' = "done" /\ UNCHANGED <<before, after>>
    BY <1>7 DEF PositionalDone
  <2>2. TooLong'
    BY <2>1 DEF MinInv, TooLong, n, m
  <2> QED
    BY <2>1, <2>2 DEF MinInv, ChangesMinimal
<1>8. CASE UNCHANGED vars
  BY <1>8 DEF vars, MinInv, ChangesMinimal, TooLong, Alignments, Cost, n, m
<1> QED
  BY <1>2, <1>3, <1>4, <1>5, <1>6, <1>7, <1>8 DEF Next

\* ChangesMinimal: where the slices are compared by the table, no alignment of them
\* takes fewer changes than are reported, whatever the slices.
THEOREM ChangesAreMinimal == Spec => []ChangesMinimal
<1>1. Init => MinInv
  BY DEF Init, MinInv, ChangesMinimal
<1>2. Spec => []MinInv
  BY <1>1, MinNext, Invariance, PTL DEF Spec
<1>3. MinInv => ChangesMinimal
  BY DEF MinInv
<1> QED
  BY <1>2, <1>3, PTL
-----------------------------------------------------------------------------
(* The changes tell the whole difference.                                  *)

\* f takes S onto T and keeps the order.
Copies(f, S, T) ==
    /\ f \in [S -> T]
    /\ \A x, y \in S : x < y => f[x] < f[y]
    /\ \A t \in T : \E x \in S : f[x] = t

\* A finite set of integers.
Indices(S) == IsFiniteSet(S) /\ \A x \in S : x \in Int

LEMMA IndicesOf ==
    ASSUME NEW a \in Nat, NEW S, \A x \in S : x \in 1..a
    PROVE  Indices(S)
<1>1. IsFiniteSet(1..a)
  BY FS_Interval
<1>2. S \in SUBSET (1..a)
  OBVIOUS
<1>3. IsFiniteSet(S)
  BY <1>1, <1>2, FS_Subset
<1> QED
  BY <1>3 DEF Indices

LEMMA IndicesPart ==
    ASSUME NEW S, Indices(S), NEW P, P \subseteq S
    PROVE  Indices(P)
BY FS_Subset DEF Indices

LEMMA CopyCount ==
    ASSUME NEW S, NEW T, Indices(S), Indices(T), NEW f, Copies(f, S, T)
    PROVE  Cardinality(S) = Cardinality(T)
<1>1. f \in [S -> T] /\ \A x, y \in S : x < y => f[x] < f[y]
  BY DEF Copies
<1>2. ASSUME NEW x \in S, NEW y \in S, f[x] = f[y] PROVE x = y
  <2>1. f[x] \in Int /\ f[y] \in Int /\ x \in Int /\ y \in Int
    BY <1>1 DEF Indices
  <2>2. ~(x < y) /\ ~(y < x)
    BY <1>1, <1>2, <2>1
  <2> QED
    BY <2>1, <2>2
<1>3. f \in Injection(S, T)
  BY <1>1, <1>2 DEF Injection, IsInjective
<1>4. f \in Surjection(S, T)
  BY DEF Copies, Surjection
<1> QED
  BY <1>3, <1>4, FS_Surjection DEF Indices

\* A copy of a set has the ranks of its original.
LEMMA CopyRanks ==
    ASSUME NEW S, NEW T, Indices(S), Indices(T), NEW f, Copies(f, S, T), NEW x \in S
    PROVE  Rank(x, S) = Rank(f[x], T)
<1> DEFINE S0 == {y \in S : y < x}
           T0 == {t \in T : t < f[x]}
           g == [y \in S0 |-> f[y]]
<1>1. f \in [S -> T] /\ \A y, z \in S : y < z => f[y] < f[z]
  BY DEF Copies
<1>2. g \in [S0 -> T0]
  BY <1>1
<1>3. \A y, z \in S0 : y < z => g[y] < g[z]
  BY <1>1
<1>4. ASSUME NEW t \in T0 PROVE \E y \in S0 : g[y] = t
  <2>1. PICK y \in S : f[y] = t
    BY DEF Copies
  <2>2. y < x
    <3>1. f[x] \in Int /\ f[y] \in Int /\ x \in Int /\ y \in Int
      BY <1>1 DEF Indices
    <3>2. x < y => f[x] < f[y]
      BY <1>1
    <3>3. f[y] < f[x]
      BY <2>1
    <3> QED
      BY <3>1, <3>2, <3>3
  <2> QED
    BY <2>1, <2>2
<1>5. Copies(g, S0, T0)
  BY <1>2, <1>3, <1>4 DEF Copies
<1>6. S0 \subseteq S /\ T0 \subseteq T
  OBVIOUS
<1> HIDE DEF S0, T0, g
<1>7. Indices(S0) /\ Indices(T0)
  BY <1>6, IndicesPart
<1>8. Cardinality(S0) = Cardinality(T0)
  BY <1>5, <1>7, CopyCount
<1> QED
  BY <1>8 DEF S0, T0, Rank

LEMMA RanksDiffer ==
    ASSUME NEW S, Indices(S), NEW x \in S, NEW y \in S, Rank(x, S) = Rank(y, S)
    PROVE  x = y
<1>1. ASSUME NEW p \in S, NEW q \in S, p < q, Rank(p, S) = Rank(q, S) PROVE FALSE
  <2> DEFINE P == {z \in S : z < p}
             Q == {z \in S : z < q}
  <2>1. \A z \in S : z \in Int
    BY DEF Indices
  <2>2. P \subseteq Q /\ p \in Q /\ p \notin P /\ Q \subseteq S
    BY <1>1, <2>1
  <2>3. Cardinality(P) = Cardinality(Q)
    BY <1>1 DEF Rank
  <2> HIDE DEF P, Q
  <2>4. IsFiniteSet(Q)
    BY <2>2, IndicesPart DEF Indices
  <2>5. P \in SUBSET Q
    BY <2>2
  <2>6. P = Q
    BY <2>3, <2>4, <2>5, FS_Subset
  <2> QED
    BY <2>2, <2>6
<1>2. x \in Int /\ y \in Int
  BY DEF Indices
<1> QED
  BY <1>1, <1>2

\* A copy grows at its front by a pair that lies before it.
LEMMA CopyGrows ==
    ASSUME NEW S \in SUBSET Int, NEW T \in SUBSET Int, NEW f, Copies(f, S, T),
           NEW a \in Int, NEW b \in Int, \A x \in S : a < x, \A t \in T : b < t,
           NEW g, g = [x \in S \cup {a} |-> IF x = a THEN b ELSE f[x]]
    PROVE  Copies(g, S \cup {a}, T \cup {b}) /\ g[a] = b /\ \A x \in S : g[x] = f[x]
<1>1. a \notin S /\ g[a] = b /\ \A x \in S : g[x] = f[x] /\ f[x] \in T
  BY DEF Copies
<1>2. g \in [S \cup {a} -> T \cup {b}]
  BY <1>1
<1>3. ASSUME NEW x \in S \cup {a}, NEW y \in S \cup {a}, x < y PROVE g[x] < g[y]
  <2>1. y \in S
    BY <1>3
  <2>2. CASE x = a
    BY <1>1, <2>1, <2>2
  <2>3. CASE x \in S
    BY <1>1, <1>3, <2>1, <2>3 DEF Copies
  <2> QED
    BY <2>2, <2>3
<1>4. ASSUME NEW t \in T \cup {b} PROVE \E x \in S \cup {a} : g[x] = t
  <2>1. CASE t \in T
    <3>1. PICK x \in S : f[x] = t
      BY <2>1 DEF Copies
    <3> QED
      BY <1>1, <3>1
  <2> QED
    BY <1>1, <2>1
<1> QED
  BY <1>1, <1>2, <1>3, <1>4 DEF Copies

\* What of ChangesReplay does not depend on the stage.
Replays ==
    /\ Cardinality(Kept) = Cardinality(Room)
    /\ \A x \in Kept, y \in Room : Rank(x, Kept) = Rank(y, Room) => Continues(x, y)
    /\ \A c \in Changes :
         /\ c.to = NoElem => c.field \in 1..n /\ before[c.field] = c.from
         /\ c.to # NoElem => c.field \in 1..m /\ after[c.field] = c.to

\* A copy of what is kept onto the room for it is a replay.
LEMMA CopyReplays ==
    ASSUME Typing, NEW f, Copies(f, Kept, Room), \A x \in Kept : Continues(x, f[x]),
           \A c \in Changes :
              /\ c.to = NoElem => c.field \in 1..n /\ before[c.field] = c.from
              /\ c.to # NoElem => c.field \in 1..m /\ after[c.field] = c.to
    PROVE  Replays
<1>1. Indices(Kept) /\ Indices(Room)
  <2>1. n \in Nat /\ m \in Nat
    BY Sizes
  <2>2. (\A x \in Kept : x \in 1..n) /\ (\A x \in Room : x \in 1..m)
    BY DEF Kept, Room
  <2> QED
    BY <2>1, <2>2, IndicesOf
<1>2. Cardinality(Kept) = Cardinality(Room)
  BY <1>1, CopyCount
<1>3. ASSUME NEW x \in Kept, NEW y \in Room, Rank(x, Kept) = Rank(y, Room) PROVE Continues(x, y)
  <2>1. f[x] \in Room
    BY DEF Copies
  <2>2. Rank(f[x], Room) = Rank(y, Room)
    BY <1>1, <1>3, CopyRanks
  <2>3. f[x] = y
    BY <1>1, <2>1, <2>2, RanksDiffer
  <2> QED
    BY <2>3
<1> QED
  BY <1>2, <1>3 DEF Replays
-----------------------------------------------------------------------------
(* The walk collects a copy.                                               *)

Deleted == {ops[k].bi : k \in {l \in 1..Len(ops) : ops[l].kind = "delete"}}
Inserted == {ops[k].ai : k \in {l \in 1..Len(ops) : ops[l].kind = "insert"}}
\* The operations s pair elements x and y.
PairedBy(s, x, y) == \E k \in 1..Len(s) : s[k].kind = "pair" /\ s[k].bi = x /\ s[k].ai = y

\* S and T may be matched so that unequal elements are paired by an operation.
Matching(S, T) ==
    \E f \in [S -> T] :
        Copies(f, S, T) /\ \A x \in S : before[x] = after[f[x]] \/ PairedBy(ops, x, f[x])

\* What is not deleted from what the walk has passed, and not inserted.
OldPassed == ((i + 1)..n) \ Deleted
NewPassed == ((j + 1)..m) \ Inserted

LEMMA CollectOp ==
    ASSUME Typing, NEW o \in Op, ops' = Append(ops, o)
    PROVE  /\ Deleted' = IF o.kind = "delete" THEN Deleted \cup {o.bi} ELSE Deleted
           /\ Inserted' = IF o.kind = "insert" THEN Inserted \cup {o.ai} ELSE Inserted
           /\ \A x, y : PairedBy(ops, x, y) => PairedBy(ops', x, y)
           /\ o.kind = "pair" => PairedBy(ops', o.bi, o.ai)
<1>1. /\ Len(ops') = Len(ops) + 1 /\ Len(ops) \in Nat
      /\ \A k \in 1..(Len(ops) + 1) : ops'[k] = IF k = Len(ops) + 1 THEN o ELSE ops[k]
  BY PushOp
<1>2. /\ \A k \in 1..Len(ops) : k \in 1..Len(ops') /\ ops'[k] = ops[k]
      /\ Len(ops') \in 1..Len(ops') /\ ops'[Len(ops')] = o
      /\ \A k \in 1..Len(ops') : k = Len(ops') \/ k \in 1..Len(ops)
  BY <1>1
<1>3. Deleted' = IF o.kind = "delete" THEN Deleted \cup {o.bi} ELSE Deleted
  BY <1>2 DEF Deleted
<1>4. Inserted' = IF o.kind = "insert" THEN Inserted \cup {o.ai} ELSE Inserted
  BY <1>2 DEF Inserted
<1>5. ASSUME NEW x, NEW y, PairedBy(ops, x, y) PROVE PairedBy(ops', x, y)
  BY <1>2, <1>5 DEF PairedBy
<1>6. ASSUME o.kind = "pair" PROVE PairedBy(ops', o.bi, o.ai)
  BY <1>2, <1>6 DEF PairedBy
<1> QED
  BY <1>3, <1>4, <1>5, <1>6

LEMMA WalkMatches ==
    ASSUME IInv, stage = "walk", Matching(OldPassed, NewPassed),
           WalkKeep \/ WalkReplace \/ WalkDelete \/ WalkInsert
    PROVE  Matching(OldPassed, NewPassed)'
<1>1. n \in 0..MaxLen /\ m \in 0..MaxLen /\ n \in Nat /\ m \in Nat /\ Typing /\ MaxLen \in Nat
  BY Sizes, LenAssumption DEF IInv, WalkInv
<1>2. i \in 0..n /\ j \in 0..m
  BY DEF IInv, WalkInv, LoopInv
<1>3. i \notin Deleted /\ j \notin Inserted
  BY <1>2 DEF Deleted, Inserted, IInv, OpsInv
<1>4. UNCHANGED <<before, after>> /\ n' = n /\ m' = m
  BY DEF WalkKeep, WalkReplace, WalkDelete, WalkInsert, n, m
<1>5. PICK f \in [OldPassed -> NewPassed] :
          /\ Copies(f, OldPassed, NewPassed)
          /\ \A x \in OldPassed : before[x] = after[f[x]] \/ PairedBy(ops, x, f[x])
  BY DEF Matching
<1>6. ASSUME i > 0, j > 0, i' = i - 1, j' = j - 1, Deleted' = Deleted, Inserted' = Inserted,
             \A x, y : PairedBy(ops, x, y) => PairedBy(ops', x, y),
             before[i] = after[j] \/ PairedBy(ops', i, j)
      PROVE  Matching(OldPassed, NewPassed)'
  <2> DEFINE g == [x \in OldPassed \cup {i} |-> IF x = i THEN j ELSE f[x]]
  <2>1. OldPassed' = OldPassed \cup {i} /\ NewPassed' = NewPassed \cup {j}
    BY <1>1, <1>2, <1>3, <1>4, <1>6 DEF OldPassed, NewPassed
  <2>2. /\ OldPassed \in SUBSET Int /\ NewPassed \in SUBSET Int
        /\ \A x \in OldPassed : i < x
        /\ \A t \in NewPassed : j < t
    BY <1>1, <1>2 DEF OldPassed, NewPassed
  <2>3. Copies(g, OldPassed \cup {i}, NewPassed \cup {j}) /\ g[i] = j
        /\ \A x \in OldPassed : g[x] = f[x]
    BY <1>2, <1>5, <2>2, CopyGrows
  <2> HIDE DEF g
  <2>4. \A x \in OldPassed \cup {i} : before[x] = after[g[x]] \/ PairedBy(ops', x, g[x])
    BY <1>5, <1>6, <2>3
  <2>5. g \in [OldPassed \cup {i} -> NewPassed \cup {j}]
    BY <2>3 DEF Copies
  <2> QED
    BY <1>4, <2>1, <2>3, <2>4, <2>5 DEF Matching
<1>7. ASSUME OldPassed' = OldPassed, NewPassed' = NewPassed, \A x, y : PairedBy(ops, x, y) => PairedBy(ops', x, y)
      PROVE  Matching(OldPassed, NewPassed)'
  BY <1>4, <1>5, <1>7 DEF Matching
<1>8. CASE WalkKeep
  <2>1. ops' = ops /\ i > 0 /\ j > 0 /\ i' = i - 1 /\ j' = j - 1 /\ before[i] = after[j]
    BY <1>8 DEF WalkKeep, Keeps
  <2>2. Deleted' = Deleted /\ Inserted' = Inserted /\ \A x, y : PairedBy(ops, x, y) => PairedBy(ops', x, y)
    BY <2>1 DEF Deleted, Inserted, PairedBy
  <2> QED
    BY <1>6, <2>1, <2>2
<1>9. CASE WalkReplace
  <2> DEFINE o == [kind |-> "pair", bi |-> i, ai |-> j]
  <2>1. ops' = Append(ops, o) /\ i > 0 /\ j > 0 /\ i' = i - 1 /\ j' = j - 1
    BY <1>9 DEF WalkReplace, Replaces
  <2>2. o \in Op /\ o.kind = "pair" /\ o.bi = i /\ o.ai = j
    BY <1>1, <1>2 DEF Op
  <2> HIDE DEF o
  <2>3. Deleted' = Deleted /\ Inserted' = Inserted /\ PairedBy(ops', i, j)
        /\ \A x, y : PairedBy(ops, x, y) => PairedBy(ops', x, y)
    BY <1>1, <2>1, <2>2, CollectOp
  <2> QED
    BY <1>6, <2>1, <2>3
<1>10. CASE WalkDelete
  <2> DEFINE o == [kind |-> "delete", bi |-> i, ai |-> 0]
  <2>1. ops' = Append(ops, o) /\ i > 0 /\ i' = i - 1 /\ j' = j
    BY <1>10 DEF WalkDelete, Deletes
  <2>2. o \in Op /\ o.kind = "delete" /\ o.bi = i
    BY <1>1, <1>2 DEF Op
  <2> HIDE DEF o
  <2>3. Deleted' = Deleted \cup {i} /\ Inserted' = Inserted /\ \A x, y : PairedBy(ops, x, y) => PairedBy(ops', x, y)
    BY <1>1, <2>1, <2>2, CollectOp
  <2>4. OldPassed' = OldPassed /\ NewPassed' = NewPassed
    BY <1>1, <1>2, <1>4, <2>1, <2>3 DEF OldPassed, NewPassed
  <2> QED
    BY <1>7, <2>3, <2>4
<1>11. CASE WalkInsert
  <2> DEFINE o == [kind |-> "insert", bi |-> 0, ai |-> j]
  <2>1. ops' = Append(ops, o) /\ i' = i /\ j' = j - 1
    BY <1>11 DEF WalkInsert
  <2>2. j > 0
    BY <1>11, CellWay DEF IInv, WalkInsert
  <2>3. o \in Op /\ o.kind = "insert" /\ o.ai = j
    BY <1>1, <1>2 DEF Op
  <2> HIDE DEF o
  <2>4. Deleted' = Deleted /\ Inserted' = Inserted \cup {j} /\ \A x, y : PairedBy(ops, x, y) => PairedBy(ops', x, y)
    BY <1>1, <2>1, <2>3, CollectOp
  <2>5. OldPassed' = OldPassed /\ NewPassed' = NewPassed
    BY <1>1, <1>2, <1>4, <2>1, <2>2, <2>4 DEF OldPassed, NewPassed
  <2> QED
    BY <1>7, <2>4, <2>5
<1> QED
  BY <1>8, <1>9, <1>10, <1>11
-----------------------------------------------------------------------------
(* The changes tell what was collected.                                    *)

Elements(s) == {s[k] : k \in 1..Len(s)}
ChangeAt(k, b, a) == [field |-> k, from |-> b, to |-> a]

\* The changes of the operations after the first k, and of the first k positions.
ToldOf(s, k) == UNION {Elements(ChangesOf(s[l])) : l \in (k + 1)..Len(s)}
WrittenAt(k) ==
    IF k <= n /\ k <= m THEN PairAt(k, before[k], after[k])
    ELSE IF k <= n THEN At(k, before[k], NoElem)
    ELSE At(k, NoElem, after[k])
WrittenTo(k) == UNION {Elements(WrittenAt(l)) : l \in 1..k}

LEMMA OneElement ==
    /\ Elements(<< >>) = {}
    /\ \A c : Elements(<<c>>) = {c}
BY DEF Elements

LEMMA ElementsOfPair ==
    ASSUME NEW k, NEW b, NEW a
    PROVE  /\ b = a => Elements(PairAt(k, b, a)) = {}
           /\ b # a => Elements(PairAt(k, b, a)) = {ChangeAt(k, b, a)}
BY OneElement DEF PairAt, At, ChangeAt

LEMMA ElementsOfAt ==
    ASSUME NEW k, NEW b, NEW a
    PROVE  Elements(At(k, b, a)) = {ChangeAt(k, b, a)}
BY OneElement DEF At, ChangeAt

\* What is written is added to the changes.
LEMMA ChangesGrow ==
    ASSUME out \in Seq(Change), NEW s, s = << >> \/ \E c \in Change : s = <<c>>, out' = out \o s
    PROVE  Changes' = Changes \cup Elements(s)
<1>1. CASE s = << >>
  <2>1. out' = out /\ Elements(s) = {}
    BY <1>1, OneElement
  <2> QED
    BY <2>1 DEF Changes
<1>2. ASSUME NEW c \in Change, s = <<c>> PROVE Changes' = Changes \cup Elements(s)
  <2>1. out' = Append(out, c) /\ Elements(s) = {c}
    BY <1>2, OneElement
  <2>2. /\ Len(out') = Len(out) + 1 /\ Len(out) \in Nat
        /\ \A x \in 1..Len(out) : out'[x] = out[x]
        /\ out'[Len(out) + 1] = c
    BY <2>1
  <2>3. /\ \A x \in 1..Len(out) : x \in 1..Len(out') /\ out'[x] = out[x]
        /\ Len(out') \in 1..Len(out') /\ out'[Len(out')] = c
        /\ \A x \in 1..Len(out') : x = Len(out') \/ x \in 1..Len(out)
    BY <2>2
  <2> QED
    BY <2>1, <2>3 DEF Changes
<1> QED
  BY <1>1, <1>2

\* What an operation tells.
LEMMA ToldOfOp ==
    ASSUME Typing, OpsInv, NEW k \in 1..Len(ops)
    PROVE  /\ ops[k].kind = "pair" =>
                Elements(ChangesOf(ops[k])) =
                    IF before[ops[k].bi] = after[ops[k].ai] THEN {}
                    ELSE {ChangeAt(ops[k].ai, before[ops[k].bi], after[ops[k].ai])}
           /\ ops[k].kind = "delete" =>
                Elements(ChangesOf(ops[k])) = {ChangeAt(ops[k].bi, before[ops[k].bi], NoElem)}
           /\ ops[k].kind = "insert" =>
                Elements(ChangesOf(ops[k])) = {ChangeAt(ops[k].ai, NoElem, after[ops[k].ai])}
           /\ ops[k].kind \in {"pair", "delete", "insert"}
           /\ ops[k].kind # "insert" => ops[k].bi \in 1..n /\ before[ops[k].bi] \in Elems
           /\ ops[k].kind # "delete" => ops[k].ai \in 1..m /\ after[ops[k].ai] \in Elems
<1>1. ops[k] \in Op
  BY DEF Typing
<1>2. ops[k].kind \in {"pair", "delete", "insert"}
  BY <1>1 DEF Op
<1>3. /\ ops[k].kind # "insert" => ops[k].bi \in 1..n /\ before[ops[k].bi] \in Elems
      /\ ops[k].kind # "delete" => ops[k].ai \in 1..m /\ after[ops[k].ai] \in Elems
  BY ElementTypes DEF OpsInv
<1>4. CASE ops[k].kind = "pair"
  <2>1. ChangesOf(ops[k]) = PairAt(ops[k].ai, before[ops[k].bi], after[ops[k].ai])
    BY <1>4 DEF ChangesOf
  <2>2. Elements(ChangesOf(ops[k])) =
            IF before[ops[k].bi] = after[ops[k].ai] THEN {}
            ELSE {ChangeAt(ops[k].ai, before[ops[k].bi], after[ops[k].ai])}
    <3>1. CASE before[ops[k].bi] = after[ops[k].ai]
      BY <2>1, <3>1, ElementsOfPair
    <3>2. CASE before[ops[k].bi] # after[ops[k].ai]
      BY <2>1, <3>2, ElementsOfPair
    <3> QED
      BY <3>1, <3>2
  <2> QED
    BY <1>3, <1>4, <2>2
<1>5. CASE ops[k].kind = "delete"
  <2>1. ChangesOf(ops[k]) = At(ops[k].bi, before[ops[k].bi], NoElem)
    BY <1>5 DEF ChangesOf
  <2> QED
    BY <1>3, <1>5, <2>1, ElementsOfAt
<1>6. CASE ops[k].kind = "insert"
  <2>1. ChangesOf(ops[k]) = At(ops[k].ai, NoElem, after[ops[k].ai])
    BY <1>6 DEF ChangesOf
  <2> QED
    BY <1>3, <1>6, <2>1, ElementsOfAt
<1> QED
  BY <1>2, <1>4, <1>5, <1>6

\* When all operations are told, the copy that the walk has collected is a replay.
LEMMA OpsReplay ==
    ASSUME Typing, OpsInv, Changes = ToldOf(ops, 0), Matching((1..n) \ Deleted, (1..m) \ Inserted)
    PROVE  Replays
<1>1. Len(ops) \in Nat
  BY DEF Typing
<1>2. \A c : c \in Changes <=> \E k \in 1..Len(ops) : c \in Elements(ChangesOf(ops[k]))
  BY DEF ToldOf
<1>3. ASSUME NEW k \in 1..Len(ops), NEW c \in Elements(ChangesOf(ops[k]))
      PROVE  /\ c.to = NoElem <=> ops[k].kind = "delete"
             /\ c.from = NoElem <=> ops[k].kind = "insert"
             /\ ops[k].kind = "delete" =>
                   c.field = ops[k].bi /\ c.field \in 1..n /\ before[c.field] = c.from
             /\ ops[k].kind # "delete" =>
                   c.field = ops[k].ai /\ c.field \in 1..m /\ after[c.field] = c.to
  <2>1. CASE ops[k].kind = "pair"
    <3>1. c = ChangeAt(ops[k].ai, before[ops[k].bi], after[ops[k].ai])
      BY <1>3, <2>1, ToldOfOp
    <3>2. ops[k].ai \in 1..m /\ before[ops[k].bi] \in Elems /\ after[ops[k].ai] \in Elems
      BY <2>1, ToldOfOp
    <3> QED
      BY <2>1, <3>1, <3>2, ElemAssumption DEF ChangeAt
  <2>2. CASE ops[k].kind = "delete"
    <3>1. c = ChangeAt(ops[k].bi, before[ops[k].bi], NoElem)
      BY <1>3, <2>2, ToldOfOp
    <3>2. ops[k].bi \in 1..n /\ before[ops[k].bi] \in Elems
      BY <2>2, ToldOfOp
    <3> QED
      BY <2>2, <3>1, <3>2, ElemAssumption DEF ChangeAt
  <2>3. CASE ops[k].kind = "insert"
    <3>1. c = ChangeAt(ops[k].ai, NoElem, after[ops[k].ai])
      BY <1>3, <2>3, ToldOfOp
    <3>2. ops[k].ai \in 1..m /\ after[ops[k].ai] \in Elems
      BY <2>3, ToldOfOp
    <3> QED
      BY <2>3, <3>1, <3>2, ElemAssumption DEF ChangeAt
  <2> QED
    BY <2>1, <2>2, <2>3, ToldOfOp
<1>4. \A x \in Deleted : ChangeAt(x, before[x], NoElem) \in Changes
  BY <1>2, ToldOfOp DEF Deleted
<1>5. \A x \in Inserted : ChangeAt(x, NoElem, after[x]) \in Changes
  BY <1>2, ToldOfOp DEF Inserted
<1>6. Gone = Deleted
  <2>1. ASSUME NEW c \in Changes, c.to = NoElem PROVE c.field \in Deleted
    BY <1>2, <1>3, <2>1 DEF Deleted
  <2>2. ASSUME NEW x \in Deleted PROVE \E c \in Changes : c.to = NoElem /\ c.field = x
    BY <1>4 DEF ChangeAt
  <2> QED
    BY <2>1, <2>2 DEF Gone
<1>7. New = Inserted
  <2>1. ASSUME NEW c \in Changes, c.from = NoElem PROVE c.field \in Inserted
    BY <1>2, <1>3, <2>1 DEF Inserted
  <2>2. ASSUME NEW x \in Inserted PROVE \E c \in Changes : c.from = NoElem /\ c.field = x
    BY <1>5 DEF ChangeAt
  <2> QED
    BY <2>1, <2>2 DEF New
<1>8. PICK f \in [Kept -> Room] :
          /\ Copies(f, Kept, Room)
          /\ \A x \in Kept : before[x] = after[f[x]] \/ PairedBy(ops, x, f[x])
  BY <1>6, <1>7 DEF Matching, Kept, Room
<1>9. ASSUME NEW x, NEW y, PairedBy(ops, x, y) PROVE Continues(x, y)
  <2>1. PICK k \in 1..Len(ops) : ops[k].kind = "pair" /\ ops[k].bi = x /\ ops[k].ai = y
    BY <1>9 DEF PairedBy
  <2>2. CASE before[x] # after[y]
    <3>1. ChangeAt(y, before[x], after[y]) \in Changes
      BY <1>2, <2>1, <2>2, ToldOfOp
    <3> QED
      BY <3>1 DEF Continues, ChangeAt
  <2> QED
    BY <2>2 DEF Continues
<1>10. \A x \in Kept : Continues(x, f[x])
  BY <1>8, <1>9 DEF Continues
<1>11. \A c \in Changes :
         /\ c.to = NoElem => c.field \in 1..n /\ before[c.field] = c.from
         /\ c.to # NoElem => c.field \in 1..m /\ after[c.field] = c.to
  BY <1>2, <1>3
<1> QED
  BY <1>8, <1>10, <1>11, CopyReplays

\* Position by position, each element is its own copy.
LEMMA PositionsReplay ==
    ASSUME Typing, NEW k \in Nat, n <= k, m <= k, k <= Larger(n, m), Changes = WrittenTo(k)
    PROVE  Replays
<1>1. n \in Nat /\ m \in Nat
  BY Sizes
<1>2. \A c : c \in Changes <=> \E l \in 1..k : c \in Elements(WrittenAt(l))
  BY DEF WrittenTo
<1>3. ASSUME NEW l \in 1..k
      PROVE  /\ l <= n /\ l <= m => /\ before[l] \in Elems /\ after[l] \in Elems
                                    /\ Elements(WrittenAt(l)) =
                                         IF before[l] = after[l] THEN {}
                                         ELSE {ChangeAt(l, before[l], after[l])}
             /\ l <= n /\ l > m => /\ before[l] \in Elems
                                   /\ Elements(WrittenAt(l)) = {ChangeAt(l, before[l], NoElem)}
             /\ l > n => /\ l <= m /\ after[l] \in Elems
                         /\ Elements(WrittenAt(l)) = {ChangeAt(l, NoElem, after[l])}
  <2>1. l \in Nat /\ l > 0 /\ (l <= n \/ l <= m)
    BY <1>1 DEF Larger
  <2>2. (l <= n => before[l] \in Elems) /\ (l <= m => after[l] \in Elems)
    BY <1>1, <2>1, ElementTypes
  <2>3. CASE l <= n /\ l <= m
    BY <1>1, <2>1, <2>2, <2>3, ElementsOfPair DEF WrittenAt
  <2>4. CASE l <= n /\ ~(l <= m)
    BY <1>1, <2>1, <2>2, <2>4, ElementsOfAt DEF WrittenAt
  <2>5. CASE ~(l <= n)
    BY <1>1, <2>1, <2>2, <2>5, ElementsOfAt DEF WrittenAt
  <2> QED
    BY <1>1, <2>1, <2>3, <2>4, <2>5
<1>4. ASSUME NEW c \in Changes
      PROVE  /\ c.to = NoElem <=> c.field \in 1..n /\ c.field > m
             /\ c.from = NoElem <=> c.field \in 1..m /\ c.field > n
             /\ c.to = NoElem => c.field \in 1..n /\ before[c.field] = c.from
             /\ c.to # NoElem => c.field \in 1..m /\ after[c.field] = c.to
  <2>1. PICK l \in 1..k : c \in Elements(WrittenAt(l))
    BY <1>2
  <2>2. CASE l <= n /\ l <= m
    <3>1. c = ChangeAt(l, before[l], after[l]) /\ before[l] \in Elems /\ after[l] \in Elems
      BY <1>3, <2>1, <2>2
    <3>2. c.field = l /\ c.to # NoElem /\ c.from # NoElem /\ after[l] = c.to
      BY <3>1, ElemAssumption DEF ChangeAt
    <3> QED
      BY <1>1, <2>2, <3>2
  <2>3. CASE l <= n /\ l > m
    <3>1. c = ChangeAt(l, before[l], NoElem) /\ before[l] \in Elems
      BY <1>3, <2>1, <2>3
    <3>2. c.field = l /\ c.to = NoElem /\ c.from # NoElem /\ before[l] = c.from
      BY <3>1, ElemAssumption DEF ChangeAt
    <3> QED
      BY <1>1, <2>3, <3>2
  <2>4. CASE l > n
    <3>1. c = ChangeAt(l, NoElem, after[l]) /\ after[l] \in Elems /\ l <= m
      BY <1>3, <2>1, <2>4
    <3>2. c.field = l /\ c.to # NoElem /\ c.from = NoElem /\ after[l] = c.to
      BY <3>1, ElemAssumption DEF ChangeAt
    <3> QED
      BY <1>1, <2>4, <3>1, <3>2
  <2> QED
    BY <1>1, <2>2, <2>3, <2>4
<1>5. ASSUME NEW l \in 1..k, l <= n, l > m PROVE l \in Gone
  <2>1. ChangeAt(l, before[l], NoElem) \in Changes
    BY <1>2, <1>3, <1>5
  <2> QED
    BY <2>1 DEF Gone, ChangeAt
<1>6. ASSUME NEW l \in 1..k, l > n PROVE l \in New
  <2>1. ChangeAt(l, NoElem, after[l]) \in Changes
    BY <1>2, <1>3, <1>6
  <2> QED
    BY <2>1 DEF New, ChangeAt
<1>7. Kept = {l \in 1..k : l <= n /\ l <= m} /\ Room = Kept
  <2>1. \A x \in Gone : x > m
    BY <1>4 DEF Gone
  <2>2. \A x \in New : x > n
    BY <1>4 DEF New
  <2>3. ASSUME NEW l PROVE l \in Kept <=> l \in 1..k /\ l <= n /\ l <= m
    BY <1>1, <1>5, <2>1 DEF Kept
  <2>4. ASSUME NEW l PROVE l \in Room <=> l \in 1..k /\ l <= n /\ l <= m
    BY <1>1, <1>6, <2>2 DEF Room
  <2> QED
    BY <2>3, <2>4
<1> DEFINE f == [x \in Kept |-> x]
<1>8. Copies(f, Kept, Room)
  BY <1>7 DEF Copies
<1>9. ASSUME NEW x \in Kept PROVE Continues(x, f[x])
  <2>1. x \in 1..k /\ x <= n /\ x <= m /\ f[x] = x
    BY <1>7
  <2>2. CASE before[x] # after[x]
    <3>1. ChangeAt(x, before[x], after[x]) \in Changes
      BY <1>2, <1>3, <2>1, <2>2
    <3> QED
      BY <2>1, <3>1 DEF Continues, ChangeAt
  <2> HIDE DEF f
  <2> QED
    BY <2>1, <2>2 DEF Continues
<1> HIDE DEF f
<1> QED
  BY <1>4, <1>8, <1>9, CopyReplays

\* What is collected is a copy, and what is written tells it.
ReplayInv ==
    /\ stage = "walk" => Matching(OldPassed, NewPassed)
    /\ stage = "emit" =>
         Matching((1..n) \ Deleted, (1..m) \ Inserted) /\ Changes = ToldOf(ops, i)
    /\ stage = "position" => Changes = WrittenTo(i - 1) /\ i - 1 <= Larger(n, m)
    /\ ChangesReplay

LEMMA NothingWritten == out = << >> => Changes = {}
BY DEF Changes

LEMMA ReplayInit == Init => ReplayInv
<1> SUFFICES ASSUME Init PROVE ReplayInv
  OBVIOUS
<1>1. stage \in {"position", "fill"} /\ i = 1 /\ out = << >>
  BY DEF Init
<1>2. n \in Nat /\ m \in Nat
  BY SliceLength DEF Init, n, m
<1>3. WrittenTo(i - 1) = {}
  BY <1>1 DEF WrittenTo
<1>4. i - 1 <= Larger(n, m)
  BY <1>1, <1>2 DEF Larger
<1>5. ChangesReplay
  BY <1>1 DEF ChangesReplay
<1> QED
  BY <1>1, <1>3, <1>4, <1>5, NothingWritten DEF ReplayInv

LEMMA KeepsReplay == Replays /\ UNCHANGED <<before, after, out>> => Replays'
<1> SUFFICES ASSUME Replays, UNCHANGED <<before, after, out>> PROVE Replays'
  OBVIOUS
<1>1. n' = n /\ m' = m /\ Changes' = Changes
  BY DEF n, m, Changes
<1>2. Kept' = Kept /\ Room' = Room
  BY <1>1 DEF Kept, Room, Gone, New
<1>3. \A x, y : Continues(x, y)' = Continues(x, y)
  BY <1>1 DEF Continues
<1> QED
  BY <1>1, <1>2, <1>3 DEF Replays, Rank

\* A position tells nothing, or one change.
LEMMA WrittenIsChange ==
    ASSUME Typing, NEW k \in Nat, k > 0, k <= n \/ k <= m
    PROVE  WrittenAt(k) = << >> \/ \E c \in Change : WrittenAt(k) = <<c>>
<1>1. n \in 0..MaxLen /\ m \in 0..MaxLen /\ MaxLen \in Nat /\ k \in 1..MaxLen
  BY Sizes, LenAssumption
<1>2. (k <= n => before[k] \in Elems) /\ (k <= m => after[k] \in Elems)
  BY <1>1, ElementTypes
<1>3. CASE k <= n /\ k <= m
  BY <1>1, <1>2, <1>3, AtType DEF WrittenAt, PairAt
<1>4. CASE k <= n /\ ~(k <= m)
  BY <1>1, <1>2, <1>4, AtType DEF WrittenAt
<1>5. CASE ~(k <= n)
  BY <1>1, <1>2, <1>5, AtType DEF WrittenAt
<1> QED
  BY <1>3, <1>4, <1>5

LEMMA ReplayNext == IInv /\ ReplayInv /\ [Next]_vars => ReplayInv'
<1> SUFFICES ASSUME IInv, ReplayInv, [Next]_vars PROVE ReplayInv'
  OBVIOUS
<1>1. n \in Nat /\ m \in Nat /\ ops \in Seq(Op) /\ out \in Seq(Change) /\ Typing /\ OpsInv
      /\ Len(ops) \in Nat
  BY Sizes DEF IInv, WalkInv, Typing, OutInv
<1>2. CASE FillCell \/ FillNextRow
  <2>1. stage' = "fill"
    BY <1>2 DEF FillCell, FillNextRow
  <2> QED
    BY <2>1 DEF ReplayInv, ChangesReplay
<1>3. CASE FillDone
  <2>1. stage' = "walk" /\ i' = n /\ j' = m /\ n' = n /\ m' = m
    BY <1>3 DEF FillDone, n, m
  <2>2. OldPassed' = {} /\ NewPassed' = {}
    BY <1>1, <2>1 DEF OldPassed, NewPassed
  <2>3. Matching(OldPassed, NewPassed)'
    <3> DEFINE f == [x \in {} |-> 0]
    <3>1. f \in [{} -> {}] /\ Copies(f, {}, {})
      BY DEF Copies
    <3> HIDE DEF f
    <3> QED
      BY <2>2, <3>1 DEF Matching
  <2> QED
    BY <2>1, <2>3 DEF ReplayInv, ChangesReplay
<1>4. CASE WalkKeep \/ WalkReplace \/ WalkDelete \/ WalkInsert
  <2>1. stage = "walk" /\ stage' = "walk"
    BY <1>4 DEF WalkKeep, WalkReplace, WalkDelete, WalkInsert
  <2>2. Matching(OldPassed, NewPassed)'
    BY <1>4, <2>1, WalkMatches DEF ReplayInv
  <2> QED
    BY <2>1, <2>2 DEF ReplayInv, ChangesReplay
<1>5. CASE WalkDone
  <2>1. /\ stage = "walk" /\ i = 0 /\ j = 0 /\ stage' = "emit" /\ i' = Len(ops)
        /\ UNCHANGED <<before, after, ops, out>>
    BY <1>5 DEF WalkDone
  <2>2. Matching((1..n) \ Deleted, (1..m) \ Inserted)
    BY <2>1 DEF ReplayInv, OldPassed, NewPassed
  <2>3. Matching((1..n) \ Deleted, (1..m) \ Inserted)'
    BY <2>1, <2>2 DEF Matching, Deleted, Inserted, n, m
  <2>4. Changes' = {}
    BY <2>1 DEF IInv, OutInv, Changes
  <2>5. ToldOf(ops, i)' = {}
    BY <1>1, <2>1 DEF ToldOf
  <2> QED
    BY <2>1, <2>3, <2>4, <2>5 DEF ReplayInv, ChangesReplay
<1>6. CASE Emit
  <2>1. /\ stage = "emit" /\ stage' = "emit" /\ i \in 1..Len(ops) /\ i' = i - 1
        /\ out' = out \o ChangesOf(ops[i])
        /\ UNCHANGED <<before, after, ops>>
    BY <1>1, <1>6 DEF Emit, IInv, WalkInv, LoopInv
  <2>2. Matching((1..n) \ Deleted, (1..m) \ Inserted)'
    BY <2>1 DEF ReplayInv, Matching, Deleted, Inserted, n, m
  <2>3. ChangesOf(ops[i]) = << >> \/ \E c \in Change : ChangesOf(ops[i]) = <<c>>
    BY <1>1, <2>1, ChangesOfOp
  <2>4. Changes' = Changes \cup Elements(ChangesOf(ops[i]))
    BY <1>1, <2>1, <2>3, ChangesGrow
  <2>5. (i' + 1)..Len(ops) = {i} \cup ((i + 1)..Len(ops))
    BY <1>1, <2>1
  <2>6. ToldOf(ops, i)' = UNION {Elements(ChangesOf(ops[l])) : l \in (i' + 1)..Len(ops)}
    BY <2>1 DEF ToldOf, ChangesOf
  <2>7. ToldOf(ops, i)' = ToldOf(ops, i) \cup Elements(ChangesOf(ops[i]))
    BY <2>5, <2>6 DEF ToldOf
  <2> QED
    BY <2>1, <2>2, <2>4, <2>7 DEF ReplayInv, ChangesReplay
<1>7. CASE EmitDone
  <2>1. /\ stage = "emit" /\ stage' = "done" /\ i = 0
        /\ UNCHANGED <<before, after, out>>
    BY <1>7 DEF EmitDone
  <2>2. Replays
    BY <1>1, <2>1, OpsReplay DEF ReplayInv
  <2>3. Replays'
    BY <2>1, <2>2, KeepsReplay
  <2> QED
    BY <2>1, <2>3 DEF ReplayInv, ChangesReplay, Replays
<1>8. CASE Positional
  <2>1. /\ stage = "position" /\ stage' = "position" /\ i' = i + 1 /\ i \in Nat /\ i > 0
        /\ i <= n \/ i <= m
        /\ out' = out \o WrittenAt(i)
        /\ UNCHANGED <<before, after>>
    BY <1>8, LenAssumption DEF Positional, WrittenAt, IInv, WalkInv, Typing, LoopInv
  <2>2. WrittenAt(i) = << >> \/ \E c \in Change : WrittenAt(i) = <<c>>
    BY <1>1, <2>1, WrittenIsChange
  <2>3. Changes' = Changes \cup Elements(WrittenAt(i))
    BY <1>1, <2>1, <2>2, ChangesGrow
  <2>4. n' = n /\ m' = m
    BY <2>1 DEF n, m
  <2>5. \A l : WrittenAt(l)' = WrittenAt(l)
    BY <2>1, <2>4 DEF WrittenAt
  <2>6. 1..(i' - 1) = (1..(i - 1)) \cup {i}
    BY <2>1
  <2>7. WrittenTo(i - 1)' = WrittenTo(i - 1) \cup Elements(WrittenAt(i))
    <3>1. WrittenTo(i - 1)' = UNION {Elements(WrittenAt(l)) : l \in 1..(i' - 1)}
      BY <2>5 DEF WrittenTo, Elements
    <3>2. WrittenTo(i - 1) = UNION {Elements(WrittenAt(l)) : l \in 1..(i - 1)}
      BY DEF WrittenTo
    <3> QED
      BY <2>6, <3>1, <3>2
  <2> QED
    BY <1>1, <2>1, <2>3, <2>4, <2>7 DEF ReplayInv, ChangesReplay, Larger
<1>9. CASE PositionalDone
  <2>1. /\ stage = "position" /\ stage' = "done" /\ i > n /\ i > m /\ i \in Nat /\ i > 0
        /\ UNCHANGED <<before, after, out>>
    BY <1>9, LenAssumption DEF PositionalDone, IInv, WalkInv, Typing, LoopInv
  <2>2. i - 1 \in Nat /\ n <= i - 1 /\ m <= i - 1
    BY <1>1, <2>1
  <2>3. Replays
    BY <1>1, <2>1, <2>2, PositionsReplay DEF ReplayInv
  <2>4. Replays'
    BY <2>1, <2>3, KeepsReplay
  <2> QED
    BY <2>1, <2>4 DEF ReplayInv, ChangesReplay, Replays
<1>10. CASE UNCHANGED vars
  <2>1. UNCHANGED <<before, after, stage, i, j, ops, out>> /\ n' = n /\ m' = m
    BY <1>10 DEF vars, n, m
  <2>2. Deleted' = Deleted /\ Inserted' = Inserted /\ Changes' = Changes
    BY <2>1 DEF Deleted, Inserted, Changes
  <2>3. ToldOf(ops, i)' = ToldOf(ops, i) /\ WrittenTo(i - 1)' = WrittenTo(i - 1)
    BY <2>1 DEF ToldOf, WrittenTo, Elements, ChangesOf, WrittenAt
  <2>4. stage = "done" => Replays'
    BY <2>1, KeepsReplay DEF ReplayInv, ChangesReplay, Replays
  <2>5. ChangesReplay'
    BY <2>1, <2>4 DEF ChangesReplay, Replays
  <2>6. stage = "walk" => Matching(OldPassed, NewPassed)'
    BY <2>1, <2>2 DEF ReplayInv, Matching, OldPassed, NewPassed
  <2>7. stage = "emit" => Matching((1..n) \ Deleted, (1..m) \ Inserted)'
    BY <2>1, <2>2 DEF ReplayInv, Matching
  <2> QED
    BY <2>1, <2>2, <2>3, <2>5, <2>6, <2>7 DEF ReplayInv, Larger
<1> QED
  BY <1>2, <1>3, <1>4, <1>5, <1>6, <1>7, <1>8, <1>9, <1>10 DEF Next

\* ChangesReplay: whatever the slices, and on either way of comparing them, the changes
\* turn the old slice into the new one.
THEOREM ChangesAlwaysReplay == Spec => []ChangesReplay
<1>1. Spec => []ReplayInv
  BY ReplayInit, ReplayNext, Invariance, PTL DEF Spec
<1>2. ReplayInv => ChangesReplay
  BY DEF ReplayInv
<1> QED
  BY <1>1, <1>2, PTL
=============================================================================
